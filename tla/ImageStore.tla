----------------------------- MODULE ImageStore -----------------------------
(***************************************************************************)
(* Storing a section of an image as PNM or PNG file, or disparities as PFM *)
(* file (image_store.cc), with the conversion of colour images line by     *)
(* line (convertImage() of image.cc).                                      *)
(*                                                                         *)
(* Files of the same name exist already, from earlier calls and from other *)
(* programs.  The disk may run full while a file is written: a stream of   *)
(* C++ is not good any more then, and libpng jumps back to setjmp().       *)
(***************************************************************************)
EXTENDS ImageData, FiniteSetsExt

CONSTANTS
  Images,     \* images that are stored
  Numbers,    \* numbers that are tried for a new name; 99 in the code
  MaxCalls    \* bound on the files that are stored

ASSUME NumbersAreCounted == Numbers \in Nat /\ MaxCalls \in Nat

ASSUME ImagesHaveSizes ==
  \A img \in Images :
    /\ img.width \in Nat \ {0} /\ img.height \in Nat \ {0} /\ img.px \in Nat
    /\ img.big \in BOOLEAN
    /\ img.format \in Bayer => img.width >= 2     \* a line has both its colours

VARIABLES
  files,   \* who has written the file of each name: 0, a call, or Nobody
  call,    \* the call that is served: image, kind, section, and the local
           \* variables of the loops; or how it has ended
  calls    \* calls so far

storeVars == <<files, call, calls>>

Nobody == MaxCalls + 1

\* Names: 0 is the wanted one, n the one with "_n", Bare the one without suffix.
Bare == Numbers + 1
FileNames == 0..Bare

Idle == [phase |-> "idle"]
Thrown == [phase |-> "thrown"]         \* with an exception, which ends the tool
Undefined == [phase |-> "undefined"]   \* memory has been overwritten

StoreInit ==
  /\ files \in [FileNames -> {0, Nobody}]
  /\ call = Idle
  /\ calls = 0

(***************************************************************************)
(* The section that is stored.                                             *)
(***************************************************************************)
Lower(a, b) == IF a < b THEN a ELSE b

Section(img, yoffset, height) ==
  LET wanted == IF height = 0 THEN img.height ELSE height
      y == Lower(yoffset, img.height)
  IN  [y |-> y, h |-> Lower(wanted, img.height - y)]

(***************************************************************************)
(* storeImagePNM() and storeImagePNG() are called.  Images of the formats  *)
(* Packed are written directly; all others go through convertImage(),      *)
(* which prepares lines 1 and 0 if there is a Bayer pattern.  A call with  *)
(* any other format throws before a file is opened.                        *)
(***************************************************************************)
StoreImage(img, kind, yoffset, height) ==
  LET sec == Section(img, yoffset, height)
      p == Step(img) * sec.y
  IN  /\ call.phase = "idle"
      /\ calls < MaxCalls
      /\ img.format \in Formats
      /\ calls' = calls + 1
      /\ call' = [phase |-> IF img.format \in Packed THEN "open" ELSE "convert",
                  img |-> img, kind |-> kind, sec |-> sec, p |-> p, k |-> 0,
                  rows |-> <<0, p + Step(img), p>>,
                  greenfirst |-> img.format \in {"GR", "GB"},
                  red |-> img.format \in {"RG", "GR"},
                  rgb |-> <<>>, out |-> <<>>, good |-> TRUE]
      /\ UNCHANGED files

\* convertImage(), one line of an image without Bayer pattern.
ConvertLine ==
  /\ call.phase = "convert"
  /\ call.img.format \notin Bayer
  /\ call.k < call.sec.h
  /\ call' = [call EXCEPT !.k = @ + 1, !.p = @ + Step(call.img),
                          !.rgb = Append(@, Line(call.img, call.p))]
  /\ UNCHANGED <<files, calls>>

(***************************************************************************)
(* One line of an image with Bayer pattern: as long as there is another    *)
(* line, the lines move up and the next one is loaded.                     *)
(***************************************************************************)
NextRows_NoRotation(c) ==
  IF c.k + 1 < c.sec.h
  THEN <<c.rows[1], c.rows[2], c.p + (c.k + 1) * Step(c.img)>>
  ELSE c.rows

NextRows(c) ==
  IF c.k + 1 < c.sec.h
  THEN <<c.rows[2], c.rows[3], c.p + (c.k + 1) * Step(c.img)>>
  ELSE c.rows

ConvertBayerLine ==
  /\ call.phase = "convert"
  /\ call.img.format \in Bayer
  /\ call.k < call.sec.h
  /\ LET rows == NextRows(call)
     IN  call' = [call EXCEPT
                    !.rows = rows, !.k = @ + 1,
                    !.greenfirst = ~@, !.red = ~@,
                    !.rgb = Append(@, BayerLine(call.img, rows, call.greenfirst,
                                                call.red))]
  /\ UNCHANGED <<files, calls>>

Converted ==
  /\ call.phase = "convert"
  /\ call.k = call.sec.h
  /\ call' = [call EXCEPT !.phase = "open", !.k = 0]
  /\ UNCHANGED <<files, calls>>

(***************************************************************************)
(* storeImageAsDisparityPFM(): the address starts behind the image and     *)
(* goes back by two lines before each line that is read.                   *)
(***************************************************************************)
StoreDisparity(img) ==
  /\ call.phase = "idle"
  /\ calls < MaxCalls
  /\ img.format = "Mono16"
  /\ calls' = calls + 1
  /\ call' = [phase |-> "open", img |-> img, kind |-> "pfm",
              sec |-> [y |-> 0, h |-> img.height],
              p |-> 2 * (img.width + img.px) * (img.height + 1), k |-> 0,
              rows |-> <<0, 0, 0>>, greenfirst |-> FALSE, red |-> FALSE,
              rgb |-> <<>>, out |-> <<>>, good |-> TRUE]
  /\ UNCHANGED files

(***************************************************************************)
(* ensureNewFileName() and the opening of the file.  If all numbers are    *)
(* taken, the name without suffix is used, whether it is taken or not.     *)
(***************************************************************************)
Free(n) == files[n] = Nobody

NewName ==
  LET free == {n \in 0..Numbers : Free(n)}
  IN  IF free = {} THEN Bare ELSE Min(free)

OpenFile ==
  /\ call.phase = "open"
  /\ files' = [files EXCEPT ![NewName] = calls]
  /\ call' = [call EXCEPT !.phase = "write"]
  /\ UNCHANGED calls

\* A PNM or PFM file that cannot be opened is not noticed: nothing is written.
\* A PNG file that cannot be opened gives an exception.
OpenFails ==
  /\ call.phase = "open"
  /\ call' = IF call.kind = "png" THEN Thrown
                                  ELSE [call EXCEPT !.phase = "write", !.good = FALSE]
  /\ UNCHANGED <<files, calls>>

(***************************************************************************)
(* The loops that write the lines.  Those of PNM and PFM end when the      *)
(* stream is not good any more.  A PNG file is written from a line buffer  *)
(* of the width of the image, which groups of four pixels overrun if the   *)
(* width is no multiple of four.                                           *)
(***************************************************************************)
WritePixels(c) == [line |-> Line(c.img, c.p), p |-> c.p + Step(c.img)]

\* The bytes of a disparity, and the padding that is skipped after each.
WriteDisparities(c) ==
  LET p == c.p - 4 * (c.img.width + c.img.px)
      Byte(i) == p + (i - 1) * (2 + c.img.px)
  IN  [line |-> [i \in 1..c.img.width |->
                   IF c.img.big THEN <<Byte(i), Byte(i) + 1>> ELSE <<Byte(i) + 1, Byte(i)>>],
       p |-> p + c.img.width * (2 + c.img.px)]

Overruns(c) ==
  c.kind = "png" /\ c.img.format \in Groups /\ Written(c.img) > c.img.width

OverrunLine ==
  /\ call.phase = "write"
  /\ call.k < call.sec.h
  /\ Overruns(call)
  /\ call' = Undefined
  /\ UNCHANGED <<files, calls>>

WriteLine ==
  /\ call.phase = "write"
  /\ call.k < call.sec.h
  /\ call.good
  /\ ~Overruns(call)
  /\ LET next == CASE call.kind = "pfm" -> WriteDisparities(call)
                   [] call.kind # "pfm" /\ call.img.format \in Packed -> WritePixels(call)
                   [] OTHER -> [line |-> call.rgb[call.k + 1], p |-> call.p]
     IN  call' = [call EXCEPT !.k = @ + 1, !.p = next.p,
                              !.out = Append(@, next.line)]
  /\ UNCHANGED <<files, calls>>

DiskFull ==
  /\ call.phase = "write"
  /\ call.kind # "png"
  /\ call.good
  /\ call' = [call EXCEPT !.good = FALSE]
  /\ UNCHANGED <<files, calls>>

(***************************************************************************)
(* After an error, libpng jumps to setjmp(), whose result is not looked    *)
(* at: header and lines are written anew, as often as there are errors.    *)
(* The local variable p has been changed since setjmp(), so that the lines *)
(* that are written now, and what libpng makes of them, are undefined;     *)
(* what remains is the number of lines.                                    *)
(***************************************************************************)
PngError ==
  /\ call.phase = "write" /\ call.kind = "png"
  /\ call' = [phase |-> "again", h |-> call.sec.h, k |-> 0]
  /\ UNCHANGED <<files, calls>>

PngErrorAgain ==
  /\ call.phase = "again"
  /\ call' = [call EXCEPT !.k = 0]
  /\ UNCHANGED <<files, calls>>

WriteLineAgain ==
  /\ call.phase = "again"
  /\ call.k < call.h
  /\ call' = [call EXCEPT !.k = @ + 1]
  /\ UNCHANGED <<files, calls>>

\* The name of the file is returned, whether all lines are written or not.
Return ==
  /\ \/ call.phase = "write" /\ (~call.good \/ call.k = call.sec.h)
     \/ call.phase = "again" /\ call.k = call.h
  /\ call' = Idle
  /\ UNCHANGED <<files, calls>>

StoreNext ==
  \/ \E img \in Images :
       \/ \E kind \in {"pnm", "png"}, y \in 0..(img.height + 1), h \in 0..img.height :
            StoreImage(img, kind, y, h)
       \/ StoreDisparity(img)
  \/ ConvertLine \/ ConvertBayerLine \/ Converted
  \/ OpenFile \/ OpenFails
  \/ WriteLine \/ OverrunLine \/ DiskFull
  \/ PngError \/ PngErrorAgain \/ WriteLineAgain
  \/ Return

-----------------------------------------------------------------------------
(***************************************************************************)
(* What a file has to hold, from the definition of the formats: the bytes  *)
(* of pixel x of line y of the image.                                      *)
(***************************************************************************)
At(img, y, x) == y * Step(img) + x

Plain(img, y, x) ==
  CASE img.format = "Mono16" ->
         IF img.big THEN <<At(img, y, 2 * x), At(img, y, 2 * x + 1)>>
                    ELSE <<At(img, y, 2 * x + 1), At(img, y, 2 * x)>>
    [] img.format = "YCbCr411" ->     \* Y Y Cb Y Y Cr
         LET first == At(img, y, 6 * (x \div 4))
         IN  <<first + (x % 4) + (IF x % 4 < 2 THEN 0 ELSE 1), first + 2, first + 5>>
    [] img.format = "YCbCr422" ->     \* Y Cb Y Cr
         <<At(img, y, 2 * x), At(img, y, 4 * (x \div 2) + 1), At(img, y, 4 * (x \div 2) + 3)>>
    [] img.format = "RGB8" ->
         <<At(img, y, 3 * x), At(img, y, 3 * x + 1), At(img, y, 3 * x + 2)>>
    [] OTHER -> <<At(img, y, x)>>

(***************************************************************************)
(* The colour of a pixel in a Bayer pattern, whose name lists the first    *)
(* two colours of the first line, and the nearest pixels of each colour,   *)
(* in a section that is mirrored at its border.  The three by three pixels *)
(* around one are named by line and column from 0 to 2.                    *)
(***************************************************************************)
ColourAt(img, y, x) ==
  LET even == y % 2 = 0
  IN  CASE img.format \in {"RG", "BG"} /\ (x % 2 = 0) # even -> "green"
        [] img.format \in {"GR", "GB"} /\ (x % 2 = 0) = even -> "green"
        [] OTHER -> IF even = (img.format \in {"RG", "GR"}) THEN "red" ELSE "blue"

Mirror(i, n) == IF i < 0 THEN 1 ELSE IF i = n THEN n - 2 ELSE i

RowAt(c, k, d) == c.sec.y + Mirror(k + d[1] - 1, c.sec.h)
ColumnAt(c, x, d) == Mirror(x + d[2] - 1, c.img.width)

Around == (0..2) \X (0..2)
Distance(d) == IF d = <<1, 1>> THEN 0 ELSE IF d[1] = 1 \/ d[2] = 1 THEN 1 ELSE 2
Closest(D) == {d \in D : \A e \in D : Distance(d) <= Distance(e)}

\* The orders in which the bytes around a pixel are averaged.
Kernels == {<< <<1, 1>> >>, << <<0, 1>>, <<2, 1>> >>, << <<1, 0>>, <<1, 2>> >>,
            << <<0, 1>>, <<2, 1>>, <<1, 0>>, <<1, 2>> >>,
            << <<0, 0>>, <<0, 2>>, <<2, 0>>, <<2, 2>> >>}

\* The bytes that give a colour of pixel (k, x) of the section.
Nearest(c, colour, k, x) ==
  LET there == {d \in Around :
                  ColourAt(c.img, RowAt(c, k, d), ColumnAt(c, x, d)) = colour}
      kernel == CHOOSE s \in Kernels : {s[j] : j \in 1..Len(s)} = Closest(there)
  IN  [j \in 1..Len(kernel) |-> At(c.img, RowAt(c, k, kernel[j]), ColumnAt(c, x, kernel[j]))]

\* Lines of a Bayer pattern that are converted with the right colours.  A section
\* that starts at an odd line is converted with the pattern of the first line,
\* and the last line with the neighbours of the line before.
BayerCovers(c, k) == c.sec.y % 2 = 0 /\ c.sec.h >= 2 /\ k < c.sec.h - 1

(***************************************************************************)
(* Every line in the file is the line of the section that belongs there:   *)
(* clipped to the image, without the padding, the bytes in the order that  *)
(* the file format asks for, a PFM file from bottom to top, and each       *)
(* colour of a Bayer pixel from the nearest pixels of that colour.         *)
(* Misplaced() are the lines of which that is not true (EveryLineStored,   *)
(* below, fails for them): the PFM file of a padded image, which skips the *)
(* padding of a line after each pixel; the last line of a Bayer section,   *)
(* all lines of a section of one line or of one that begins at an odd      *)
(* line; and the lines of four pixels with a common colour if the width is *)
(* no multiple of four.  Of a PNG file nothing is said once libpng has met *)
(* an error.                                                               *)
(***************************************************************************)
Expected(c, k) ==
  [i \in 1..c.img.width |->
     CASE c.kind = "pfm" -> Plain(c.img, c.sec.h - 1 - k, i - 1)
       [] c.kind # "pfm" /\ c.img.format \in Bayer ->
            <<Nearest(c, "red", k, i - 1), Nearest(c, "green", k, i - 1),
              Nearest(c, "blue", k, i - 1)>>
       [] OTHER -> Plain(c.img, c.sec.y + k, i - 1)]

Misplaced(c, k) ==
  \/ c.kind = "pfm" /\ c.img.px > 0
  \/ c.img.format \in Bayer /\ ~BayerCovers(c, k)
  \/ c.img.format \in Groups /\ Written(c.img) > c.img.width

SectionStored ==
  call.phase = "write" =>
    /\ call.sec.y + call.sec.h <= call.img.height
    /\ \A k \in 0..(call.k - 1) :
         Misplaced(call, k) \/ call.out[k + 1] = Expected(call, k)

-----------------------------------------------------------------------------
(***************************************************************************)
(* What the comments of the code say, and the code does not do.            *)
(***************************************************************************)
\* Each line that is written is the one that belongs there, of every section of
\* every image: "stores the given image", from the first row to be stored on.
EveryLineStored ==
  call.phase = "write" =>
    \A k \in 0..(call.k - 1) : call.out[k + 1] = Expected(call, k)

\* ensureNewFileName() "produces a new file name" if the wanted one exists: a file
\* is never written over.
NothingOverwritten ==
  [][\A m \in FileNames : files'[m] # files[m] => files[m] = Nobody]_storeVars

\* "An exception is thrown in case of an error": a call that returns has written all
\* lines of the section.
WholeOrException ==
  [][call.phase # "idle" /\ call'.phase = "idle" =>
       call.phase = "write" /\ call.good /\ call.k = call.sec.h]_storeVars
=============================================================================
