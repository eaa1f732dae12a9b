----------------------------- MODULE ImageData -----------------------------
(***************************************************************************)
(* The pixels of an image: where they lie in the raw data of a buffer, and *)
(* how a line is converted into colours (image.cc).  A byte is named by    *)
(* its address in the raw data.  A pixel of a file is the sequence of the  *)
(* bytes that it is computed from, a colour of a Bayer pixel the sequence  *)
(* of the bytes that are averaged.                                         *)
(***************************************************************************)
EXTENDS Naturals, Sequences

Bayer == {"RG", "BG", "GR", "GB"}
Groups == {"YCbCr411", "YCbCr422"}              \* four pixels share their colours
Packed == {"Mono8", "Mono16"} \cup Groups       \* stored as they are
Formats == Bayer \cup Packed \cup {"RGB8"}

\* Bytes from one line to the next; px is the padding of a line.
Step(img) ==
  img.px + (CASE img.format = "Mono16" -> 2 * img.width
              [] img.format = "YCbCr411" -> (img.width \div 4) * 6
              [] img.format = "YCbCr422" -> (img.width \div 4) * 8
              [] img.format = "RGB8" -> 3 * img.width
              [] OTHER -> img.width)

(***************************************************************************)
(* convYCbCr411toQuadRGB() and convYCbCr422toQuadRGB(): four pixels share  *)
(* six or eight bytes.  i counts the pixels of a line from 0; the bytes    *)
(* are those of luminance and of the two colours.                          *)
(***************************************************************************)
Quad411(p, i) ==
  LET j == p + (i \div 4) * 6
      Y == <<j, j + 1, j + 3, j + 4>>
  IN  <<Y[(i % 4) + 1], j + 2, j + 5>>

Quad422(p, i) ==
  LET j == p + (i \div 4) * 8
      k == IF i % 4 < 2 THEN 0 ELSE 4
  IN  <<j + k + 2 * (i % 2), j + k + 1, j + k + 3>>

\* The pixels that are written for a line: whole groups of four, also if the width
\* is no multiple of four; their lines in the buffer (Step) hold the lesser number.
Written(img) ==
  IF img.format \in Groups THEN 4 * ((img.width + 3) \div 4) ELSE img.width

\* The pixels of the line at address p, for all formats without Bayer pattern.
Line(img, p) ==
  [i \in 1..Written(img) |->
     CASE img.format = "Mono16" /\ img.big ->
            <<p + 2 * (i - 1), p + 2 * (i - 1) + 1>>
       [] img.format = "Mono16" /\ ~img.big ->
            <<p + 2 * (i - 1) + 1, p + 2 * (i - 1)>>
       [] img.format = "YCbCr411" -> Quad411(p, i - 1)
       [] img.format = "YCbCr422" -> Quad422(p, i - 1)
       [] img.format = "RGB8" -> [c \in 1..3 |-> p + 3 * (i - 1) + c - 1]
       [] OTHER -> <<p + i - 1>>]

(***************************************************************************)
(* Bayer patterns.  convertImage() keeps three lines, each extended by one *)
(* pixel to the left and to the right; a line is named by its address, and *)
(* Cell() says what the extended line holds in its cells 0 .. width + 1.   *)
(***************************************************************************)
Cell(img, p, c) ==
  CASE c = 0 -> p + 1
    [] c = img.width + 1 -> p + img.width - 2
    [] OTHER -> p + c - 1

\* Averages of bytes around cell i of the middle line.
Beside(img, rows, i) == <<Cell(img, rows[2], i - 1), Cell(img, rows[2], i + 1)>>
Above(img, rows, i) == <<Cell(img, rows[1], i), Cell(img, rows[3], i)>>
Cross(img, rows, i) == Above(img, rows, i) \o Beside(img, rows, i)
Corners(img, rows, i) ==
  <<Cell(img, rows[1], i - 1), Cell(img, rows[1], i + 1),
    Cell(img, rows[3], i - 1), Cell(img, rows[3], i + 1)>>
Self(img, rows, i) == <<Cell(img, rows[2], i)>>

\* convertBayerGR() if red, else convertBayerGB().
BayerLine(img, rows, greenfirst, red) ==
  [i \in 1..img.width |->
     LET green == (i % 2 = 1) = greenfirst
         own == IF green THEN Beside(img, rows, i) ELSE Self(img, rows, i)
         other == IF green THEN Above(img, rows, i) ELSE Corners(img, rows, i)
         g == IF green THEN Self(img, rows, i) ELSE Cross(img, rows, i)
     IN  IF red THEN <<own, g, other>> ELSE <<other, g, own>>]
=============================================================================
