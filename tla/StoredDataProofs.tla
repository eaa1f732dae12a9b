-------------------------- MODULE StoredDataProofs --------------------------
(***************************************************************************)
(* Proofs about StoredData, for any images, any number of names that are   *)
(* tried and any number of calls, and disparity images of any size.        *)
(***************************************************************************)
EXTENDS StoredData, SequenceTheorems, FiniteSetTheorems, WellFoundedInduction, TLAPS

(***************************************************************************)
(* A set of natural numbers has a least element: the order of the numbers  *)
(* is well-founded, and a well-founded relation has minimal elements.      *)
(***************************************************************************)
LEMMA MinimalIsLeast ==
  ASSUME NEW R, IsWellFoundedOn(R, Nat),
         \A x \in Nat, y \in Nat : y < x => <<y, x>> \in R,
         NEW T, T \subseteq Nat, T # {}
  PROVE  \E x \in T : \A y \in T : x <= y
<1>1. PICK x \in T : \A y \in T : <<y, x>> \notin R
  BY WFMin, Zenon
<1>2. \A y \in T : ~(y < x)
  BY <1>1
<1>. QED
  BY <1>2

\* The order of the numbers, as a relation.
LEMMA SmallerIsRelated ==
  \A x \in Nat, y \in Nat : y < x => <<y, x>> \in OpToRel(<, Nat)
  BY Zenon DEF OpToRel

\* A set of numbers has a least one.
LEMMA LeastNumber ==
  ASSUME NEW T, T \subseteq Nat, T # {}
  PROVE  \E x \in T : \A y \in T : x <= y
  BY MinimalIsLeast, SmallerIsRelated, NatLessThanWellFounded, Zenon

-----------------------------------------------------------------------------
(* What a file holds: SectionStored. *)

(***************************************************************************)
(* A line with Bayer pattern.  The parity of a line and of a column says   *)
(* the colour, and mirroring keeps the parity.                             *)
(***************************************************************************)
Even(i) == i % 2 = 0

LEMMA MirrorKeepsParity ==
  ASSUME NEW m \in Nat \ {0}, NEW i \in (-1)..m
  PROVE  Mirror(i, m) \in Int /\ (Even(Mirror(i, m)) <=> Even(i))
  BY DEF Mirror, Even

\* The extended line, cell by cell.
LEMMA CellIsMirrored ==
  ASSUME NEW img \in Images, NEW p \in Int, NEW e \in 0..(img.width + 1)
  PROVE  Cell(img, p, e) = p + Mirror(e - 1, img.width)
<1>. DEFINE w == img.width
<1>1. w \in Nat \ {0}
  BY ImagesHaveSizes
<1>2. Cell(img, p, e) = IF e = 0 THEN p + 1 ELSE IF e = w + 1 THEN p + w - 2 ELSE p + e - 1
  BY <1>1 DEF Cell
<1>3. Mirror(e - 1, w) = IF e - 1 < 0 THEN 1 ELSE IF e - 1 = w THEN w - 2 ELSE e - 1
  BY DEF Mirror
<1>. HIDE DEF w
<1>. QED
  BY <1>1, <1>2, <1>3 DEF w

\* The colours in the pixels around one: own, of its line and of its column.
GreenAt(img, y, x) ==
  IF img.format \in {"GR", "GB"} THEN Even(y) <=> Even(x) ELSE ~(Even(y) <=> Even(x))
RedAt(img, y) == Even(y) <=> img.format \in {"RG", "GR"}

LEMMA ColourByParity ==
  ASSUME NEW img, img.format \in Bayer, NEW y \in Int, NEW x \in Int
  PROVE  /\ GreenAt(img, y, x) => ColourAt(img, y, x) = "green"
         /\ ~GreenAt(img, y, x) /\ RedAt(img, y) => ColourAt(img, y, x) = "red"
         /\ ~GreenAt(img, y, x) /\ ~RedAt(img, y) => ColourAt(img, y, x) = "blue"
<1>. DEFINE even == y % 2 = 0
            here == x % 2 = 0
            first == img.format \in {"RG", "GR"}
<1>1. ColourAt(img, y, x) =
        CASE img.format \in {"RG", "BG"} /\ here # even -> "green"
          [] img.format \in {"GR", "GB"} /\ here = even -> "green"
          [] OTHER -> IF even = first THEN "red" ELSE "blue"
  BY DEF ColourAt
<1>2. GreenAt(img, y, x) <=>
        (IF img.format \in {"GR", "GB"} THEN even <=> here ELSE ~(even <=> here))
  BY DEF GreenAt, Even
<1>3. RedAt(img, y) <=> (even <=> first)
  BY DEF RedAt, Even
<1>4. even \in BOOLEAN /\ here \in BOOLEAN /\ first \in BOOLEAN
  OBVIOUS
<1>5. img.format \in {"RG", "BG"} \/ img.format \in {"GR", "GB"}
  BY DEF Bayer
<1>6. ~(img.format \in {"RG", "BG"} /\ img.format \in {"GR", "GB"})
  OBVIOUS
<1>. HIDE DEF even, here, first
<1>. QED
  BY <1>1, <1>2, <1>3, <1>4, <1>5, <1>6

\* Parity around pixel (k, x) of a section that starts at an even line.
LEMMA ParityAround ==
  ASSUME NEW c, c.img \in Images, c.sec.y \in Nat, Even(c.sec.y), c.sec.h \in Nat,
         NEW k \in 0..(c.sec.h - 2), NEW x \in 0..(c.img.width - 1), NEW d \in Around
  PROVE  /\ RowAt(c, k, d) \in Int /\ ColumnAt(c, x, d) \in Int
         /\ Even(RowAt(c, k, d)) <=> (Even(k) <=> d[1] = 1)
         /\ Even(ColumnAt(c, x, d)) <=> (Even(x) <=> d[2] = 1)
<1>. DEFINE y == c.sec.y
            h == c.sec.h
            w == c.img.width
            i == k + d[1] - 1
            j == x + d[2] - 1
<1>1. w \in Nat \ {0} /\ h \in Nat \ {0} /\ y \in Nat /\ k \in Nat /\ x \in Nat
  BY ImagesHaveSizes
<1>2. d[1] \in 0..2 /\ d[2] \in 0..2
  BY DEF Around
<1>3. i \in (-1)..h /\ j \in (-1)..w
  BY <1>1, <1>2
<1>4. /\ Even(i) <=> (Even(k) <=> d[1] = 1)
      /\ Even(j) <=> (Even(x) <=> d[2] = 1)
  BY <1>1, <1>2 DEF Even
<1>5. RowAt(c, k, d) = y + Mirror(i, h) /\ ColumnAt(c, x, d) = Mirror(j, w)
  BY DEF RowAt, ColumnAt
<1>. HIDE DEF i, j, h, w
<1>6. /\ Mirror(i, h) \in Int /\ Mirror(j, w) \in Int
      /\ (Even(Mirror(i, h)) <=> Even(i)) /\ (Even(Mirror(j, w)) <=> Even(j))
  BY <1>1, <1>3, MirrorKeepsParity
<1>7. \A m \in Int : y + m \in Int /\ (Even(y + m) <=> Even(m))
  BY <1>1 DEF Even
<1>. HIDE DEF y
<1>. QED
  BY <1>4, <1>5, <1>6, <1>7

\* The pixels around one by colour.
Straight(d) == d[1] = 1 <=> d[2] = 1
Colours(c, k, x, colour) ==
  {d \in Around : ColourAt(c.img, RowAt(c, k, d), ColumnAt(c, x, d)) = colour}

LEMMA ColoursAround ==
  ASSUME NEW c, c.img \in Images, c.img.format \in Bayer,
         c.sec.y \in Nat, Even(c.sec.y), c.sec.h \in Nat,
         NEW k \in 0..(c.sec.h - 2), NEW x \in 0..(c.img.width - 1)
  PROVE  LET green == GreenAt(c.img, k, x)
             red == RedAt(c.img, k)
         IN  /\ Colours(c, k, x, "green") = {d \in Around : green <=> Straight(d)}
             /\ Colours(c, k, x, "red") =
                  {d \in Around : ~(green <=> Straight(d)) /\ (red <=> d[1] = 1)}
             /\ Colours(c, k, x, "blue") =
                  {d \in Around : ~(green <=> Straight(d)) /\ ~(red <=> d[1] = 1)}
<1>. DEFINE green == GreenAt(c.img, k, x)
            red == RedAt(c.img, k)
            C(d) == ColourAt(c.img, RowAt(c, k, d), ColumnAt(c, x, d))
<1>1. ASSUME NEW d \in Around
      PROVE  /\ (green <=> Straight(d)) => C(d) = "green"
             /\ ~(green <=> Straight(d)) /\ (red <=> d[1] = 1) => C(d) = "red"
             /\ ~(green <=> Straight(d)) /\ ~(red <=> d[1] = 1) => C(d) = "blue"
  <2>. DEFINE r == RowAt(c, k, d)
              z == ColumnAt(c, x, d)
  <2>1. /\ r \in Int /\ z \in Int
        /\ Even(r) <=> (Even(k) <=> d[1] = 1)
        /\ Even(z) <=> (Even(x) <=> d[2] = 1)
    BY ParityAround
  <2>. HIDE DEF r, z
  <2>2. GreenAt(c.img, r, z) <=> (green <=> Straight(d))
    BY <2>1, Zenon DEF GreenAt, Straight
  <2>3. RedAt(c.img, r) <=> (red <=> d[1] = 1)
    BY <2>1, Zenon DEF RedAt
  <2>4. /\ GreenAt(c.img, r, z) => ColourAt(c.img, r, z) = "green"
        /\ ~GreenAt(c.img, r, z) /\ RedAt(c.img, r) => ColourAt(c.img, r, z) = "red"
        /\ ~GreenAt(c.img, r, z) /\ ~RedAt(c.img, r) => ColourAt(c.img, r, z) = "blue"
    BY <2>1, ColourByParity
  <2>5. C(d) = ColourAt(c.img, r, z)
    BY DEF r, z
  <2>. HIDE DEF C, green, red
  <2>. QED
    BY <2>2, <2>3, <2>4, <2>5
<1>2. \A colour : Colours(c, k, x, colour) = {d \in Around : C(d) = colour}
  BY DEF Colours
<1>. HIDE DEF C, green, red
<1>3. \A d \in Around : \/ (green <=> Straight(d)) /\ C(d) = "green"
                        \/ ~(green <=> Straight(d)) /\ (red <=> d[1] = 1) /\ C(d) = "red"
                        \/ ~(green <=> Straight(d)) /\ ~(red <=> d[1] = 1) /\ C(d) = "blue"
  BY <1>1
<1>4. /\ {d \in Around : C(d) = "green"} = {d \in Around : green <=> Straight(d)}
      /\ {d \in Around : C(d) = "red"} =
           {d \in Around : ~(green <=> Straight(d)) /\ (red <=> d[1] = 1)}
      /\ {d \in Around : C(d) = "blue"} =
           {d \in Around : ~(green <=> Straight(d)) /\ ~(red <=> d[1] = 1)}
  BY <1>3
<1>. QED
  BY <1>2, <1>4 DEF green, red

\* The pixels of each pattern.
Centre  == << <<1, 1>> >>
Column  == << <<0, 1>>, <<2, 1>> >>
Row     == << <<1, 0>>, <<1, 2>> >>
Plus    == << <<0, 1>>, <<2, 1>>, <<1, 0>>, <<1, 2>> >>
Diagonal == << <<0, 0>>, <<0, 2>>, <<2, 0>>, <<2, 2>> >>
PixelsOf(s) == {s[j] : j \in 1..Len(s)}

LEMMA PixelsOfKernels ==
  /\ PixelsOf(Centre) = {<<1, 1>>}
  /\ PixelsOf(Column) = {<<0, 1>>, <<2, 1>>}
  /\ PixelsOf(Row) = {<<1, 0>>, <<1, 2>>}
  /\ PixelsOf(Plus) = {<<0, 1>>, <<2, 1>>, <<1, 0>>, <<1, 2>>}
  /\ PixelsOf(Diagonal) = {<<0, 0>>, <<0, 2>>, <<2, 0>>, <<2, 2>>}
<1>1. PixelsOf(Centre) = {<<1, 1>>}
  BY DEF PixelsOf, Centre
<1>2. PixelsOf(Column) = {<<0, 1>>, <<2, 1>>}
  BY DEF PixelsOf, Column
<1>3. PixelsOf(Row) = {<<1, 0>>, <<1, 2>>}
  BY DEF PixelsOf, Row
<1>4. PixelsOf(Plus) = {<<0, 1>>, <<2, 1>>, <<1, 0>>, <<1, 2>>}
  BY DEF PixelsOf, Plus
<1>5. PixelsOf(Diagonal) = {<<0, 0>>, <<0, 2>>, <<2, 0>>, <<2, 2>>}
  BY DEF PixelsOf, Diagonal
<1>. QED
  BY <1>1, <1>2, <1>3, <1>4, <1>5

LEMMA KernelFacts ==
  /\ Kernels = {Centre, Column, Row, Plus, Diagonal}
  /\ \A s, t \in Kernels : PixelsOf(s) = PixelsOf(t) => s = t
<1>1. Kernels = {Centre, Column, Row, Plus, Diagonal}
  BY DEF Kernels, Centre, Column, Row, Plus, Diagonal
<1>2. /\ PixelsOf(Centre) # PixelsOf(Column) /\ PixelsOf(Centre) # PixelsOf(Row)
      /\ PixelsOf(Centre) # PixelsOf(Plus) /\ PixelsOf(Centre) # PixelsOf(Diagonal)
      /\ PixelsOf(Column) # PixelsOf(Row) /\ PixelsOf(Column) # PixelsOf(Plus)
      /\ PixelsOf(Column) # PixelsOf(Diagonal) /\ PixelsOf(Row) # PixelsOf(Plus)
      /\ PixelsOf(Row) # PixelsOf(Diagonal) /\ PixelsOf(Plus) # PixelsOf(Diagonal)
  <2>1. /\ <<1, 1>> \in PixelsOf(Centre) /\ <<1, 1>> \notin PixelsOf(Column)
        /\ <<1, 1>> \notin PixelsOf(Row) /\ <<1, 1>> \notin PixelsOf(Plus)
        /\ <<1, 1>> \notin PixelsOf(Diagonal)
    BY PixelsOfKernels
  <2>2. /\ <<0, 1>> \in PixelsOf(Column) /\ <<0, 1>> \notin PixelsOf(Row)
        /\ <<0, 1>> \in PixelsOf(Plus) /\ <<0, 1>> \notin PixelsOf(Diagonal)
    BY PixelsOfKernels
  <2>3. /\ <<1, 0>> \in PixelsOf(Row) /\ <<1, 0>> \notin PixelsOf(Column)
        /\ <<1, 0>> \in PixelsOf(Plus) /\ <<1, 0>> \notin PixelsOf(Diagonal)
    BY PixelsOfKernels
  <2>. QED
    BY <2>1, <2>2, <2>3, Zenon
<1>. QED
  BY <1>1, <1>2

LEMMA ClosestPixels ==
  /\ Closest({d \in Around : Straight(d)}) = PixelsOf(Centre)
  /\ Closest({d \in Around : ~Straight(d)}) = PixelsOf(Plus)
  /\ Closest({d \in Around : ~Straight(d) /\ d[1] = 1}) = PixelsOf(Row)
  /\ Closest({d \in Around : ~Straight(d) /\ d[1] # 1}) = PixelsOf(Column)
  /\ Closest({d \in Around : Straight(d) /\ d[1] = 1}) = PixelsOf(Centre)
  /\ Closest({d \in Around : Straight(d) /\ d[1] # 1}) = PixelsOf(Diagonal)
<1>1. {d \in Around : Straight(d)} = PixelsOf(Centre) \cup PixelsOf(Diagonal)
  BY PixelsOfKernels DEF Around, Straight
<1>2. {d \in Around : ~Straight(d)} = PixelsOf(Plus)
  BY PixelsOfKernels DEF Around, Straight
<1>3. {d \in Around : ~Straight(d) /\ d[1] = 1} = PixelsOf(Row)
  BY PixelsOfKernels DEF Around, Straight
<1>4. {d \in Around : ~Straight(d) /\ d[1] # 1} = PixelsOf(Column)
  BY PixelsOfKernels DEF Around, Straight
<1>5. {d \in Around : Straight(d) /\ d[1] = 1} = PixelsOf(Centre)
  BY PixelsOfKernels DEF Around, Straight
<1>6. {d \in Around : Straight(d) /\ d[1] # 1} = PixelsOf(Diagonal)
  BY PixelsOfKernels DEF Around, Straight
<1>7. /\ \A d \in PixelsOf(Centre) : Distance(d) = 0
      /\ \A d \in PixelsOf(Plus) : Distance(d) = 1
      /\ \A d \in PixelsOf(Row) : Distance(d) = 1
      /\ \A d \in PixelsOf(Column) : Distance(d) = 1
      /\ \A d \in PixelsOf(Diagonal) : Distance(d) = 2
  BY PixelsOfKernels DEF Distance
<1>8. ASSUME NEW D, NEW m \in Nat, \A d \in D : Distance(d) = m
      PROVE  Closest(D) = D
  BY <1>8 DEF Closest
<1>9. Closest(PixelsOf(Centre) \cup PixelsOf(Diagonal)) = PixelsOf(Centre)
  <2>1. PixelsOf(Centre) # {}
    BY PixelsOfKernels
  <2>. QED
    BY <1>7, <2>1 DEF Closest
<1>. QED
  BY <1>1, <1>2, <1>3, <1>4, <1>5, <1>6, <1>7, <1>8, <1>9

\* The bytes at the pixels of a pattern around one.
BytesAt(c, k, x, s) ==
  [j \in 1..Len(s) |-> At(c.img, RowAt(c, k, s[j]), ColumnAt(c, x, s[j]))]

LEMMA NearestByKernel ==
  ASSUME NEW c, NEW k, NEW x, NEW colour, NEW s \in Kernels,
         Closest(Colours(c, k, x, colour)) = PixelsOf(s)
  PROVE  Nearest(c, colour, k, x) = BytesAt(c, k, x, s)
<1>. DEFINE D == Closest(Colours(c, k, x, colour))
            t == CHOOSE r \in Kernels : PixelsOf(r) = D
<1>1. Nearest(c, colour, k, x) = BytesAt(c, k, x, t)
  BY Zenon DEF Nearest, BytesAt, Colours, PixelsOf
<1>2. t \in Kernels /\ PixelsOf(t) = D
  BY Zenon
<1>3. t = s
  BY <1>2, KernelFacts, Zenon
<1>. QED
  BY <1>1, <1>3

\* The nearest pixels of each colour.
LEMMA NearestPixels ==
  ASSUME NEW c, c.img \in Images, c.img.format \in Bayer,
         c.sec.y \in Nat, Even(c.sec.y), c.sec.h \in Nat,
         NEW k \in 0..(c.sec.h - 2), NEW x \in 0..(c.img.width - 1)
  PROVE  LET green == GreenAt(c.img, k, x)
             red == RedAt(c.img, k)
             N(colour) == Nearest(c, colour, k, x)
             B(s) == BytesAt(c, k, x, s)
         IN  /\ green => N("green") = B(Centre)
             /\ ~green => N("green") = B(Plus)
             /\ green /\ red => N("red") = B(Row) /\ N("blue") = B(Column)
             /\ green /\ ~red => N("red") = B(Column) /\ N("blue") = B(Row)
             /\ ~green /\ red => N("red") = B(Centre) /\ N("blue") = B(Diagonal)
             /\ ~green /\ ~red => N("red") = B(Diagonal) /\ N("blue") = B(Centre)
<1>. DEFINE green == GreenAt(c.img, k, x)
            red == RedAt(c.img, k)
            D(colour) == Colours(c, k, x, colour)
<1>1. /\ D("green") = {d \in Around : green <=> Straight(d)}
      /\ D("red") = {d \in Around : ~(green <=> Straight(d)) /\ (red <=> d[1] = 1)}
      /\ D("blue") = {d \in Around : ~(green <=> Straight(d)) /\ ~(red <=> d[1] = 1)}
  BY ColoursAround
<1>2. /\ Centre \in Kernels /\ Column \in Kernels /\ Row \in Kernels
      /\ Plus \in Kernels /\ Diagonal \in Kernels
  BY KernelFacts
<1>3. ASSUME NEW colour, NEW s \in Kernels, Closest(D(colour)) = PixelsOf(s)
      PROVE  Nearest(c, colour, k, x) = BytesAt(c, k, x, s)
  BY <1>3, NearestByKernel
<1>. HIDE DEF green, red, D
<1>4. CASE green
  <2>1. D("green") = {d \in Around : Straight(d)}
    BY <1>1, <1>4
  <2>2. red => /\ D("red") = {d \in Around : ~Straight(d) /\ d[1] = 1}
               /\ D("blue") = {d \in Around : ~Straight(d) /\ d[1] # 1}
    BY <1>1, <1>4
  <2>3. ~red => /\ D("blue") = {d \in Around : ~Straight(d) /\ d[1] = 1}
                /\ D("red") = {d \in Around : ~Straight(d) /\ d[1] # 1}
    BY <1>1, <1>4
  <2>4. Nearest(c, "green", k, x) = BytesAt(c, k, x, Centre)
    BY <1>2, <1>3, <2>1, ClosestPixels
  <2>5. CASE red
    BY <1>2, <1>3, <1>4, <2>2, <2>4, <2>5, ClosestPixels DEF green, red
  <2>6. CASE ~red
    BY <1>2, <1>3, <1>4, <2>3, <2>4, <2>6, ClosestPixels DEF green, red
  <2>. QED
    BY <2>5, <2>6
<1>5. CASE ~green
  <2>1. D("green") = {d \in Around : ~Straight(d)}
    BY <1>1, <1>5
  <2>2. red => /\ D("red") = {d \in Around : Straight(d) /\ d[1] = 1}
               /\ D("blue") = {d \in Around : Straight(d) /\ d[1] # 1}
    BY <1>1, <1>5
  <2>3. ~red => /\ D("blue") = {d \in Around : Straight(d) /\ d[1] = 1}
                /\ D("red") = {d \in Around : Straight(d) /\ d[1] # 1}
    BY <1>1, <1>5
  <2>4. Nearest(c, "green", k, x) = BytesAt(c, k, x, Plus)
    BY <1>2, <1>3, <2>1, ClosestPixels
  <2>5. CASE red
    BY <1>2, <1>3, <1>5, <2>2, <2>4, <2>5, ClosestPixels DEF green, red
  <2>6. CASE ~red
    BY <1>2, <1>3, <1>5, <2>3, <2>4, <2>6, ClosestPixels DEF green, red
  <2>. QED
    BY <2>5, <2>6
<1>. QED
  BY <1>4, <1>5

\* The three lines of a line that is converted lie where the mirrored section says.
RowsFor(c, k) == [r \in 1..3 |-> (c.sec.y + Mirror(k + r - 2, c.sec.h)) * Step(c.img)]

LEMMA CellIsAt ==
  ASSUME NEW c, c.img \in Images, c.img.format \in Bayer,
         c.sec.y \in Nat, Even(c.sec.y), c.sec.h \in Nat,
         NEW k \in 0..(c.sec.h - 2), NEW x \in 0..(c.img.width - 1), NEW d \in Around
  PROVE  Cell(c.img, RowsFor(c, k)[d[1] + 1], x + d[2]) =
           At(c.img, RowAt(c, k, d), ColumnAt(c, x, d))
<1>. DEFINE img == c.img
            w == img.width
            r == d[1] + 1
            e == x + d[2]
            p == RowsFor(c, k)[r]
<1>1. w \in Nat \ {0} /\ img.px \in Nat
  BY ImagesHaveSizes
<1>2. d[1] \in 0..2 /\ d[2] \in 0..2
  BY DEF Around
<1>3. r \in 1..3 /\ k + r - 2 = k + d[1] - 1 /\ e \in 0..(w + 1) /\ e - 1 = x + d[2] - 1
  BY <1>1, <1>2
<1>4. RowAt(c, k, d) \in Int
  BY ParityAround
<1>5. Step(img) \in Nat
  BY <1>1 DEF Step, Bayer
<1>6. p = RowAt(c, k, d) * Step(img)
  <2>. HIDE DEF r
  <2>1. p = (c.sec.y + Mirror(k + r - 2, c.sec.h)) * Step(img)
    BY <1>3 DEF RowsFor
  <2>. QED
    BY <1>3, <2>1 DEF RowAt
<1>7. p \in Int
  BY <1>4, <1>5, <1>6
<1>. HIDE DEF p, e, r
<1>8. Cell(img, p, e) = p + Mirror(e - 1, w)
  BY <1>3, <1>7, CellIsMirrored
<1>9. ColumnAt(c, x, d) = Mirror(e - 1, w)
  BY <1>3 DEF ColumnAt
<1>. QED
  BY <1>6, <1>8, <1>9 DEF At, p, e, r

LEMMA PairsJoined ==
  ASSUME NEW a, NEW b, NEW e, NEW f
  PROVE  <<a, b>> \o <<e, f>> = <<a, b, e, f>>
<1>. DEFINE S == {a, b, e, f}
            s == <<a, b>>
            t == <<e, f>>
            u == <<a, b, e, f>>
<1>1. s \in Seq(S) /\ t \in Seq(S) /\ u \in Seq(S)
  OBVIOUS
<1>2. Len(s) = 2 /\ Len(t) = 2 /\ Len(u) = 4
  OBVIOUS
<1>3. /\ s[1] = a /\ s[2] = b /\ t[1] = e /\ t[2] = f
      /\ u[1] = a /\ u[2] = b /\ u[3] = e /\ u[4] = f
  OBVIOUS
<1>. HIDE DEF s, t, u, S
<1>4. /\ s \o t \in Seq(S) /\ Len(s \o t) = Len(s) + Len(t)
      /\ \A i \in 1..(Len(s) + Len(t)) :
           (s \o t)[i] = IF i <= Len(s) THEN s[i] ELSE t[i - Len(s)]
  BY <1>1, ConcatProperties
<1>. DEFINE v == s \o t
<1>. HIDE DEF v
<1>5. v \in Seq(S) /\ Len(v) = 4
  BY <1>2, <1>4 DEF v
<1>6. v[1] = a /\ v[2] = b /\ v[3] = e /\ v[4] = f
  BY <1>2, <1>3, <1>4 DEF v
<1>7. \A i \in 1..Len(v) : v[i] = u[i]
  BY <1>3, <1>5, <1>6
<1>8. v = u
  BY <1>1, <1>2, <1>5, <1>7, SeqEqual
<1>. QED
  BY <1>8 DEF s, t, u, v

\* The cells that are averaged are the bytes of the pattern.
LEMMA KernelCells ==
  ASSUME NEW c, c.img \in Images, c.img.format \in Bayer,
         c.sec.y \in Nat, Even(c.sec.y), c.sec.h \in Nat,
         NEW k \in 0..(c.sec.h - 2), NEW x \in 0..(c.img.width - 1),
         NEW i, i = x + 1
  PROVE  LET rows == RowsFor(c, k)
         IN  /\ Self(c.img, rows, i) = BytesAt(c, k, x, Centre)
             /\ Above(c.img, rows, i) = BytesAt(c, k, x, Column)
             /\ Beside(c.img, rows, i) = BytesAt(c, k, x, Row)
             /\ Cross(c.img, rows, i) = BytesAt(c, k, x, Plus)
             /\ Corners(c.img, rows, i) = BytesAt(c, k, x, Diagonal)
<1>. DEFINE rows == RowsFor(c, k)
            A(d) == At(c.img, RowAt(c, k, d), ColumnAt(c, x, d))
            L(r, e) == Cell(c.img, rows[r], e)
<1>1. x \in Int /\ i - 1 = x + 0 /\ i = x + 1 /\ i + 1 = x + 2
  BY ImagesHaveSizes
<1>2. ASSUME NEW a \in 0..2, NEW b \in 0..2 PROVE L(a + 1, x + b) = A(<<a, b>>)
  <2>. DEFINE d == <<a, b>>
  <2>1. d \in Around /\ d[1] = a /\ d[2] = b
    BY DEF Around
  <2>. HIDE DEF d
  <2>2. Cell(c.img, RowsFor(c, k)[d[1] + 1], x + d[2]) =
           At(c.img, RowAt(c, k, d), ColumnAt(c, x, d))
    BY <2>1, CellIsAt
  <2>. QED
    BY <2>1, <2>2 DEF d
<1>3. /\ Self(c.img, rows, i) = <<L(2, i)>>
      /\ Above(c.img, rows, i) = <<L(1, i), L(3, i)>>
      /\ Beside(c.img, rows, i) = <<L(2, i - 1), L(2, i + 1)>>
      /\ Cross(c.img, rows, i) = <<L(1, i), L(3, i)>> \o <<L(2, i - 1), L(2, i + 1)>>
      /\ Corners(c.img, rows, i) = <<L(1, i - 1), L(1, i + 1), L(3, i - 1), L(3, i + 1)>>
  BY Zenon DEF Self, Above, Beside, Cross, Corners
<1>4. /\ BytesAt(c, k, x, Centre) = [j \in 1..Len(Centre) |-> A(Centre[j])]
      /\ BytesAt(c, k, x, Column) = [j \in 1..Len(Column) |-> A(Column[j])]
      /\ BytesAt(c, k, x, Row) = [j \in 1..Len(Row) |-> A(Row[j])]
      /\ BytesAt(c, k, x, Plus) = [j \in 1..Len(Plus) |-> A(Plus[j])]
      /\ BytesAt(c, k, x, Diagonal) = [j \in 1..Len(Diagonal) |-> A(Diagonal[j])]
  BY Zenon DEF BytesAt
<1>5. /\ L(1, i - 1) = A(<<0, 0>>) /\ L(1, i) = A(<<0, 1>>) /\ L(1, i + 1) = A(<<0, 2>>)
      /\ L(2, i - 1) = A(<<1, 0>>) /\ L(2, i) = A(<<1, 1>>) /\ L(2, i + 1) = A(<<1, 2>>)
      /\ L(3, i - 1) = A(<<2, 0>>) /\ L(3, i) = A(<<2, 1>>) /\ L(3, i + 1) = A(<<2, 2>>)
  <2>. HIDE DEF A, L
  <2>1. /\ L(0 + 1, x + 0) = A(<<0, 0>>) /\ L(0 + 1, x + 1) = A(<<0, 1>>)
        /\ L(0 + 1, x + 2) = A(<<0, 2>>)
        /\ L(1 + 1, x + 0) = A(<<1, 0>>) /\ L(1 + 1, x + 1) = A(<<1, 1>>)
        /\ L(1 + 1, x + 2) = A(<<1, 2>>)
        /\ L(2 + 1, x + 0) = A(<<2, 0>>) /\ L(2 + 1, x + 1) = A(<<2, 1>>)
        /\ L(2 + 1, x + 2) = A(<<2, 2>>)
    <3>1. 0 \in 0..2 /\ 1 \in 0..2 /\ 2 \in 0..2
      OBVIOUS
    <3>. QED
      BY <1>2, <3>1, Zenon
  <2>2. 0 + 1 = 1 /\ 1 + 1 = 2 /\ 2 + 1 = 3
    OBVIOUS
  <2>. QED
    BY <1>1, <2>1, <2>2, Zenon
<1>. HIDE DEF A, L, rows
<1>6. BytesAt(c, k, x, Centre) = <<A(<<1, 1>>)>>
  <2>1. Len(Centre) = 1 /\ Centre[1] = <<1, 1>>
    BY DEF Centre
  <2>2. BytesAt(c, k, x, Centre) = [j \in 1..1 |-> A(Centre[j])]
    BY <1>4, <2>1, Zenon
  <2>3. [j \in 1..1 |-> A(Centre[j])] = <<A(Centre[1])>>
    OBVIOUS
  <2>. QED
    BY <2>1, <2>2, <2>3, Zenon
<1>7. BytesAt(c, k, x, Column) = <<A(<<0, 1>>), A(<<2, 1>>)>>
  <2>1. Len(Column) = 2 /\ Column[1] = <<0, 1>> /\ Column[2] = <<2, 1>>
    BY DEF Column
  <2>2. BytesAt(c, k, x, Column) = [j \in 1..2 |-> A(Column[j])]
    BY <1>4, <2>1, Zenon
  <2>3. [j \in 1..2 |-> A(Column[j])] = <<A(Column[1]), A(Column[2])>>
    OBVIOUS
  <2>. QED
    BY <2>1, <2>2, <2>3, Zenon
<1>8. BytesAt(c, k, x, Row) = <<A(<<1, 0>>), A(<<1, 2>>)>>
  <2>1. Len(Row) = 2 /\ Row[1] = <<1, 0>> /\ Row[2] = <<1, 2>>
    BY DEF Row
  <2>2. BytesAt(c, k, x, Row) = [j \in 1..2 |-> A(Row[j])]
    BY <1>4, <2>1, Zenon
  <2>3. [j \in 1..2 |-> A(Row[j])] = <<A(Row[1]), A(Row[2])>>
    OBVIOUS
  <2>. QED
    BY <2>1, <2>2, <2>3, Zenon
<1>9. BytesAt(c, k, x, Plus) = <<A(<<0, 1>>), A(<<2, 1>>), A(<<1, 0>>), A(<<1, 2>>)>>
  <2>1. Len(Plus) = 4 /\ Plus[1] = <<0, 1>> /\ Plus[2] = <<2, 1>>
        /\ Plus[3] = <<1, 0>> /\ Plus[4] = <<1, 2>>
    BY DEF Plus
  <2>2. BytesAt(c, k, x, Plus) = [j \in 1..4 |-> A(Plus[j])]
    BY <1>4, <2>1, Zenon
  <2>3. [j \in 1..4 |-> A(Plus[j])] =
          <<A(Plus[1]), A(Plus[2]), A(Plus[3]), A(Plus[4])>>
    OBVIOUS
  <2>. QED
    BY <2>1, <2>2, <2>3, Zenon
<1>10. BytesAt(c, k, x, Diagonal) = <<A(<<0, 0>>), A(<<0, 2>>), A(<<2, 0>>), A(<<2, 2>>)>>
  <2>1. Len(Diagonal) = 4 /\ Diagonal[1] = <<0, 0>> /\ Diagonal[2] = <<0, 2>>
        /\ Diagonal[3] = <<2, 0>> /\ Diagonal[4] = <<2, 2>>
    BY DEF Diagonal
  <2>2. BytesAt(c, k, x, Diagonal) = [j \in 1..4 |-> A(Diagonal[j])]
    BY <1>4, <2>1, Zenon
  <2>3. [j \in 1..4 |-> A(Diagonal[j])] =
          <<A(Diagonal[1]), A(Diagonal[2]), A(Diagonal[3]), A(Diagonal[4])>>
    OBVIOUS
  <2>. QED
    BY <2>1, <2>2, <2>3, Zenon
<1>11. Self(c.img, rows, i) = BytesAt(c, k, x, Centre)
  BY <1>3, <1>5, <1>6, Zenon
<1>12. Above(c.img, rows, i) = BytesAt(c, k, x, Column)
  BY <1>3, <1>5, <1>7, Zenon
<1>13. Beside(c.img, rows, i) = BytesAt(c, k, x, Row)
  BY <1>3, <1>5, <1>8, Zenon
<1>14. Cross(c.img, rows, i) = BytesAt(c, k, x, Plus)
  <2>1. <<L(1, i), L(3, i)>> \o <<L(2, i - 1), L(2, i + 1)>> =
          <<L(1, i), L(3, i), L(2, i - 1), L(2, i + 1)>>
    BY PairsJoined
  <2>. QED
    BY <1>3, <1>5, <1>9, <2>1, Zenon
<1>15. Corners(c.img, rows, i) = BytesAt(c, k, x, Diagonal)
  BY <1>3, <1>5, <1>10, Zenon
<1>. QED
  BY <1>11, <1>12, <1>13, <1>14, <1>15, Zenon DEF rows

\* A line of a Bayer pattern is converted with the nearest pixels.
LEMMA BayerLineIsNearest ==
  ASSUME NEW c, c.img \in Images, c.img.format \in Bayer,
         c.sec.y \in Nat, Even(c.sec.y), c.sec.h \in Nat,
         NEW k \in 0..(c.sec.h - 2), NEW greenfirst \in BOOLEAN, NEW red \in BOOLEAN,
         greenfirst <=> (Even(k) <=> c.img.format \in {"GR", "GB"}),
         red <=> RedAt(c.img, k)
  PROVE  BayerLine(c.img, RowsFor(c, k), greenfirst, red) =
           [i \in 1..c.img.width |->
              <<Nearest(c, "red", k, i - 1), Nearest(c, "green", k, i - 1),
                Nearest(c, "blue", k, i - 1)>>]
<1>. DEFINE img == c.img
            rows == RowsFor(c, k)
            Pixel(i) ==
              LET green == (i % 2 = 1) = greenfirst
                  own == IF green THEN Beside(img, rows, i) ELSE Self(img, rows, i)
                  other == IF green THEN Above(img, rows, i) ELSE Corners(img, rows, i)
                  g == IF green THEN Self(img, rows, i) ELSE Cross(img, rows, i)
              IN  IF red THEN <<own, g, other>> ELSE <<other, g, own>>
<1>1. BayerLine(img, rows, greenfirst, red) = [i \in 1..img.width |-> Pixel(i)]
  BY Zenon DEF BayerLine
<1>2. ASSUME NEW i \in 1..img.width
      PROVE  Pixel(i) = <<Nearest(c, "red", k, i - 1), Nearest(c, "green", k, i - 1),
                          Nearest(c, "blue", k, i - 1)>>
  <2>. DEFINE x == i - 1
              green == GreenAt(img, k, x)
              B(s) == BytesAt(c, k, x, s)
              N(colour) == Nearest(c, colour, k, x)
  <2>1. x \in 0..(c.img.width - 1) /\ i = x + 1 /\ (i % 2 = 1 <=> Even(x))
    BY ImagesHaveSizes DEF Even
  <2>. HIDE DEF x
  <2>2. /\ Self(img, rows, i) = B(Centre) /\ Above(img, rows, i) = B(Column)
        /\ Beside(img, rows, i) = B(Row) /\ Cross(img, rows, i) = B(Plus)
        /\ Corners(img, rows, i) = B(Diagonal)
    BY <2>1, KernelCells
  <2>3. /\ green => N("green") = B(Centre)
        /\ ~green => N("green") = B(Plus)
        /\ green /\ red => N("red") = B(Row) /\ N("blue") = B(Column)
        /\ green /\ ~red => N("red") = B(Column) /\ N("blue") = B(Row)
        /\ ~green /\ red => N("red") = B(Centre) /\ N("blue") = B(Diagonal)
        /\ ~green /\ ~red => N("red") = B(Diagonal) /\ N("blue") = B(Centre)
    BY <2>1, NearestPixels
  <2>4. green <=> (Even(x) <=> greenfirst)
    BY Zenon DEF GreenAt
  <2>5. ((i % 2 = 1) = greenfirst) <=> green
    BY <2>1, <2>4
  <2>. HIDE DEF B, N, green
  <2>6. Pixel(i) =
          IF green THEN IF red THEN <<B(Row), B(Centre), B(Column)>>
                               ELSE <<B(Column), B(Centre), B(Row)>>
                   ELSE IF red THEN <<B(Centre), B(Plus), B(Diagonal)>>
                               ELSE <<B(Diagonal), B(Plus), B(Centre)>>
    BY <2>2, <2>5
  <2>. HIDE DEF Pixel
  <2>7. Pixel(i) = <<N("red"), N("green"), N("blue")>>
    BY <2>3, <2>6
  <2>. QED
    BY <2>7 DEF N, x
<1>. HIDE DEF Pixel
<1>. QED
  BY <1>1, <1>2

\* A line without Bayer pattern is converted pixel by pixel.
LEMMA LineIsPlain ==
  ASSUME NEW img \in Images, img.format \notin Bayer, Written(img) = img.width, NEW y \in Nat
  PROVE  Line(img, y * Step(img)) = [i \in 1..img.width |-> Plain(img, y, i - 1)]
<1>. DEFINE p == y * Step(img)
            w == img.width
<1>1. w \in Nat /\ img.px \in Nat /\ img.big \in BOOLEAN
  BY ImagesHaveSizes
<1>2. Step(img) \in Nat
  BY <1>1 DEF Step
<1>3. p \in Nat
  BY <1>2
<1>4. \A x : At(img, y, x) = p + x
  BY DEF At
<1>. DEFINE Pixel(i) ==
     CASE img.format = "Mono16" /\ img.big ->
            <<p + 2 * (i - 1), p + 2 * (i - 1) + 1>>
       [] img.format = "Mono16" /\ ~img.big ->
            <<p + 2 * (i - 1) + 1, p + 2 * (i - 1)>>
       [] img.format = "YCbCr411" -> Quad411(p, i - 1)
       [] img.format = "YCbCr422" -> Quad422(p, i - 1)
       [] img.format = "RGB8" -> [c \in 1..3 |-> p + 3 * (i - 1) + c - 1]
       [] OTHER -> <<p + i - 1>>
<1>5. Line(img, p) = [i \in 1..w |-> Pixel(i)]
  BY DEF Line
<1>. SUFFICES Line(img, p) = [i \in 1..w |-> Plain(img, y, i - 1)]
  BY DEF p, w
<1>. HIDE DEF p, w, Pixel
<1>6. SUFFICES ASSUME NEW i \in 1..w PROVE Pixel(i) = Plain(img, y, i - 1)
  BY <1>5
<1>. USE DEF Pixel
<1>. DEFINE x == i - 1
<1>7. x \in Nat /\ i - 1 = x /\ p + i - 1 = p + x
  BY <1>1, <1>3
<1>. HIDE DEF x
<1>8. CASE img.format = "Mono16"
  <2>1. p + 2 * x \in Nat /\ p + (2 * x + 1) = p + 2 * x + 1
    BY <1>3, <1>7
  <2>2. Plain(img, y, x) = IF img.big THEN <<p + 2 * x, p + (2 * x + 1)>>
                                      ELSE <<p + (2 * x + 1), p + 2 * x>>
    BY <1>4, <1>8 DEF Plain
  <2>. QED
    BY <1>1, <1>7, <1>8, <2>1, <2>2
<1>9. CASE img.format = "YCbCr411"
  <2>. DEFINE q == x \div 4
              r == x % 4
  <2>1. q \in Nat /\ r \in 0..3
    BY <1>7
  <2>2. Plain(img, y, x) =
          <<p + 6 * q + r + (IF r < 2 THEN 0 ELSE 1), p + 6 * q + 2, p + 6 * q + 5>>
    BY <1>4, <1>9 DEF Plain
  <2>3. Quad411(p, x) =
          <<(<<p + q * 6, p + q * 6 + 1, p + q * 6 + 3, p + q * 6 + 4>>)[r + 1],
            p + q * 6 + 2, p + q * 6 + 5>>
    BY DEF Quad411
  <2>. HIDE DEF q, r
  <2>4. q * 6 = 6 * q /\ p + 6 * q \in Nat
    BY <1>3, <2>1
  <2>5. Quad411(p, x) = Plain(img, y, x)
    <3>1. CASE r = 0
      BY <2>2, <2>3, <2>4, <3>1
    <3>2. CASE r = 1
      BY <2>2, <2>3, <2>4, <3>2
    <3>3. CASE r = 2
      BY <2>2, <2>3, <2>4, <3>3
    <3>4. CASE r = 3
      BY <2>2, <2>3, <2>4, <3>4
    <3>. QED
      BY <2>1, <3>1, <3>2, <3>3, <3>4
  <2>. QED
    BY <1>7, <1>9, <2>5
<1>10. CASE img.format = "YCbCr422"
  <2>. DEFINE q == x \div 4
              r == x % 4
              k == IF r < 2 THEN 0 ELSE 4
  <2>1. q \in Nat /\ r \in 0..3 /\ x = 4 * q + r
    BY <1>7
  <2>2. Plain(img, y, x) =
          <<p + 2 * x, p + (4 * (x \div 2) + 1), p + (4 * (x \div 2) + 3)>>
    BY <1>4, <1>10 DEF Plain
  <2>3. Quad422(p, x) =
          <<p + q * 8 + k + 2 * (x % 2), p + q * 8 + k + 1, p + q * 8 + k + 3>>
    BY DEF Quad422
  <2>4. /\ x \div 2 = IF r < 2 THEN 2 * q ELSE 2 * q + 1
        /\ x % 2 = IF r = 0 \/ r = 2 THEN 0 ELSE 1
    BY <1>7
  <2>. HIDE DEF q, r
  <2>5. /\ p + 2 * x = p + q * 8 + k + 2 * (x % 2)
        /\ p + (4 * (x \div 2) + 1) = p + q * 8 + k + 1
        /\ p + (4 * (x \div 2) + 3) = p + q * 8 + k + 3
    BY <1>3, <2>1, <2>4
  <2>6. Quad422(p, x) = Plain(img, y, x)
    BY <2>2, <2>3, <2>5
  <2>. QED
    BY <1>7, <1>10, <2>6
<1>11. CASE img.format = "RGB8"
  <2>1. Plain(img, y, x) = <<p + 3 * x, p + (3 * x + 1), p + (3 * x + 2)>>
    BY <1>4, <1>11 DEF Plain
  <2>2. [c \in 1..3 |-> p + 3 * x + c - 1] = <<p + 3 * x, p + (3 * x + 1), p + (3 * x + 2)>>
    BY <1>3, <1>7
  <2>. QED
    BY <1>7, <1>11, <2>1, <2>2
<1>12. CASE img.format \notin {"Mono16", "YCbCr411", "YCbCr422", "RGB8"}
  <2>1. Plain(img, y, x) = <<p + x>>
    BY <1>4, <1>12 DEF Plain
  <2>. QED
    BY <1>7, <1>12, <2>1
<1>. QED
  BY <1>8, <1>9, <1>10, <1>11, <1>12

LEMMA Twice ==
  ASSUME NEW w \in Nat, NEW y \in Nat
  PROVE  /\ 2 * w * y \in Nat /\ 2 * w * (y + 2) - 4 * w = 2 * w * y
         /\ 2 * w * (y + 1) = 2 * w * y + w * 2
  OBVIOUS

\* A line of disparities, the lines being read from the last to the first.
LEMMA DisparitiesArePlain ==
  ASSUME NEW c, c.img \in Images, c.img.format = "Mono16", c.img.px = 0,
         c.sec.h \in Nat, NEW k \in 0..(c.sec.h - 1),
         c.p = 2 * c.img.width * (c.sec.h + 1 - k)
  PROVE  /\ WriteDisparities(c).line =
              [i \in 1..c.img.width |-> Plain(c.img, c.sec.h - 1 - k, i - 1)]
         /\ WriteDisparities(c).p = 2 * c.img.width * (c.sec.h + 1 - (k + 1))
<1>. DEFINE img == c.img
            w == img.width
            y == c.sec.h - 1 - k
            p == 2 * w * y
<1>1. w \in Nat /\ img.big \in BOOLEAN /\ y \in Nat /\ img.px = 0
  BY ImagesHaveSizes
<1>2. c.p - 4 * (w + img.px) = p /\ p \in Nat
  <2>1. c.sec.h + 1 - k = y + 2 /\ w + img.px = w
    BY <1>1
  <2>2. c.p = 2 * w * (y + 2)
    BY <2>1
  <2>. HIDE DEF w, y
  <2>. QED
    BY <1>1, <2>1, <2>2, Twice
<1>3. 2 * c.img.width * (c.sec.h + 1 - (k + 1)) = p + w * 2
  <2>1. c.sec.h + 1 - (k + 1) = y + 1
    BY <1>1
  <2>. HIDE DEF y
  <2>. QED
    BY <1>1, <2>1, Twice
<1>4. Step(img) = 2 * w
  BY <1>1 DEF Step
<1>5. \A x : At(img, y, x) = p + x
  <2>1. y * (2 * w) = p
    BY <1>1
  <2>. HIDE DEF p, y, w
  <2>. QED
    BY <1>4, <2>1 DEF At
<1>6. WriteDisparities(c) =
        [line |-> [i \in 1..w |->
           IF img.big THEN <<p + (i - 1) * (2 + img.px), p + (i - 1) * (2 + img.px) + 1>>
                      ELSE <<p + (i - 1) * (2 + img.px) + 1, p + (i - 1) * (2 + img.px)>>],
         p |-> p + w * (2 + img.px)]
  <2>. HIDE DEF p, w
  <2>. QED
    BY <1>2 DEF WriteDisparities, w
<1>. HIDE DEF p, y, w
<1>7. ASSUME NEW i \in 1..w
      PROVE  (IF img.big THEN <<p + (i - 1) * (2 + img.px), p + (i - 1) * (2 + img.px) + 1>>
                ELSE <<p + (i - 1) * (2 + img.px) + 1, p + (i - 1) * (2 + img.px)>>)
             = Plain(img, y, i - 1)
  <2>. DEFINE x == i - 1
  <2>1. x \in Nat /\ x * (2 + img.px) = 2 * x
    BY <1>1
  <2>. HIDE DEF x
  <2>2. Plain(img, y, x) = IF img.big THEN <<p + 2 * x, p + (2 * x + 1)>>
                                      ELSE <<p + (2 * x + 1), p + 2 * x>>
    BY <1>5 DEF Plain
  <2>3. p + (2 * x + 1) = p + 2 * x + 1
    BY <1>2, <2>1
  <2>4. (IF img.big THEN <<p + x * (2 + img.px), p + x * (2 + img.px) + 1>>
                ELSE <<p + x * (2 + img.px) + 1, p + x * (2 + img.px)>>)
             = Plain(img, y, x)
    BY <1>1, <2>1, <2>2, <2>3
  <2>. QED
    BY <2>4 DEF x
<1>8. WriteDisparities(c).line = [i \in 1..w |-> Plain(img, y, i - 1)]
  BY <1>6, <1>7
<1>9. WriteDisparities(c).p = p + w * 2
  BY <1>1, <1>6
<1>. QED
  BY <1>3, <1>8, <1>9 DEF w, y

-----------------------------------------------------------------------------
(* The invariant of a call. *)

IsLines(s) == \E S : s \in Seq(S)

LEMMA Appended ==
  ASSUME NEW s, IsLines(s), NEW e
  PROVE  /\ IsLines(Append(s, e)) /\ Len(s) \in Nat /\ Len(Append(s, e)) = Len(s) + 1
         /\ \A i \in 1..Len(s) : Append(s, e)[i] = s[i]
         /\ Append(s, e)[Len(s) + 1] = e
<1>1. PICK S : s \in Seq(S)
  BY DEF IsLines
<1>2. s \in Seq(S \cup {e})
  BY <1>1
<1>. DEFINE T == S \cup {e}
<1>3. s \in Seq(T) /\ e \in T
  BY <1>2
<1>. HIDE DEF T
<1>4. Append(s, e) \in Seq(T)
  BY <1>3
<1>5. /\ Len(s) \in Nat /\ Len(Append(s, e)) = Len(s) + 1
      /\ \A i \in 1..Len(s) : Append(s, e)[i] = s[i]
      /\ Append(s, e)[Len(s) + 1] = e
  BY <1>3
<1>. QED
  BY <1>4, <1>5 DEF IsLines

\* The fields of a call, and the bounds of its loop.
CallTypes(c) ==
  /\ c \in [phase : {"convert", "open", "write"}, img : Images, kind : {"pnm", "png", "pfm"},
            sec : [y : Nat, h : Nat], p : Int, k : Nat, rows : [1..3 -> Int],
            greenfirst : BOOLEAN, red : BOOLEAN, rgb : {c.rgb}, out : {c.out},
            good : BOOLEAN]
  /\ IsLines(c.rgb) /\ IsLines(c.out)
  /\ c.sec.y + c.sec.h <= c.img.height /\ c.k <= c.sec.h
  /\ c.kind = "pfm" => c.img.format = "Mono16" /\ c.phase # "convert"
  /\ c.phase = "convert" => c.img.format \notin Packed

\* The first k lines are right.
Right(c, lines, k) ==
  \A j \in 0..(k - 1) : Misplaced(c, j) \/ lines[j + 1] = Expected(c, j)

\* Line k is converted next.
BayerInv(c) ==
  /\ c.p = c.sec.y * Step(c.img)
  /\ c.greenfirst <=> (Even(c.k) <=> c.img.format \in {"GR", "GB"})
  /\ c.red <=> RedAt(c.img, c.k)
  /\ c.sec.h >= 2 /\ c.k < c.sec.h =>
       /\ c.rows[2] = (c.sec.y + Mirror(c.k - 1, c.sec.h)) * Step(c.img)
       /\ c.rows[3] = (c.sec.y + c.k) * Step(c.img)

Converting(c) ==
  /\ Len(c.rgb) = c.k /\ Right(c, c.rgb, c.k) /\ c.out = <<>>
  /\ c.img.format \notin Bayer => c.p = (c.sec.y + c.k) * Step(c.img)
  /\ c.img.format \in Bayer => BayerInv(c)

\* Line k is written next.
Ready(c) ==
  /\ c.kind = "pfm" /\ c.img.px = 0 => c.p = 2 * c.img.width * (c.sec.h + 1 - c.k)
  /\ c.kind # "pfm" /\ c.img.format \in Packed => c.p = (c.sec.y + c.k) * Step(c.img)
  /\ c.img.format \notin Packed => Len(c.rgb) = c.sec.h /\ Right(c, c.rgb, c.sec.h)

CallRight(c) ==
  /\ CallTypes(c)
  /\ c.phase = "convert" => Converting(c)
  /\ c.phase = "open" => Ready(c) /\ c.k = 0 /\ c.out = <<>>
  /\ c.phase = "write" => Ready(c) /\ Len(c.out) = c.k /\ Right(c, c.out, c.k)

\* A call that is not served, has ended, or writes a PNG file anew.
NotServed ==
  \/ call \in {Idle, Thrown, Undefined}
  \/ \E h, k : call = [phase |-> "again", h |-> h, k |-> k]

LEMMA NotServedPhase == NotServed => call.phase \in {"idle", "thrown", "undefined", "again"}
  BY DEF NotServed, Idle, Thrown, Undefined

CallInv == NotServed \/ CallRight(call)

LEMMA CallSuffices == CallInv => SectionStored
  BY NotServedPhase DEF CallInv, CallRight, CallTypes, Right, SectionStored

\* What is expected follows from the image, the kind of file and the section.
LEMMA SameExpected ==
  ASSUME NEW c, NEW e, e.img = c.img, e.kind = c.kind, e.sec = c.sec
  PROVE  /\ \A j : Misplaced(e, j) <=> Misplaced(c, j)
         /\ \A j : Expected(e, j) = Expected(c, j)
         /\ \A s, m : Right(e, s, m) <=> Right(c, s, m)
<1>1. \A j : Misplaced(e, j) <=> Misplaced(c, j)
  BY DEF Misplaced, BayerCovers
<1>2. \A k, d : RowAt(e, k, d) = RowAt(c, k, d) /\ ColumnAt(e, k, d) = ColumnAt(c, k, d)
  BY DEF RowAt, ColumnAt
<1>3. ASSUME NEW colour, NEW k, NEW x
      PROVE  Nearest(e, colour, k, x) = Nearest(c, colour, k, x)
  <2>. DEFINE Kernel(r) == CHOOSE s \in Kernels :
                             {s[j] : j \in 1..Len(s)} = Closest(Colours(r, k, x, colour))
  <2>1. Colours(e, k, x, colour) = Colours(c, k, x, colour)
    BY <1>2 DEF Colours
  <2>2. Kernel(e) = Kernel(c)
    BY <2>1
  <2>3. \A s : BytesAt(e, k, x, s) = BytesAt(c, k, x, s)
    BY <1>2 DEF BytesAt
  <2>4. \A r : Nearest(r, colour, k, x) = BytesAt(r, k, x, Kernel(r))
    BY Zenon DEF Nearest, BytesAt, Colours
  <2>. HIDE DEF Kernel
  <2>. QED
    BY <2>2, <2>3, <2>4, Zenon
<1>4. \A j : Expected(e, j) = Expected(c, j)
  BY <1>3, Zenon DEF Expected
<1>. QED
  BY <1>1, <1>4, Zenon DEF Right

LEMMA StepIsNumber == \A img \in Images : Step(img) \in Nat
<1>. SUFFICES ASSUME NEW img \in Images PROVE Step(img) \in Nat
  OBVIOUS
<1>1. img.width \in Nat /\ img.px \in Nat
  BY ImagesHaveSizes
<1>. QED
  BY <1>1 DEF Step

LEMMA EmptyLines == IsLines(<<>>) /\ Len(<<>>) = 0
<1>1. <<>> \in Seq({}) /\ Len(<<>>) = 0
  OBVIOUS
<1>. QED
  BY <1>1 DEF IsLines

LEMMA NothingIsRight == \A c, s : Right(c, s, 0)
  BY DEF Right

LEMMA SectionFits ==
  ASSUME NEW img \in Images, NEW y \in 0..(img.height + 1), NEW h \in 0..img.height
  PROVE  LET sec == Section(img, y, h)
         IN  sec \in [y : Nat, h : Nat] /\ sec.y + sec.h <= img.height
<1>1. img.height \in Nat
  BY ImagesHaveSizes
<1>. QED
  BY <1>1 DEF Section, Lower

LEMMA StoreImageRight ==
  ASSUME NEW img \in Images, NEW kind \in {"pnm", "png"},
         NEW y \in 0..(img.height + 1), NEW h \in 0..img.height,
         StoreImage(img, kind, y, h)
  PROVE  CallRight(call')
<1>. DEFINE sec == Section(img, y, h)
            p == Step(img) * sec.y
            c == call'
<1>1. sec \in [y : Nat, h : Nat] /\ sec.y + sec.h <= img.height
  BY SectionFits
<1>2. Step(img) \in Nat
  BY StepIsNumber
<1>3. p \in Nat /\ p = sec.y * Step(img) /\ p + Step(img) = (sec.y + 1) * Step(img)
      /\ p = (sec.y + 0) * Step(img)
  <2>. HIDE DEF sec
  <2>. QED
    BY <1>1, <1>2
<1>4. c = [phase |-> IF img.format \in Packed THEN "open" ELSE "convert",
           img |-> img, kind |-> kind, sec |-> sec, p |-> p, k |-> 0,
           rows |-> <<0, p + Step(img), p>>,
           greenfirst |-> img.format \in {"GR", "GB"},
           red |-> img.format \in {"RG", "GR"},
           rgb |-> <<>>, out |-> <<>>, good |-> TRUE]
  BY Zenon DEF StoreImage
<1>5. img.format \in Formats
  BY DEF StoreImage
<1>. DEFINE green == img.format \in {"GR", "GB"}
            red == img.format \in {"RG", "GR"}
            rows == <<0, p + Step(img), p>>
<1>6. /\ green \in BOOLEAN /\ red \in BOOLEAN
      /\ rows \in [1..3 -> Int] /\ rows[2] = p + Step(img) /\ rows[3] = p
  BY <1>2, <1>3
<1>. HIDE DEF sec, p, c, green, red, rows
<1>7. /\ c.img = img /\ c.kind = kind /\ c.sec = sec /\ c.p = p /\ c.k = 0
      /\ c.rows = rows /\ c.greenfirst = green /\ c.red = red
      /\ c.rgb = <<>> /\ c.out = <<>>
      /\ c.phase = IF img.format \in Packed THEN "open" ELSE "convert"
  BY <1>4 DEF green, red, rows
<1>8. CallTypes(c)
  <2>1. c \in [phase : {"convert", "open", "write"}, img : Images, kind : {"pnm", "png", "pfm"},
            sec : [y : Nat, h : Nat], p : Int, k : Nat, rows : [1..3 -> Int],
            greenfirst : BOOLEAN, red : BOOLEAN, rgb : {c.rgb}, out : {c.out},
            good : BOOLEAN]
    BY <1>1, <1>3, <1>4, <1>6, <1>7 DEF green, red, rows
  <2>. QED
    BY <1>1, <1>7, <2>1, EmptyLines DEF CallTypes
<1>9. Even(0)
  BY DEF Even
<1>10. Right(c, c.rgb, 0) /\ Right(c, c.out, 0)
  BY NothingIsRight
<1>11. CASE img.format \in Packed
  <2>1. Ready(c)
    BY <1>3, <1>7, <1>11 DEF Ready
  <2>2. c.phase = "open"
    BY <1>7, <1>11
  <2>. QED
    BY <1>7, <1>8, <2>1, <2>2 DEF CallRight, c
<1>12. CASE img.format \notin Packed
  <2>1. img.format \in Bayer => BayerInv(c)
    <3>1. c.greenfirst <=> (Even(c.k) <=> c.img.format \in {"GR", "GB"})
      BY <1>7, <1>9 DEF green
    <3>2. c.red <=> RedAt(c.img, c.k)
      BY <1>7, <1>9 DEF red, RedAt
    <3>3. Mirror(0 - 1, sec.h) = 1
      BY DEF Mirror
    <3>. QED
      BY <1>3, <1>6, <1>7, <3>1, <3>2, <3>3 DEF BayerInv
  <2>2. Converting(c)
    <3>1. Len(c.rgb) = c.k /\ Right(c, c.rgb, c.k) /\ c.out = <<>>
      BY <1>7, <1>10, EmptyLines
    <3>2. c.p = (c.sec.y + c.k) * Step(c.img)
      BY <1>3, <1>7
    <3>. QED
      BY <1>7, <2>1, <3>1, <3>2 DEF Converting
  <2>3. c.phase = "convert"
    BY <1>7, <1>12
  <2>. QED
    BY <1>8, <2>2, <2>3 DEF CallRight, c
<1>. QED
  BY <1>11, <1>12 DEF c

LEMMA StoreDisparityRight ==
  ASSUME NEW img \in Images, StoreDisparity(img)
  PROVE  CallRight(call')
<1>. DEFINE sec == [y |-> 0, h |-> img.height]
            p == 2 * (img.width + img.px) * (img.height + 1)
            c == call'
<1>1. img.width \in Nat /\ img.height \in Nat /\ img.px \in Nat
  BY ImagesHaveSizes
<1>2. p \in Nat /\ (img.px = 0 => p = 2 * img.width * (img.height + 1 - 0))
  BY <1>1
<1>3. img.format = "Mono16"
  BY DEF StoreDisparity
<1>4. c = [phase |-> "open", img |-> img, kind |-> "pfm", sec |-> sec, p |-> p, k |-> 0,
           rows |-> <<0, 0, 0>>, greenfirst |-> FALSE, red |-> FALSE,
           rgb |-> <<>>, out |-> <<>>, good |-> TRUE]
  BY Zenon DEF StoreDisparity
<1>. DEFINE rows == <<0, 0, 0>>
<1>5. rows \in [1..3 -> Int]
  OBVIOUS
<1>6. sec \in [y : Nat, h : Nat] /\ sec.y = 0 /\ sec.h = img.height
  BY <1>1
<1>. HIDE DEF sec, p, c, rows
<1>7. /\ c.img = img /\ c.kind = "pfm" /\ c.sec = sec /\ c.p = p /\ c.k = 0
      /\ c.rgb = <<>> /\ c.out = <<>> /\ c.phase = "open"
  BY <1>4
<1>8. c \in [phase : {"convert", "open", "write"}, img : Images, kind : {"pnm", "png", "pfm"},
            sec : [y : Nat, h : Nat], p : Int, k : Nat, rows : [1..3 -> Int],
            greenfirst : BOOLEAN, red : BOOLEAN, rgb : {c.rgb}, out : {c.out},
            good : BOOLEAN]
  BY <1>2, <1>4, <1>5, <1>6, <1>7 DEF rows
<1>9. CallTypes(c)
  BY <1>1, <1>3, <1>6, <1>7, <1>8, EmptyLines DEF CallTypes
<1>10. Ready(c)
  BY <1>2, <1>3, <1>6, <1>7 DEF Ready, Packed
<1>. QED
  BY <1>7, <1>9, <1>10 DEF CallRight, c

\* A record of a call, field by field.
LEMMA CallFields ==
  ASSUME NEW c, CallTypes(c)
  PROVE  /\ c = [phase |-> c.phase, img |-> c.img, kind |-> c.kind, sec |-> c.sec, p |-> c.p,
                 k |-> c.k, rows |-> c.rows, greenfirst |-> c.greenfirst, red |-> c.red,
                 rgb |-> c.rgb, out |-> c.out, good |-> c.good]
         /\ c.phase \in {"convert", "open", "write"} /\ c.img \in Images
         /\ c.kind \in {"pnm", "png", "pfm"} /\ c.sec \in [y : Nat, h : Nat]
         /\ c.sec.y \in Nat /\ c.sec.h \in Nat /\ c.p \in Int /\ c.k \in Nat
         /\ c.rows \in [1..3 -> Int] /\ c.greenfirst \in BOOLEAN /\ c.red \in BOOLEAN
         /\ c.good \in BOOLEAN
  BY DEF CallTypes

\* Each step changes some of the fields.
LEMMA RecordOfCall ==
  ASSUME NEW c, CallTypes(c), NEW e,
         e = [phase |-> e.phase, img |-> c.img, kind |-> c.kind, sec |-> c.sec, p |-> e.p,
              k |-> e.k, rows |-> e.rows, greenfirst |-> e.greenfirst, red |-> e.red,
              rgb |-> e.rgb, out |-> e.out, good |-> e.good],
         e.phase \in {"convert", "open", "write"}, e.p \in Int, e.k \in Nat,
         e.k <= c.sec.h, e.rows \in [1..3 -> Int], e.greenfirst \in BOOLEAN,
         e.red \in BOOLEAN, IsLines(e.rgb), IsLines(e.out), e.good \in BOOLEAN,
         e.phase = "convert" => c.phase = "convert"
  PROVE  CallTypes(e)
<1>1. /\ c.img \in Images /\ c.kind \in {"pnm", "png", "pfm"} /\ c.sec \in [y : Nat, h : Nat]
      /\ c.sec.y + c.sec.h <= c.img.height
      /\ c.kind = "pfm" => c.img.format = "Mono16" /\ c.phase # "convert"
      /\ c.phase = "convert" => c.img.format \notin Packed
  BY CallFields DEF CallTypes
<1>2. e.img = c.img /\ e.kind = c.kind /\ e.sec = c.sec
  OBVIOUS
<1>3. e \in [phase : {"convert", "open", "write"}, img : Images, kind : {"pnm", "png", "pfm"},
            sec : [y : Nat, h : Nat], p : Int, k : Nat, rows : [1..3 -> Int],
            greenfirst : BOOLEAN, red : BOOLEAN, rgb : {e.rgb}, out : {e.out},
            good : BOOLEAN]
  BY <1>1
<1>. QED
  BY <1>1, <1>2, <1>3 DEF CallTypes

\* One line more is right.
LEMMA RightAppended ==
  ASSUME NEW c, NEW e, e.img = c.img, e.kind = c.kind, e.sec = c.sec,
         NEW s, IsLines(s), Right(c, s, Len(s)), NEW line,
         Misplaced(c, Len(s)) \/ line = Expected(c, Len(s))
  PROVE  /\ IsLines(Append(s, line)) /\ Len(Append(s, line)) = Len(s) + 1
         /\ Right(e, Append(s, line), Len(s) + 1)
<1>. DEFINE m == Len(s)
            t == Append(s, line)
<1>1. /\ IsLines(t) /\ m \in Nat /\ Len(t) = m + 1
      /\ \A i \in 1..m : t[i] = s[i]
      /\ t[m + 1] = line
  BY Appended
<1>. HIDE DEF m, t
<1>2. ASSUME NEW j \in 0..((m + 1) - 1) PROVE Misplaced(c, j) \/ t[j + 1] = Expected(c, j)
  <2>1. CASE j = m
    BY <1>1, <2>1 DEF m
  <2>2. CASE j # m
    <3>1. j \in 0..(m - 1) /\ j + 1 \in 1..m
      BY <1>1, <2>2
    <3>2. Misplaced(c, j) \/ s[j + 1] = Expected(c, j)
      BY <3>1 DEF Right, m
    <3>. QED
      BY <1>1, <3>1, <3>2
  <2>. QED
    BY <2>1, <2>2
<1>3. Right(c, t, m + 1)
  BY <1>2 DEF Right
<1>4. Right(e, t, m + 1)
  BY <1>3, SameExpected
<1>. QED
  BY <1>1, <1>4 DEF m, t

\* A line of an image without Bayer pattern.
LEMMA PlainLineRight ==
  ASSUME NEW c, CallTypes(c), c.kind # "pfm", c.img.format \notin Bayer, NEW k \in Nat,
         Written(c.img) = c.img.width
  PROVE  Line(c.img, (c.sec.y + k) * Step(c.img)) = Expected(c, k)
<1>. DEFINE y == c.sec.y + k
<1>1. c.img \in Images /\ y \in Nat
  BY CallFields
<1>2. Expected(c, k) = [i \in 1..c.img.width |-> Plain(c.img, y, i - 1)]
  BY DEF Expected
<1>. HIDE DEF y
<1>3. Line(c.img, y * Step(c.img)) = [i \in 1..c.img.width |-> Plain(c.img, y, i - 1)]
  BY <1>1, LineIsPlain
<1>. QED
  BY <1>2, <1>3 DEF y

LEMMA ConvertLineRight ==
  ASSUME CallInv, ConvertLine
  PROVE  CallRight(call')
<1>. DEFINE c == call
            line == Line(c.img, c.p)
            e == call'
<1>1. CallRight(c)
  BY NotServedPhase DEF CallInv, ConvertLine
<1>. HIDE DEF c
<1>2. CallTypes(c) /\ Converting(c) /\ c.phase = "convert" /\ c.img.format \notin Bayer
      /\ c.k < c.sec.h
  BY <1>1 DEF CallRight, ConvertLine, c
<1>3. e = [c EXCEPT !.k = @ + 1, !.p = @ + Step(c.img), !.rgb = Append(@, line)]
  BY DEF ConvertLine, c
<1>. HIDE DEF e, line
<1>4. /\ c.img \in Images /\ c.k \in Nat /\ c.p \in Int /\ Step(c.img) \in Nat
      /\ c.sec.y \in Nat /\ c.sec.h \in Nat
  BY <1>2, CallFields, StepIsNumber
<1>5. /\ Len(c.rgb) = c.k /\ Right(c, c.rgb, c.k) /\ c.out = <<>>
      /\ c.p = (c.sec.y + c.k) * Step(c.img)
  BY <1>2 DEF Converting
<1>6. c.kind # "pfm" /\ c.img.format \notin Packed
  BY <1>2 DEF CallTypes
<1>7. line = Expected(c, c.k)
  <2>1. Written(c.img) = c.img.width
    BY <1>6 DEF Written, Packed
  <2>. QED
    BY <1>2, <1>4, <1>5, <1>6, <2>1, PlainLineRight DEF line
<1>8. e = [phase |-> c.phase, img |-> c.img, kind |-> c.kind, sec |-> c.sec,
           p |-> c.p + Step(c.img),
           k |-> c.k + 1, rows |-> c.rows, greenfirst |-> c.greenfirst, red |-> c.red,
           rgb |-> Append(c.rgb, line), out |-> c.out, good |-> c.good]
  <2>. DEFINE f == [phase |-> c.phase, img |-> c.img, kind |-> c.kind, sec |-> c.sec,
                    p |-> c.p, k |-> c.k, rows |-> c.rows, greenfirst |-> c.greenfirst,
                    red |-> c.red, rgb |-> c.rgb, out |-> c.out, good |-> c.good]
  <2>1. c = f
    BY <1>2, CallFields, Zenon
  <2>2. e = [f EXCEPT !.k = @ + 1, !.p = @ + Step(c.img), !.rgb = Append(@, line)]
    <3>. HIDE DEF f
    <3>. QED
      BY <1>3, <2>1
  <2>. QED
    BY <2>2
<1>9. /\ IsLines(Append(c.rgb, line)) /\ Len(Append(c.rgb, line)) = c.k + 1
      /\ Right(e, Append(c.rgb, line), c.k + 1)
  <2>1. e.img = c.img /\ e.kind = c.kind /\ e.sec = c.sec
    BY <1>8
  <2>2. IsLines(c.rgb)
    BY <1>2 DEF CallTypes
  <2>. QED
    BY <1>5, <1>7, <2>1, <2>2, RightAppended
<1>10. c.p + Step(c.img) = (c.sec.y + (c.k + 1)) * Step(c.img)
  <2>. DEFINE q == Step(c.img)
              a == c.sec.y + c.k
  <2>1. a \in Nat /\ q \in Nat /\ c.sec.y + (c.k + 1) = a + 1 /\ c.p = a * q
    BY <1>4, <1>5
  <2>. HIDE DEF q, a
  <2>2. a * q + q = (a + 1) * q
    BY <2>1
  <2>. QED
    BY <2>1, <2>2 DEF q
<1>11. CallTypes(e)
  <2>1. /\ e.phase = c.phase /\ e.p = c.p + Step(c.img) /\ e.k = c.k + 1
        /\ e.rows = c.rows /\ e.greenfirst = c.greenfirst /\ e.red = c.red
        /\ e.rgb = Append(c.rgb, line) /\ e.out = c.out /\ e.good = c.good
    BY <1>8
  <2>2. e.k \in Nat /\ e.k <= c.sec.h /\ e.p \in Int
    BY <1>2, <1>4, <2>1
  <2>3. /\ IsLines(e.out) /\ e.rows \in [1..3 -> Int] /\ e.greenfirst \in BOOLEAN
        /\ e.red \in BOOLEAN /\ e.good \in BOOLEAN
        /\ e.phase \in {"convert", "open", "write"}
    BY <1>2, <2>1, CallFields, Zenon DEF CallTypes
  <2>4. IsLines(e.rgb) /\ CallTypes(c)
    BY <1>2, <1>9, <2>1
  <2>5. e = [phase |-> e.phase, img |-> c.img, kind |-> c.kind, sec |-> c.sec, p |-> e.p,
              k |-> e.k, rows |-> e.rows, greenfirst |-> e.greenfirst, red |-> e.red,
              rgb |-> e.rgb, out |-> e.out, good |-> e.good]
    BY <1>8, <2>1, Zenon
  <2>. QED
    BY <2>1, <2>2, <2>3, <2>4, <2>5, RecordOfCall, Zenon
<1>12. Converting(e) /\ e.phase = "convert"
  <2>1. /\ e.img = c.img /\ e.sec = c.sec /\ e.k = c.k + 1 /\ e.out = <<>>
        /\ e.p = c.p + Step(c.img) /\ e.rgb = Append(c.rgb, line) /\ e.phase = c.phase
    BY <1>5, <1>8
  <2>. QED
    BY <1>2, <1>9, <1>10, <2>1 DEF Converting
<1>. QED
  BY <1>11, <1>12 DEF CallRight, e

\* The lines around line k, when it is converted.
LEMMA NextRowsRight ==
  ASSUME NEW c, CallTypes(c), c.img.format \in Bayer, BayerInv(c), c.sec.h >= 2,
         c.k + 1 < c.sec.h
  PROVE  NextRows(c) = RowsFor(c, c.k)
<1>. DEFINE y == c.sec.y
            h == c.sec.h
            k == c.k
            q == Step(c.img)
            R(r) == (y + Mirror(k + r - 2, h)) * q
<1>1. y \in Nat /\ h \in Nat /\ k \in Nat /\ q \in Nat
  BY CallFields, StepIsNumber
<1>2. /\ c.rows[2] = (y + Mirror(k - 1, h)) * q /\ c.rows[3] = (y + k) * q
      /\ c.p = y * q
  BY <1>1 DEF BayerInv
<1>3. RowsFor(c, k) = [r \in 1..3 |-> R(r)]
  BY Zenon DEF RowsFor
<1>4. NextRows(c) = <<c.rows[2], c.rows[3], c.p + (k + 1) * q>>
  BY DEF NextRows
<1>. HIDE DEF y, h, k, q
<1>5. /\ k + 1 - 2 = k - 1 /\ k + 2 - 2 = k /\ k + 3 - 2 = k + 1
      /\ Mirror(k, h) = k /\ Mirror(k + 1, h) = k + 1
  BY <1>1 DEF Mirror, h, k
<1>6. y * q + (k + 1) * q = (y + (k + 1)) * q
  BY <1>1
<1>7. R(1) = c.rows[2] /\ R(2) = c.rows[3] /\ R(3) = c.p + (k + 1) * q
  BY <1>2, <1>5, <1>6
<1>. HIDE DEF R
<1>8. [r \in 1..3 |-> R(r)] = <<R(1), R(2), R(3)>>
  OBVIOUS
<1>. QED
  BY <1>3, <1>4, <1>7, <1>8 DEF k

LEMMA ConvertBayerLineRight ==
  ASSUME CallInv, ConvertBayerLine
  PROVE  CallRight(call')
<1>. DEFINE c == call
            rows == NextRows(c)
            line == BayerLine(c.img, rows, c.greenfirst, c.red)
            e == call'
<1>1. CallRight(c)
  BY NotServedPhase DEF CallInv, ConvertBayerLine
<1>. HIDE DEF c
<1>2. CallTypes(c) /\ Converting(c) /\ c.phase = "convert" /\ c.img.format \in Bayer
      /\ c.k < c.sec.h
  BY <1>1 DEF CallRight, ConvertBayerLine, c
<1>3. e = [c EXCEPT !.rows = rows, !.k = @ + 1, !.greenfirst = ~@, !.red = ~@,
                    !.rgb = Append(@, line)]
  BY DEF ConvertBayerLine, c
<1>. HIDE DEF e, line, rows
<1>4. /\ c.img \in Images /\ c.k \in Nat /\ c.p \in Int /\ Step(c.img) \in Nat
      /\ c.sec.y \in Nat /\ c.sec.h \in Nat /\ c.rows \in [1..3 -> Int]
      /\ c.greenfirst \in BOOLEAN /\ c.red \in BOOLEAN
  BY <1>2, CallFields, StepIsNumber
<1>5. Len(c.rgb) = c.k /\ Right(c, c.rgb, c.k) /\ c.out = <<>> /\ BayerInv(c)
  BY <1>2 DEF Converting
<1>6. c.kind # "pfm" /\ c.img.format \notin Packed
  BY <1>2 DEF CallTypes
<1>7. Misplaced(c, c.k) \/ line = Expected(c, c.k)
  <2>. SUFFICES ASSUME BayerCovers(c, c.k) PROVE line = Expected(c, c.k)
    BY <1>2 DEF Misplaced
  <2>1. Even(c.sec.y) /\ c.sec.h >= 2 /\ c.k \in 0..(c.sec.h - 2) /\ c.k + 1 < c.sec.h
    BY <1>4 DEF BayerCovers, Even
  <2>2. rows = RowsFor(c, c.k)
    BY <1>2, <1>5, <2>1, NextRowsRight DEF rows
  <2>3. /\ c.greenfirst <=> (Even(c.k) <=> c.img.format \in {"GR", "GB"})
        /\ c.red <=> RedAt(c.img, c.k)
    BY <1>5 DEF BayerInv
  <2>4. BayerLine(c.img, RowsFor(c, c.k), c.greenfirst, c.red) =
           [i \in 1..c.img.width |->
              <<Nearest(c, "red", c.k, i - 1), Nearest(c, "green", c.k, i - 1),
                Nearest(c, "blue", c.k, i - 1)>>]
    BY <1>2, <1>4, <2>1, <2>3, BayerLineIsNearest
  <2>5. Expected(c, c.k) =
           [i \in 1..c.img.width |->
              <<Nearest(c, "red", c.k, i - 1), Nearest(c, "green", c.k, i - 1),
                Nearest(c, "blue", c.k, i - 1)>>]
    BY <1>2, <1>6 DEF Expected
  <2>. QED
    BY <2>2, <2>4, <2>5 DEF line
<1>8. e = [phase |-> c.phase, img |-> c.img, kind |-> c.kind, sec |-> c.sec,
           p |-> c.p, k |-> c.k + 1, rows |-> rows,
           greenfirst |-> ~c.greenfirst, red |-> ~c.red,
           rgb |-> Append(c.rgb, line), out |-> c.out, good |-> c.good]
  <2>. DEFINE f == [phase |-> c.phase, img |-> c.img, kind |-> c.kind, sec |-> c.sec,
                    p |-> c.p, k |-> c.k, rows |-> c.rows, greenfirst |-> c.greenfirst,
                    red |-> c.red, rgb |-> c.rgb, out |-> c.out, good |-> c.good]
  <2>1. c = f
    BY <1>2, CallFields, Zenon
  <2>2. e = [f EXCEPT !.rows = rows, !.k = @ + 1, !.greenfirst = ~@, !.red = ~@,
                      !.rgb = Append(@, line)]
    <3>. HIDE DEF f
    <3>. QED
      BY <1>3, <2>1
  <2>. QED
    BY <2>2
<1>9. /\ e.phase = c.phase /\ e.img = c.img /\ e.kind = c.kind /\ e.sec = c.sec
      /\ e.p = c.p /\ e.k = c.k + 1 /\ e.rows = rows
      /\ e.greenfirst = ~c.greenfirst /\ e.red = ~c.red
      /\ e.rgb = Append(c.rgb, line) /\ e.out = c.out /\ e.good = c.good
  BY <1>8
<1>10. IsLines(e.rgb) /\ Len(e.rgb) = e.k /\ Right(e, e.rgb, e.k)
  <2>1. IsLines(c.rgb)
    BY <1>2 DEF CallTypes
  <2>. QED
    BY <1>5, <1>7, <1>9, <2>1, RightAppended
<1>11. rows \in [1..3 -> Int]
  <2>1. c.p + (c.k + 1) * Step(c.img) \in Int
    BY <1>4
  <2>. QED
    BY <1>4, <2>1 DEF rows, NextRows
<1>12. CallTypes(e)
  <2>1. e.k \in Nat /\ e.k <= c.sec.h /\ e.p \in Int
    BY <1>2, <1>4, <1>9
  <2>2. /\ IsLines(e.out) /\ e.good \in BOOLEAN /\ e.phase \in {"convert", "open", "write"}
    BY <1>2, <1>9, CallFields, Zenon DEF CallTypes
  <2>3. e.rows \in [1..3 -> Int] /\ e.greenfirst \in BOOLEAN /\ e.red \in BOOLEAN
    BY <1>4, <1>9, <1>11
  <2>4. e = [phase |-> e.phase, img |-> c.img, kind |-> c.kind, sec |-> c.sec, p |-> e.p,
              k |-> e.k, rows |-> e.rows, greenfirst |-> e.greenfirst, red |-> e.red,
              rgb |-> e.rgb, out |-> e.out, good |-> e.good]
    BY <1>8, <1>9, Zenon
  <2>. QED
    BY <1>2, <1>9, <1>10, <2>1, <2>2, <2>3, <2>4, RecordOfCall, Zenon
<1>13. BayerInv(e)
  <2>1. Even(c.k + 1) <=> ~Even(c.k)
    BY <1>4 DEF Even
  <2>2. e.greenfirst <=> (Even(e.k) <=> e.img.format \in {"GR", "GB"})
    BY <1>5, <1>9, <2>1 DEF BayerInv
  <2>3. e.red <=> RedAt(e.img, e.k)
    BY <1>5, <1>9, <2>1 DEF BayerInv, RedAt
  <2>4. e.p = e.sec.y * Step(e.img)
    BY <1>5, <1>9 DEF BayerInv
  <2>5. ASSUME e.sec.h >= 2, e.k < e.sec.h
        PROVE  /\ e.rows[2] = (e.sec.y + Mirror(e.k - 1, e.sec.h)) * Step(e.img)
               /\ e.rows[3] = (e.sec.y + e.k) * Step(e.img)
    <3>1. rows = RowsFor(c, c.k)
      BY <1>2, <1>5, <1>9, <2>5, NextRowsRight DEF rows
    <3>2. /\ rows[2] = (c.sec.y + Mirror(c.k + 2 - 2, c.sec.h)) * Step(c.img)
          /\ rows[3] = (c.sec.y + Mirror(c.k + 3 - 2, c.sec.h)) * Step(c.img)
      BY <3>1 DEF RowsFor
    <3>3. c.k + 2 - 2 = e.k - 1 /\ c.k + 3 - 2 = e.k
      BY <1>4, <1>9
    <3>4. Mirror(e.k, c.sec.h) = e.k
      BY <1>4, <1>9, <2>5 DEF Mirror
    <3>. QED
      BY <1>9, <3>2, <3>3, <3>4
  <2>. QED
    BY <2>2, <2>3, <2>4, <2>5 DEF BayerInv
<1>14. Converting(e) /\ e.phase = "convert"
  BY <1>2, <1>5, <1>9, <1>10, <1>13 DEF Converting
<1>. QED
  BY <1>12, <1>14 DEF CallRight, e

\* All lines are converted.
LEMMA ConvertedRight ==
  ASSUME CallInv, Converted
  PROVE  CallRight(call')
<1>. DEFINE c == call
            e == call'
<1>1. CallRight(c)
  BY NotServedPhase DEF CallInv, Converted
<1>. HIDE DEF c
<1>2. CallTypes(c) /\ Converting(c) /\ c.k = c.sec.h /\ c.phase = "convert"
  BY <1>1 DEF CallRight, Converted, c
<1>3. e = [c EXCEPT !.phase = "open", !.k = 0]
  BY DEF Converted, c
<1>. HIDE DEF e
<1>4. e = [phase |-> "open", img |-> c.img, kind |-> c.kind, sec |-> c.sec,
           p |-> c.p, k |-> 0, rows |-> c.rows, greenfirst |-> c.greenfirst,
           red |-> c.red, rgb |-> c.rgb, out |-> c.out, good |-> c.good]
  <2>. DEFINE f == [phase |-> c.phase, img |-> c.img, kind |-> c.kind, sec |-> c.sec,
                    p |-> c.p, k |-> c.k, rows |-> c.rows, greenfirst |-> c.greenfirst,
                    red |-> c.red, rgb |-> c.rgb, out |-> c.out, good |-> c.good]
  <2>1. c = f
    BY <1>2, CallFields, Zenon
  <2>2. e = [f EXCEPT !.phase = "open", !.k = 0]
    <3>. HIDE DEF f
    <3>. QED
      BY <1>3, <2>1
  <2>. QED
    BY <2>2
<1>5. /\ e.img = c.img /\ e.kind = c.kind /\ e.sec = c.sec /\ e.rows = c.rows
      /\ e.greenfirst = c.greenfirst /\ e.red = c.red /\ e.rgb = c.rgb
      /\ e.phase = "open" /\ e.p = c.p /\ e.k = 0
      /\ e.out = c.out /\ e.good = c.good
  BY <1>4
<1>6. /\ c.k \in Nat /\ c.p \in Int /\ c.rows \in [1..3 -> Int]
      /\ c.greenfirst \in BOOLEAN /\ c.red \in BOOLEAN /\ c.good \in BOOLEAN
      /\ IsLines(c.rgb) /\ IsLines(c.out) /\ c.k <= c.sec.h /\ c.sec.h \in Nat
  BY <1>2, CallFields, Zenon DEF CallTypes
<1>7. e = [phase |-> e.phase, img |-> c.img, kind |-> c.kind, sec |-> c.sec, p |-> e.p,
           k |-> e.k, rows |-> e.rows, greenfirst |-> e.greenfirst, red |-> e.red,
           rgb |-> e.rgb, out |-> e.out, good |-> e.good]
  BY <1>4, <1>5, Zenon
<1>10. CallTypes(e)
  <2>1. /\ e.phase \in {"convert", "open", "write"}
        /\ (e.phase = "convert" => c.phase = "convert")
    BY <1>2, <1>5
  <2>2. /\ e.k \in Nat /\ e.k <= c.sec.h /\ e.p \in Int /\ IsLines(e.out)
        /\ e.good \in BOOLEAN
    BY <1>2, <1>5, <1>6
  <2>3. /\ e.rows \in [1..3 -> Int] /\ e.greenfirst \in BOOLEAN /\ e.red \in BOOLEAN
        /\ IsLines(e.rgb)
    BY <1>5, <1>6, Zenon
  <2>. QED
    BY <1>2, <1>7, <2>1, <2>2, <2>3, RecordOfCall, Zenon
<1>11. e.phase = "open" /\ Ready(e) /\ e.k = 0 /\ e.out = <<>>
  <2>1. Len(c.rgb) = c.sec.h /\ Right(c, c.rgb, c.sec.h) /\ c.out = <<>>
    BY <1>2 DEF Converting
  <2>2. Right(e, c.rgb, c.sec.h)
    BY <1>5, <2>1, SameExpected
  <2>3. c.kind # "pfm" /\ c.img.format \notin Packed
    BY <1>2 DEF CallTypes
  <2>. QED
    BY <1>5, <2>1, <2>2, <2>3 DEF Ready
<1>. QED
  BY <1>10, <1>11 DEF CallRight, e

LEMMA OpenFileRight ==
  ASSUME CallInv, OpenFile
  PROVE  CallRight(call')
<1>. DEFINE c == call
            e == call'
<1>1. CallRight(c)
  BY NotServedPhase DEF CallInv, OpenFile
<1>. HIDE DEF c
<1>2. CallTypes(c) /\ Ready(c) /\ c.k = 0 /\ c.out = <<>>
  BY <1>1 DEF CallRight, OpenFile, c
<1>3. e = [c EXCEPT !.phase = "write"]
  BY DEF OpenFile, c
<1>. HIDE DEF e
<1>4. e = [phase |-> "write", img |-> c.img, kind |-> c.kind, sec |-> c.sec,
           p |-> c.p, k |-> c.k, rows |-> c.rows, greenfirst |-> c.greenfirst,
           red |-> c.red, rgb |-> c.rgb, out |-> c.out, good |-> c.good]
  <2>. DEFINE f == [phase |-> c.phase, img |-> c.img, kind |-> c.kind, sec |-> c.sec,
                    p |-> c.p, k |-> c.k, rows |-> c.rows, greenfirst |-> c.greenfirst,
                    red |-> c.red, rgb |-> c.rgb, out |-> c.out, good |-> c.good]
  <2>1. c = f
    BY <1>2, CallFields, Zenon
  <2>2. e = [f EXCEPT !.phase = "write"]
    <3>. HIDE DEF f
    <3>. QED
      BY <1>3, <2>1
  <2>. QED
    BY <2>2
<1>5. /\ e.img = c.img /\ e.kind = c.kind /\ e.sec = c.sec /\ e.rows = c.rows
      /\ e.greenfirst = c.greenfirst /\ e.red = c.red /\ e.rgb = c.rgb
      /\ e.phase = "write" /\ e.p = c.p /\ e.k = c.k
      /\ e.out = c.out /\ e.good = c.good
  BY <1>4
<1>6. /\ c.k \in Nat /\ c.p \in Int /\ c.rows \in [1..3 -> Int]
      /\ c.greenfirst \in BOOLEAN /\ c.red \in BOOLEAN /\ c.good \in BOOLEAN
      /\ IsLines(c.rgb) /\ IsLines(c.out) /\ c.k <= c.sec.h /\ c.sec.h \in Nat
  BY <1>2, CallFields, Zenon DEF CallTypes
<1>7. e = [phase |-> e.phase, img |-> c.img, kind |-> c.kind, sec |-> c.sec, p |-> e.p,
           k |-> e.k, rows |-> e.rows, greenfirst |-> e.greenfirst, red |-> e.red,
           rgb |-> e.rgb, out |-> e.out, good |-> e.good]
  BY <1>4, <1>5, Zenon
<1>10. CallTypes(e)
  <2>1. /\ e.phase \in {"convert", "open", "write"}
        /\ (e.phase = "convert" => c.phase = "convert")
    BY <1>2, <1>5
  <2>2. /\ e.k \in Nat /\ e.k <= c.sec.h /\ e.p \in Int /\ IsLines(e.out)
        /\ e.good \in BOOLEAN
    BY <1>2, <1>5, <1>6
  <2>3. /\ e.rows \in [1..3 -> Int] /\ e.greenfirst \in BOOLEAN /\ e.red \in BOOLEAN
        /\ IsLines(e.rgb)
    BY <1>5, <1>6, Zenon
  <2>. QED
    BY <1>2, <1>7, <2>1, <2>2, <2>3, RecordOfCall, Zenon
<1>11. e.phase = "write" /\ Ready(e) /\ Len(e.out) = e.k /\ Right(e, e.out, e.k)
  <2>1. Right(c, c.rgb, c.sec.h) \/ c.img.format \in Packed
    BY <1>2 DEF Ready
  <2>2. Right(c, c.rgb, c.sec.h) => Right(e, c.rgb, c.sec.h)
    BY <1>5, SameExpected
  <2>3. Ready(e)
    BY <1>2, <1>5, <2>1, <2>2 DEF Ready
  <2>4. Len(e.out) = e.k /\ Right(e, e.out, e.k)
    BY <1>2, <1>5, EmptyLines, NothingIsRight
  <2>. QED
    BY <1>5, <2>3, <2>4
<1>. QED
  BY <1>10, <1>11 DEF CallRight, e

LEMMA OpenFailsRight ==
  ASSUME CallInv, OpenFails, call.kind # "png"
  PROVE  CallRight(call')
<1>. DEFINE c == call
            e == call'
<1>1. CallRight(c)
  BY NotServedPhase DEF CallInv, OpenFails
<1>. HIDE DEF c
<1>2. CallTypes(c) /\ Ready(c) /\ c.k = 0 /\ c.out = <<>>
  BY <1>1 DEF CallRight, OpenFails, c
<1>3. e = [c EXCEPT !.phase = "write", !.good = FALSE]
  BY DEF OpenFails, c
<1>. HIDE DEF e
<1>4. e = [phase |-> "write", img |-> c.img, kind |-> c.kind, sec |-> c.sec,
           p |-> c.p, k |-> c.k, rows |-> c.rows, greenfirst |-> c.greenfirst,
           red |-> c.red, rgb |-> c.rgb, out |-> c.out, good |-> FALSE]
  <2>. DEFINE f == [phase |-> c.phase, img |-> c.img, kind |-> c.kind, sec |-> c.sec,
                    p |-> c.p, k |-> c.k, rows |-> c.rows, greenfirst |-> c.greenfirst,
                    red |-> c.red, rgb |-> c.rgb, out |-> c.out, good |-> c.good]
  <2>1. c = f
    BY <1>2, CallFields, Zenon
  <2>2. e = [f EXCEPT !.phase = "write", !.good = FALSE]
    <3>. HIDE DEF f
    <3>. QED
      BY <1>3, <2>1
  <2>. QED
    BY <2>2
<1>5. /\ e.img = c.img /\ e.kind = c.kind /\ e.sec = c.sec /\ e.rows = c.rows
      /\ e.greenfirst = c.greenfirst /\ e.red = c.red /\ e.rgb = c.rgb
      /\ e.phase = "write" /\ e.p = c.p /\ e.k = c.k
      /\ e.out = c.out /\ e.good = FALSE
  BY <1>4
<1>6. /\ c.k \in Nat /\ c.p \in Int /\ c.rows \in [1..3 -> Int]
      /\ c.greenfirst \in BOOLEAN /\ c.red \in BOOLEAN /\ c.good \in BOOLEAN
      /\ IsLines(c.rgb) /\ IsLines(c.out) /\ c.k <= c.sec.h /\ c.sec.h \in Nat
  BY <1>2, CallFields, Zenon DEF CallTypes
<1>7. e = [phase |-> e.phase, img |-> c.img, kind |-> c.kind, sec |-> c.sec, p |-> e.p,
           k |-> e.k, rows |-> e.rows, greenfirst |-> e.greenfirst, red |-> e.red,
           rgb |-> e.rgb, out |-> e.out, good |-> e.good]
  BY <1>4, <1>5, Zenon
<1>10. CallTypes(e)
  <2>1. /\ e.phase \in {"convert", "open", "write"}
        /\ (e.phase = "convert" => c.phase = "convert")
    BY <1>2, <1>5
  <2>2. /\ e.k \in Nat /\ e.k <= c.sec.h /\ e.p \in Int /\ IsLines(e.out)
        /\ e.good \in BOOLEAN
    BY <1>2, <1>5, <1>6
  <2>3. /\ e.rows \in [1..3 -> Int] /\ e.greenfirst \in BOOLEAN /\ e.red \in BOOLEAN
        /\ IsLines(e.rgb)
    BY <1>5, <1>6, Zenon
  <2>. QED
    BY <1>2, <1>7, <2>1, <2>2, <2>3, RecordOfCall, Zenon
<1>11. e.phase = "write" /\ Ready(e) /\ Len(e.out) = e.k /\ Right(e, e.out, e.k)
  <2>1. Right(c, c.rgb, c.sec.h) \/ c.img.format \in Packed
    BY <1>2 DEF Ready
  <2>2. Right(c, c.rgb, c.sec.h) => Right(e, c.rgb, c.sec.h)
    BY <1>5, SameExpected
  <2>3. Ready(e)
    BY <1>2, <1>5, <2>1, <2>2 DEF Ready
  <2>4. Len(e.out) = e.k /\ Right(e, e.out, e.k)
    BY <1>2, <1>5, EmptyLines, NothingIsRight
  <2>. QED
    BY <1>5, <2>3, <2>4
<1>. QED
  BY <1>10, <1>11 DEF CallRight, e

LEMMA DiskFullRight ==
  ASSUME CallInv, DiskFull
  PROVE  CallRight(call')
<1>. DEFINE c == call
            e == call'
<1>1. CallRight(c)
  BY NotServedPhase DEF CallInv, DiskFull
<1>. HIDE DEF c
<1>2. CallTypes(c) /\ Ready(c) /\ Len(c.out) = c.k /\ Right(c, c.out, c.k) /\ c.phase = "write"
  BY <1>1 DEF CallRight, DiskFull, c
<1>3. e = [c EXCEPT !.good = FALSE]
  BY DEF DiskFull, c
<1>. HIDE DEF e
<1>4. e = [phase |-> c.phase, img |-> c.img, kind |-> c.kind, sec |-> c.sec,
           p |-> c.p, k |-> c.k, rows |-> c.rows, greenfirst |-> c.greenfirst,
           red |-> c.red, rgb |-> c.rgb, out |-> c.out, good |-> FALSE]
  <2>. DEFINE f == [phase |-> c.phase, img |-> c.img, kind |-> c.kind, sec |-> c.sec,
                    p |-> c.p, k |-> c.k, rows |-> c.rows, greenfirst |-> c.greenfirst,
                    red |-> c.red, rgb |-> c.rgb, out |-> c.out, good |-> c.good]
  <2>1. c = f
    BY <1>2, CallFields, Zenon
  <2>2. e = [f EXCEPT !.good = FALSE]
    <3>. HIDE DEF f
    <3>. QED
      BY <1>3, <2>1
  <2>. QED
    BY <2>2
<1>5. /\ e.img = c.img /\ e.kind = c.kind /\ e.sec = c.sec /\ e.rows = c.rows
      /\ e.greenfirst = c.greenfirst /\ e.red = c.red /\ e.rgb = c.rgb
      /\ e.phase = c.phase /\ e.p = c.p /\ e.k = c.k
      /\ e.out = c.out /\ e.good = FALSE
  BY <1>4
<1>6. /\ c.k \in Nat /\ c.p \in Int /\ c.rows \in [1..3 -> Int]
      /\ c.greenfirst \in BOOLEAN /\ c.red \in BOOLEAN /\ c.good \in BOOLEAN
      /\ IsLines(c.rgb) /\ IsLines(c.out) /\ c.k <= c.sec.h /\ c.sec.h \in Nat
  BY <1>2, CallFields, Zenon DEF CallTypes
<1>7. e = [phase |-> e.phase, img |-> c.img, kind |-> c.kind, sec |-> c.sec, p |-> e.p,
           k |-> e.k, rows |-> e.rows, greenfirst |-> e.greenfirst, red |-> e.red,
           rgb |-> e.rgb, out |-> e.out, good |-> e.good]
  BY <1>4, <1>5, Zenon
<1>10. CallTypes(e)
  <2>1. /\ e.phase \in {"convert", "open", "write"}
        /\ (e.phase = "convert" => c.phase = "convert")
    BY <1>2, <1>5
  <2>2. /\ e.k \in Nat /\ e.k <= c.sec.h /\ e.p \in Int /\ IsLines(e.out)
        /\ e.good \in BOOLEAN
    BY <1>2, <1>5, <1>6
  <2>3. /\ e.rows \in [1..3 -> Int] /\ e.greenfirst \in BOOLEAN /\ e.red \in BOOLEAN
        /\ IsLines(e.rgb)
    BY <1>5, <1>6, Zenon
  <2>. QED
    BY <1>2, <1>7, <2>1, <2>2, <2>3, RecordOfCall, Zenon
<1>11. e.phase = "write" /\ Ready(e) /\ Len(e.out) = e.k /\ Right(e, e.out, e.k)
  <2>1. Right(c, c.rgb, c.sec.h) \/ c.img.format \in Packed
    BY <1>2 DEF Ready
  <2>2. Right(c, c.rgb, c.sec.h) => Right(e, c.rgb, c.sec.h)
    BY <1>5, SameExpected
  <2>3. Ready(e)
    BY <1>2, <1>5, <2>1, <2>2 DEF Ready
  <2>4. Right(e, c.out, c.k)
    BY <1>2, <1>5, SameExpected
  <2>. QED
    BY <1>2, <1>5, <2>3, <2>4
<1>. QED
  BY <1>10, <1>11 DEF CallRight, e

\* The line that is written next, and the address after it.
NextOf(c) ==
  CASE c.kind = "pfm" -> WriteDisparities(c)
    [] c.kind # "pfm" /\ c.img.format \in Packed -> WritePixels(c)
    [] OTHER -> [line |-> c.rgb[c.k + 1], p |-> c.p]

LEMMA NextLine ==
  ASSUME NEW c, CallTypes(c), Ready(c), c.k < c.sec.h
  PROVE  LET next == NextOf(c)
         IN  /\ next.p \in Int
             /\ Misplaced(c, c.k) \/ next.line = Expected(c, c.k)
             /\ c.kind = "pfm" /\ c.img.px = 0 =>
                  next.p = 2 * c.img.width * (c.sec.h + 1 - (c.k + 1))
             /\ c.kind # "pfm" /\ c.img.format \in Packed =>
                  next.p = (c.sec.y + (c.k + 1)) * Step(c.img)
<1>. DEFINE next == NextOf(c)
<1>1. /\ c.img \in Images /\ c.k \in Nat /\ c.p \in Int /\ c.sec.y \in Nat
      /\ c.sec.h \in Nat /\ Step(c.img) \in Nat
  BY CallFields, StepIsNumber
<1>2. c.img.width \in Nat /\ c.img.px \in Nat
  BY <1>1, ImagesHaveSizes
<1>3. CASE c.kind = "pfm"
  <2>1. next = WriteDisparities(c)
    BY <1>3 DEF NextOf
  <2>2. c.img.format = "Mono16"
    BY <1>3 DEF CallTypes
  <2>3. next.p \in Int
    <3>1. next.p = c.p - 4 * (c.img.width + c.img.px) + c.img.width * (2 + c.img.px)
      BY <2>1 DEF WriteDisparities
    <3>. QED
      BY <1>1, <1>2, <3>1
  <2>4. CASE c.img.px = 0
    <3>1. c.p = 2 * c.img.width * (c.sec.h + 1 - c.k)
      BY <1>3, <2>4 DEF Ready
    <3>2. c.k \in 0..(c.sec.h - 1)
      BY <1>1
    <3>3. /\ WriteDisparities(c).line =
              [i \in 1..c.img.width |-> Plain(c.img, c.sec.h - 1 - c.k, i - 1)]
          /\ WriteDisparities(c).p = 2 * c.img.width * (c.sec.h + 1 - (c.k + 1))
      BY <1>1, <2>2, <2>4, <3>1, <3>2, DisparitiesArePlain
    <3>4. Expected(c, c.k) =
              [i \in 1..c.img.width |-> Plain(c.img, c.sec.h - 1 - c.k, i - 1)]
      BY <1>3 DEF Expected
    <3>. QED
      BY <1>3, <2>1, <2>3, <3>3, <3>4
  <2>5. CASE c.img.px # 0
    <3>1. Misplaced(c, c.k)
      BY <1>2, <1>3, <2>5 DEF Misplaced
    <3>. QED
      BY <1>3, <2>3, <2>5, <3>1
  <2>. QED
    BY <2>4, <2>5
<1>4. CASE c.kind # "pfm" /\ c.img.format \in Packed
  <2>1. next.line = Line(c.img, c.p) /\ next.p = c.p + Step(c.img)
    BY <1>4 DEF NextOf, WritePixels
  <2>2. c.p = (c.sec.y + c.k) * Step(c.img)
    BY <1>4 DEF Ready
  <2>3. c.img.format \notin Bayer
    BY <1>4 DEF Packed, Groups, Bayer
  <2>4. Misplaced(c, c.k) \/ next.line = Expected(c, c.k)
    <3>1. CASE Written(c.img) = c.img.width
      BY <1>1, <1>4, <2>1, <2>2, <2>3, <3>1, PlainLineRight
    <3>2. CASE Written(c.img) # c.img.width
      <4>1. c.img.format \in Groups
        BY <3>2 DEF Written
      <4>2. Written(c.img) >= c.img.width
        BY <1>2, <4>1 DEF Written
      <4>3. Written(c.img) \in Nat
        BY <1>2, <4>1 DEF Written
      <4>. QED
        BY <1>2, <3>2, <4>1, <4>2, <4>3 DEF Misplaced
    <3>. QED
      BY <3>1, <3>2
  <2>5. next.p = (c.sec.y + (c.k + 1)) * Step(c.img)
    <3>. DEFINE q == Step(c.img)
                a == c.sec.y + c.k
    <3>1. a \in Nat /\ q \in Nat /\ c.sec.y + (c.k + 1) = a + 1
      BY <1>1
    <3>2. next.p = a * q + q
      BY <2>1, <2>2
    <3>. HIDE DEF q, a
    <3>3. a * q + q = (a + 1) * q
      BY <3>1
    <3>. QED
      BY <3>1, <3>2, <3>3 DEF q
  <2>6. next.p \in Int
    BY <1>1, <2>1
  <2>. QED
    BY <1>4, <2>4, <2>5, <2>6
<1>5. CASE c.kind # "pfm" /\ c.img.format \notin Packed
  <2>1. next.line = c.rgb[c.k + 1] /\ next.p = c.p
    BY <1>5 DEF NextOf
  <2>2. Right(c, c.rgb, c.sec.h) /\ c.k \in 0..(c.sec.h - 1)
    BY <1>1, <1>5 DEF Ready
  <2>. QED
    BY <1>1, <1>5, <2>1, <2>2 DEF Right
<1>. QED
  BY <1>3, <1>4, <1>5

LEMMA WriteLineRight ==
  ASSUME CallInv, WriteLine
  PROVE  CallRight(call')
<1>. DEFINE c == call
            e == call'
            next == NextOf(call)
<1>1. CallRight(c)
  BY NotServedPhase DEF CallInv, WriteLine
<1>. HIDE DEF c, next
<1>2. CallTypes(c) /\ Ready(c) /\ Len(c.out) = c.k /\ Right(c, c.out, c.k)
      /\ c.phase = "write" /\ c.k < c.sec.h
  BY <1>1 DEF CallRight, WriteLine, c
<1>3. e = [c EXCEPT !.k = @ + 1, !.p = next.p, !.out = Append(@, next.line)]
  BY Zenon DEF WriteLine, c, next, NextOf
<1>. HIDE DEF e
<1>12. next = NextOf(c)
  BY DEF next, c
<1>4. e = [phase |-> c.phase, img |-> c.img, kind |-> c.kind, sec |-> c.sec,
           p |-> next.p, k |-> c.k + 1, rows |-> c.rows, greenfirst |-> c.greenfirst,
           red |-> c.red, rgb |-> c.rgb, out |-> Append(c.out, next.line), good |-> c.good]
  <2>. DEFINE f == [phase |-> c.phase, img |-> c.img, kind |-> c.kind, sec |-> c.sec,
                    p |-> c.p, k |-> c.k, rows |-> c.rows, greenfirst |-> c.greenfirst,
                    red |-> c.red, rgb |-> c.rgb, out |-> c.out, good |-> c.good]
  <2>1. c = f
    BY <1>2, CallFields, Zenon
  <2>2. e = [f EXCEPT !.k = @ + 1, !.p = next.p, !.out = Append(@, next.line)]
    <3>. HIDE DEF f
    <3>. QED
      BY <1>3, <2>1
  <2>. QED
    BY <2>2
<1>5. /\ e.img = c.img /\ e.kind = c.kind /\ e.sec = c.sec /\ e.rows = c.rows
      /\ e.greenfirst = c.greenfirst /\ e.red = c.red /\ e.rgb = c.rgb
      /\ e.phase = c.phase /\ e.p = next.p /\ e.k = c.k + 1
      /\ e.out = Append(c.out, next.line) /\ e.good = c.good
  BY <1>4
<1>6. /\ c.k \in Nat /\ c.p \in Int /\ c.rows \in [1..3 -> Int]
      /\ c.greenfirst \in BOOLEAN /\ c.red \in BOOLEAN /\ c.good \in BOOLEAN
      /\ IsLines(c.rgb) /\ IsLines(c.out) /\ c.k <= c.sec.h /\ c.sec.h \in Nat
  BY <1>2, CallFields, Zenon DEF CallTypes
<1>7. e = [phase |-> e.phase, img |-> c.img, kind |-> c.kind, sec |-> c.sec, p |-> e.p,
           k |-> e.k, rows |-> e.rows, greenfirst |-> e.greenfirst, red |-> e.red,
           rgb |-> e.rgb, out |-> e.out, good |-> e.good]
  BY <1>4, <1>5, Zenon
<1>8. next.p \in Int /\ (Misplaced(c, c.k) \/ next.line = Expected(c, c.k))
  BY <1>2, <1>12, NextLine
<1>9. /\ IsLines(Append(c.out, next.line)) /\ Len(Append(c.out, next.line)) = c.k + 1
      /\ Right(e, Append(c.out, next.line), c.k + 1)
  BY <1>2, <1>5, <1>6, <1>8, RightAppended
<1>10. CallTypes(e)
  <2>1. /\ e.phase \in {"convert", "open", "write"}
        /\ (e.phase = "convert" => c.phase = "convert")
    BY <1>2, <1>5
  <2>2. /\ e.k \in Nat /\ e.k <= c.sec.h /\ e.p \in Int /\ IsLines(e.out)
        /\ e.good \in BOOLEAN
    BY <1>2, <1>5, <1>6, <1>8, <1>9
  <2>3. /\ e.rows \in [1..3 -> Int] /\ e.greenfirst \in BOOLEAN /\ e.red \in BOOLEAN
        /\ IsLines(e.rgb)
    BY <1>5, <1>6, Zenon
  <2>. QED
    BY <1>2, <1>7, <2>1, <2>2, <2>3, RecordOfCall, Zenon
<1>11. e.phase = "write" /\ Ready(e) /\ Len(e.out) = e.k /\ Right(e, e.out, e.k)
  <2>1. Right(c, c.rgb, c.sec.h) \/ c.img.format \in Packed
    BY <1>2 DEF Ready
  <2>2. Right(c, c.rgb, c.sec.h) => Right(e, c.rgb, c.sec.h)
    BY <1>5, SameExpected
  <2>3. /\ c.kind = "pfm" /\ c.img.px = 0 =>
              next.p = 2 * c.img.width * (c.sec.h + 1 - (c.k + 1))
        /\ c.kind # "pfm" /\ c.img.format \in Packed =>
              next.p = (c.sec.y + (c.k + 1)) * Step(c.img)
    BY <1>2, <1>12, NextLine
  <2>4. Ready(e)
    BY <1>2, <1>5, <2>1, <2>2, <2>3 DEF Ready
  <2>. QED
    BY <1>2, <1>5, <1>9, <2>4
<1>. QED
  BY <1>10, <1>11 DEF CallRight, e

LEMMA CallInvInit == Init => CallInv
  BY DEF Init, StoresImages, StoresCloud, StoreInit, CallInv, NotServed

LEMMA CallInvStep ==
  ASSUME CallInv, [Next]_vars
  PROVE  CallInv'
<1>1. ASSUME CallRight(call') PROVE CallInv'
  BY <1>1 DEF CallInv
<1>2. CASE StoreNext
  <2>1. CASE \E img \in Images :
               \/ \E kind \in {"pnm", "png"}, y \in 0..(img.height + 1), h \in 0..img.height :
                    StoreImage(img, kind, y, h)
               \/ StoreDisparity(img)
    BY <1>1, <2>1, StoreImageRight, StoreDisparityRight
  <2>2. CASE ConvertLine
    BY <1>1, <2>2, ConvertLineRight
  <2>3. CASE ConvertBayerLine
    BY <1>1, <2>3, ConvertBayerLineRight
  <2>4. CASE Converted
    BY <1>1, <2>4, ConvertedRight
  <2>5. CASE OpenFile
    BY <1>1, <2>5, OpenFileRight
  <2>6. CASE OpenFails
    <3>1. CASE call.kind = "png"
      BY <2>6, <3>1 DEF OpenFails, CallInv, NotServed
    <3>2. CASE call.kind # "png"
      BY <1>1, <2>6, <3>2, OpenFailsRight
    <3>. QED
      BY <3>1, <3>2
  <2>7. CASE WriteLine
    BY <1>1, <2>7, WriteLineRight
  <2>8. CASE DiskFull
    BY <1>1, <2>8, DiskFullRight
  <2>9. CASE Return
    BY <2>9 DEF Return, CallInv, NotServed
  <2>10. CASE OverrunLine
    BY <2>10 DEF OverrunLine, CallInv, NotServed
  <2>11. CASE PngError
    BY <2>11 DEF PngError, CallInv, NotServed
  <2>12. CASE PngErrorAgain \/ WriteLineAgain
    <3>1. call.phase = "again"
      BY <2>12 DEF PngErrorAgain, WriteLineAgain
    <3>2. PICK h, k : call = [phase |-> "again", h |-> h, k |-> k]
      BY <3>1 DEF CallInv, NotServed, CallRight, CallTypes, Idle, Thrown, Undefined
    <3>3. \E m : call' = [call EXCEPT !.k = m]
      BY <2>12 DEF PngErrorAgain, WriteLineAgain
    <3>4. \E m : call' = [phase |-> "again", h |-> h, k |-> m]
      BY <3>2, <3>3
    <3>. QED
      BY <3>4 DEF CallInv, NotServed
  <2>. QED
    BY <1>2, <2>1, <2>2, <2>3, <2>4, <2>5, <2>6, <2>7, <2>8, <2>9, <2>10, <2>11, <2>12
    DEF StoreNext
<1>3. CASE UNCHANGED storeVars
  BY <1>3 DEF storeVars, CallInv, NotServed
<1>. QED
  BY <1>2, <1>3 DEF Next, vars

\* Every line of a file holds the bytes that the format of the file asks for,
\* whatever the size, the padding, the format and the section of the image,
\* except where the property says so (storeImagePNM, storeImagePNG,
\* storeImageAsDisparityPFM, convertImage).
THEOREM SectionStoredHolds == Spec => []SectionStored
  BY CallInvInit, CallInvStep, CallSuffices, PTL DEF Spec

-----------------------------------------------------------------------------
(***************************************************************************)
(* The mesh.  A pixel or a cell is past if its loop has been there, and    *)
(* comes before another one in the order of the loops.                     *)
(***************************************************************************)
Past(c) == c[1] < row \/ (c[1] = row /\ c[2] < col)
Before(c, d) == c[1] < d[1] \/ (c[1] = d[1] /\ c[2] < d[2])

MeshCells == (2..Lines) \X (2..Columns)

OverPixels == loop \in {"index", "points"}
OverCells  == loop \in {"count", "faces"}

CloudTypes ==
  /\ disp \in [Pixels -> Nat] /\ vstep \in Nat
  /\ loop \in {"index", "count", "points", "faces", "done"}
  /\ row \in Nat /\ col \in Nat /\ n \in Nat /\ tn \in Nat
  /\ vindex \in [Pixels -> Int] /\ points \in Seq(Pixels)

\* Where the loops are.
Place ==
  /\ OverPixels =>
       /\ row \in 1..(Lines + 1) /\ col \in 1..Columns
       /\ row = Lines + 1 => col = 1
  /\ OverCells =>
       /\ row \in 2..(Lines + 1) /\ col \in 2..(Columns + 1)
       /\ IF Columns = 1 THEN row = 2 ELSE col <= Columns
       /\ row = Lines + 1 => col = 2

\* What a step does to the place.
Moved(T) ==
  /\ \A c \in T : Past(c)' <=> Past(c) \/ c = Here
  /\ ~Past(Here)

LEMMA PixelsArePairs ==
  \A c \in Pixels : c = <<c[1], c[2]>> /\ c[1] \in 1..Lines /\ c[2] \in 1..Columns
  BY DEF Pixels

LEMMA CellsArePairs ==
  \A c \in MeshCells : c = <<c[1], c[2]>> /\ c[1] \in 2..Lines /\ c[2] \in 2..Columns
  BY DEF MeshCells

LEMMA AdvanceOverPixels ==
  ASSUME CloudTypes, Place, OverPixels, row <= Lines, Advance(1)
  PROVE  Place' /\ row' \in Nat /\ col' \in Nat /\ Here \in Pixels /\ Moved(Pixels)
<1>1. /\ Lines \in Nat \ {0} /\ Columns \in Nat \ {0}
      /\ row \in 1..Lines /\ col \in 1..Columns /\ loop' = loop
  BY SizeIsPositive DEF Place, Advance
<1>2. CASE col < Columns
  <2>1. row' = row /\ col' = col + 1
    BY <1>2 DEF Advance
  <2>2. Place' /\ row' \in Nat /\ col' \in Nat
    BY <1>1, <1>2, <2>1 DEF Place, OverPixels, OverCells
  <2>3. Here \in Pixels
    BY <1>1 DEF Here, Pixels
  <2>4. Moved(Pixels)
    BY <1>1, <2>1, PixelsArePairs DEF Moved, Past, Here
  <2>. QED
    BY <2>2, <2>3, <2>4
<1>3. CASE ~(col < Columns)
  <2>1. row' = row + 1 /\ col' = 1 /\ col = Columns
    BY <1>1, <1>3 DEF Advance
  <2>2. Place' /\ row' \in Nat /\ col' \in Nat
    BY <1>1, <1>3, <2>1 DEF Place, OverPixels, OverCells
  <2>3. Here \in Pixels
    BY <1>1 DEF Here, Pixels
  <2>4. Moved(Pixels)
    BY <1>1, <2>1, PixelsArePairs DEF Moved, Past, Here
  <2>. QED
    BY <2>2, <2>3, <2>4
<1>. QED
  BY <1>2, <1>3

LEMMA AdvanceOverCells ==
  ASSUME CloudTypes, Place, OverCells, row <= Lines, col <= Columns, Advance(2)
  PROVE  Place' /\ row' \in Nat /\ col' \in Nat /\ Here \in MeshCells /\ Moved(MeshCells)
<1>1. /\ Lines \in Nat \ {0} /\ Columns \in Nat \ {0}
      /\ row \in 2..Lines /\ col \in 2..Columns /\ loop' = loop
  BY SizeIsPositive DEF Place, Advance
<1>2. Here \in MeshCells
  BY <1>1 DEF Here, MeshCells
<1>3. CASE col < Columns
  <2>1. row' = row /\ col' = col + 1
    BY <1>3 DEF Advance
  <2>2. Place' /\ row' \in Nat /\ col' \in Nat
    BY <1>1, <1>3, <2>1 DEF Place, OverPixels, OverCells
  <2>4. Moved(MeshCells)
    BY <1>1, <2>1, CellsArePairs DEF Moved, Past, Here
  <2>. QED
    BY <1>2, <2>2, <2>4
<1>4. CASE ~(col < Columns)
  <2>1. row' = row + 1 /\ col' = 2 /\ col = Columns
    BY <1>1, <1>4 DEF Advance
  <2>2. Place' /\ row' \in Nat /\ col' \in Nat
    BY <1>1, <1>4, <2>1 DEF Place, OverPixels, OverCells
  <2>4. Moved(MeshCells)
    BY <1>1, <2>1, CellsArePairs DEF Moved, Past, Here
  <2>. QED
    BY <1>2, <2>2, <2>4
<1>. QED
  BY <1>3, <1>4

\* When a loop ends everything is past; when one starts nothing is.
LEMMA LoopEnds ==
  ASSUME CloudTypes, Place, NextLoop
  PROVE  /\ Place' /\ CloudTypes'
         /\ OverPixels => \A c \in Pixels : Past(c)
         /\ OverCells => \A c \in MeshCells : Past(c)
         /\ OverPixels' => \A c \in Pixels : ~Past(c)'
         /\ OverCells' => \A c \in MeshCells : ~Past(c)'
<1>1. Lines \in Nat \ {0} /\ Columns \in Nat \ {0} /\ row \in Nat /\ col \in Nat
  BY SizeIsPositive DEF CloudTypes
<1>2. Place'
  BY <1>1 DEF Place, NextLoop, OverPixels, OverCells
<1>3. CloudTypes'
  BY <1>1 DEF CloudTypes, NextLoop
<1>4. OverPixels => \A c \in Pixels : Past(c)
  BY <1>1, PixelsArePairs DEF Place, NextLoop, Past
<1>5. OverCells => \A c \in MeshCells : Past(c)
  BY <1>1, CellsArePairs DEF Place, NextLoop, Past
<1>6. /\ OverPixels' => row' = 1 /\ col' = 1
      /\ OverCells' => row' = 2 /\ col' = 2
  BY DEF NextLoop, OverPixels, OverCells
<1>7. OverPixels' => \A c \in Pixels : ~Past(c)'
  BY <1>6, PixelsArePairs DEF Past
<1>8. OverCells' => \A c \in MeshCells : ~Past(c)'
  BY <1>6, CellsArePairs DEF Past
<1>. QED
  BY <1>2, <1>3, <1>4, <1>5, <1>7, <1>8

-----------------------------------------------------------------------------
(***************************************************************************)
(* The numbers of the pixels.                                              *)
(***************************************************************************)
Numbered(c) == Valid(c) /\ (loop = "index" => Past(c))

NumbersFit ==
  \A c \in Pixels :
    IF Numbered(c) THEN vindex[c] \in Int /\ 0 <= vindex[c] /\ vindex[c] < n
                   ELSE vindex[c] = Invalid
NumbersGrow ==
  \A c, d \in Pixels : Numbered(c) /\ Numbered(d) /\ Before(c, d) => vindex[c] < vindex[d]
NumbersUsed ==
  \A j \in Nat : j < n => \E c \in Pixels : Numbered(c) /\ vindex[c] = j

IndexInv == NumbersFit /\ NumbersGrow /\ NumbersUsed

LEMMA PixelsAreOrdered ==
  \A c, d \in Pixels : c = d \/ Before(c, d) \/ Before(d, c)
  BY SizeIsPositive, PixelsArePairs DEF Before

LEMMA IndexPixelNumbers ==
  ASSUME CloudTypes, Place, IndexInv, IndexPixel
  PROVE  CloudTypes' /\ Place' /\ IndexInv'
<1>1. OverPixels /\ row <= Lines /\ Advance(1) /\ loop = "index" /\ loop' = "index"
  BY DEF OverPixels, IndexPixel, In, Advance
<1>2. Place' /\ row' \in Nat /\ col' \in Nat /\ Here \in Pixels /\ Moved(Pixels)
  BY <1>1, AdvanceOverPixels
<1>3. \A c \in Pixels : Numbered(c)' <=> Numbered(c) \/ (c = Here /\ Valid(c))
  BY <1>1, <1>2 DEF Numbered, Moved, Valid, IndexPixel
<1>4. ~Numbered(Here)
  BY <1>1, <1>2 DEF Numbered, Moved
<1>. DEFINE h == Here
<1>5. h \in Pixels /\ ~Numbered(h)
      /\ \A c \in Pixels : Numbered(c)' <=> Numbered(c) \/ (c = h /\ Valid(c))
  BY <1>2, <1>3, <1>4
<1>6. /\ disp' = disp /\ vstep' = vstep /\ tn' = tn /\ points' = points
      /\ IF Valid(h) THEN n' = n + 1 /\ vindex' = [vindex EXCEPT ![h] = n]
                     ELSE n' = n /\ vindex' = vindex
  BY DEF IndexPixel
<1>7. \A c \in Pixels : Past(c) => Before(c, h)
  BY DEF Past, Before, Here
<1>8. \A c \in Pixels : Numbered(c) => Before(c, h) /\ ~Before(h, c)
  <2>1. \A c \in Pixels : Numbered(c) => Before(c, h)
    BY <1>1, <1>7 DEF Numbered
  <2>2. h = <<h[1], h[2]>> /\ h[1] \in Nat /\ h[2] \in Nat
    BY <1>5, PixelsArePairs
  <2>. HIDE DEF h
  <2>. QED
    BY <2>1, <2>2, PixelsArePairs DEF Before
<1>. HIDE DEF h
<1>9. n \in Nat /\ vindex \in [Pixels -> Int]
  BY DEF CloudTypes
<1>10. CloudTypes'
  <2>1. n' \in Nat /\ vindex' \in [Pixels -> Int]
    BY <1>5, <1>6, <1>9
  <2>. QED
    BY <1>1, <1>2, <1>6, <2>1 DEF CloudTypes
<1>11. CASE Valid(h)
  <2>1. n' = n + 1 /\ vindex'[h] = n /\ \A c \in Pixels : c # h => vindex'[c] = vindex[c]
    BY <1>5, <1>6, <1>9, <1>11
  <2>2. NumbersFit'
    <3>. SUFFICES ASSUME NEW c \in Pixels
                  PROVE  IF Numbered(c)' THEN vindex'[c] \in Int /\ 0 <= vindex'[c] /\ vindex'[c] < n'
                                         ELSE vindex'[c] = Invalid
      BY DEF NumbersFit
    <3>1. CASE c = h
      BY <1>5, <1>9, <1>11, <2>1, <3>1
    <3>2. CASE c # h
      BY <1>5, <1>9, <2>1, <3>2 DEF IndexInv, NumbersFit
    <3>. QED
      BY <3>1, <3>2
  <2>3. NumbersGrow'
    <3>. SUFFICES ASSUME NEW c \in Pixels, NEW d \in Pixels,
                         Numbered(c)', Numbered(d)', Before(c, d)
                  PROVE  vindex'[c] < vindex'[d]
      BY DEF NumbersGrow, Before
    <3>1. c # d
      BY PixelsArePairs DEF Before
    <3>2. CASE d = h
      BY <1>5, <1>9, <2>1, <3>1, <3>2 DEF IndexInv, NumbersFit
    <3>3. CASE c = h
      BY <1>5, <1>8, <3>1, <3>3
    <3>4. CASE c # h /\ d # h
      BY <1>5, <2>1, <3>4 DEF IndexInv, NumbersGrow
    <3>. QED
      BY <3>2, <3>3, <3>4
  <2>4. NumbersUsed'
    <3>. SUFFICES ASSUME NEW j \in Nat, j < n'
                  PROVE  \E c \in Pixels : Numbered(c)' /\ vindex'[c] = j
      BY DEF NumbersUsed
    <3>1. CASE j = n
      BY <1>5, <1>11, <2>1, <3>1
    <3>2. CASE j < n
      <4>1. PICK c \in Pixels : Numbered(c) /\ vindex[c] = j
        BY <3>2 DEF IndexInv, NumbersUsed
      <4>. QED
        BY <1>5, <2>1, <4>1
    <3>. QED
      BY <1>9, <2>1, <3>1, <3>2
  <2>. QED
    BY <1>2, <1>10, <2>2, <2>3, <2>4 DEF IndexInv
<1>12. CASE ~Valid(h)
  <2>1. \A c \in Pixels : Numbered(c)' <=> Numbered(c)
    BY <1>5, <1>12
  <2>2. n' = n /\ vindex' = vindex
    BY <1>6, <1>12
  <2>3. NumbersFit'
    BY <2>1, <2>2 DEF IndexInv, NumbersFit
  <2>4. NumbersGrow'
    BY <2>1, <2>2 DEF IndexInv, NumbersGrow, Before
  <2>5. NumbersUsed'
    BY <2>1, <2>2 DEF IndexInv, NumbersUsed
  <2>. QED
    BY <1>2, <1>10, <2>3, <2>4, <2>5 DEF IndexInv
<1>. QED
  BY <1>11, <1>12

\* Numbers do not change any more once everything has one.
LEMMA NumbersStay ==
  ASSUME IndexInv, UNCHANGED <<disp, n, vindex>>,
         \A c \in Pixels : Numbered(c)' <=> Numbered(c)
  PROVE  IndexInv'
<1>1. NumbersFit'
  BY DEF IndexInv, NumbersFit
<1>2. NumbersGrow'
  BY DEF IndexInv, NumbersGrow, Before
<1>3. NumbersUsed'
  BY DEF IndexInv, NumbersUsed
<1>. QED
  BY <1>1, <1>2, <1>3 DEF IndexInv

\* Two pixels that are valid have different numbers.
LEMMA NumbersDiffer ==
  ASSUME CloudTypes, IndexInv, NEW c \in Pixels, NEW d \in Pixels,
         Numbered(c), Numbered(d), vindex[c] = vindex[d]
  PROVE  c = d
<1>1. vindex[c] \in Int /\ vindex[d] \in Int
  BY DEF CloudTypes
<1>. QED
  BY <1>1, PixelsAreOrdered DEF IndexInv, NumbersGrow

-----------------------------------------------------------------------------
(***************************************************************************)
(* The points of the file are the pixels in the order of their numbers.    *)
(***************************************************************************)
PointInPlace(c) == vindex[c] < Len(points) /\ points[vindex[c] + 1] = c

PointsInv ==
  /\ loop \in {"index", "count"} => points = <<>>
  /\ loop = "points" =>
       /\ Len(points) <= n
       /\ \A c \in Pixels : Valid(c) =>
            IF Past(c) THEN PointInPlace(c) ELSE vindex[c] >= Len(points)
  /\ loop \in {"faces", "done"} =>
       Len(points) = n /\ \A c \in Pixels : Valid(c) => PointInPlace(c)

LEMMA PointPixelWrites ==
  ASSUME CloudTypes, Place, IndexInv, PointsInv, PointPixel
  PROVE  CloudTypes' /\ Place' /\ IndexInv' /\ PointsInv'
<1>1. OverPixels /\ row <= Lines /\ Advance(1) /\ loop = "points" /\ loop' = "points"
  BY DEF OverPixels, PointPixel, In, Advance
<1>2. Place' /\ row' \in Nat /\ col' \in Nat /\ Here \in Pixels /\ Moved(Pixels)
  BY <1>1, AdvanceOverPixels
<1>3. UNCHANGED <<disp, vstep, n, tn, vindex>>
  BY DEF PointPixel
<1>4. IndexInv'
  <2>1. \A c \in Pixels : Numbered(c)' <=> Numbered(c)
    BY <1>1, <1>3 DEF Numbered, Valid
  <2>. QED
    BY <1>3, <2>1, NumbersStay
<1>. DEFINE h == Here
<1>5. /\ h \in Pixels /\ ~Past(h)
      /\ \A c \in Pixels : Past(c)' <=> Past(c) \/ c = h
      /\ points' = IF Valid(h) THEN Append(points, h) ELSE points
  BY <1>2 DEF Moved, PointPixel
<1>6. \A c \in Pixels : ~Past(c) => c = h \/ Before(h, c)
  BY <1>2, PixelsArePairs DEF Past, Before, Here, CloudTypes
<1>. HIDE DEF h
<1>7. points \in Seq(Pixels) /\ n \in Nat /\ vindex \in [Pixels -> Int] /\ Len(points) \in Nat
  BY DEF CloudTypes
<1>8. points' \in Seq(Pixels)
  BY <1>5, <1>7
<1>9. CloudTypes'
  BY <1>1, <1>2, <1>3, <1>8 DEF CloudTypes
<1>10. Len(points) <= n /\ \A c \in Pixels : Valid(c) =>
         IF Past(c) THEN PointInPlace(c) ELSE vindex[c] >= Len(points)
  BY <1>1 DEF PointsInv
<1>11. \A c \in Pixels : Valid(c) <=> Numbered(c)
  BY <1>1 DEF Numbered
<1>12. \A c \in Pixels : Valid(c) => 0 <= vindex[c] /\ vindex[c] < n /\ vindex[c] \in Int
  BY <1>11 DEF IndexInv, NumbersFit
<1>13. CASE Valid(h)
  <2>1. points' = Append(points, h) /\ Len(points') = Len(points) + 1
        /\ points'[Len(points) + 1] = h
        /\ \A j \in 1..Len(points) : points'[j] = points[j]
    BY <1>5, <1>7, <1>13
  <2>2. vindex[h] = Len(points)
    <3>1. vindex[h] >= Len(points)
      BY <1>5, <1>10, <1>13
    <3>2. ASSUME vindex[h] > Len(points) PROVE FALSE
      <4>1. PICK c \in Pixels : Numbered(c) /\ vindex[c] = Len(points)
        <5>1. Len(points) < n
          BY <1>5, <1>7, <1>12, <1>13, <3>2
        <5>. QED
          BY <1>7, <5>1 DEF IndexInv, NumbersUsed
      <4>2. ~Past(c)
        BY <1>7, <1>10, <1>11, <4>1 DEF PointInPlace
      <4>3. c # h
        BY <1>7, <3>2, <4>1
      <4>4. Before(h, c)
        BY <1>6, <4>2, <4>3
      <4>5. vindex[h] < vindex[c]
        BY <1>5, <1>11, <1>13, <4>1, <4>4 DEF IndexInv, NumbersGrow
      <4>. QED
        BY <1>5, <1>7, <3>2, <4>1, <4>5
    <3>. QED
      BY <1>5, <1>7, <3>1, <3>2
  <2>3. Len(points') <= n
    BY <1>5, <1>7, <1>12, <1>13, <2>1, <2>2
  <2>4. ASSUME NEW c \in Pixels, Valid(c)
        PROVE  IF Past(c)' THEN vindex[c] < Len(points') /\ points'[vindex[c] + 1] = c
                           ELSE vindex[c] >= Len(points')
    <3>1. CASE c = h
      BY <1>5, <1>7, <2>1, <2>2, <3>1
    <3>2. CASE c # h /\ Past(c)
      BY <1>5, <1>7, <1>10, <1>12, <2>1, <2>4, <3>2 DEF PointInPlace
    <3>3. CASE c # h /\ ~Past(c)
      <4>1. vindex[c] # Len(points)
        BY <1>5, <1>11, <1>13, <2>2, <2>4, <3>3, NumbersDiffer
      <4>. QED
        BY <1>5, <1>7, <1>10, <1>12, <2>1, <2>4, <3>3, <4>1
    <3>. QED
      BY <3>1, <3>2, <3>3
  <2>5. PointsInv'
    BY <1>1, <1>3, <2>3, <2>4 DEF PointsInv, PointInPlace, Valid
  <2>. QED
    BY <1>2, <1>4, <1>9, <2>5
<1>14. CASE ~Valid(h)
  <2>1. points' = points
    BY <1>5, <1>14
  <2>2. \A c \in Pixels : Valid(c) => (Past(c)' <=> Past(c))
    BY <1>5, <1>14
  <2>3. PointsInv'
    BY <1>1, <1>3, <1>10, <2>1, <2>2 DEF PointsInv, PointInPlace, Valid
  <2>. QED
    BY <1>2, <1>4, <1>9, <2>3
<1>. QED
  BY <1>13, <1>14

\* When the loop ends every point is in the file, and no other.
LEMMA PointsComplete ==
  ASSUME CloudTypes, IndexInv, PointsInv, loop = "points", \A c \in Pixels : Past(c)
  PROVE  Len(points) = n /\ \A c \in Pixels : Valid(c) => PointInPlace(c)
<1>1. Len(points) <= n /\ \A c \in Pixels : Valid(c) => PointInPlace(c)
  BY DEF PointsInv
<1>2. Len(points) \in Nat /\ n \in Nat
  BY DEF CloudTypes
<1>3. ASSUME Len(points) < n PROVE FALSE
  <2>1. PICK c \in Pixels : Numbered(c) /\ vindex[c] = Len(points)
    BY <1>2, <1>3 DEF IndexInv, NumbersUsed
  <2>. QED
    BY <1>1, <1>2, <2>1 DEF Numbered, PointInPlace
<1>. QED
  BY <1>1, <1>2, <1>3

-----------------------------------------------------------------------------
(***************************************************************************)
(* The triangles of one cell.  With the corners in the order of a circle,  *)
(* a triangle is three of them in that order, beginning anywhere.          *)
(***************************************************************************)
UpperLeft(z)  == <<z[1] - 1, z[2] - 1>>
LowerLeft(z)  == <<z[1], z[2] - 1>>
UpperRight(z) == <<z[1] - 1, z[2]>>

Shapes(z) ==
  {<<UpperLeft(z), LowerLeft(z), z>>, <<z, UpperRight(z), UpperLeft(z)>>,
   <<LowerLeft(z), z, UpperRight(z)>>, <<UpperLeft(z), z, UpperRight(z)>>,
   <<UpperLeft(z), LowerLeft(z), UpperRight(z)>>}

IsFace(z, f) ==
  \E p, q, r \in Pixels :
    /\ Valid(p) /\ Valid(q) /\ Valid(r) /\ <<p, q, r>> \in Shapes(z)
    /\ f = <<vindex[p], vindex[q], vindex[r]>>

\* A corner of one triangle is not in the other.
Differ(f, g) == \E j \in 1..3 : \A l \in 1..3 : f[j] # g[l]

One(c) == IF Valid(c) THEN 1 ELSE 0

LEMMA CornersArePixels ==
  ASSUME NEW z \in MeshCells
  PROVE  /\ UpperLeft(z) \in Pixels /\ LowerLeft(z) \in Pixels
         /\ UpperRight(z) \in Pixels /\ z \in Pixels
         /\ UpperLeft(z) # LowerLeft(z) /\ UpperLeft(z) # UpperRight(z)
         /\ UpperLeft(z) # z /\ LowerLeft(z) # UpperRight(z)
         /\ LowerLeft(z) # z /\ UpperRight(z) # z
         /\ CornersOf(z) = {UpperLeft(z), LowerLeft(z), UpperRight(z), z}
<1>1. z = <<z[1], z[2]>> /\ z[1] \in 2..Lines /\ z[2] \in 2..Columns
      /\ Lines \in Nat /\ Columns \in Nat
  BY CellsArePairs, SizeIsPositive
<1>. QED
  BY <1>1 DEF UpperLeft, LowerLeft, UpperRight, Pixels, CornersOf

LEMMA OneMore ==
  ASSUME NEW T, IsFiniteSet(T), NEW a, a \notin T, NEW S, Cardinality(T) \in Nat,
         NEW W, W = T \cup (S \cap {a})
  PROVE  /\ IsFiniteSet(W) /\ Cardinality(W) \in Nat
         /\ Cardinality(W) = Cardinality(T) + (IF a \in S THEN 1 ELSE 0)
<1>1. CASE a \in S
  <2>1. W = T \cup {a}
    BY <1>1
  <2>2. /\ IsFiniteSet(T \cup {a})
        /\ Cardinality(T \cup {a}) = IF a \in T THEN Cardinality(T) ELSE Cardinality(T) + 1
    BY FS_AddElement, Zenon
  <2>3. IsFiniteSet(W) /\ Cardinality(W) = Cardinality(T) + 1
    BY <2>1, <2>2, Zenon
  <2>. QED
    BY <1>1, <2>3
<1>2. CASE a \notin S
  <2>1. W = T
    BY <1>2
  <2>2. IsFiniteSet(W) /\ Cardinality(W) = Cardinality(T)
    BY <2>1, Zenon
  <2>. QED
    BY <1>2, <2>2
<1>. QED
  BY <1>1, <1>2

LEMMA FourCounted ==
  ASSUME NEW a, NEW b, NEW c, NEW d, NEW S, S \subseteq {a, b, c, d},
         a # b, a # c, a # d, b # c, b # d, c # d
  PROVE  Cardinality(S) = (IF a \in S THEN 1 ELSE 0) + (IF b \in S THEN 1 ELSE 0)
                            + (IF c \in S THEN 1 ELSE 0) + (IF d \in S THEN 1 ELSE 0)
<1>. DEFINE T0 == {}
            T1 == T0 \cup (S \cap {a})
            T2 == T1 \cup (S \cap {b})
            T3 == T2 \cup (S \cap {c})
            T4 == T3 \cup (S \cap {d})
            A == IF a \in S THEN 1 ELSE 0
            B == IF b \in S THEN 1 ELSE 0
            C == IF c \in S THEN 1 ELSE 0
            D == IF d \in S THEN 1 ELSE 0
<1>1. a \notin T0 /\ b \notin T1 /\ c \notin T2 /\ d \notin T3 /\ S = T4
  OBVIOUS
<1>2. IsFiniteSet(T0) /\ Cardinality(T0) = 0
  BY FS_EmptySet
<1>3. A \in Nat /\ B \in Nat /\ C \in Nat /\ D \in Nat
  OBVIOUS
<1>. HIDE DEF T0
<1>4. IsFiniteSet(T1) /\ Cardinality(T1) \in Nat /\ Cardinality(T1) = Cardinality(T0) + A
  BY <1>1, <1>2, OneMore
<1>. HIDE DEF T1, A
<1>5. IsFiniteSet(T2) /\ Cardinality(T2) \in Nat /\ Cardinality(T2) = Cardinality(T1) + B
  BY <1>1, <1>4, OneMore
<1>. HIDE DEF T2, B
<1>6. IsFiniteSet(T3) /\ Cardinality(T3) \in Nat /\ Cardinality(T3) = Cardinality(T2) + C
  BY <1>1, <1>5, OneMore
<1>. HIDE DEF T3, C
<1>7. Cardinality(T4) = Cardinality(T3) + D
  BY <1>1, <1>6, OneMore
<1>. HIDE DEF T4, D
<1>8. Cardinality(S) = A + B + C + D
  BY <1>1, <1>2, <1>3, <1>4, <1>5, <1>6, <1>7
<1>. QED
  BY <1>8 DEF A, B, C, D

LEMMA CornersCounted ==
  ASSUME NEW z \in MeshCells
  PROVE  Cardinality(ValidCorners(z)) =
           One(UpperLeft(z)) + One(LowerLeft(z)) + One(UpperRight(z)) + One(z)
<1>. DEFINE a == UpperLeft(z)
            b == LowerLeft(z)
            d == UpperRight(z)
            S == ValidCorners(z)
<1>1. /\ S \subseteq {a, b, d, z}
      /\ (a \in S <=> Valid(a)) /\ (b \in S <=> Valid(b))
      /\ (d \in S <=> Valid(d)) /\ (z \in S <=> Valid(z))
      /\ a # b /\ a # d /\ a # z /\ b # d /\ b # z /\ d # z
  BY CornersArePixels DEF ValidCorners
<1>. HIDE DEF a, b, d, S
<1>2. Cardinality(S) = (IF a \in S THEN 1 ELSE 0) + (IF b \in S THEN 1 ELSE 0)
                         + (IF d \in S THEN 1 ELSE 0) + (IF z \in S THEN 1 ELSE 0)
  BY <1>1, FourCounted
<1>3. Cardinality(S) = One(a) + One(b) + One(d) + One(z)
  BY <1>1, <1>2 DEF One
<1>. QED
  BY <1>3 DEF a, b, d, S

LEMMA TrianglesAreNumbers ==
  ASSUME NEW z \in MeshCells
  PROVE  Triangles(z) \in Nat
<1>1. One(UpperLeft(z)) \in 0..1 /\ One(LowerLeft(z)) \in 0..1
      /\ One(UpperRight(z)) \in 0..1 /\ One(z) \in 0..1
  BY DEF One
<1>2. Cardinality(ValidCorners(z)) \in Int
  BY <1>1, CornersCounted
<1>. QED
  BY <1>2 DEF Triangles, Meshed

\* Tuples are sequences of their components.
LEMMA TupleOfOne == \A a : Append(<<>>, a) = <<a>>
  OBVIOUS

LEMMA Pushed ==
  ASSUME NEW S, NEW s, s \in Seq(S), NEW b, b \in S, NEW u, u = Append(s, b)
  PROVE  /\ u \in Seq(S) /\ Len(u) = Len(s) + 1
         /\ \A i \in 1..Len(s) : u[i] = s[i]
         /\ u[Len(s) + 1] = b
  BY AppendProperties

LEMMA TupleOfTwo ==
  ASSUME NEW a, NEW b
  PROVE  Append(<<a>>, b) = <<a, b>>
<1>. DEFINE S == {a, b}
            s == <<a>>
            t == <<a, b>>
            u == Append(s, b)
<1>1. /\ s \in Seq(S) /\ t \in Seq(S) /\ b \in S /\ Len(s) = 1 /\ Len(t) = 2
      /\ s[1] = a
      /\ t[1] = a /\ t[2] = b
  OBVIOUS
<1>. HIDE DEF S, s, t
<1>5. u = Append(s, b)
  OBVIOUS
<1>. HIDE DEF u
<1>2. /\ u \in Seq(S) /\ Len(u) = Len(s) + 1
      /\ \A i \in 1..Len(s) : u[i] = s[i]
      /\ u[Len(s) + 1] = b
  BY <1>1, <1>5, Pushed
<1>3. Len(u) = Len(t) /\ \A i \in 1..Len(u) : u[i] = t[i]
  BY <1>1, <1>2
<1>4. u = t
  BY <1>1, <1>2, <1>3, SeqEqual
<1>. QED
  BY <1>4 DEF s, t, u

LEMMA TupleOfThree ==
  ASSUME NEW a, NEW b, NEW c
  PROVE  Append(<<a, b>>, c) = <<a, b, c>>
<1>. DEFINE S == {a, b, c}
            s == <<a, b>>
            t == <<a, b, c>>
            u == Append(s, c)
<1>1. /\ s \in Seq(S) /\ t \in Seq(S) /\ c \in S /\ Len(s) = 2 /\ Len(t) = 3
      /\ s[1] = a /\ s[2] = b
      /\ t[1] = a /\ t[2] = b /\ t[3] = c
  OBVIOUS
<1>. HIDE DEF S, s, t
<1>5. u = Append(s, c)
  OBVIOUS
<1>. HIDE DEF u
<1>2. /\ u \in Seq(S) /\ Len(u) = Len(s) + 1
      /\ \A i \in 1..Len(s) : u[i] = s[i]
      /\ u[Len(s) + 1] = c
  BY <1>1, <1>5, Pushed
<1>3. Len(u) = Len(t) /\ \A i \in 1..Len(u) : u[i] = t[i]
  BY <1>1, <1>2
<1>4. u = t
  BY <1>1, <1>2, <1>3, SeqEqual
<1>. QED
  BY <1>4 DEF s, t, u

LEMMA TupleOfFour ==
  ASSUME NEW a, NEW b, NEW c, NEW d
  PROVE  Append(<<a, b, c>>, d) = <<a, b, c, d>>
<1>. DEFINE S == {a, b, c, d}
            s == <<a, b, c>>
            t == <<a, b, c, d>>
            u == Append(s, d)
<1>1. /\ s \in Seq(S) /\ t \in Seq(S) /\ d \in S /\ Len(s) = 3 /\ Len(t) = 4
      /\ s[1] = a /\ s[2] = b /\ s[3] = c
      /\ t[1] = a /\ t[2] = b /\ t[3] = c /\ t[4] = d
  OBVIOUS
<1>. HIDE DEF S, s, t
<1>5. u = Append(s, d)
  OBVIOUS
<1>. HIDE DEF u
<1>2. /\ u \in Seq(S) /\ Len(u) = Len(s) + 1
      /\ \A i \in 1..Len(s) : u[i] = s[i]
      /\ u[Len(s) + 1] = d
  BY <1>1, <1>5, Pushed
<1>3. Len(u) = Len(t) /\ \A i \in 1..Len(u) : u[i] = t[i]
  BY <1>1, <1>2
<1>4. u = t
  BY <1>1, <1>2, <1>3, SeqEqual
<1>. QED
  BY <1>4 DEF s, t, u

\* The corners of a cell that have numbers, one after the other.
LEMMA NumberAppended ==
  ASSUME NEW s \in Seq(Int), NEW c, vindex[c] \in Int
  PROVE  s \o Number(c) = IF vindex[c] # Invalid THEN Append(s, vindex[c]) ELSE s
<1>1. CASE vindex[c] # Invalid
  <2>1. Number(c) = <<vindex[c]>>
    BY <1>1 DEF Number
  <2>2. Append(s, vindex[c]) = s \o <<vindex[c]>>
    BY AppendIsConcat
  <2>. QED
    BY <1>1, <2>1, <2>2, Zenon
<1>2. CASE vindex[c] = Invalid
  <2>1. Number(c) = <<>>
    BY <1>2 DEF Number
  <2>2. s \o <<>> = s
    BY ConcatEmptySeq
  <2>. QED
    BY <1>2, <2>1, <2>2, Zenon
<1>. QED
  BY <1>1, <1>2

LEMMA CircleIs ==
  ASSUME CloudTypes, NEW z \in MeshCells
  PROVE  LET a == vindex[UpperLeft(z)]
             b == vindex[LowerLeft(z)]
             c == vindex[z]
             d == vindex[UpperRight(z)]
             q == Circle(z)
         IN  /\ a # Invalid /\ b # Invalid /\ c # Invalid /\ d # Invalid => q = <<a, b, c, d>>
             /\ a = Invalid /\ b # Invalid /\ c # Invalid /\ d # Invalid => q = <<b, c, d>>
             /\ a # Invalid /\ b = Invalid /\ c # Invalid /\ d # Invalid => q = <<a, c, d>>
             /\ a # Invalid /\ b # Invalid /\ c = Invalid /\ d # Invalid => q = <<a, b, d>>
             /\ a # Invalid /\ b # Invalid /\ c # Invalid /\ d = Invalid => q = <<a, b, c>>
<1>. DEFINE A == UpperLeft(z)
            B == LowerLeft(z)
            D == UpperRight(z)
            s1 == Number(A)
            s2 == s1 \o Number(B)
            s3 == s2 \o Number(z)
            s4 == s3 \o Number(D)
<1>1. vindex[A] \in Int /\ vindex[B] \in Int /\ vindex[z] \in Int /\ vindex[D] \in Int
  BY CornersArePixels DEF CloudTypes
<1>2. Circle(z) = s4
  BY DEF Circle, UpperLeft, LowerLeft, UpperRight
<1>3. s1 = IF vindex[A] # Invalid THEN <<vindex[A]>> ELSE <<>>
  BY Zenon DEF Number
<1>. HIDE DEF A, B, D
<1>4. s1 \in Seq(Int)
  BY <1>1, <1>3
<1>. HIDE DEF s1
<1>5. s2 = IF vindex[B] # Invalid THEN Append(s1, vindex[B]) ELSE s1
  BY <1>1, <1>4, NumberAppended
<1>. HIDE DEF s2
<1>6. s2 \in Seq(Int)
  BY <1>1, <1>4, <1>5
<1>7. s3 = IF vindex[z] # Invalid THEN Append(s2, vindex[z]) ELSE s2
  BY <1>1, <1>6, NumberAppended
<1>. HIDE DEF s3
<1>8. s3 \in Seq(Int)
  BY <1>1, <1>6, <1>7
<1>9. s4 = IF vindex[D] # Invalid THEN Append(s3, vindex[D]) ELSE s3
  BY <1>1, <1>8, NumberAppended
<1>. HIDE DEF s4
<1>. DEFINE a == vindex[A]
            b == vindex[B]
            c == vindex[z]
            d == vindex[D]
<1>. HIDE DEF a, b, c, d
<1>10. ASSUME a # Invalid, b # Invalid, c # Invalid, d # Invalid PROVE s4 = <<a, b, c, d>>
  <2>1. s1 = <<a>> /\ s2 = Append(s1, b) /\ s3 = Append(s2, c) /\ s4 = Append(s3, d)
    BY <1>3, <1>5, <1>7, <1>9, <1>10, Zenon DEF a, b, c, d
  <2>2. s2 = <<a, b>>
    BY <2>1, TupleOfTwo, Zenon
  <2>3. s3 = <<a, b, c>>
    BY <2>1, <2>2, TupleOfThree, Zenon
  <2>. QED
    BY <2>1, <2>3, TupleOfFour, Zenon
<1>11. ASSUME a = Invalid, b # Invalid, c # Invalid, d # Invalid PROVE s4 = <<b, c, d>>
  <2>1. s1 = <<>> /\ s2 = Append(s1, b) /\ s3 = Append(s2, c) /\ s4 = Append(s3, d)
    BY <1>3, <1>5, <1>7, <1>9, <1>11, Zenon DEF a, b, c, d
  <2>2. s2 = <<b>>
    BY <2>1, TupleOfOne, Zenon
  <2>3. s3 = <<b, c>>
    BY <2>1, <2>2, TupleOfTwo, Zenon
  <2>. QED
    BY <2>1, <2>3, TupleOfThree, Zenon
<1>12. ASSUME a # Invalid, b = Invalid, c # Invalid, d # Invalid PROVE s4 = <<a, c, d>>
  <2>1. s1 = <<a>> /\ s2 = s1 /\ s3 = Append(s2, c) /\ s4 = Append(s3, d)
    BY <1>3, <1>5, <1>7, <1>9, <1>12, Zenon DEF a, b, c, d
  <2>2. s2 = <<a>>
    BY <2>1, Zenon
  <2>3. s3 = <<a, c>>
    BY <2>1, <2>2, TupleOfTwo, Zenon
  <2>. QED
    BY <2>1, <2>3, TupleOfThree, Zenon
<1>13. ASSUME a # Invalid, b # Invalid, c = Invalid, d # Invalid PROVE s4 = <<a, b, d>>
  <2>1. s1 = <<a>> /\ s2 = Append(s1, b) /\ s3 = s2 /\ s4 = Append(s3, d)
    BY <1>3, <1>5, <1>7, <1>9, <1>13, Zenon DEF a, b, c, d
  <2>2. s2 = <<a, b>>
    BY <2>1, TupleOfTwo, Zenon
  <2>3. s3 = <<a, b>>
    BY <2>1, <2>2, Zenon
  <2>. QED
    BY <2>1, <2>3, TupleOfThree, Zenon
<1>14. ASSUME a # Invalid, b # Invalid, c # Invalid, d = Invalid PROVE s4 = <<a, b, c>>
  <2>1. s1 = <<a>> /\ s2 = Append(s1, b) /\ s3 = Append(s2, c) /\ s4 = s3
    BY <1>3, <1>5, <1>7, <1>9, <1>14, Zenon DEF a, b, c, d
  <2>2. s2 = <<a, b>>
    BY <2>1, TupleOfTwo, Zenon
  <2>3. s3 = <<a, b, c>>
    BY <2>1, <2>2, TupleOfThree, Zenon
  <2>. QED
    BY <2>1, <2>3, Zenon
<1>. QED
  BY <1>2, <1>10, <1>11, <1>12, <1>13, <1>14, Zenon DEF a, b, c, d, A, B, D

Triples == Int \X Int \X Int

\* What the triangles of a cell are in the file.
FacesOf(z, s) ==
  /\ s \in Seq(Triples) /\ Len(s) = Triangles(z)
  /\ \A a \in 1..Len(s) : IsFace(z, s[a])
  /\ \A a, b \in 1..Len(s) : a # b => Differ(s[a], s[b])

AllNumbered ==
  /\ \A c \in Pixels : Valid(c) <=> vindex[c] # Invalid
  /\ \A c, d \in Pixels : Valid(c) /\ Valid(d) /\ vindex[c] = vindex[d] => c = d

LEMMA FacesOfThree ==
  ASSUME NEW z, NEW e, NEW f, NEW g, Circle(z) = <<e, f, g>>
  PROVE  CellFaces(z) = << <<e, f, g>> >>
<1>. DEFINE q == Circle(z)
<1>1. Len(q) = 3 /\ q[1] = e /\ q[2] = f /\ q[3] = g
  OBVIOUS
<1>2. CellFaces(z) = IF Len(q) = 4 THEN << <<q[1], q[2], q[3]>>, <<q[3], q[4], q[1]>> >>
                                   ELSE << <<q[1], q[2], q[3]>> >>
  BY Zenon DEF CellFaces
<1>. HIDE DEF q
<1>. QED
  BY <1>1, <1>2

LEMMA FacesOfFour ==
  ASSUME NEW z, NEW e, NEW f, NEW g, NEW h, Circle(z) = <<e, f, g, h>>
  PROVE  CellFaces(z) = << <<e, f, g>>, <<g, h, e>> >>
<1>. DEFINE q == Circle(z)
<1>1. Len(q) = 4 /\ q[1] = e /\ q[2] = f /\ q[3] = g /\ q[4] = h
  OBVIOUS
<1>2. CellFaces(z) = IF Len(q) = 4 THEN << <<q[1], q[2], q[3]>>, <<q[3], q[4], q[1]>> >>
                                   ELSE << <<q[1], q[2], q[3]>> >>
  BY Zenon DEF CellFaces
<1>. HIDE DEF q
<1>. QED
  BY <1>1, <1>2

LEMMA OneFace ==
  ASSUME NEW z, NEW f \in Triples, IsFace(z, f), Triangles(z) = 1
  PROVE  FacesOf(z, <<f>>)
<1>. DEFINE s == <<f>>
<1>1. s \in Seq(Triples) /\ Len(s) = 1 /\ s[1] = f
  OBVIOUS
<1>. HIDE DEF s
<1>. QED
  BY <1>1 DEF FacesOf, s

LEMMA TwoFaces ==
  ASSUME NEW z, NEW f \in Triples, NEW g \in Triples, IsFace(z, f), IsFace(z, g),
         Differ(f, g), Differ(g, f), Triangles(z) = 2
  PROVE  FacesOf(z, <<f, g>>)
<1>. DEFINE s == <<f, g>>
<1>1. s \in Seq(Triples) /\ Len(s) = 2 /\ s[1] = f /\ s[2] = g
  OBVIOUS
<1>. HIDE DEF s
<1>2. \A a \in 1..Len(s) : IsFace(z, s[a])
  BY <1>1
<1>3. \A a, b \in 1..Len(s) : a # b => Differ(s[a], s[b])
  BY <1>1
<1>. QED
  BY <1>1, <1>2, <1>3 DEF FacesOf, s

LEMMA CornersNumbered ==
  ASSUME CloudTypes, AllNumbered, NEW p \in Pixels, NEW q \in Pixels, NEW r \in Pixels,
         Valid(p), Valid(q), Valid(r), NEW z, <<p, q, r>> \in Shapes(z)
  PROVE  <<vindex[p], vindex[q], vindex[r]>> \in Triples
         /\ IsFace(z, <<vindex[p], vindex[q], vindex[r]>>)
  BY DEF IsFace, Triples, CloudTypes

LEMMA OnesAreBits == \A c : One(c) \in 0..1
  BY DEF One

LEMMA CellFacesAre ==
  ASSUME CloudTypes, AllNumbered, NEW z \in MeshCells, Meshed(z)
  PROVE  FacesOf(z, CellFaces(z))
<1>. DEFINE A == UpperLeft(z)
            B == LowerLeft(z)
            D == UpperRight(z)
            a == vindex[A]
            b == vindex[B]
            c == vindex[z]
            d == vindex[D]
            q == Circle(z)
<1>1. /\ A \in Pixels /\ B \in Pixels /\ z \in Pixels /\ D \in Pixels
      /\ A # B /\ A # D /\ A # z /\ B # D /\ B # z /\ D # z
  BY CornersArePixels
<1>2. /\ a # Invalid /\ b # Invalid /\ c # Invalid /\ d # Invalid => q = <<a, b, c, d>>
      /\ a = Invalid /\ b # Invalid /\ c # Invalid /\ d # Invalid => q = <<b, c, d>>
      /\ a # Invalid /\ b = Invalid /\ c # Invalid /\ d # Invalid => q = <<a, c, d>>
      /\ a # Invalid /\ b # Invalid /\ c = Invalid /\ d # Invalid => q = <<a, b, d>>
      /\ a # Invalid /\ b # Invalid /\ c # Invalid /\ d = Invalid => q = <<a, b, c>>
  BY CircleIs, Zenon
<1>3. Shapes(z) = {<<A, B, z>>, <<z, D, A>>, <<B, z, D>>, <<A, z, D>>, <<A, B, D>>}
  BY Zenon DEF Shapes
<1>4. /\ One(A) + One(B) + One(D) + One(z) >= 3
      /\ Triangles(z) = One(A) + One(B) + One(D) + One(z) - 2
  <2>1. Cardinality(ValidCorners(z)) = One(A) + One(B) + One(D) + One(z)
    BY CornersCounted
  <2>2. Cardinality(ValidCorners(z)) >= 3
    BY DEF Meshed
  <2>3. Triangles(z) = Cardinality(ValidCorners(z)) - 2
    BY Zenon DEF Triangles
  <2>4. One(A) \in 0..1 /\ One(B) \in 0..1 /\ One(D) \in 0..1 /\ One(z) \in 0..1
    BY OnesAreBits
  <2>. HIDE DEF A, B, D
  <2>. QED
    BY <2>1, <2>2, <2>3, <2>4
<1>. HIDE DEF A, B, D
<1>5. /\ (Valid(A) <=> a # Invalid) /\ (Valid(B) <=> b # Invalid)
      /\ (Valid(z) <=> c # Invalid) /\ (Valid(D) <=> d # Invalid)
  BY <1>1 DEF AllNumbered
<1>6. CASE Valid(A) /\ Valid(B) /\ Valid(z) /\ Valid(D)
  <2>1. CellFaces(z) = << <<a, b, c>>, <<c, d, a>> >>
    <3>1. q = <<a, b, c, d>>
      BY <1>2, <1>5, <1>6
    <3>. HIDE DEF a, b, c, d
    <3>. QED
      BY <3>1, FacesOfFour
  <2>2. <<a, b, c>> \in Triples /\ IsFace(z, <<a, b, c>>)
    BY <1>1, <1>3, <1>6, CornersNumbered
  <2>3. <<c, d, a>> \in Triples /\ IsFace(z, <<c, d, a>>)
    BY <1>1, <1>3, <1>6, CornersNumbered
  <2>4. a # b /\ a # c /\ a # d /\ b # c /\ b # d /\ c # d
    BY <1>1, <1>6 DEF AllNumbered
  <2>5. Differ(<<a, b, c>>, <<c, d, a>>)
    <3>. DEFINE f == <<a, b, c>>
                g == <<c, d, a>>
    <3>1. f[2] = b /\ g[1] = c /\ g[2] = d /\ g[3] = a
      OBVIOUS
    <3>. HIDE DEF f, g
    <3>2. Differ(f, g)
      BY <2>4, <3>1 DEF Differ
    <3>. QED
      BY <3>2 DEF f, g
  <2>6. Differ(<<c, d, a>>, <<a, b, c>>)
    <3>. DEFINE f == <<a, b, c>>
                g == <<c, d, a>>
    <3>1. g[2] = d /\ f[1] = a /\ f[2] = b /\ f[3] = c
      OBVIOUS
    <3>. HIDE DEF f, g
    <3>2. Differ(g, f)
      BY <2>4, <3>1 DEF Differ
    <3>. QED
      BY <3>2 DEF f, g
  <2>7. Triangles(z) = 2
    BY <1>4, <1>6 DEF One
  <2>. QED
    BY <2>1, <2>2, <2>3, <2>5, <2>6, <2>7, TwoFaces, Zenon
<1>7. CASE ~Valid(A)
  <2>1. Valid(B) /\ Valid(z) /\ Valid(D) /\ Triangles(z) = 1
    BY <1>4, <1>7 DEF One
  <2>2. CellFaces(z) = << <<b, c, d>> >>
    <3>1. q = <<b, c, d>>
      BY <1>2, <1>5, <1>7, <2>1
    <3>. HIDE DEF a, b, c, d
    <3>. QED
      BY <3>1, FacesOfThree
  <2>3. <<b, c, d>> \in Triples /\ IsFace(z, <<b, c, d>>)
    BY <1>1, <1>3, <2>1, CornersNumbered
  <2>. QED
    BY <2>1, <2>2, <2>3, OneFace, Zenon
<1>8. CASE ~Valid(B)
  <2>1. Valid(A) /\ Valid(z) /\ Valid(D) /\ Triangles(z) = 1
    BY <1>4, <1>8 DEF One
  <2>2. CellFaces(z) = << <<a, c, d>> >>
    <3>1. q = <<a, c, d>>
      BY <1>2, <1>5, <1>8, <2>1
    <3>. HIDE DEF a, b, c, d
    <3>. QED
      BY <3>1, FacesOfThree
  <2>3. <<a, c, d>> \in Triples /\ IsFace(z, <<a, c, d>>)
    BY <1>1, <1>3, <2>1, CornersNumbered
  <2>. QED
    BY <2>1, <2>2, <2>3, OneFace, Zenon
<1>9. CASE ~Valid(z)
  <2>1. Valid(A) /\ Valid(B) /\ Valid(D) /\ Triangles(z) = 1
    BY <1>4, <1>9 DEF One
  <2>2. CellFaces(z) = << <<a, b, d>> >>
    <3>1. q = <<a, b, d>>
      BY <1>2, <1>5, <1>9, <2>1
    <3>. HIDE DEF a, b, c, d
    <3>. QED
      BY <3>1, FacesOfThree
  <2>3. <<a, b, d>> \in Triples /\ IsFace(z, <<a, b, d>>)
    BY <1>1, <1>3, <2>1, CornersNumbered
  <2>. QED
    BY <2>1, <2>2, <2>3, OneFace, Zenon
<1>10. CASE ~Valid(D)
  <2>1. Valid(A) /\ Valid(B) /\ Valid(z) /\ Triangles(z) = 1
    BY <1>4, <1>10 DEF One
  <2>2. CellFaces(z) = << <<a, b, c>> >>
    <3>1. q = <<a, b, c>>
      BY <1>2, <1>5, <1>10, <2>1
    <3>. HIDE DEF a, b, c, d
    <3>. QED
      BY <3>1, FacesOfThree
  <2>3. <<a, b, c>> \in Triples /\ IsFace(z, <<a, b, c>>)
    BY <1>1, <1>3, <2>1, CornersNumbered
  <2>. QED
    BY <2>1, <2>2, <2>3, OneFace, Zenon
<1>. QED
  BY <1>6, <1>7, <1>8, <1>9, <1>10

-----------------------------------------------------------------------------
(***************************************************************************)
(* Triangles of different cells differ in a corner: three corners of a     *)
(* cell are on both of its lines and both of its columns.                  *)
(***************************************************************************)
LEMMA ShapeSpans ==
  ASSUME NEW z \in MeshCells, NEW p, NEW q, NEW r, <<p, q, r>> \in Shapes(z)
  PROVE  /\ p \in CornersOf(z) /\ q \in CornersOf(z) /\ r \in CornersOf(z)
         /\ \E c \in {p, q, r} : c[1] = z[1]
         /\ \E c \in {p, q, r} : c[1] = z[1] - 1
         /\ \E c \in {p, q, r} : c[2] = z[2]
         /\ \E c \in {p, q, r} : c[2] = z[2] - 1
<1>. DEFINE A == UpperLeft(z)
            B == LowerLeft(z)
            D == UpperRight(z)
<1>1. /\ A[1] = z[1] - 1 /\ A[2] = z[2] - 1 /\ B[1] = z[1] /\ B[2] = z[2] - 1
      /\ D[1] = z[1] - 1 /\ D[2] = z[2] /\ CornersOf(z) = {A, B, D, z}
  BY CornersArePixels DEF UpperLeft, LowerLeft, UpperRight
<1>2. \/ p = A /\ q = B /\ r = z
      \/ p = z /\ q = D /\ r = A
      \/ p = B /\ q = z /\ r = D
      \/ p = A /\ q = z /\ r = D
      \/ p = A /\ q = B /\ r = D
  BY DEF Shapes
<1>. HIDE DEF A, B, D
<1>. QED
  BY <1>1, <1>2

LEMMA SharedCornersSameCell ==
  ASSUME NEW z \in MeshCells, NEW y \in MeshCells,
         NEW p, NEW q, NEW r, <<p, q, r>> \in Shapes(z),
         p \in CornersOf(y), q \in CornersOf(y), r \in CornersOf(y)
  PROVE  z = y
<1>1. /\ z = <<z[1], z[2]>> /\ z[1] \in Int /\ z[2] \in Int
      /\ y = <<y[1], y[2]>> /\ y[1] \in Int /\ y[2] \in Int
  BY CellsArePairs, SizeIsPositive
<1>2. \A c \in {p, q, r} : c[1] \in {y[1] - 1, y[1]} /\ c[2] \in {y[2] - 1, y[2]}
  BY DEF CornersOf
<1>3. /\ z[1] \in {y[1] - 1, y[1]} /\ z[1] - 1 \in {y[1] - 1, y[1]}
      /\ z[2] \in {y[2] - 1, y[2]} /\ z[2] - 1 \in {y[2] - 1, y[2]}
  BY <1>2, ShapeSpans
<1>4. z[1] = y[1] /\ z[2] = y[2]
  BY <1>1, <1>3
<1>. QED
  BY <1>1, <1>4

LEMMA CellsDiffer ==
  ASSUME AllNumbered, NEW z \in MeshCells, NEW y \in MeshCells, z # y,
         NEW f, NEW g, IsFace(z, f), IsFace(y, g)
  PROVE  Differ(f, g)
<1>1. PICK p, q, r \in Pixels :
        /\ Valid(p) /\ Valid(q) /\ Valid(r) /\ <<p, q, r>> \in Shapes(z)
        /\ f = <<vindex[p], vindex[q], vindex[r]>>
  BY DEF IsFace
<1>2. PICK s, t, u \in Pixels :
        /\ Valid(s) /\ Valid(t) /\ Valid(u) /\ <<s, t, u>> \in Shapes(y)
        /\ g = <<vindex[s], vindex[t], vindex[u]>>
  BY DEF IsFace
<1>3. f[1] = vindex[p] /\ f[2] = vindex[q] /\ f[3] = vindex[r]
  BY <1>1
<1>4. g[1] = vindex[s] /\ g[2] = vindex[t] /\ g[3] = vindex[u]
  BY <1>2
<1>5. SUFFICES ASSUME ~Differ(f, g) PROVE FALSE
  OBVIOUS
<1>6. /\ \E l \in 1..3 : f[1] = g[l]
      /\ \E l \in 1..3 : f[2] = g[l]
      /\ \E l \in 1..3 : f[3] = g[l]
  BY <1>5 DEF Differ
<1>7. \A c \in {p, q, r} : vindex[c] \in {vindex[s], vindex[t], vindex[u]}
  <2>1. \A l \in 1..3 : g[l] \in {vindex[s], vindex[t], vindex[u]}
    BY <1>4
  <2>. QED
    BY <1>3, <1>6, <2>1
<1>8. p \in {s, t, u} /\ q \in {s, t, u} /\ r \in {s, t, u}
  BY <1>1, <1>2, <1>7 DEF AllNumbered
<1>9. s \in CornersOf(y) /\ t \in CornersOf(y) /\ u \in CornersOf(y)
  BY <1>2, ShapeSpans
<1>10. p \in CornersOf(y) /\ q \in CornersOf(y) /\ r \in CornersOf(y)
  BY <1>8, <1>9
<1>. QED
  BY <1>1, <1>10, SharedCornersSameCell

-----------------------------------------------------------------------------
(***************************************************************************)
(* The triangles of the file are those of the cells that are past.         *)
(***************************************************************************)
FacesInv ==
  /\ faces \in Seq(Triples)
  /\ loop \in {"index", "count", "points"} => faces = <<>>
  /\ \A a \in 1..Len(faces) :
       \E z \in MeshCells : (loop = "faces" => Past(z)) /\ Meshed(z) /\ IsFace(z, faces[a])
  /\ \A a, b \in 1..Len(faces) : a # b => Differ(faces[a], faces[b])

LEMMA NumbersAreUnique ==
  ASSUME CloudTypes, IndexInv, loop # "index"
  PROVE  AllNumbered
<1>1. \A c \in Pixels : Numbered(c) <=> Valid(c)
  BY DEF Numbered
<1>2. \A c \in Pixels : Valid(c) <=> vindex[c] # Invalid
  BY <1>1 DEF IndexInv, NumbersFit, Invalid
<1>3. \A c, d \in Pixels : Valid(c) /\ Valid(d) /\ vindex[c] = vindex[d] => c = d
  BY <1>1, NumbersDiffer
<1>. QED
  BY <1>2, <1>3 DEF AllNumbered

\* The triangles of the next cell join those of the file.
LEMMA MoreFaces ==
  ASSUME NEW fs \in Seq(Triples), NEW gs \in Seq(Triples),
         AllNumbered, NEW h \in MeshCells, FacesOf(h, gs), NEW P, h \notin P, P \subseteq MeshCells,
         \A a \in 1..Len(fs) : \E z \in P : Meshed(z) /\ IsFace(z, fs[a]),
         \A a, b \in 1..Len(fs) : a # b => Differ(fs[a], fs[b]),
         Meshed(h)
  PROVE  /\ fs \o gs \in Seq(Triples) /\ Len(fs \o gs) = Len(fs) + Len(gs)
         /\ \A a \in 1..Len(fs \o gs) : \E z \in P \cup {h} : Meshed(z) /\ IsFace(z, (fs \o gs)[a])
         /\ \A a, b \in 1..Len(fs \o gs) : a # b => Differ((fs \o gs)[a], (fs \o gs)[b])
<1>. DEFINE k == Len(fs)
            l == Len(gs)
            hs == fs \o gs
<1>1. /\ hs \in Seq(Triples) /\ Len(hs) = k + l
      /\ \A i \in 1..(k + l) : hs[i] = IF i <= k THEN fs[i] ELSE gs[i - k]
  BY ConcatProperties
<1>2. k \in Nat /\ l \in Nat
  OBVIOUS
<1>3. /\ \A a \in 1..l : IsFace(h, gs[a])
      /\ \A a, b \in 1..l : a # b => Differ(gs[a], gs[b])
  BY DEF FacesOf
<1>4. /\ \A a \in 1..k : \E z \in P : Meshed(z) /\ IsFace(z, fs[a])
      /\ \A a, b \in 1..k : a # b => Differ(fs[a], fs[b])
  OBVIOUS
<1>. HIDE DEF k, l, hs
<1>5. \A i \in 1..(k + l) : \/ i \in 1..k /\ hs[i] = fs[i]
                            \/ i - k \in 1..l /\ hs[i] = gs[i - k]
  BY <1>1, <1>2
<1>6. ASSUME NEW a \in 1..(k + l)
      PROVE  \E z \in P \cup {h} : Meshed(z) /\ IsFace(z, hs[a])
  <2>1. CASE a \in 1..k /\ hs[a] = fs[a]
    BY <1>4, <2>1
  <2>2. CASE a - k \in 1..l /\ hs[a] = gs[a - k]
    BY <1>3, <2>2
  <2>. QED
    BY <1>5, <2>1, <2>2
<1>7. ASSUME NEW a \in 1..(k + l), NEW b \in 1..(k + l), a # b
      PROVE  Differ(hs[a], hs[b])
  <2>1. CASE a \in 1..k /\ hs[a] = fs[a] /\ b \in 1..k /\ hs[b] = fs[b]
    BY <1>4, <1>7, <2>1
  <2>2. CASE a \in 1..k /\ hs[a] = fs[a] /\ b - k \in 1..l /\ hs[b] = gs[b - k]
    <3>1. PICK z \in P : IsFace(z, fs[a])
      BY <1>4, <2>2
    <3>2. z \in MeshCells /\ z # h /\ IsFace(h, gs[b - k])
      BY <1>3, <2>2
    <3>. QED
      BY <2>2, <3>1, <3>2, CellsDiffer
  <2>3. CASE a - k \in 1..l /\ hs[a] = gs[a - k] /\ b \in 1..k /\ hs[b] = fs[b]
    <3>1. PICK z \in P : IsFace(z, fs[b])
      BY <1>4, <2>3
    <3>2. z \in MeshCells /\ z # h /\ IsFace(h, gs[a - k])
      BY <1>3, <2>3
    <3>. QED
      BY <2>3, <3>1, <3>2, CellsDiffer
  <2>4. CASE a - k \in 1..l /\ hs[a] = gs[a - k] /\ b - k \in 1..l /\ hs[b] = gs[b - k]
    <3>1. a - k # b - k
      BY <1>2, <1>7
    <3>. QED
      BY <1>3, <2>4, <3>1
  <2>. QED
    BY <1>5, <2>1, <2>2, <2>3, <2>4
<1>. QED
  BY <1>1, <1>6, <1>7 DEF hs, k, l

-----------------------------------------------------------------------------
(***************************************************************************)
(* The header declares as many triangles as are written.  Both loops add   *)
(* up the same numbers, so after the same cells they have the same sum.    *)
(***************************************************************************)
Follow(z) == IF z[2] < Columns THEN <<z[1], z[2] + 1>> ELSE <<z[1] + 1, 2>>

Places == (2..(Lines + 1)) \X (2..(Columns + 1))
First  == <<2, 2>>
End    == IF Columns = 1 THEN <<2, 2>> ELSE <<Lines + 1, 2>>

\* S has the sum before each cell, as far as the first loop has counted.
AddsUp(S) ==
  /\ S \in [Places -> Nat] /\ S[First] = 0
  /\ \A z \in MeshCells :
       (loop = "count" => Past(z)) => S[Follow(z)] = S[z] + Triangles(z)

CountInv ==
  /\ loop = "index" => tn = 0
  /\ loop # "index" =>
       \E S : /\ AddsUp(S)
              /\ tn = IF loop = "count" THEN S[Here] ELSE S[End]
              /\ loop = "faces" => Len(faces) = S[Here]
              /\ loop = "done" => Len(faces) = tn

LEMMA FollowFacts ==
  /\ First \in Places /\ End \in Places
  /\ \A z \in MeshCells : z \in Places /\ Follow(z) \in Places /\ Follow(z) # First
  /\ \A z, y \in MeshCells : Follow(z) = Follow(y) => z = y
<1>1. Lines \in Nat \ {0} /\ Columns \in Nat \ {0}
  BY SizeIsPositive
<1>2. First \in Places /\ End \in Places
  BY <1>1 DEF First, End, Places
<1>3. ASSUME NEW z \in MeshCells
      PROVE  z \in Places /\ Follow(z) \in Places /\ Follow(z) # First
  <2>1. z = <<z[1], z[2]>> /\ z[1] \in 2..Lines /\ z[2] \in 2..Columns
    BY CellsArePairs
  <2>. QED
    BY <1>1, <2>1 DEF Follow, Places, First
<1>4. ASSUME NEW z \in MeshCells, NEW y \in MeshCells, Follow(z) = Follow(y)
      PROVE  z = y
  <2>1. /\ z = <<z[1], z[2]>> /\ z[1] \in 2..Lines /\ z[2] \in 2..Columns
        /\ y = <<y[1], y[2]>> /\ y[1] \in 2..Lines /\ y[2] \in 2..Columns
    BY CellsArePairs
  <2>2. z[1] = y[1] /\ z[2] = y[2]
    BY <1>1, <1>4, <2>1 DEF Follow
  <2>. QED
    BY <2>1, <2>2
<1>. QED
  BY <1>2, <1>3, <1>4

LEMMA HereFollows ==
  ASSUME CloudTypes, Place, OverCells, row <= Lines, col <= Columns, Advance(2)
  PROVE  /\ Here' = Follow(Here)
         /\ \A z \in MeshCells : Past(z) => z # Follow(Here)
         /\ Here # Follow(Here)
<1>1. /\ Lines \in Nat \ {0} /\ Columns \in Nat \ {0}
      /\ row \in 2..Lines /\ col \in 2..Columns
  BY SizeIsPositive DEF Place
<1>2. Here' = <<row', col'>> /\ Here[1] = row /\ Here[2] = col
  BY DEF Here
<1>3. Follow(Here) = IF col < Columns THEN <<row, col + 1>> ELSE <<row + 1, 2>>
  BY <1>2 DEF Follow
<1>4. Here' = Follow(Here)
  BY <1>2, <1>3 DEF Advance
<1>5. \A z \in MeshCells : Past(z) => z # Follow(Here)
  BY <1>1, <1>3, CellsArePairs DEF Past
<1>6. Here # Follow(Here)
  BY <1>1, <1>3 DEF Here
<1>. QED
  BY <1>4, <1>5, <1>6

LEMMA CountCellCounts ==
  ASSUME CloudTypes, Place, IndexInv, PointsInv, CountInv, FacesInv, CountCell
  PROVE  CloudTypes' /\ Place' /\ IndexInv' /\ PointsInv' /\ CountInv' /\ FacesInv'
<1>1. /\ OverCells /\ row <= Lines /\ col <= Columns /\ Advance(2)
      /\ loop = "count" /\ loop' = "count"
  BY DEF OverCells, CountCell, In, Advance
<1>2. Place' /\ row' \in Nat /\ col' \in Nat /\ Here \in MeshCells /\ Moved(MeshCells)
  BY <1>1, AdvanceOverCells
<1>3. /\ Here' = Follow(Here) /\ Here # Follow(Here)
      /\ \A z \in MeshCells : Past(z) => z # Follow(Here)
  BY <1>1, HereFollows
<1>4. UNCHANGED <<disp, vstep, n, vindex, points, faces>> /\ tn' = tn + Triangles(Here)
  BY DEF CountCell
<1>5. IndexInv'
  <2>1. \A c \in Pixels : Numbered(c)' <=> Numbered(c)
    BY <1>1, <1>4 DEF Numbered, Valid
  <2>. QED
    BY <1>4, <2>1, NumbersStay
<1>6. PointsInv' /\ FacesInv'
  <2>1. points' = <<>> /\ faces' = <<>>
    BY <1>1, <1>4 DEF PointsInv, FacesInv
  <2>. QED
    BY <1>1, <2>1 DEF PointsInv, FacesInv
<1>7. PICK S : AddsUp(S) /\ tn = S[Here]
  BY <1>1 DEF CountInv
<1>8. \A z \in MeshCells : Triangles(z) \in Nat
  BY TrianglesAreNumbers
<1>9. \A z \in MeshCells : Triangles(z)' = Triangles(z)
  BY <1>4 DEF Triangles, Meshed, ValidCorners, CornersOf, Valid
<1>10. CloudTypes'
  <2>1. tn' \in Nat
    BY <1>2, <1>4, <1>8 DEF CloudTypes
  <2>. QED
    BY <1>1, <1>2, <1>4, <2>1 DEF CloudTypes
<1>. DEFINE h == Here
            f == Follow(Here)
<1>11. /\ h \in MeshCells /\ f \in Places /\ f # First /\ h # f /\ h \in Places
       /\ \A z \in MeshCells : z \in Places /\ Follow(z) \in Places
       /\ \A z \in MeshCells : Past(z) => z # f /\ Follow(z) # f
  BY <1>2, <1>3, FollowFacts DEF Moved
<1>12. S \in [Places -> Nat] /\ tn' \in Nat
  BY <1>7, <1>10 DEF AddsUp, CloudTypes
<1>13. \A z \in MeshCells : Past(z)' <=> Past(z) \/ z = h
  BY <1>2 DEF Moved
<1>16. Follow(h) = f
  OBVIOUS
<1>. HIDE DEF h, f
<1>14. PICK R : R \in [Places -> Nat] /\ R[f] = tn' /\ \A z \in Places : z # f => R[z] = S[z]
  <2>. DEFINE T == [S EXCEPT ![f] = tn']
  <2>1. T \in [Places -> Nat] /\ T[f] = tn' /\ \A z \in Places : z # f => T[z] = S[z]
    BY <1>11, <1>12
  <2>. QED
    BY <2>1
<1>15. AddsUp(R)'
  <2>1. R[First] = 0
    BY <1>7, <1>11, <1>14, FollowFacts DEF AddsUp
  <2>2. ASSUME NEW z \in MeshCells, Past(z)'
        PROVE  R[Follow(z)] = R[z] + Triangles(z)
    <3>1. CASE z = h
      <4>1. R[h] = tn
        BY <1>7, <1>11, <1>14 DEF h
      <4>2. tn' = tn + Triangles(h)
        BY <1>4 DEF h
      <4>. QED
        BY <1>14, <1>16, <3>1, <4>1, <4>2
    <3>2. CASE z # h
      <4>1. Past(z)
        BY <1>13, <2>2, <3>2
      <4>2. S[Follow(z)] = S[z] + Triangles(z)
        BY <1>7, <4>1 DEF AddsUp
      <4>3. R[Follow(z)] = S[Follow(z)] /\ R[z] = S[z]
        BY <1>11, <1>14, <4>1
      <4>. QED
        BY <4>2, <4>3
    <3>. QED
      BY <3>1, <3>2
  <2>. QED
    BY <1>1, <1>9, <1>14, <2>1, <2>2 DEF AddsUp
<1>17. tn' = R[Here']
  <2>1. Here' = f
    BY <1>3 DEF f
  <2>. QED
    BY <1>14, <2>1, Zenon
<1>18. CountInv'
  BY <1>1, <1>15, <1>17 DEF CountInv
<1>. QED
  BY <1>2, <1>5, <1>6, <1>10, <1>18

LEMMA FaceCellWrites ==
  ASSUME CloudTypes, Place, IndexInv, PointsInv, CountInv, FacesInv, FaceCell
  PROVE  CloudTypes' /\ Place' /\ IndexInv' /\ PointsInv' /\ CountInv' /\ FacesInv'
<1>1. /\ OverCells /\ row <= Lines /\ col <= Columns /\ Advance(2)
      /\ loop = "faces" /\ loop' = "faces"
  BY DEF OverCells, FaceCell, In, Advance
<1>2. Place' /\ row' \in Nat /\ col' \in Nat /\ Here \in MeshCells /\ Moved(MeshCells)
  BY <1>1, AdvanceOverCells
<1>3. Here' = Follow(Here)
  BY <1>1, HereFollows
<1>4. /\ UNCHANGED <<disp, vstep, n, tn, vindex, points>>
      /\ faces' = faces \o (IF Meshed(Here) THEN CellFaces(Here) ELSE <<>>)
  BY DEF FaceCell
<1>5. IndexInv'
  <2>1. \A c \in Pixels : Numbered(c)' <=> Numbered(c)
    BY <1>1, <1>4 DEF Numbered, Valid
  <2>. QED
    BY <1>4, <2>1, NumbersStay
<1>6. PointsInv'
  BY <1>1, <1>4 DEF PointsInv, PointInPlace, Valid
<1>7. CloudTypes'
  BY <1>1, <1>2, <1>4 DEF CloudTypes
<1>8. /\ \A z \in MeshCells : Meshed(z)' <=> Meshed(z)
      /\ \A z \in MeshCells : Triangles(z)' = Triangles(z)
  <2>1. \A z : ValidCorners(z)' = ValidCorners(z)
    BY <1>4 DEF ValidCorners, CornersOf, Valid
  <2>2. \A z : Meshed(z)' <=> Meshed(z)
    BY <1>4, <2>1, Zenon DEF Meshed
  <2>. QED
    BY <2>1, <2>2, Zenon DEF Triangles
<1>. DEFINE h == Here
            P == {z \in MeshCells : Past(z)}
<1>10. /\ h \in MeshCells /\ ~Past(h) /\ \A z \in MeshCells : Past(z)' <=> Past(z) \/ z = h
  BY <1>2 DEF Moved
<1>11. AllNumbered
  BY <1>1, NumbersAreUnique
<1>12. /\ faces \in Seq(Triples)
       /\ \A a \in 1..Len(faces) : \E z \in P : Meshed(z) /\ IsFace(z, faces[a])
       /\ \A a, b \in 1..Len(faces) : a # b => Differ(faces[a], faces[b])
  BY <1>1 DEF FacesInv
<1>13. P \subseteq MeshCells /\ h \notin P
  BY <1>10
<1>14. h = Here
  OBVIOUS
<1>. HIDE DEF h
<1>15. /\ faces' \in Seq(Triples) /\ Len(faces') = Len(faces) + Triangles(h)
       /\ \A a \in 1..Len(faces') : \E z \in P \cup {h} : Meshed(z) /\ IsFace(z, faces'[a])
       /\ \A a, b \in 1..Len(faces') : a # b => Differ(faces'[a], faces'[b])
  <2>1. CASE Meshed(h)
    <3>. DEFINE gs == CellFaces(h)
    <3>1. FacesOf(h, gs)
      BY <1>10, <1>11, <2>1, CellFacesAre
    <3>2. faces' = faces \o gs
      BY <1>4, <1>14, <2>1
    <3>. HIDE DEF gs, P
    <3>3. gs \in Seq(Triples) /\ Len(gs) = Triangles(h)
      BY <3>1 DEF FacesOf
    <3>4. /\ faces \o gs \in Seq(Triples) /\ Len(faces \o gs) = Len(faces) + Len(gs)
          /\ \A a \in 1..Len(faces \o gs) :
               \E z \in P \cup {h} : Meshed(z) /\ IsFace(z, (faces \o gs)[a])
          /\ \A a, b \in 1..Len(faces \o gs) : a # b =>
               Differ((faces \o gs)[a], (faces \o gs)[b])
      BY <1>10, <1>11, <1>12, <1>13, <2>1, <3>1, <3>3, MoreFaces
    <3>. QED
      BY <3>2, <3>3, <3>4, Zenon
  <2>2. CASE ~Meshed(h)
    <3>1. faces' = faces
      <4>1. faces' = faces \o <<>>
        BY <1>4, <1>14, <2>2
      <4>. QED
        BY <1>12, <4>1, ConcatEmptySeq
    <3>2. Triangles(h) = 0
      BY <2>2 DEF Triangles
    <3>. QED
      BY <1>12, <3>1, <3>2
  <2>. QED
    BY <2>1, <2>2
<1>16. FacesInv'
  <2>1. \A a \in 1..Len(faces') :
          \E z \in MeshCells : Past(z)' /\ Meshed(z)' /\ IsFace(z, faces[a])'
    <3>. SUFFICES ASSUME NEW a \in 1..Len(faces')
                  PROVE  \E z \in MeshCells : Past(z)' /\ Meshed(z)' /\ IsFace(z, faces[a])'
      OBVIOUS
    <3>1. PICK z \in P \cup {h} : Meshed(z) /\ IsFace(z, faces'[a])
      BY <1>15
    <3>2. z \in MeshCells /\ Past(z)'
      BY <1>10, <3>1 DEF P
    <3>3. IsFace(z, faces[a])'
      BY <1>4, <3>1 DEF IsFace, Shapes, UpperLeft, LowerLeft, UpperRight, Valid
    <3>. QED
      BY <1>8, <3>1, <3>2, <3>3
  <2>2. \A a, b \in 1..Len(faces') : a # b => Differ(faces[a], faces[b])'
    BY <1>15 DEF Differ
  <2>. QED
    BY <1>1, <1>15, <2>1, <2>2 DEF FacesInv
<1>17. CountInv'
  <2>1. PICK S : AddsUp(S) /\ tn = S[End] /\ Len(faces) = S[Here]
    BY <1>1 DEF CountInv
  <2>2. AddsUp(S)'
    BY <1>1, <1>8, <2>1 DEF AddsUp
  <2>3. S[Follow(h)] = S[h] + Triangles(h)
    BY <1>1, <1>10, <2>1 DEF AddsUp
  <2>4. Len(faces') = S[Here']
    BY <1>3, <1>14, <1>15, <2>1, <2>3
  <2>. QED
    BY <1>1, <1>4, <2>1, <2>2, <2>4 DEF CountInv
<1>. QED
  BY <1>2, <1>5, <1>6, <1>7, <1>16, <1>17

LEMMA NextLoopKeeps ==
  ASSUME CloudTypes, Place, IndexInv, PointsInv, CountInv, FacesInv, NextLoop
  PROVE  CloudTypes' /\ Place' /\ IndexInv' /\ PointsInv' /\ CountInv' /\ FacesInv'
<1>1. /\ Place' /\ CloudTypes'
      /\ OverPixels => \A c \in Pixels : Past(c)
      /\ OverCells => \A c \in MeshCells : Past(c)
      /\ OverPixels' => \A c \in Pixels : ~Past(c)'
      /\ OverCells' => \A c \in MeshCells : ~Past(c)'
  BY LoopEnds
<1>2. UNCHANGED <<disp, vstep, n, tn, vindex, points, faces>>
  BY DEF NextLoop
<1>3. \/ loop = "index" /\ loop' = "count" /\ row' = 2 /\ col' = 2
      \/ loop = "count" /\ loop' = "points"
      \/ loop = "points" /\ loop' = "faces" /\ row' = 2 /\ col' = 2
      \/ loop = "faces" /\ loop' = "done"
  BY DEF NextLoop
<1>4. IndexInv'
  <2>1. \A c \in Pixels : Numbered(c)' <=> Numbered(c)
    BY <1>1, <1>2, <1>3 DEF Numbered, Valid, OverPixels
  <2>. QED
    BY <1>2, <2>1, NumbersStay
<1>5. PointsInv'
  <2>1. CASE loop = "count"
    <3>1. \A c \in Pixels : Valid(c) => vindex[c] >= 0
      BY <2>1 DEF IndexInv, NumbersFit, Numbered
    <3>2. points = <<>> /\ Len(points) = 0 /\ n \in Nat /\ \A c \in Pixels : ~Past(c)'
      BY <1>1, <1>3, <2>1 DEF PointsInv, CloudTypes, OverPixels
    <3>. QED
      BY <1>2, <1>3, <2>1, <3>1, <3>2 DEF PointsInv, Valid
  <2>2. CASE loop = "points"
    <3>1. Len(points) = n /\ \A c \in Pixels : Valid(c) => PointInPlace(c)
      BY <1>1, <2>2, PointsComplete DEF OverPixels
    <3>. QED
      BY <1>2, <1>3, <2>2, <3>1 DEF PointsInv, Valid, PointInPlace
  <2>3. CASE loop = "index"
    BY <1>2, <1>3, <2>3 DEF PointsInv
  <2>4. CASE loop = "faces"
    BY <1>2, <1>3, <2>4 DEF PointsInv, Valid, PointInPlace
  <2>. QED
    BY <1>3, <2>1, <2>2, <2>3, <2>4
<1>8. /\ \A z \in MeshCells : Meshed(z)' <=> Meshed(z)
      /\ \A z \in MeshCells : Triangles(z)' = Triangles(z)
  <2>1. \A z : ValidCorners(z)' = ValidCorners(z)
    BY <1>2 DEF ValidCorners, CornersOf, Valid
  <2>2. \A z : Meshed(z)' <=> Meshed(z)
    BY <1>2, <2>1, Zenon DEF Meshed
  <2>. QED
    BY <2>1, <2>2, Zenon DEF Triangles
<1>9. \A z, f : IsFace(z, f)' <=> IsFace(z, f)
  BY <1>2 DEF IsFace, Shapes, UpperLeft, LowerLeft, UpperRight, Valid
<1>10. FacesInv'
  <2>1. loop' \in {"count", "points", "faces"} => faces' = <<>>
    BY <1>2, <1>3 DEF FacesInv
  <2>2. CASE loop # "faces"
    BY <1>3, <2>1, <2>2 DEF FacesInv
  <2>3. CASE loop = "faces"
    <3>1. /\ loop' = "done" /\ faces' = faces /\ faces \in Seq(Triples)
          /\ \A a \in 1..Len(faces) : \E z \in MeshCells : Meshed(z) /\ IsFace(z, faces[a])
          /\ \A a, b \in 1..Len(faces) : a # b => Differ(faces[a], faces[b])
      BY <1>2, <1>3, <2>3 DEF FacesInv
    <3>2. \A a \in 1..Len(faces) : \E z \in MeshCells : Meshed(z)' /\ IsFace(z, faces[a])'
      BY <1>8, <1>9, <3>1
    <3>. QED
      BY <3>1, <3>2 DEF FacesInv, Differ
  <2>. QED
    BY <2>2, <2>3
<1>11. CountInv'
  <2>0. Columns \in Nat \ {0} /\ Lines \in Nat \ {0}
    BY SizeIsPositive
  <2>1. CASE loop = "index"
    <3>. DEFINE R == [z \in Places |-> 0]
    <3>1. R \in [Places -> Nat] /\ R[First] = 0
      BY FollowFacts
    <3>. HIDE DEF R
    <3>2. AddsUp(R)'
      <4>1. loop' = "count" /\ \A z \in MeshCells : ~Past(z)'
        BY <1>1, <1>3, <2>1 DEF OverCells
      <4>. QED
        BY <3>1, <4>1 DEF AddsUp
    <3>3. tn' = 0 /\ Here' = First
      BY <1>2, <1>3, <2>1 DEF CountInv, Here, First
    <3>. QED
      BY <1>3, <2>1, <3>1, <3>2, <3>3 DEF CountInv
  <2>2. CASE loop = "count"
    <3>1. PICK S : AddsUp(S) /\ tn = S[Here]
      BY <2>2 DEF CountInv
    <3>2. \A z \in MeshCells : Past(z)
      BY <1>1, <2>2 DEF OverCells
    <3>3. AddsUp(S)'
      BY <1>8, <2>2, <3>1, <3>2 DEF AddsUp
    <3>4. Here = End
      <4>1. row \in 2..(Lines + 1) /\ col \in 2..(Columns + 1)
            /\ (IF Columns = 1 THEN row = 2 ELSE col <= Columns)
            /\ (row = Lines + 1 => col = 2) /\ (row > Lines \/ col > Columns)
        BY <2>2 DEF Place, OverCells, NextLoop
      <4>. QED
        BY <2>0, <4>1 DEF Here, End
    <3>. QED
      BY <1>2, <1>3, <2>2, <3>1, <3>3, <3>4 DEF CountInv
  <2>3. CASE loop = "points"
    <3>1. PICK S : AddsUp(S) /\ tn = S[End]
      BY <2>3 DEF CountInv
    <3>2. AddsUp(S)'
      BY <1>3, <1>8, <2>3, <3>1 DEF AddsUp
    <3>3. Len(faces') = 0 /\ Here' = First /\ S[First] = 0
      BY <1>2, <1>3, <2>3, <3>1 DEF FacesInv, Here, First, AddsUp
    <3>. QED
      BY <1>2, <1>3, <2>3, <3>1, <3>2, <3>3 DEF CountInv
  <2>4. CASE loop = "faces"
    <3>1. PICK S : AddsUp(S) /\ tn = S[End] /\ Len(faces) = S[Here]
      BY <2>4 DEF CountInv
    <3>2. AddsUp(S)'
      BY <1>3, <1>8, <2>4, <3>1 DEF AddsUp
    <3>3. Here = End
      <4>1. row \in 2..(Lines + 1) /\ col \in 2..(Columns + 1)
            /\ (IF Columns = 1 THEN row = 2 ELSE col <= Columns)
            /\ (row = Lines + 1 => col = 2) /\ (row > Lines \/ col > Columns)
        BY <2>4 DEF Place, OverCells, NextLoop
      <4>. QED
        BY <2>0, <4>1 DEF Here, End
    <3>. QED
      BY <1>2, <1>3, <2>4, <3>1, <3>2, <3>3 DEF CountInv
  <2>. QED
    BY <1>3, <2>1, <2>2, <2>3, <2>4
<1>. QED
  BY <1>1, <1>4, <1>5, <1>10, <1>11

-----------------------------------------------------------------------------
\* All of it, while the tool that stores a mesh runs.
Meshing ==
  CloudTypes /\ Place /\ IndexInv /\ PointsInv /\ CountInv /\ FacesInv

CloudInv == loop = "none" \/ Meshing

LEMMA CloudInvInit == Init => CloudInv
<1>1. CASE StoresImages
  BY <1>1 DEF StoresImages, NoCloud, CloudInv
<1>2. CASE StoresCloud
  <2>1. /\ loop = "index" /\ row = 1 /\ col = 1 /\ n = 0 /\ tn = 0
        /\ vindex = [c \in Pixels |-> Invalid] /\ points = <<>> /\ faces = <<>>
        /\ disp \in Disparities /\ vstep \in DepthSteps
    BY <1>2 DEF StoresCloud, CloudInit, NoCloud
  <2>2. disp \in [Pixels -> Nat] /\ vstep \in Nat /\ Columns \in Nat \ {0} /\ Lines \in Nat \ {0}
    BY <2>1, DisparitiesAreNumbers, SizeIsPositive
  <2>3. CloudTypes /\ Place
    BY <2>1, <2>2 DEF CloudTypes, Place, OverPixels, OverCells, Invalid
  <2>4. \A c \in Pixels : ~Past(c)
    BY <2>1, <2>2, PixelsArePairs DEF Past
  <2>5. IndexInv
    BY <2>1, <2>4 DEF IndexInv, NumbersFit, NumbersGrow, NumbersUsed, Numbered
  <2>6. PointsInv /\ CountInv
    BY <2>1 DEF PointsInv, CountInv
  <2>7. FacesInv
    BY <2>1 DEF FacesInv
  <2>. QED
    BY <2>3, <2>5, <2>6, <2>7 DEF CloudInv, Meshing
<1>. QED
  BY <1>1, <1>2 DEF Init

LEMMA CloudInvStep ==
  ASSUME CloudInv, [Next]_vars
  PROVE  CloudInv'
<1>1. CASE UNCHANGED cloudVars
  <2>1. CASE loop = "none"
    BY <1>1, <2>1 DEF CloudInv, cloudVars
  <2>2. CASE Meshing
    <3>1. CloudTypes' /\ Place'
      BY <1>1, <2>2 DEF Meshing, CloudTypes, Place, OverPixels, OverCells, cloudVars
    <3>2. IndexInv'
      <4>1. \A c \in Pixels : Numbered(c)' <=> Numbered(c)
        BY <1>1 DEF Numbered, Valid, Past, cloudVars
      <4>. QED
        BY <1>1, <2>2, <4>1, NumbersStay DEF Meshing, cloudVars
    <3>3. PointsInv'
      BY <1>1, <2>2 DEF Meshing, PointsInv, PointInPlace, Valid, Past, cloudVars
    <3>4. \A z : /\ ValidCorners(z)' = ValidCorners(z)
                 /\ Past(z)' <=> Past(z)
      BY <1>1 DEF ValidCorners, CornersOf, Valid, Past, cloudVars
    <3>5. \A z : Meshed(z)' <=> Meshed(z)
      BY <1>1, <3>4, Zenon DEF Meshed, cloudVars
    <3>6. \A z : Triangles(z)' = Triangles(z)
      BY <3>4, <3>5, Zenon DEF Triangles
    <3>7. CountInv'
      <4>1. UNCHANGED <<loop, tn, faces>> /\ Here' = Here
        BY <1>1 DEF cloudVars, Here
      <4>2. CASE loop = "index"
        BY <2>2, <4>1, <4>2 DEF Meshing, CountInv
      <4>3. CASE loop # "index"
        <5>1. PICK S : /\ AddsUp(S)
                       /\ tn = IF loop = "count" THEN S[Here] ELSE S[End]
                       /\ loop = "faces" => Len(faces) = S[Here]
                       /\ loop = "done" => Len(faces) = tn
          BY <2>2, <4>3 DEF Meshing, CountInv
        <5>2. AddsUp(S)'
          BY <3>4, <3>6, <4>1, <5>1 DEF AddsUp
        <5>. QED
          BY <4>1, <4>3, <5>1, <5>2 DEF CountInv
      <4>. QED
        BY <4>2, <4>3
    <3>8. FacesInv'
      <4>1. faces' = faces /\ loop' = loop
        BY <1>1 DEF cloudVars
      <4>2. \A z, f : IsFace(z, f)' <=> IsFace(z, f)
        BY <1>1 DEF IsFace, Shapes, UpperLeft, LowerLeft, UpperRight, Valid, cloudVars
      <4>3. \A a \in 1..Len(faces) :
               \E z \in MeshCells : (loop = "faces" => Past(z)') /\ Meshed(z)' /\ IsFace(z, faces[a])'
        BY <2>2, <3>4, <3>5, <4>1, <4>2 DEF Meshing, FacesInv
      <4>. QED
        BY <2>2, <4>1, <4>3 DEF Meshing, FacesInv, Differ
    <3>. QED
      BY <3>1, <3>2, <3>3, <3>7, <3>8 DEF CloudInv, Meshing
  <2>. QED
    BY <2>1, <2>2 DEF CloudInv
<1>2. CASE CloudNext
  <2>1. Meshing
    BY <1>2 DEF CloudInv, CloudNext, IndexPixel, CountCell, PointPixel, FaceCell, NextLoop, In
  <2>2. CASE IndexPixel
    <3>1. CloudTypes' /\ Place' /\ IndexInv'
      BY <2>1, <2>2, IndexPixelNumbers DEF Meshing
    <3>2. loop = "index" /\ loop' = "index" /\ UNCHANGED <<tn, points, faces>>
      BY <2>2 DEF IndexPixel, In, Advance
    <3>3. tn = 0 /\ points = <<>> /\ faces = <<>>
      BY <2>1, <3>2 DEF Meshing, CountInv, PointsInv, FacesInv
    <3>4. PointsInv' /\ CountInv' /\ FacesInv'
      BY <3>2, <3>3 DEF CountInv, PointsInv, FacesInv
    <3>. QED
      BY <3>1, <3>4 DEF CloudInv, Meshing
  <2>3. CASE PointPixel
    <3>1. CloudTypes' /\ Place' /\ IndexInv' /\ PointsInv'
      BY <2>1, <2>3, PointPixelWrites DEF Meshing
    <3>2. loop = "points" /\ loop' = "points" /\ UNCHANGED <<disp, vstep, tn, faces>>
      BY <2>3 DEF PointPixel, In, Advance
    <3>3. FacesInv'
      BY <2>1, <3>2 DEF Meshing, FacesInv
    <3>4. \A z : Triangles(z)' = Triangles(z)
      <4>1. \A z : ValidCorners(z)' = ValidCorners(z)
        BY <3>2 DEF ValidCorners, CornersOf, Valid
      <4>2. \A z : Meshed(z)' <=> Meshed(z)
        BY <3>2, <4>1, Zenon DEF Meshed
      <4>. QED
        BY <4>1, <4>2, Zenon DEF Triangles
    <3>5. CountInv'
      <4>1. PICK S : AddsUp(S) /\ tn = S[End]
        BY <2>1, <3>2 DEF Meshing, CountInv
      <4>2. AddsUp(S)'
        BY <3>2, <3>4, <4>1 DEF AddsUp
      <4>. QED
        BY <3>2, <4>1, <4>2 DEF CountInv
    <3>. QED
      BY <3>1, <3>3, <3>5 DEF CloudInv, Meshing
  <2>4. CASE CountCell
    BY <2>1, <2>4, CountCellCounts DEF CloudInv, Meshing
  <2>5. CASE FaceCell
    BY <2>1, <2>5, FaceCellWrites DEF CloudInv, Meshing
  <2>6. CASE NextLoop
    BY <2>1, <2>6, NextLoopKeeps DEF CloudInv, Meshing
  <2>. QED
    BY <1>2, <2>2, <2>3, <2>4, <2>5, <2>6 DEF CloudNext
<1>. QED
  BY <1>1, <1>2 DEF Next, vars

-----------------------------------------------------------------------------
LEMMA GreatestNumber ==
  ASSUME NEW B, B \subseteq Nat, B # {}, NEW m \in Nat, \A x \in B : x <= m
  PROVE  \E x \in B : \A y \in B : x >= y
<1>. DEFINE T == {m - x : x \in B}
<1>1. T \subseteq Nat /\ T # {}
  <2>1. \A x \in B : x \in Nat /\ m - x \in Nat
    OBVIOUS
  <2>2. PICK x : x \in B
    OBVIOUS
  <2>3. m - x \in T
    BY <2>2
  <2>4. T \subseteq Nat
    BY <2>1
  <2>. QED
    BY <2>3, <2>4
<1>2. PICK t \in T : \A y \in T : t <= y
  BY <1>1, LeastNumber
<1>3. PICK x \in B : t = m - x
  OBVIOUS
<1>4. \A y \in B : m - x <= m - y
  BY <1>2, <1>3
<1>5. \A y \in B : x >= y
  BY <1>3, <1>4
<1>. QED
  BY <1>3, <1>5

\* The depths of a cell are in the range of its smallest and largest ones.
LEMMA DepthsInRange ==
  ASSUME CloudTypes, NEW z \in MeshCells, Meshed(z),
         NEW p \in ValidCorners(z), NEW q \in ValidCorners(z)
  PROVE  disp[p] <= disp[q] + vstep
<1>. DEFINE A == UpperLeft(z)
            B == LowerLeft(z)
            D == UpperRight(z)
            V == {disp[c] : c \in ValidCorners(z)}
<1>1. /\ A \in Pixels /\ B \in Pixels /\ D \in Pixels /\ z \in Pixels
      /\ CornersOf(z) = {A, B, D, z}
  BY CornersArePixels
<1>. HIDE DEF A, B, D
<1>2. disp[A] \in Nat /\ disp[B] \in Nat /\ disp[D] \in Nat /\ disp[z] \in Nat /\ vstep \in Nat
  BY <1>1 DEF CloudTypes
<1>3. ValidCorners(z) \subseteq {A, B, D, z}
  BY <1>1 DEF ValidCorners
<1>4. V \subseteq Nat /\ \A x \in V : x <= disp[A] + disp[B] + disp[D] + disp[z]
  BY <1>2, <1>3
<1>5. disp[p] \in V /\ disp[q] \in V
  OBVIOUS
<1>6. Max(V) - Min(V) <= vstep
  BY DEF Meshed
<1>. HIDE DEF V
<1>7. Max(V) \in V /\ \A x \in V : Max(V) >= x
  <2>1. \E x \in V : \A y \in V : x >= y
    <3>. DEFINE m == disp[A] + disp[B] + disp[D] + disp[z]
    <3>1. m \in Nat /\ \A x \in V : x <= m
      BY <1>2, <1>4
    <3>. HIDE DEF m
    <3>. QED
      BY <1>4, <1>5, <3>1, GreatestNumber
  <2>. QED
    BY <2>1 DEF Max
<1>8. Min(V) \in V /\ \A x \in V : Min(V) <= x
  <2>1. \E x \in V : \A y \in V : x <= y
    BY <1>4, <1>5, LeastNumber
  <2>. QED
    BY <2>1 DEF Min
<1>. DEFINE a == Max(V)
            b == Min(V)
            e == disp[p]
            f == disp[q]
<1>9. a \in Nat /\ b \in Nat /\ e \in Nat /\ f \in Nat /\ a - b <= vstep /\ a >= e /\ b <= f
  BY <1>4, <1>5, <1>6, <1>7, <1>8
<1>. HIDE DEF a, b, e, f
<1>10. e <= f + vstep
  BY <1>2, <1>9
<1>. QED
  BY <1>10 DEF e, f

\* Every shape is half of a cell, with the same orientation.
LEMMA ShapeArea ==
  ASSUME NEW z \in MeshCells, NEW p, NEW q, NEW r, <<p, q, r>> \in Shapes(z)
  PROVE  (q[1] - p[1]) * (r[2] - p[2]) - (q[2] - p[2]) * (r[1] - p[1]) = 1
<1>. DEFINE A == UpperLeft(z)
            B == LowerLeft(z)
            D == UpperRight(z)
<1>1. /\ A[1] = z[1] - 1 /\ A[2] = z[2] - 1 /\ B[1] = z[1] /\ B[2] = z[2] - 1
      /\ D[1] = z[1] - 1 /\ D[2] = z[2]
  BY DEF UpperLeft, LowerLeft, UpperRight
<1>2. z[1] \in Int /\ z[2] \in Int
  BY CellsArePairs, SizeIsPositive
<1>3. \/ p = A /\ q = B /\ r = z
      \/ p = z /\ q = D /\ r = A
      \/ p = B /\ q = z /\ r = D
      \/ p = A /\ q = z /\ r = D
      \/ p = A /\ q = B /\ r = D
  BY DEF Shapes
<1>. HIDE DEF A, B, D
<1>. DEFINE e == q[1] - p[1]
            f == r[2] - p[2]
            g == q[2] - p[2]
            h == r[1] - p[1]
<1>4. \/ e = 1 /\ f = 1 /\ g = 0 /\ h = 1
      \/ e = -1 /\ f = -1 /\ g = 0 /\ h = -1
      \/ e = 0 /\ f = 1 /\ g = 1 /\ h = -1
      \/ e = 1 /\ f = 1 /\ g = 1 /\ h = 0
      \/ e = 1 /\ f = 1 /\ g = 0 /\ h = 0
  BY <1>1, <1>2, <1>3
<1>. HIDE DEF e, f, g, h
<1>5. e * f - g * h = 1
  BY <1>4
<1>. QED
  BY <1>5 DEF e, f, g, h

LEMMA DifferMeansTwo ==
  ASSUME NEW f, NEW g, Differ(f, g)
  PROVE  Cardinality({f[j] : j \in 1..3} \cap {g[j] : j \in 1..3}) <= 2
<1>. DEFINE T == {f[j] : j \in 1..3} \cap {g[j] : j \in 1..3}
<1>1. PICK j \in 1..3 : \A l \in 1..3 : f[j] # g[l]
  BY DEF Differ
<1>2. \E x, y : T \subseteq {x, y}
  <2>1. CASE j = 1
    BY <1>1, <2>1
  <2>2. CASE j = 2
    BY <1>1, <2>2
  <2>3. CASE j = 3
    BY <1>1, <2>3
  <2>4. j = 1 \/ j = 2 \/ j = 3
    OBVIOUS
  <2>. HIDE DEF T
  <2>. QED
    BY <2>1, <2>2, <2>3, <2>4
<1>. HIDE DEF T
<1>3. PICK x, y : T \subseteq {x, y}
  BY <1>2
<1>4. IsFiniteSet({x, y}) /\ Cardinality({x, y}) <= 2
  <2>1. IsFiniteSet({x}) /\ Cardinality({x}) = 1 /\ {x, y} = {x} \cup {y}
    BY FS_Singleton
  <2>2. /\ IsFiniteSet({x} \cup {y})
        /\ Cardinality({x} \cup {y}) = IF y \in {x} THEN 1 ELSE 2
    BY <2>1, FS_AddElement
  <2>. QED
    BY <2>1, <2>2
<1>5. Cardinality(T) <= 2
  <2>1. Cardinality(T) <= Cardinality({x, y}) /\ IsFiniteSet(T)
    BY <1>3, <1>4, FS_Subset
  <2>2. Cardinality(T) \in Nat /\ Cardinality({x, y}) \in Nat
    BY <1>4, <2>1, FS_CardinalityType
  <2>. QED
    BY <1>4, <2>1, <2>2
<1>. QED
  BY <1>5 DEF T

LEMMA MeshingSuffices == CloudInv => MeshIsSound
<1>. SUFFICES ASSUME Meshing, loop = "done" PROVE MeshIsSound
  BY DEF CloudInv, MeshIsSound
<1>1. AllNumbered
  BY NumbersAreUnique DEF Meshing
<1>2. Len(points) = n /\ \A c \in Pixels : Valid(c) => PointInPlace(c)
  BY DEF Meshing, PointsInv
<1>3. Len(faces) = tn
  BY DEF Meshing, CountInv
<1>4. /\ faces \in Seq(Triples)
      /\ \A a \in 1..Len(faces) : \E z \in MeshCells : Meshed(z) /\ IsFace(z, faces[a])
      /\ \A a, b \in 1..Len(faces) : a # b => Differ(faces[a], faces[b])
  BY DEF Meshing, FacesInv
<1>5. \A c \in Pixels : Valid(c) => vindex[c] < n
  BY DEF Meshing, IndexInv, NumbersFit, Numbered
<1>6. ASSUME NEW f \in ToSet(faces)
      PROVE  /\ \A j \in 1..3 : f[j] < n
             /\ \E z \in (2..Lines) \X (2..Columns) :
                  {Position(f, j) : j \in 1..3} \subseteq ValidCorners(z)
             /\ \A j, l \in 1..3 : disp[Position(f, j)] <= disp[Position(f, l)] + vstep
             /\ Area(f) = 1
  <2>1. PICK z \in MeshCells : Meshed(z) /\ IsFace(z, f)
    BY <1>4 DEF ToSet
  <2>2. PICK p, q, r \in Pixels :
          /\ Valid(p) /\ Valid(q) /\ Valid(r) /\ <<p, q, r>> \in Shapes(z)
          /\ f = <<vindex[p], vindex[q], vindex[r]>>
    BY <2>1 DEF IsFace
  <2>3. f[1] = vindex[p] /\ f[2] = vindex[q] /\ f[3] = vindex[r]
    BY <2>2
  <2>4. Position(f, 1) = p /\ Position(f, 2) = q /\ Position(f, 3) = r
    BY <1>2, <2>2, <2>3 DEF Position, PointInPlace
  <2>5. p \in ValidCorners(z) /\ q \in ValidCorners(z) /\ r \in ValidCorners(z)
    BY <2>2, ShapeSpans DEF ValidCorners
  <2>6. \A j \in 1..3 : f[j] < n
    BY <1>5, <2>2, <2>3
  <2>7. \A j \in 1..3 : Position(f, j) \in ValidCorners(z)
    BY <2>4, <2>5
  <2>8. \A j, l \in 1..3 : disp[Position(f, j)] <= disp[Position(f, l)] + vstep
    BY <2>1, <2>7, DepthsInRange DEF Meshing
  <2>9. Area(f) = 1
    <3>1. (q[1] - p[1]) * (r[2] - p[2]) - (q[2] - p[2]) * (r[1] - p[1]) = 1
      BY <2>2, ShapeArea
    <3>2. Area(f) = (q[1] - p[1]) * (r[2] - p[2]) - (q[2] - p[2]) * (r[1] - p[1])
      BY <2>4, Zenon DEF Area
    <3>. QED
      BY <3>1, <3>2, Zenon
  <2>10. \E y \in (2..Lines) \X (2..Columns) :
            {Position(f, j) : j \in 1..3} \subseteq ValidCorners(y)
    BY <2>7 DEF MeshCells
  <2>. QED
    BY <2>6, <2>8, <2>9, <2>10
<1>7. ASSUME NEW a \in 1..Len(faces), NEW b \in 1..Len(faces), a # b
      PROVE  Cardinality({faces[a][j] : j \in 1..3} \cap {faces[b][j] : j \in 1..3}) <= 2
  BY <1>4, <1>7, DifferMeansTwo
<1>. QED
  BY <1>2, <1>3, <1>6, <1>7, Zenon DEF MeshIsSound

\* The file of a disparity image of any size has as many points and triangles
\* as its header declares, and the triangles are halves of cells, all with one
\* orientation, of valid pixels of similar depth; no two are the same
\* (storePointCloud).
THEOREM MeshIsSoundHolds == Spec => []MeshIsSound
  BY CloudInvInit, CloudInvStep, MeshingSuffices, PTL DEF Spec
=============================================================================
