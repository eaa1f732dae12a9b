----------------------------- MODULE PointCloud -----------------------------
(***************************************************************************)
(* storePointCloud() of pointcloud.cc: a disparity image becomes a mesh in *)
(* an ASCII file.  The numbers of points and triangles are counted in a    *)
(* first pass, since the header of the file declares them; a second pass   *)
(* writes the points and the triangles.  Each action is one pixel, or one  *)
(* cell between four pixels, of one of the four loops.                     *)
(***************************************************************************)
EXTENDS Integers, Sequences, FiniteSetsExt, SequencesExt

CONSTANTS
  Columns, Lines,   \* size of the disparity image
  Disparities,      \* disparity images: 16 bit numbers, 0 is an invalid one
  DepthSteps        \* largest differences of disparities inside a triangle

Pixels == (1..Lines) \X (1..Columns)

ASSUME SizeIsPositive == Columns \in Nat \ {0} /\ Lines \in Nat \ {0}
ASSUME DisparitiesAreNumbers ==
  DepthSteps \subseteq Nat /\ \A d \in Disparities : d \in [Pixels -> Nat]

VARIABLES
  disp,     \* the disparity image
  vstep,    \* ceil(2 / scale)
  loop,     \* the loop that runs
  row, col, \* the pixel that is next in it
  n, tn,    \* points and triangles that the header declares
  vindex,   \* number of the point of each pixel, Invalid if there is none
  points,   \* pixels whose points are in the file
  faces     \* triangles in the file, as numbers of points

cloudVars == <<disp, vstep, loop, row, col, n, tn, vindex, points, faces>>

Invalid == -1   \* 0xffffffff

NoCloud(there) ==
  /\ loop = IF there THEN "index" ELSE "none"
  /\ row = 1 /\ col = 1 /\ n = 0 /\ tn = 0
  /\ vindex = [c \in Pixels |-> Invalid]
  /\ points = <<>> /\ faces = <<>>

CloudInit == NoCloud(TRUE) /\ disp \in Disparities /\ vstep \in DepthSteps

(***************************************************************************)
(* The loops run over lines and columns.  Those over cells start with the  *)
(* second ones, as a cell has its lower right corner in its line and       *)
(* column.                                                                 *)
(***************************************************************************)
Here == <<row, col>>

In(l) == loop = l /\ row <= Lines /\ col <= Columns

Advance(first) ==
  /\ IF col < Columns THEN row' = row /\ col' = col + 1
                      ELSE row' = row + 1 /\ col' = first
  /\ loop' = loop

NextLoop ==
  /\ row > Lines \/ col > Columns
  /\ \/ loop = "index" /\ loop' = "count" /\ row' = 2
     \/ loop = "count" /\ loop' = "points" /\ row' = 1
     \/ loop = "points" /\ loop' = "faces" /\ row' = 2
     \/ loop = "faces" /\ loop' = "done" /\ row' = 1
  /\ col' = row'
  /\ UNCHANGED <<disp, vstep, n, tn, vindex, points, faces>>

Valid(c) == disp[c] # 0

\* Numbers the valid pixels.
IndexPixel ==
  /\ In("index")
  /\ IF Valid(Here) THEN n' = n + 1 /\ vindex' = [vindex EXCEPT ![Here] = n]
                    ELSE UNCHANGED <<n, vindex>>
  /\ Advance(1)
  /\ UNCHANGED <<disp, vstep, tn, points, faces>>

(***************************************************************************)
(* A cell gets triangles if three corners are valid and of similar depth.  *)
(***************************************************************************)
CornersOf(z) == {<<z[1] - 1, z[2] - 1>>, <<z[1] - 1, z[2]>>, <<z[1], z[2] - 1>>, z}
ValidCorners(z) == {c \in CornersOf(z) : Valid(c)}

Meshed(z) ==
  LET v == {disp[c] : c \in ValidCorners(z)}
  IN  Cardinality(ValidCorners(z)) >= 3 /\ Max(v) - Min(v) <= vstep

Triangles(z) == IF Meshed(z) THEN Cardinality(ValidCorners(z)) - 2 ELSE 0

CountCell ==
  /\ In("count")
  /\ tn' = tn + Triangles(Here)
  /\ Advance(2)
  /\ UNCHANGED <<disp, vstep, n, vindex, points, faces>>

\* The header is written before the first point.
PointPixel ==
  /\ In("points")
  /\ points' = IF Valid(Here) THEN Append(points, Here) ELSE points
  /\ Advance(1)
  /\ UNCHANGED <<disp, vstep, n, tn, vindex, faces>>

\* The number of a corner, if it has one.
Number(c) == IF vindex[c] # Invalid THEN <<vindex[c]>> ELSE <<>>

\* The corners of a cell in the order of a circle.
Circle(z) ==
  Number(<<z[1] - 1, z[2] - 1>>) \o Number(<<z[1], z[2] - 1>>)
    \o Number(z) \o Number(<<z[1] - 1, z[2]>>)

CellFaces_NoSecond(z) ==
  LET fc == Circle(z) IN <<<<fc[1], fc[2], fc[3]>>>>

CellFaces(z) ==
  LET fc == Circle(z)
  IN  IF Len(fc) = 4 THEN <<<<fc[1], fc[2], fc[3]>>, <<fc[3], fc[4], fc[1]>>>>
                     ELSE <<<<fc[1], fc[2], fc[3]>>>>

FaceCell ==
  /\ In("faces")
  /\ faces' = faces \o (IF Meshed(Here) THEN CellFaces(Here) ELSE <<>>)
  /\ Advance(2)
  /\ UNCHANGED <<disp, vstep, n, tn, vindex, points>>

CloudNext == IndexPixel \/ CountCell \/ PointPixel \/ FaceCell \/ NextLoop

-----------------------------------------------------------------------------
Position(f, j) == points[f[j] + 1]

\* Twice the area of a triangle, with the sign of its orientation.
Area(f) ==
  LET a == Position(f, 1)
      b == Position(f, 2)
      c == Position(f, 3)
  IN  (b[1] - a[1]) * (c[2] - a[2]) - (b[2] - a[2]) * (c[1] - a[1])

(***************************************************************************)
(* The file is consistent: the header declares the points and triangles    *)
(* that follow; every triangle has three points of one cell, none of them  *)
(* invalid or further apart in depth than vstep; no triangle is written    *)
(* twice, and the two triangles of a cell cover it without overlap, both   *)
(* with the same orientation.                                              *)
(***************************************************************************)
MeshIsSound ==
  loop = "done" =>
    /\ Len(points) = n /\ Len(faces) = tn
    /\ \A f \in ToSet(faces) :
         /\ \A j \in 1..3 : f[j] < n
         /\ \E z \in (2..Lines) \X (2..Columns) :
              {Position(f, j) : j \in 1..3} \subseteq ValidCorners(z)
         /\ \A j, l \in 1..3 : disp[Position(f, j)] <= disp[Position(f, l)] + vstep
         /\ Area(f) = 1
    /\ \A a, b \in 1..Len(faces) : a # b =>
         Cardinality({faces[a][j] : j \in 1..3} \cap {faces[b][j] : j \in 1..3}) <= 2
=============================================================================
