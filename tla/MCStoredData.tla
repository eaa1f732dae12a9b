---------------------------- MODULE MCStoredData ----------------------------
EXTENDS StoredData

\* Every format, with and without padding and in both byte orders; sizes with
\* an odd number of lines and, where the format allows it, of columns.
Img(f, w, h, px, big) == [format |-> f, width |-> w, height |-> h, px |-> px, big |-> big]

TheImages ==
  {Img(f, w, 4, 1, FALSE) : f \in Bayer, w \in {2, 3}}
    \cup {Img("Mono16", 2, 2, px, big) : px \in {0, 2}, big \in BOOLEAN}
    \cup {Img(f, w, 2, 1, FALSE) : f \in Groups, w \in {6, 8}}
    \cup {Img(f, 2, 2, 1, FALSE) : f \in {"Mono8", "RGB8"}}

\* A Bayer image, and a disparity image with padding.
BayerImage == {Img("RG", 2, 3, 0, FALSE)}
PaddedImage == {Img("Mono16", 2, 2, 2, FALSE)}

\* Disparity images with at most two invalid and two near pixels.
TheDisparities ==
  {d \in [Pixels -> {0, 1, 3}] :
     \A v \in {0, 3} : Cardinality({c \in Pixels : d[c] = v}) <= 2}
=============================================================================
