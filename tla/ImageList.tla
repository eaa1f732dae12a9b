----------------------------- MODULE ImageList -----------------------------
(***************************************************************************)
(* rcg::ImageList, the bounded list of images used for finding images that *)
(* belong together.  An image stands for its time stamp.                   *)
(***************************************************************************)
EXTENDS Naturals, Sequences

CONSTANT None   \* the null pointer

Images(list) == {list[k] : k \in 1..Len(list)}

\* One image too few is kept.
Add_OneLess(list, maxsize, ts) ==
  LET new == Append(list, ts)
  IN  IF Len(new) >= maxsize /\ Len(new) > 1 THEN Tail(new) ELSE new

\* ImageList::add: at most the image at the front is dropped.
Add(list, maxsize, ts) ==
  LET new == Append(list, ts)
  IN  IF Len(new) > maxsize THEN Tail(new) ELSE new

\* ImageList::removeOld: kept[k] is what stays of the first k images.
RemoveOld(list, ts) ==
  LET kept[k \in 0..Len(list)] ==
        IF k = 0 THEN <<>>
        ELSE IF list[k] > ts THEN Append(kept[k - 1], list[k])
        ELSE kept[k - 1]
  IN  kept[Len(list)]

\* ImageList::find(timestamp)
Find(list, ts) == IF ts \in Images(list) THEN ts ELSE None

AbsDiff(a, b) == IF a < b THEN b - a ELSE a - b

\* ImageList::find(timestamp, tolerance): the first of the closest images,
\* if it is closer than the tolerance.
FindClose(list, ts, tolerance) ==
  IF tolerance = 0 THEN Find(list, ts)
  ELSE LET closest == {k \in 1..Len(list) :
                         \A j \in 1..Len(list) :
                            /\ AbsDiff(list[k], ts) <= AbsDiff(list[j], ts)
                            /\ j < k => AbsDiff(list[k], ts) < AbsDiff(list[j], ts)}
           near == {k \in closest : AbsDiff(list[k], ts) < tolerance}
       IN  IF near = {} THEN None ELSE list[CHOOSE k \in near : TRUE]
=============================================================================
