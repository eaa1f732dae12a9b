------------------------ MODULE PointcloudSyncProofs ------------------------
(***************************************************************************)
(* Sets of images that belong together, for lists of any size, any         *)
(* tolerances and any number of buffers.                                   *)
(***************************************************************************)
EXTENDS PointcloudSync, WellFoundedInduction, TLAPS

(***************************************************************************)
(* A set of natural numbers has a least element: the order of the numbers  *)
(* is well-founded, and a well-founded relation has minimal elements.      *)
(***************************************************************************)
LEMMA MinimalIsLeast ==
  ASSUME NEW R, IsWellFoundedOn(R, Nat),
         \A x \in Nat, y \in Nat : y < x => <<y, x>> \in R,
         NEW T, T \subseteq Nat, T # {}
  PROVE  \E x \in T : \A y \in T : x <= y
<1>1. PICK x \in T : \A y \in T : <<y, x>> \notin R
  BY WFMin, Zenon
<1>2. \A y \in T : ~(y < x)
  BY <1>1
<1>. QED
  BY <1>2

\* The order of the numbers, as a relation.
LEMMA SmallerIsRelated ==
  \A x \in Nat, y \in Nat : y < x => <<y, x>> \in OpToRel(<, Nat)
  BY Zenon DEF OpToRel

\* A set of numbers has a least one.
LEMMA LeastNumber ==
  ASSUME NEW T, T \subseteq Nat, T # {}
  PROVE  \E x \in T : \A y \in T : x <= y
  BY MinimalIsLeast, SmallerIsRelated, NatLessThanWellFounded, Zenon

(***************************************************************************)
(* The loop of ImageList::removeOld(), for every list: the values that it  *)
(* goes through exist, and are lists of images.                            *)
(***************************************************************************)
Kept(list, ts, n, f) ==
  f = [k \in 0..n |-> IF k = 0 THEN <<>>
        ELSE IF list[k] > ts THEN Append(f[k - 1], list[k])
        ELSE f[k - 1]]

LEMMA KeptExists ==
  ASSUME NEW S, NEW list \in Seq(S), NEW ts
  PROVE  \A n \in 0..Len(list) : \E f : Kept(list, ts, n, f)
<1>. DEFINE T == {n \in 0..Len(list) : ~\E f : Kept(list, ts, n, f)}
<1>1. SUFFICES ASSUME T # {} PROVE FALSE
  OBVIOUS
<1>2. PICK n \in T : \A m \in T : n <= m
  <2>1. T \subseteq Nat
    OBVIOUS
  <2>2. \E x \in T : \A y \in T : x <= y
    BY <1>1, <2>1, LeastNumber
  <2>. QED
    BY <2>2
<1>3. n \in 0..Len(list) /\ ~\E f : Kept(list, ts, n, f)
  BY <1>2
<1>4. CASE n = 0
  <2>1. Kept(list, ts, 0, [k \in 0..0 |-> <<>>])
    BY DEF Kept
  <2>. QED
    BY <1>3, <1>4, <2>1
<1>5. CASE n > 0
  <2>1. n - 1 \in 0..Len(list) /\ n - 1 \notin T
    BY <1>2, <1>3, <1>5
  <2>2. PICK f : Kept(list, ts, n - 1, f)
    BY <2>1
  <2>. DEFINE g == [k \in 0..n |-> IF k < n THEN f[k]
                     ELSE IF list[n] > ts THEN Append(f[n - 1], list[n])
                     ELSE f[n - 1]]
  <2>3. \A k \in 0..n : g[k] = IF k = 0 THEN <<>>
        ELSE IF list[k] > ts THEN Append(g[k - 1], list[k])
        ELSE g[k - 1]
    <3>1. ASSUME NEW k \in 0..n, k < n
          PROVE  g[k] = IF k = 0 THEN <<>>
                 ELSE IF list[k] > ts THEN Append(g[k - 1], list[k])
                 ELSE g[k - 1]
      <4>1. k \in 0..(n-1) /\ g[k] = f[k] /\ (k # 0 => g[k-1] = f[k-1])
        BY <1>3, <3>1
      <4>2. f[k] = IF k = 0 THEN <<>>
                 ELSE IF list[k] > ts THEN Append(f[k - 1], list[k])
                 ELSE f[k - 1]
        BY <4>1, <2>2 DEF Kept
      <4>. QED BY <4>1, <4>2
    <3>2. g[n] = IF list[n] > ts THEN Append(g[n - 1], list[n]) ELSE g[n - 1]
      BY <1>3, <1>5
    <3>. QED
      BY <3>1, <3>2, <1>5, <1>3
  <2>4. Kept(list, ts, n, g)
    BY <2>3 DEF Kept
  <2>. QED
    BY <2>4, <1>3
<1>. QED
  BY <1>3, <1>4, <1>5

LEMMA KeptType ==
  ASSUME NEW S, NEW list \in Seq(S), NEW ts, NEW f, Kept(list, ts, Len(list), f)
  PROVE  \A k \in 0..Len(list) : f[k] \in Seq(S)
<1>. DEFINE T == {k \in 0..Len(list) : f[k] \notin Seq(S)}
<1>1. SUFFICES ASSUME T # {} PROVE FALSE
  OBVIOUS
<1>2. PICK n \in T : \A m \in T : n <= m
  <2>1. T \subseteq Nat
    OBVIOUS
  <2>2. \E x \in T : \A y \in T : x <= y
    BY <1>1, <2>1, LeastNumber
  <2>. QED
    BY <2>2
<1>3. n \in 0..Len(list) /\ f[n] \notin Seq(S) /\ \A m \in 0..Len(list) : m < n => f[m] \in Seq(S)
  <2>1. n \in 0..Len(list) /\ f[n] \notin Seq(S)
    BY <1>2
  <2>2. ASSUME NEW m \in 0..Len(list), m < n PROVE f[m] \in Seq(S)
    <3>1. m \notin T
      BY <1>2, <2>1, <2>2
    <3>. QED
      BY <3>1
  <2>. QED
    BY <2>1, <2>2
<1>. HIDE DEF T
<1>4. f[n] = IF n = 0 THEN <<>>
        ELSE IF list[n] > ts THEN Append(f[n - 1], list[n])
        ELSE f[n - 1]
  BY <1>3 DEF Kept
<1>5. CASE n = 0
  <2>1. f[n] = <<>>
    BY <1>4, <1>5
  <2>2. <<>> \in Seq(S)
    OBVIOUS
  <2>. QED
    BY <2>1, <2>2, <1>3
<1>6. CASE n > 0
  <2>1. f[n - 1] \in Seq(S) /\ list[n] \in S
    BY <1>3, <1>6
  <2>2. Append(f[n - 1], list[n]) \in Seq(S)
    BY <2>1
  <2>. QED
    BY <1>3, <1>4, <1>6, <2>1, <2>2
<1>. QED
  BY <1>3, <1>5, <1>6

LEMMA RemoveOldType ==
  ASSUME NEW S, NEW list \in Seq(S), NEW ts
  PROVE  RemoveOld(list, ts) \in Seq(S)
<1>. DEFINE f == CHOOSE f : Kept(list, ts, Len(list), f)
<1>1. \E g : Kept(list, ts, Len(list), g)
  <2>1. Len(list) \in 0..Len(list)
    OBVIOUS
  <2>. QED
    BY <2>1, KeptExists
<1>2. Kept(list, ts, Len(list), f)
  BY <1>1
<1>3. f[Len(list)] \in Seq(S)
  BY <1>2, KeptType
<1>4. RemoveOld(list, ts) = f[Len(list)]
  BY DEF RemoveOld, Kept
<1>. QED
  BY <1>3, <1>4

-----------------------------------------------------------------------------
(* The operations of an image list. *)

Times == 0..MaxTime

LEMMA AddImages ==
  ASSUME NEW list \in Seq(Times), NEW ts \in Times, NEW size
  PROVE  /\ Add(list, size, ts) \in Seq(Times)
         /\ Images(Add(list, size, ts)) \subseteq Images(list) \cup {ts}
<1>. DEFINE new == Append(list, ts)
<1>1. new \in Seq(Times) /\ Images(new) \subseteq Images(list) \cup {ts}
  BY DEF Images
<1>2. Tail(new) \in Seq(Times) /\ Images(Tail(new)) \subseteq Images(new)
  <2>1. new # <<>> /\ Len(new) > 0
    OBVIOUS
  <2>2. Tail(new) \in Seq(Times) /\ Len(Tail(new)) = Len(new) - 1
    BY <1>1, <2>1
  <2>3. \A k \in 1..Len(Tail(new)) : Tail(new)[k] = new[k + 1] /\ k + 1 \in 1..Len(new)
    BY <1>1, <2>1
  <2>. HIDE DEF new
  <2>. QED
    BY <2>2, <2>3 DEF Images
<1>3. Add(list, size, ts) \in {new, Tail(new)}
  BY DEF Add
<1>. HIDE DEF new
<1>. QED
  BY <1>1, <1>2, <1>3

LEMMA FindTime ==
  ASSUME NEW list, NEW ts \in Times
  PROVE  /\ Find(list, ts) \in {None, ts}
         /\ ts \in Images(list) <=> Find(list, ts) # None
  BY TimesAssumption DEF Find, Times

First(list, ts, k) ==
  \A j \in 1..Len(list) :
     /\ AbsDiff(list[k], ts) <= AbsDiff(list[j], ts)
     /\ j < k => AbsDiff(list[k], ts) < AbsDiff(list[j], ts)

LEMMA FindCloseTime ==
  ASSUME NEW list \in Seq(Times), NEW ts \in Times, NEW tolerance \in Nat,
         NEW t, t = FindClose(list, ts, tolerance)
  PROVE  /\ t \in Times \cup {None}
         /\ t # None => IF tolerance = 0 THEN t = ts ELSE AbsDiff(t, ts) < tolerance
         /\ ts \in Images(list) => t = ts
<1>. DEFINE near == {k \in 1..Len(list) :
                       First(list, ts, k) /\ AbsDiff(list[k], ts) < tolerance}
<1>1. CASE tolerance = 0
  BY <1>1, FindTime DEF FindClose
<1>2. CASE tolerance # 0
  <2>1. t = IF near = {} THEN None ELSE list[CHOOSE k \in near : TRUE]
    BY <1>2 DEF FindClose, First
  <2>2. ASSUME near # {}
        PROVE  /\ t \in Times /\ AbsDiff(t, ts) < tolerance
               /\ \A j \in 1..Len(list) : AbsDiff(t, ts) <= AbsDiff(list[j], ts)
    <3>1. PICK k \in near : t = list[k]
      BY <2>1, <2>2
    <3>. QED
      BY <3>1 DEF First
  <2>3. ASSUME ts \in Images(list)
        PROVE  near # {} /\ t = ts
    <3>. DEFINE here == {k \in 1..Len(list) : list[k] = ts}
    <3>1. PICK k \in here : \A j \in here : k <= j
      <4>1. here \subseteq Nat /\ here # {}
        BY <2>3 DEF Images
      <4>. QED
        BY <4>1, LeastNumber
    <3>2. k \in 1..Len(list) /\ AbsDiff(list[k], ts) = 0
      BY <3>1 DEF AbsDiff, Times
    <3>3. ASSUME NEW j \in 1..Len(list)
          PROVE  AbsDiff(list[j], ts) \in Nat /\ (j < k => AbsDiff(list[j], ts) # 0)
      <4>1. list[j] \in Times /\ (j < k => list[j] # ts)
        BY <3>1, <3>2
      <4>. QED
        BY <4>1 DEF AbsDiff, Times
    <3>4. First(list, ts, k)
      BY <3>2, <3>3 DEF First
    <3>5. k \in near
      BY <1>2, <3>2, <3>4
    <3>6. t \in Times /\ AbsDiff(t, ts) <= 0
      BY <2>2, <3>2, <3>5
    <3>. QED
      BY <3>5, <3>6 DEF AbsDiff, Times
  <2>. HIDE DEF near
  <2>. QED
    BY <1>2, <2>1, <2>2, <2>3
<1>. QED
  BY <1>1, <1>2

-----------------------------------------------------------------------------
(* The set that a part completes. *)

Sets == [left : Times, disp : Times, conf : Times, error : Times]

Synchronous(m) ==
  /\ IsSet(m)
  /\ m.conf = m.disp /\ m.error = m.disp
  /\ IF tol = 0 THEN m.left = m.disp ELSE AbsDiff(m.left, m.disp) < tol

Types ==
  /\ tol \in Nat /\ time \in Times /\ parts \subseteq Components
  /\ lists \in [Components -> Seq(Times)]
  /\ stored \in Seq(Sets)

LEMMA MatchIsSynchronous ==
  ASSUME Types, NEW c \in Components, NEW ls \in [Components -> Seq(Times)],
         NEW m, m = MatchOf(c, ls)
  PROVE  /\ IsSet(m) => m \in Sets /\ Synchronous(m)
         /\ (\A d \in Components : time \in Images(ls[d])) => IsSet(m)
<1>. DEFINE t1 == IF c = "Intensity" THEN 0 ELSE tol
            t2 == IF c = "Intensity" THEN tol ELSE 0
            left == FindClose(ls["Intensity"], time, t1)
            disp == FindClose(ls["Disparity"], time, t2)
            of(d) == IF disp = None THEN None ELSE Find(ls[d], disp)
<1>1. /\ time \in Times /\ t1 \in Nat /\ t2 \in Nat /\ None \notin Times
      /\ \A d \in Components : ls[d] \in Seq(Times)
      /\ {"Intensity", "Disparity", "Confidence", "Error"} = Components
  BY TimesAssumption DEF Types, Times, Components
<1>2. m = [left |-> left, disp |-> disp, conf |-> of("Confidence"), error |-> of("Error")]
  BY DEF MatchOf
<1>3. /\ left \in Times \cup {None}
      /\ left # None => IF t1 = 0 THEN left = time ELSE AbsDiff(left, time) < t1
      /\ time \in Images(ls["Intensity"]) => left = time
  BY <1>1, FindCloseTime
<1>4. /\ disp \in Times \cup {None}
      /\ disp # None => IF t2 = 0 THEN disp = time ELSE AbsDiff(disp, time) < t2
      /\ time \in Images(ls["Disparity"]) => disp = time
  BY <1>1, FindCloseTime
<1>5. ASSUME NEW d \in Components
      PROVE  /\ of(d) \in {None, disp}
             /\ disp # None => (disp \in Images(ls[d]) <=> of(d) # None)
  <2>1. CASE disp = None
    BY <2>1
  <2>2. CASE disp # None
    <3>1. disp \in Times
      BY <1>4, <2>2
    <3>2. of(d) = Find(ls[d], disp)
      BY <2>2
    <3>. HIDE DEF disp, of
    <3>. QED
      BY <3>1, <3>2, <2>2, FindTime
  <2>. QED
    BY <2>1, <2>2
<1>6. t1 = 0 \/ t2 = 0
  OBVIOUS
<1>7. (t1 # 0 => t1 = tol) /\ (t2 # 0 => t2 = tol) /\ (tol # 0 => t1 # 0 \/ t2 # 0)
  OBVIOUS
<1>8. m.left = left /\ m.disp = disp /\ m.conf = of("Confidence") /\ m.error = of("Error")
  BY <1>2
<1>. HIDE DEF t1, t2, left, disp, of
<1>9. ASSUME IsSet(m)
      PROVE  m \in Sets /\ Synchronous(m)
  <2>1. left # None /\ disp # None /\ of("Confidence") = disp /\ of("Error") = disp
    BY <1>1, <1>5, <1>8, <1>9 DEF IsSet
  <2>2. left \in Times /\ disp \in Times
    BY <2>1, <1>3, <1>4
  <2>3. m \in Sets
    BY <1>2, <2>1, <2>2 DEF Sets
  <2>4. IF tol = 0 THEN left = disp ELSE AbsDiff(left, disp) < tol
    <3>1. left \in Nat /\ disp \in Nat /\ time \in Nat /\ tol \in Nat
      BY <1>1, <2>2 DEF Times, Types
    <3>2. IF t1 = 0 THEN left = time ELSE AbsDiff(left, time) < t1
      BY <1>3, <2>1
    <3>3. IF t2 = 0 THEN disp = time ELSE AbsDiff(disp, time) < t2
      BY <1>4, <2>1
    <3>. QED
      BY <1>1, <1>6, <1>7, <3>1, <3>2, <3>3 DEF AbsDiff
  <2>. QED
    BY <1>8, <1>9, <2>1, <2>3, <2>4 DEF Synchronous
<1>10. ASSUME \A d \in Components : time \in Images(ls[d])
       PROVE  IsSet(m)
  <2>1. left = time /\ disp = time /\ time # None
    BY <1>1, <1>3, <1>4, <1>10
  <2>2. of("Confidence") # None /\ of("Error") # None
    BY <1>1, <1>5, <1>10, <2>1
  <2>. QED
    BY <1>8, <2>1, <2>2 DEF IsSet
<1>. QED
  BY <1>9, <1>10

-----------------------------------------------------------------------------
(* The invariant. *)

\* While no set has been stored, none is complete.
Incomplete ==
  run = "on" =>
    \A ts \in Times : \E c \in Components : ts \notin Images(lists[c])

\* How the loop has been left, with the tries that were made.
Ends ==
  /\ async \in 0..MaxAsync /\ run \in {"on", "off"}
  /\ result = "broken" => run = "on"
  /\ ResultIsRight

Inv ==
  /\ Types /\ StoredIsSynchronous /\ Incomplete /\ Ends
  /\ run = "on" <=> stored = <<>>
  /\ result # "none" => parts = {}

LEMMA InvInit == Init => Inv
<1>. SUFFICES ASSUME Init PROVE Inv
  OBVIOUS
<1>1. Types
  <2>1. lists \in [Components -> Seq(Times)]
    BY DEF Init
  <2>2. tol \in Nat /\ time \in Times /\ parts \subseteq Components
    BY TimesAssumption DEF Init, Times
  <2>3. stored \in Seq(Sets)
    BY DEF Init
  <2>. QED
    BY <2>1, <2>2, <2>3 DEF Types
<1>2. Incomplete
  <2>1. \A c \in Components : Images(lists[c]) = {}
    BY DEF Init, Images
  <2>. QED
    BY <2>1 DEF Incomplete, Components
<1>. QED
  BY <1>1, <1>2, SizesAssumption DEF Init, Inv, StoredIsSynchronous, Ends, ResultIsRight

LEMMA EndsStep == ASSUME Inv, [Next]_vars PROVE Ends'
<1>0. ASSUME async \in 0..MaxAsync, MaxAsync \in Nat
      PROVE  (async >= MaxAsync => async = MaxAsync) /\ (~(async >= MaxAsync) => async < MaxAsync)
  BY <1>0
<1>1. async \in 0..MaxAsync /\ MaxAsync \in Nat /\ run \in {"on", "off"}
      /\ (run = "on" <=> stored = <<>>) /\ (result # "none" => parts = {})
      /\ (result = "broken" => run = "on") /\ ResultIsRight
  BY SizesAssumption DEF Inv, Ends
<1>2. CASE Grab
  BY <1>1, <1>2 DEF Grab, Looping, Ends, ResultIsRight
<1>3. CASE GrabNothing
  BY <1>1, <1>3 DEF GrabNothing, Looping, Ends, ResultIsRight
<1>4. CASE Part
  <2>1. /\ parts # {} /\ result' = result
        /\ \/ async' = 0 /\ run' = "off"
           \/ async' = async /\ run' = run
    BY <1>4 DEF Part
  <2>2. result' = "none"
    BY <1>1, <1>4, <2>1 DEF ResultIsRight, Ends, Inv, Part
  <2>. QED
    BY <1>1, <2>1, <2>2 DEF Ends, ResultIsRight
<1>5. CASE Finish
  <2>1. /\ UNCHANGED <<async, run, stored>> /\ LoopIsOver
        /\ result' = IF async >= MaxAsync /\ run = "on" THEN "not synchronized"
                     ELSE IF result = "broken" THEN "no images" ELSE "done"
    BY <1>5 DEF Finish
  <2>2. CASE async >= MaxAsync /\ run = "on"
    <3>1. result' = "not synchronized" /\ async' = MaxAsync
      BY <1>0, <1>1, <2>1, <2>2, Zenon
    <3>2. stored' = <<>>
      BY <1>1, <2>1, <2>2, Zenon
    <3>. QED
      BY <1>1, <2>1, <3>1, <3>2 DEF Ends, ResultIsRight
  <2>3. CASE ~(async >= MaxAsync /\ run = "on") /\ result = "broken"
    <3>1. result' = "no images" /\ async' < MaxAsync
      BY <1>0, <1>1, <2>1, <2>3, Zenon
    <3>2. stored' = <<>>
      BY <1>1, <2>1, <2>3, Zenon
    <3>. QED
      BY <1>1, <2>1, <3>1, <3>2 DEF Ends, ResultIsRight
  <2>4. CASE ~(async >= MaxAsync /\ run = "on") /\ result # "broken"
    <3>1. result' = "done" /\ stored' # <<>>
      BY <1>1, <2>1, <2>4 DEF LoopIsOver
    <3>. QED
      BY <1>1, <2>1, <3>1 DEF Ends, ResultIsRight
  <2>. QED
    BY <2>2, <2>3, <2>4
<1>6. CASE UNCHANGED vars
  BY <1>1, <1>6 DEF vars, Ends, ResultIsRight
<1>. QED
  BY <1>2, <1>3, <1>4, <1>5, <1>6 DEF Next

LEMMA GrabKeeps == ASSUME Inv, Grab PROVE Inv'
<1>1. /\ result = "none" /\ time' \in Times /\ parts' \subseteq Components
      /\ UNCHANGED <<tol, lists, run, stored, result>>
  BY TimesAssumption DEF Grab, Looping, Times
<1>. QED
  BY <1>1, EndsStep DEF Inv, Types, StoredIsSynchronous, Incomplete, Next

LEMMA PartKeeps == ASSUME Inv, Part PROVE Inv'
<1>1. PICK c \in parts :
        LET ls == [lists EXCEPT ![c] = Add(@, Size(c), time)]
            m == MatchOf(c, ls)
        IN  /\ parts' = parts \ {c}
            /\ IF IsSet(m)
               THEN /\ stored' = Append(stored, m) /\ async' = 0 /\ run' = "off"
                    /\ lists' = After(ls)
               ELSE lists' = ls /\ UNCHANGED <<stored, async, run>>
            /\ UNCHANGED <<tol, time, result, newest, smooth>>
  BY DEF Part
<1>. DEFINE ls == [lists EXCEPT ![c] = Add(@, Size(c), time)]
            m == MatchOf(c, ls)
<1>2. /\ c \in Components /\ time \in Times /\ parts' \subseteq Components
      /\ result = "none" /\ UNCHANGED <<tol, time, result>>
  BY <1>1 DEF Inv, Types
<1>3. /\ ls \in [Components -> Seq(Times)]
      /\ \A d \in Components : Images(ls[d]) \subseteq Images(lists[d]) \cup {time}
  <2>1. lists \in [Components -> Seq(Times)]
    BY DEF Inv, Types
  <2>2. /\ Add(lists[c], Size(c), time) \in Seq(Times)
        /\ Images(Add(lists[c], Size(c), time)) \subseteq Images(lists[c]) \cup {time}
    BY <1>2, <2>1, AddImages
  <2>3. /\ ls[c] = Add(lists[c], Size(c), time)
        /\ \A d \in Components \ {c} : ls[d] = lists[d]
    BY <1>2, <2>1
  <2>4. ls \in [Components -> Seq(Times)]
    BY <1>2, <2>1, <2>2
  <2>. HIDE DEF ls
  <2>. QED
    BY <2>2, <2>3, <2>4
<1>4. /\ IsSet(m) => m \in Sets /\ Synchronous(m)
      /\ (\A d \in Components : time \in Images(ls[d])) => IsSet(m)
  <2>. HIDE DEF ls
  <2>. QED
    BY <1>2, <1>3, MatchIsSynchronous DEF Inv
<1>5. CASE IsSet(m)
  <2>1. stored' = Append(stored, m) /\ run' = "off" /\ lists' = After(ls)
    BY <1>1, <1>5
  <2>. HIDE DEF ls, m
  <2>2. stored' \in Seq(Sets) /\ stored' # <<>> /\ Len(stored') = Len(stored) + 1
    BY <1>4, <1>5, <2>1 DEF Inv, Types
  <2>3. lists' \in [Components -> Seq(Times)]
    <3>1. \A d \in Components : RemoveOld(ls[d], time) \in Seq(Times)
      BY <1>3, RemoveOldType
    <3>. QED
      BY <2>1, <3>1 DEF After
  <2>4. StoredIsSynchronous'
    <3>1. ASSUME NEW k \in 1..Len(stored') PROVE Synchronous(stored'[k])
      <4>1. CASE k = Len(stored')
        BY <1>4, <1>5, <2>1, <2>2, <4>1 DEF Inv, Types
      <4>2. CASE k # Len(stored')
        <5>1. k \in 1..Len(stored) /\ stored'[k] = stored[k]
          BY <1>4, <1>5, <2>1, <2>2, <4>2 DEF Inv, Types
        <5>. QED
          BY <5>1 DEF Inv, StoredIsSynchronous, Synchronous
      <4>. QED
        BY <4>1, <4>2
    <3>. QED
      BY <3>1, <1>2 DEF StoredIsSynchronous, Synchronous
  <2>. QED
    BY <1>2, <2>1, <2>2, <2>3, <2>4, EndsStep DEF Inv, Types, Incomplete, Next
<1>6. CASE ~IsSet(m)
  <2>1. UNCHANGED <<stored, run>> /\ lists' = ls
    BY <1>1, <1>6
  <2>. HIDE DEF ls, m
  <2>2. Types' /\ StoredIsSynchronous'
    BY <1>2, <1>3, <2>1 DEF Inv, Types, StoredIsSynchronous
  <2>3. Incomplete'
    <3>1. ASSUME run = "on", NEW ts \in Times, \A d \in Components : ts \in Images(ls[d])
          PROVE  FALSE
      <4>1. CASE ts = time
        BY <1>4, <1>6, <3>1, <4>1
      <4>2. CASE ts # time
        <5>1. \A d \in Components : ts \in Images(lists[d])
          BY <1>3, <3>1, <4>2
        <5>. QED
          BY <3>1, <5>1 DEF Inv, Incomplete
      <4>. QED
        BY <4>1, <4>2
    <3>. QED
      BY <2>1, <3>1 DEF Incomplete
  <2>. QED
    BY <1>2, <2>1, <2>2, <2>3, EndsStep DEF Inv, Next
<1>. QED
  BY <1>5, <1>6

LEMMA InvStep == Inv /\ [Next]_vars => Inv'
<1>. SUFFICES ASSUME Inv, [Next]_vars PROVE Inv'
  OBVIOUS
<1>1. CASE GrabNothing \/ Finish
  <2>1. parts = {} /\ UNCHANGED <<tol, lists, run, time, parts, stored>>
    BY <1>1 DEF Inv, GrabNothing, Finish, LoopIsOver, Looping
  <2>. QED
    BY <2>1, EndsStep DEF Inv, Types, StoredIsSynchronous, Incomplete
<1>2. CASE UNCHANGED vars
  BY <1>2, EndsStep DEF Inv, vars, Types, StoredIsSynchronous, Incomplete
<1>. QED
  BY <1>1, <1>2, GrabKeeps, PartKeeps DEF Next

LEMMA InvHolds == Spec => []Inv
  BY InvInit, InvStep, PTL DEF Spec

-----------------------------------------------------------------------------
(* The results. *)

\* Every point cloud is computed from images that belong together (main of
\* gc_pointcloud, with ImageList::find).
THEOREM StoredIsSynchronousHolds == Spec => []StoredIsSynchronous
<1>1. Inv => StoredIsSynchronous
  BY DEF Inv
<1>. QED
  BY <1>1, InvHolds, PTL

\* No complete set is left in the lists (main of gc_pointcloud).
THEOREM NothingMissedHolds == Spec => []NothingMissed
<1>1. Inv => NothingMissed
  BY TimesAssumption DEF Inv, Incomplete, NothingMissed, Times
<1>. QED
  BY <1>1, InvHolds, PTL

\* Failure is reported only if no set has been stored, and nothing else without
\* a set but that grab() has timed out (the end of main of gc_pointcloud).
THEOREM ResultIsRightHolds == Spec => []ResultIsRight
<1>1. Inv => ResultIsRight
  BY DEF Inv, Ends
<1>. QED
  BY <1>1, InvHolds, PTL

-----------------------------------------------------------------------------
(* The lists are long enough. *)

\* Images of component c that have been added to its list, if none is lost.
Arrived(c) == IF c \in parts THEN newest[c] - 1 ELSE newest[c]

\* Before every component has sent an image, each list has all images of its
\* component.
AllKept ==
  /\ \E c \in Components : newest[c] = 0
  /\ \A c \in parts : newest[c] = time /\ time > 0
  /\ \A c \in Components : /\ newest[c] <= Size(c)
                           /\ lists[c] = [n \in 1..Arrived(c) |-> n]

\* With the first image of the last component, the first set is complete as
\* soon as all parts of the buffer have been added.
FirstArrives ==
  /\ time = 1 /\ parts # {}
  /\ \A c \in Components \ parts : 1 \in Images(lists[c])

Window ==
  /\ newest \in [Components -> Nat]
  /\ smooth = "yes" /\ stored = <<>> => AllKept \/ FirstArrives

LEMMA AddLast ==
  ASSUME NEW list \in Seq(Times), NEW ts \in Times, NEW size \in Nat \ {0}
  PROVE  /\ ts \in Images(Add(list, size, ts))
         /\ Len(list) < size => Add(list, size, ts) = Append(list, ts)
<1>. DEFINE new == Append(list, ts)
<1>1. new \in Seq(Times) /\ Len(new) = Len(list) + 1 /\ new[Len(new)] = ts
  OBVIOUS
<1>2. Len(list) < size => Add(list, size, ts) = new
  BY SizesAssumption DEF Add
<1>3. ASSUME Len(new) > size PROVE ts \in Images(Tail(new))
  <2>1. new # <<>> /\ Len(new) > 1
    BY <1>1, <1>3
  <2>. HIDE DEF new
  <2>2. Tail(new) \in Seq(Times) /\ Len(Tail(new)) = Len(new) - 1
    BY <1>1, <2>1
  <2>3. Tail(new)[Len(new) - 1] = new[Len(new)]
    BY <1>1, <2>1, <2>2
  <2>. QED
    BY <1>1, <2>1, <2>2, <2>3 DEF Images
<1>4. ts \in Images(new)
  <2>. HIDE DEF new
  <2>. QED
    BY <1>1 DEF Images
<1>. QED
  BY <1>2, <1>3, <1>4 DEF Add

LEMMA SizesArePositive == \A c \in Components : Size(c) \in Nat \ {0}
  BY SizesAssumption DEF Size

LEMMA WindowInit == Init => Window
  BY SizesArePositive DEF Init, Window, AllKept, Arrived, Components

LEMMA GrabFills == ASSUME Inv, Window, Grab PROVE Window'
<1>1. PICK ps \in SUBSET Components \ {{}}, ts \in 1..MaxTime, complete \in BOOLEAN :
        /\ \A c \in ps : ts > newest[c]
        /\ newest' = [c \in Components |-> IF c \in ps THEN ts ELSE newest[c]]
        /\ time' = ts
        /\ parts' = IF complete THEN ps ELSE {}
        /\ smooth' = IF complete /\ InTime(ps, ts) THEN smooth ELSE "no"
  BY DEF Grab
<1>2. /\ parts = {} /\ UNCHANGED <<lists, stored>> /\ ts \in Nat /\ ts > 0
      /\ newest' \in [Components -> Nat]
  BY <1>1, TimesAssumption DEF Grab, Looping, Window
<1>3. ASSUME smooth' = "yes", stored' = <<>> PROVE (AllKept \/ FirstArrives)'
  <2>1. smooth = "yes" /\ parts' = ps /\ AllKept /\ InTime(ps, ts)
    BY <1>1, <1>2, <1>3 DEF Window, FirstArrives
  <2>2. \A c \in Components : lists[c] = [n \in 1..newest[c] |-> n]
    BY <1>2, <2>1 DEF AllKept, Arrived
  <2>3. CASE \E c \in Components : newest'[c] = 0
    <3>1. PICK d \in Components : newest'[d] = 0
      BY <2>3
    <3>2. d \notin ps /\ newest[d] = 0
      BY <1>1, <1>2, <3>1
    <3>3. \A c \in ps : ts = newest[c] + 1 /\ ts - 0 <= Size(c)
      BY <2>1, <3>2 DEF InTime
    <3>4. \A c \in Components : newest'[c] <= Size(c)
      <4>1. \A c \in ps : newest'[c] <= Size(c)
        BY <1>1, <1>2, <3>3, SizesArePositive
      <4>2. \A c \in Components \ ps : newest'[c] <= Size(c)
        BY <1>1, <2>1 DEF AllKept
      <4>. QED
        BY <4>1, <4>2
    <3>5. \A c \in Components : Arrived(c)' = newest[c]
      BY <1>1, <1>2, <2>1, <3>3 DEF Arrived, Window
    <3>. QED
      BY <1>1, <1>2, <2>1, <2>2, <3>1, <3>4, <3>5 DEF AllKept
  <2>4. CASE \A c \in Components : newest'[c] # 0
    <3>1. PICK d \in Components : newest[d] = 0
      BY <2>1 DEF AllKept
    <3>2. d \in ps /\ ts = 1
      BY <1>1, <2>1, <2>4, <3>1 DEF InTime
    <3>3. ASSUME NEW c \in Components \ ps PROVE 1 \in Images(lists[c])
      <4>1. newest[c] \in Nat /\ newest[c] # 0
        BY <1>1, <2>4, <3>3 DEF Window
      <4>2. lists[c] = [n \in 1..newest[c] |-> n] /\ lists[c] \in Seq(Times)
        BY <2>2 DEF Inv, Types
      <4>3. Len(lists[c]) = newest[c]
        BY <4>1, <4>2
      <4>. QED
        BY <4>1, <4>2, <4>3 DEF Images
    <3>. QED
      BY <1>1, <1>2, <2>1, <3>2, <3>3 DEF FirstArrives
  <2>. QED
    BY <2>3, <2>4
<1>. QED
  BY <1>2, <1>3 DEF Window

LEMMA PartFills == ASSUME Inv, Window, Part PROVE Window'
<1>1. PICK c \in parts :
        LET ls == [lists EXCEPT ![c] = Add(@, Size(c), time)]
            m == MatchOf(c, ls)
        IN  /\ parts' = parts \ {c}
            /\ IF IsSet(m)
               THEN /\ stored' = Append(stored, m) /\ async' = 0 /\ run' = "off"
                    /\ lists' = After(ls)
               ELSE lists' = ls /\ UNCHANGED <<stored, async, run>>
            /\ UNCHANGED <<tol, time, result, newest, smooth>>
  BY DEF Part
<1>. DEFINE ls == [lists EXCEPT ![c] = Add(@, Size(c), time)]
            m == MatchOf(c, ls)
<1>2. /\ c \in Components /\ time \in Times /\ parts' = parts \ {c}
      /\ UNCHANGED <<tol, time, newest, smooth>>
      /\ lists \in [Components -> Seq(Times)] /\ stored \in Seq(Sets)
  BY <1>1 DEF Inv, Types
<1>3. ls \in [Components -> Seq(Times)]
  BY <1>2, AddImages
<1>4. /\ ls[c] = Add(lists[c], Size(c), time)
      /\ \A d \in Components \ {c} : ls[d] = lists[d]
  BY <1>2
<1>5. IsSet(m) => stored' = Append(stored, m)
  BY <1>1
<1>6. ~IsSet(m) => lists' = ls /\ stored' = stored
  BY <1>1
<1>7. (\A d \in Components : time \in Images(ls[d])) => IsSet(m)
  <2>. HIDE DEF ls
  <2>. QED
    BY <1>2, <1>3, MatchIsSynchronous DEF Inv
<1>8. time \in Images(ls[c])
      /\ (Len(lists[c]) < Size(c) => ls[c] = Append(lists[c], time))
  BY <1>2, <1>4, AddLast, SizesArePositive
<1>. HIDE DEF ls, m
<1>9. ASSUME smooth' = "yes", stored' = <<>> PROVE (AllKept \/ FirstArrives)'
  <2>1. ~IsSet(m)
    BY <1>5, <1>9, <1>2
  <2>2. /\ lists' = ls /\ smooth = "yes" /\ stored = <<>>
        /\ AllKept \/ FirstArrives
    BY <1>2, <1>6, <1>9, <2>1 DEF Window
  <2>3. CASE AllKept
    <3>1. /\ lists[c] = [n \in 1..(time - 1) |-> n]
          /\ newest[c] = time /\ time > 0 /\ time <= Size(c)
      BY <1>1, <1>2, <2>3 DEF AllKept, Arrived
    <3>2. Len(lists[c]) = time - 1
      BY <1>2, <3>1 DEF Times
    <3>3. ls[c] = Append(lists[c], time)
      <4>1. Size(c) \in Nat /\ time \in Int
        BY <1>2, SizesArePositive, TimesAssumption DEF Times
      <4>2. Len(lists[c]) < Size(c)
        BY <3>1, <3>2, <4>1
      <4>. QED
        BY <1>8, <4>2
    <3>4. Append(lists[c], time) = [n \in 1..time |-> n]
      <4>1. \A n \in 1..time : Append(lists[c], time)[n] = n
        BY <1>2, <3>1, <3>2 DEF Times
      <4>2. Append(lists[c], time) = [n \in 1..(Len(lists[c]) + 1) |->
                                        IF n <= Len(lists[c]) THEN lists[c][n] ELSE time]
        BY <1>2
      <4>. QED
        BY <1>2, <3>1, <3>2, <4>1, <4>2 DEF Times
    <3>5. \A d \in Components : ls[d] = [n \in 1..Arrived(d)' |-> n]
      <4>1. Arrived(c)' = time
        BY <1>2, <3>1 DEF Arrived
      <4>2. \A d \in Components \ {c} : Arrived(d)' = Arrived(d)
        BY <1>2 DEF Arrived
      <4>3. \A d \in Components \ {c} : ls[d] = [n \in 1..Arrived(d) |-> n]
        BY <1>4, <2>3 DEF AllKept
      <4>4. ls[c] = [n \in 1..Arrived(c)' |-> n]
        BY <3>3, <3>4, <4>1
      <4>. QED
        BY <4>2, <4>3, <4>4
    <3>. QED
      BY <1>2, <2>2, <2>3, <3>5 DEF AllKept
  <2>4. CASE FirstArrives
    <3>1. \A d \in Components \ parts' : 1 \in Images(ls[d])
      BY <1>2, <1>4, <1>8, <2>4 DEF FirstArrives
    <3>2. parts' # {}
      BY <1>7, <2>1, <2>4, <3>1 DEF FirstArrives
    <3>. QED
      BY <1>2, <2>2, <2>4, <3>1, <3>2 DEF FirstArrives
  <2>. QED
    BY <2>2, <2>3, <2>4
<1>. QED
  BY <1>2, <1>9 DEF Window

LEMMA WindowStep == Inv /\ Window /\ [Next]_vars => Window'
<1>. SUFFICES ASSUME Inv, Window, [Next]_vars PROVE Window'
  OBVIOUS
<1>1. CASE GrabNothing \/ Finish \/ UNCHANGED vars
  BY <1>1 DEF GrabNothing, Finish, LoopIsOver, vars, Window, AllKept, Arrived, FirstArrives
<1>. QED
  BY <1>1, GrabFills, PartFills DEF Next

\* No set is lost because a list is too short: if all components keep up, the
\* first set is stored (main of gc_pointcloud, ImageList::add).
THEOREM WindowSufficesHolds == Spec => []WindowSuffices
<1>1. Window => WindowSuffices
  BY DEF Window, AllKept, FirstArrives, WindowSuffices
<1>. QED
  BY <1>1, WindowInit, WindowStep, InvHolds, PTL DEF Spec
=============================================================================
