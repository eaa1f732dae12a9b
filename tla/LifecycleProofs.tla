-------------------------- MODULE LifecycleProofs --------------------------
(***************************************************************************)
(* The counters of nested open() calls and the handles of the producer,    *)
(* for any number of systems, interfaces, devices and calls.               *)
(***************************************************************************)
EXTENDS Lifecycle, FiniteSetTheorems, TLAPS

LEMMA ObjectsFinite == IsFiniteSet(Objects)
  BY ObjectsAssumption, FS_Union DEF Objects

-----------------------------------------------------------------------------
(* Pairs of counters and handles of a set L of objects that contains the   *)
(* parent of each of them.                                                 *)

Pairs == [n : [Objects -> Nat], h : [Objects -> {"null", "live", "stale"}]]
Owners == [Objects -> Nat]

Tree(L) ==
  /\ L \subseteq Objects
  /\ \A s \in L \cap Systems : parent[s] = None
  /\ \A i \in L \cap Interfaces : parent[i] \in L \cap Systems
  /\ \A d \in L \cap Devices : parent[d] \in L \cap Interfaces

OpenBelow(L, n, o) == {x \in L : parent[x] = o /\ n[x] > 0}

\* own[o] counts the opens of o that do not come from its children.
Adds(L, n, own) ==
  \A o \in L : n[o] = own[o] + Cardinality(OpenBelow(L, n, o))

OneMore(own, o, own2) ==
  \A x \in Objects : own2[x] = IF x = o THEN own[x] + 1 ELSE own[x]

LEMMA BelowFinite ==
  ASSUME NEW L, L \subseteq Objects, NEW n, NEW o
  PROVE  /\ IsFiniteSet(OpenBelow(L, n, o))
         /\ Cardinality(OpenBelow(L, n, o)) \in Nat
  BY ObjectsFinite, FS_Subset, FS_CardinalityType DEF OpenBelow

\* An object that stays open, or a system, is counted by its owners only.
LEMMA CountAgain ==
  ASSUME NEW L, Tree(L), NEW o \in L,
         NEW n \in [Objects -> Nat], NEW m \in [Objects -> Nat],
         \A x \in Objects \ {o} : m[x] = n[x],
         (n[o] > 0 <=> m[o] > 0) \/ parent[o] = None
  PROVE  \A x \in L : OpenBelow(L, m, x) = OpenBelow(L, n, x)
<1>1. L \subseteq Objects /\ \A x \in L : x # None
  BY ObjectsAssumption DEF Tree, Objects
<1>. QED
  BY <1>1 DEF OpenBelow

\* The first open() of o is one of its parent p, the last close() too.
LEMMA CountFirst ==
  ASSUME NEW L, Tree(L), NEW o \in L, NEW p \in L, parent[o] = p, p # o,
         NEW n \in [Objects -> Nat], NEW m \in [Objects -> Nat],
         \A x \in Objects \ {o} : m[x] = n[x],
         n[o] = 0, m[o] > 0
  PROVE  /\ \A x \in L \ {p} : OpenBelow(L, m, x) = OpenBelow(L, n, x)
         /\ Cardinality(OpenBelow(L, m, p)) = Cardinality(OpenBelow(L, n, p)) + 1
<1>1. \A x \in L \ {p} : OpenBelow(L, m, x) = OpenBelow(L, n, x)
  BY DEF OpenBelow, Tree
<1>2. OpenBelow(L, m, p) = OpenBelow(L, n, p) \cup {o} /\ o \notin OpenBelow(L, n, p)
  BY DEF OpenBelow, Tree
<1>3. IsFiniteSet(OpenBelow(L, n, p))
  BY BelowFinite DEF Tree
<1>4. Cardinality(OpenBelow(L, n, p) \cup {o}) = Cardinality(OpenBelow(L, n, p)) + 1
  BY <1>2, <1>3, FS_AddElement
<1>. QED
  BY <1>1, <1>2, <1>4

LEMMA EnterAgain ==
  ASSUME NEW L, Tree(L), NEW o \in L, NEW c \in Pairs,
         NEW own \in Owners, NEW own2 \in Owners, OneMore(own, o, own2),
         Adds(L, c.n, own), c.n[o] > 0 \/ parent[o] = None,
         NEW m, m = Enter(c, o).n
  PROVE  Adds(L, m, own2)
<1>1. m = [c.n EXCEPT ![o] = @ + 1] /\ c.n \in [Objects -> Nat] /\ o \in Objects
  BY DEF Enter, Pairs, Tree
<1>2. m \in [Objects -> Nat] /\ m[o] = c.n[o] + 1 /\ \A x \in Objects \ {o} : m[x] = c.n[x]
  BY <1>1
<1>3. \A x \in L : OpenBelow(L, m, x) = OpenBelow(L, c.n, x)
  BY <1>1, <1>2, CountAgain
<1>4. \A x \in L : x \in Objects /\ Cardinality(OpenBelow(L, c.n, x)) \in Nat
  BY BelowFinite DEF Tree
<1>. QED
  BY <1>1, <1>2, <1>3, <1>4 DEF Adds, OneMore, Owners

LEMMA EnterFirst ==
  ASSUME NEW L, Tree(L), NEW o \in L, NEW p \in L, parent[o] = p, p # o, NEW c \in Pairs,
         NEW own \in Owners, NEW own1 \in Owners, NEW own2 \in Owners,
         OneMore(own, p, own1), OneMore(own, o, own2),
         Adds(L, c.n, own1), c.n[o] = 0,
         NEW m, m = Enter(c, o).n
  PROVE  Adds(L, m, own2)
<1>1. m = [c.n EXCEPT ![o] = @ + 1] /\ c.n \in [Objects -> Nat] /\ o \in Objects
  BY DEF Enter, Pairs, Tree
<1>2. m \in [Objects -> Nat] /\ m[o] = c.n[o] + 1 /\ \A x \in Objects \ {o} : m[x] = c.n[x]
  BY <1>1
<1>3. /\ \A x \in L \ {p} : OpenBelow(L, m, x) = OpenBelow(L, c.n, x)
      /\ Cardinality(OpenBelow(L, m, p)) = Cardinality(OpenBelow(L, c.n, p)) + 1
  BY <1>1, <1>2, CountFirst
<1>4. \A x \in L : x \in Objects /\ Cardinality(OpenBelow(L, c.n, x)) \in Nat
  BY BelowFinite DEF Tree
<1>5. ASSUME NEW x \in L
      PROVE  m[x] = own2[x] + Cardinality(OpenBelow(L, m, x))
  <2>. USE DEF Adds, OneMore, Owners
  <2>1. CASE x = p
    BY <1>1, <1>2, <1>3, <1>4, <2>1
  <2>2. CASE x = o
    BY <1>1, <1>2, <1>3, <1>4, <2>2
  <2>3. CASE x # o /\ x # p
    BY <1>1, <1>2, <1>3, <1>4, <2>3
  <2>. QED
    BY <2>1, <2>2, <2>3
<1>. QED
  BY <1>5 DEF Adds

LEMMA LeaveAgain ==
  ASSUME NEW L, Tree(L), NEW o \in L, NEW c \in Pairs,
         NEW own \in Owners, NEW own2 \in Owners, OneMore(own2, o, own),
         Adds(L, c.n, own), c.n[o] > 1 \/ parent[o] = None,
         NEW m, m = Leave(c, o).n
  PROVE  Adds(L, m, own2)
<1>1. m = [c.n EXCEPT ![o] = @ - 1] /\ c.n \in [Objects -> Nat] /\ o \in Objects
  BY DEF Leave, Pairs, Tree
<1>4. \A x \in L : x \in Objects /\ Cardinality(OpenBelow(L, c.n, x)) \in Nat
  BY BelowFinite DEF Tree
<1>5. c.n[o] > 0
  BY <1>1, <1>4 DEF Adds, OneMore, Owners
<1>2. m \in [Objects -> Nat] /\ m[o] = c.n[o] - 1 /\ \A x \in Objects \ {o} : m[x] = c.n[x]
  BY <1>1, <1>5
<1>3. \A x \in L : OpenBelow(L, m, x) = OpenBelow(L, c.n, x)
  BY <1>1, <1>2, CountAgain
<1>. QED
  BY <1>1, <1>2, <1>3, <1>4 DEF Adds, OneMore, Owners

LEMMA LeaveLast ==
  ASSUME NEW L, Tree(L), NEW o \in L, NEW p \in L, parent[o] = p, p # o, NEW c \in Pairs,
         NEW own \in Owners, NEW own1 \in Owners, NEW own2 \in Owners,
         OneMore(own2, o, own), OneMore(own2, p, own1),
         Adds(L, c.n, own), c.n[o] = 1,
         NEW m, m = Leave(c, o).n
  PROVE  Adds(L, m, own1)
<1>1. m = [c.n EXCEPT ![o] = @ - 1] /\ c.n \in [Objects -> Nat] /\ o \in Objects
  BY DEF Leave, Pairs, Tree
<1>2. m \in [Objects -> Nat] /\ m[o] = 0 /\ \A x \in Objects \ {o} : m[x] = c.n[x]
  BY <1>1
<1>3. /\ \A x \in L \ {p} : OpenBelow(L, m, x) = OpenBelow(L, c.n, x)
      /\ Cardinality(OpenBelow(L, c.n, p)) = Cardinality(OpenBelow(L, m, p)) + 1
  BY <1>1, <1>2, CountFirst
<1>4. \A x \in L : x \in Objects /\ Cardinality(OpenBelow(L, m, x)) \in Nat
  BY BelowFinite DEF Tree
<1>5. ASSUME NEW x \in L
      PROVE  m[x] = own1[x] + Cardinality(OpenBelow(L, m, x))
  <2>. USE DEF Adds, OneMore, Owners
  <2>1. CASE x = p
    BY <1>1, <1>2, <1>3, <1>4, <2>1
  <2>2. CASE x = o
    BY <1>1, <1>2, <1>3, <1>4, <2>2
  <2>3. CASE x # o /\ x # p
    BY <1>1, <1>2, <1>3, <1>4, <2>3
  <2>. QED
    BY <2>1, <2>2, <2>3
<1>. QED
  BY <1>5 DEF Adds

-----------------------------------------------------------------------------
(* Handles. *)

ClosedIsNull(c) == \A x \in Objects : c.n[x] = 0 => c.h[x] = "null"

OpenIsValid(c) ==
  \A x \in Objects : c.n[x] > 0 =>
    c.h[x] = "live" \/ ("lost" \in seen /\ x \notin Systems /\ c.h[x] = "stale")

\* What holds in any case: c2 follows c by opening or closing objects of L.
Follows(L, c, c2) ==
  /\ c2 \in Pairs
  /\ ClosedIsNull(c) => ClosedIsNull(c2)
  /\ \A x \in Objects \ L : c2.n[x] = c.n[x]

LEMMA EnterFollows ==
  ASSUME NEW L, L \subseteq Objects, NEW o \in L, NEW c \in Pairs
  PROVE  Follows(L, c, Enter(c, o)) /\ (OpenIsValid(c) => OpenIsValid(Enter(c, o)))
<1>. DEFINE c2 == Enter(c, o)
<1>1. o \in Objects /\ c.n \in [Objects -> Nat] /\ c.h \in [Objects -> {"null", "live", "stale"}]
  BY DEF Pairs
<1>2. /\ c2.n = [c.n EXCEPT ![o] = @ + 1]
      /\ c2.h = IF c.n[o] = 0 THEN [c.h EXCEPT ![o] = "live"] ELSE c.h
      /\ c2 = [n |-> c2.n, h |-> c2.h]
  BY DEF Enter
<1>. HIDE DEF c2
<1>3. c2.n \in [Objects -> Nat] /\ c2.h \in [Objects -> {"null", "live", "stale"}]
  BY <1>1, <1>2
<1>4. /\ c2.n[o] = c.n[o] + 1
      /\ c2.h[o] = IF c.n[o] = 0 THEN "live" ELSE c.h[o]
      /\ \A x \in Objects \ {o} : c2.n[x] = c.n[x] /\ c2.h[x] = c.h[x]
  BY <1>1, <1>2
<1>5. c2 \in Pairs
  BY <1>2, <1>3 DEF Pairs
<1>6. Follows(L, c, c2) /\ (OpenIsValid(c) => OpenIsValid(c2))
  BY <1>1, <1>4, <1>5 DEF Follows, ClosedIsNull, OpenIsValid
<1>. QED
  BY <1>6 DEF c2

LEMMA LeaveFollows ==
  ASSUME NEW L, L \subseteq Objects, NEW o \in L, NEW c \in Pairs, c.n[o] > 0
  PROVE  /\ Follows(L, c, Leave(c, o))
         /\ ClosedIsNull(c) /\ OpenIsValid(c)
              /\ (c.n[o] = 1 => \A x \in Below(o) : c.n[x] = 0)
              => OpenIsValid(Leave(c, o))
<1>. DEFINE c2 == Leave(c, o)
<1>1. o \in Objects /\ c.n \in [Objects -> Nat] /\ c.h \in [Objects -> {"null", "live", "stale"}]
  BY DEF Pairs
<1>2. /\ c2.n = [c.n EXCEPT ![o] = @ - 1]
      /\ c2.h = IF c.n[o] = 1 THEN Freed(c.h, o) ELSE c.h
      /\ c2 = [n |-> c2.n, h |-> c2.h]
  BY DEF Leave
<1>. HIDE DEF c2
<1>3. c2.n \in [Objects -> Nat] /\ c2.h \in [Objects -> {"null", "live", "stale"}]
  BY <1>1, <1>2 DEF Freed
<1>4. /\ c2.n[o] = c.n[o] - 1
      /\ c2.h[o] = IF c.n[o] = 1 THEN "null" ELSE c.h[o]
      /\ \A x \in Objects \ {o} :
            /\ c2.n[x] = c.n[x]
            /\ \/ c2.h[x] = c.h[x]
               \/ c.n[o] = 1 /\ x \in Below(o) /\ c.h[x] = "live" /\ c2.h[x] = "stale"
  BY <1>1, <1>2 DEF Freed
<1>5. c2 \in Pairs
  BY <1>2, <1>3 DEF Pairs
<1>6. ClosedIsNull(c) => ClosedIsNull(c2)
  BY <1>1, <1>4 DEF ClosedIsNull
<1>7. ClosedIsNull(c) /\ OpenIsValid(c)
        /\ (c.n[o] = 1 => \A x \in Below(o) : c.n[x] = 0) => OpenIsValid(c2)
  BY <1>1, <1>4 DEF ClosedIsNull, OpenIsValid
<1>8. Follows(L, c, c2)
  BY <1>1, <1>4, <1>5, <1>6 DEF Follows
<1>. QED
  BY <1>7, <1>8 DEF c2

\* Objects that are not in L, as the one that is being destroyed.
ClosedOutside(L, c) == \A x \in live \ L : x \in Objects /\ c.n[x] = 0

\* What is closed for the last time has nothing open below it.
LEMMA NoneBelow ==
  ASSUME NEW L, Tree(L), NEW o \in L, NEW c \in Pairs, ClosedOutside(L, c),
         NEW own \in Owners, own[o] > 0, Adds(L, c.n, own), c.n[o] = 1
  PROVE  \A x \in Below(o) : c.n[x] = 0
<1>1. ASSUME NEW z \in L, c.n[z] = own[z]
      PROVE  \A y \in L : parent[y] = z => c.n[y] = 0
  <2>1. IsFiniteSet(OpenBelow(L, c.n, z)) /\ Cardinality(OpenBelow(L, c.n, z)) \in Nat
    BY BelowFinite DEF Tree
  <2>2. Cardinality(OpenBelow(L, c.n, z)) = 0
    BY <1>1, <2>1 DEF Adds, Owners, Tree
  <2>3. OpenBelow(L, c.n, z) = {}
    BY <2>1, <2>2, FS_EmptySet
  <2>. QED
    BY <2>3 DEF OpenBelow, Pairs, Tree
<1>2. \A z \in L : /\ Cardinality(OpenBelow(L, c.n, z)) \in Nat
                   /\ c.n[z] = own[z] + Cardinality(OpenBelow(L, c.n, z))
                   /\ own[z] \in Nat
  BY BelowFinite DEF Tree, Adds, Owners
<1>3. c.n[o] = own[o]
  BY <1>2
<1>4. ASSUME NEW x \in L, parent[x] = o PROVE c.n[x] = 0
  BY <1>1, <1>3, <1>4
<1>5. ASSUME NEW x \in L, parent[x] # None, parent[parent[x]] = o PROVE c.n[x] = 0
  <2>1. parent[x] \in L
    BY <1>5 DEF Tree, Objects
  <2>2. c.n[parent[x]] = 0
    BY <1>4, <1>5, <2>1
  <2>3. c.n[parent[x]] = own[parent[x]]
    BY <1>2, <2>1, <2>2
  <2>. QED
    BY <1>1, <2>1, <2>3
<1>. QED
  BY <1>4, <1>5 DEF Below, ClosedOutside

-----------------------------------------------------------------------------
(* Opening and closing. *)

Good(L, c, own) == Adds(L, c.n, own) /\ ClosedIsNull(c) /\ OpenIsValid(c)

LEMMA GoodSame ==
  ASSUME NEW L, NEW c, NEW own, NEW own2, Good(L, c, own), \A x \in L : own2[x] = own[x]
  PROVE  Good(L, c, own2)
  BY DEF Good, Adds

LEMMA FollowsTwice ==
  ASSUME NEW A, NEW B, NEW c, NEW c1, NEW c2, Follows(A, c, c1), Follows(B, c1, c2)
  PROVE  Follows(A \cup B, c, c2)
  BY DEF Follows

LEMMA FollowsMore ==
  ASSUME NEW A, NEW B, A \subseteq B, NEW c \in Pairs, NEW c2, Follows(A, c, c2) \/ c2 = c
  PROVE  Follows(B, c, c2)
  BY DEF Follows

LEMMA OpenSystemCounts ==
  ASSUME NEW L, Tree(L), NEW s \in L \cap Systems, NEW c \in Pairs,
         NEW c2, c2 = OpenSystem(c, s)
  PROVE  /\ Follows({s}, c, c2)
         /\ \A own \in Owners, own2 \in Owners :
               OneMore(own, s, own2) /\ Good(L, c, own) => Good(L, c2, own2)
<1>1. c2 = Enter(c, s) /\ parent[s] = None /\ s \in L /\ {s} \subseteq Objects
  BY DEF OpenSystem, Tree
<1>2. Follows({s}, c, c2) /\ (OpenIsValid(c) => OpenIsValid(c2))
  BY <1>1, EnterFollows
<1>3. ASSUME NEW own \in Owners, NEW own2 \in Owners, OneMore(own, s, own2), Adds(L, c.n, own)
      PROVE  Adds(L, c2.n, own2)
  BY <1>1, <1>3, EnterAgain
<1>. QED
  BY <1>2, <1>3 DEF Good, Follows

LEMMA CloseSystemCounts ==
  ASSUME NEW L, Tree(L), NEW s \in L \cap Systems, NEW c \in Pairs,
         ClosedOutside(L, c),
         NEW c2, c2 = CloseSystem(c, s)
  PROVE  /\ Follows({s}, c, c2)
         /\ \A own \in Owners, own2 \in Owners :
               OneMore(own2, s, own) /\ Good(L, c, own) => Good(L, c2, own2)
<1>1. parent[s] = None /\ s \in L /\ L \subseteq Objects /\ s \in Objects /\ c.n[s] \in Nat
  BY DEF Tree, Pairs
<1>2. Follows({s}, c, c2)
  <2>1. CASE c.n[s] > 0
    BY <1>1, <2>1, LeaveFollows DEF CloseSystem
  <2>2. CASE c.n[s] = 0
    BY <2>2 DEF CloseSystem, Follows
  <2>. QED
    BY <1>1, <2>1, <2>2
<1>3. ASSUME NEW own \in Owners, NEW own2 \in Owners, OneMore(own2, s, own), Good(L, c, own)
      PROVE  Good(L, c2, own2)
  <2>1. own[s] > 0 /\ Cardinality(OpenBelow(L, c.n, s)) \in Nat
    BY <1>1, <1>3, BelowFinite DEF OneMore, Owners
  <2>2. c.n[s] > 0
    BY <1>1, <1>3, <2>1 DEF Good, Adds, Owners
  <2>3. c2 = Leave(c, s)
    BY <2>2 DEF CloseSystem
  <2>4. Adds(L, c2.n, own2)
    BY <1>1, <1>3, <2>3, LeaveAgain DEF Good
  <2>5. c.n[s] = 1 => \A x \in Below(s) : c.n[x] = 0
    BY <1>1, <1>3, <2>1, NoneBelow DEF Good
  <2>6. OpenIsValid(c2)
    BY <1>1, <1>3, <2>2, <2>3, <2>5, LeaveFollows DEF Good
  <2>. QED
    BY <1>2, <1>3, <2>4, <2>6 DEF Good, Follows
<1>. QED
  BY <1>2, <1>3

LEMMA OpenInterfaceCounts ==
  ASSUME NEW L, Tree(L), NEW i \in L \cap Interfaces, NEW c \in Pairs,
         NEW c2, c2 = OpenInterface(c, i)
  PROVE  /\ Follows({i, parent[i]}, c, c2)
         /\ \A own \in Owners, own2 \in Owners :
               OneMore(own, i, own2) /\ Good(L, c, own) => Good(L, c2, own2)
<1>. DEFINE p == parent[i]
            c1 == IF c.n[i] = 0 THEN OpenSystem(c, p) ELSE c
<1>1. /\ p \in L \cap Systems /\ p # i /\ i \in L /\ i \in Objects /\ p \in Objects
      /\ c2 = Enter(c1, i)
  BY ObjectsAssumption DEF OpenInterface, Tree
<1>2. Follows({p}, c, c1)
  <2>1. Follows({p}, c, c)
    BY DEF Follows
  <2>. QED
    BY <1>1, <2>1, OpenSystemCounts
<1>3. c1 \in Pairs /\ c1.n[i] = c.n[i]
  BY <1>1, <1>2 DEF Follows
<1>4. Follows({i}, c1, c2) /\ (OpenIsValid(c1) => OpenIsValid(c2))
  <2>. HIDE DEF c1
  <2>. QED
    BY <1>1, <1>3, EnterFollows
<1>5. ASSUME NEW own \in Owners, NEW own2 \in Owners, OneMore(own, i, own2), Good(L, c, own)
      PROVE  Good(L, c2, own2)
  <2>1. CASE c.n[i] = 0
    <3>. DEFINE own1 == [own EXCEPT ![p] = @ + 1]
    <3>1. own1 \in Owners /\ OneMore(own, p, own1)
      BY <1>1 DEF Owners, OneMore
    <3>2. c1 = OpenSystem(c, p)
      BY <2>1
    <3>. HIDE DEF own1, c1, p
    <3>3. Good(L, c1, own1)
      BY <1>1, <1>5, <3>1, <3>2, OpenSystemCounts
    <3>4. p = parent[i]
      BY DEF p
    <3>5. Adds(L, c2.n, own2)
      BY <1>1, <1>3, <1>5, <2>1, <3>1, <3>3, <3>4, EnterFirst DEF Good
    <3>. QED
      BY <1>4, <3>3, <3>5 DEF Good, Follows
  <2>2. CASE c.n[i] # 0
    <3>1. c1 = c /\ c.n[i] > 0
      BY <2>2, <1>1 DEF Pairs
    <3>. HIDE DEF c1, p
    <3>2. Adds(L, c2.n, own2)
      BY <1>1, <1>5, <3>1, EnterAgain DEF Good
    <3>. QED
      BY <1>4, <1>5, <3>1, <3>2 DEF Good, Follows
  <2>. QED
    BY <2>1, <2>2
<1>6. Follows({i, p}, c, c2)
  <2>. HIDE DEF p, c1
  <2>1. {p} \cup {i} = {i, p}
    OBVIOUS
  <2>. QED
    BY <1>2, <1>4, <2>1, FollowsTwice
<1>. QED
  BY <1>5, <1>6

LEMMA OpenDeviceCounts ==
  ASSUME NEW L, Tree(L), NEW d \in L \cap Devices, NEW c \in Pairs,
         NEW c2, c2 = OpenDevice(c, d)
  PROVE  /\ Follows({d, parent[d], parent[parent[d]]}, c, c2)
         /\ \A own \in Owners, own2 \in Owners :
               OneMore(own, d, own2) /\ Good(L, c, own) => Good(L, c2, own2)
<1>. DEFINE p == parent[d]
            q == parent[p]
            c1 == IF c.n[d] = 0 THEN OpenInterface(c, p) ELSE c
<1>1. /\ p \in L \cap Interfaces /\ q \in L \cap Systems
      /\ p # d /\ q # d /\ d \in L /\ d \in Objects /\ p \in Objects
      /\ c2 = Enter(c1, d)
  BY ObjectsAssumption DEF OpenDevice, Tree
<1>2. Follows({p, q}, c, c1)
  <2>1. Follows({p, q}, c, c)
    BY DEF Follows
  <2>. QED
    BY <1>1, <2>1, OpenInterfaceCounts
<1>3. c1 \in Pairs /\ c1.n[d] = c.n[d]
  BY <1>1, <1>2 DEF Follows
<1>4. Follows({d}, c1, c2) /\ (OpenIsValid(c1) => OpenIsValid(c2))
  <2>. HIDE DEF c1
  <2>. QED
    BY <1>1, <1>3, EnterFollows
<1>5. ASSUME NEW own \in Owners, NEW own2 \in Owners, OneMore(own, d, own2), Good(L, c, own)
      PROVE  Good(L, c2, own2)
  <2>1. CASE c.n[d] = 0
    <3>. DEFINE own1 == [own EXCEPT ![p] = @ + 1]
    <3>1. own1 \in Owners /\ OneMore(own, p, own1)
      BY <1>1 DEF Owners, OneMore
    <3>2. c1 = OpenInterface(c, p)
      BY <2>1
    <3>4. p = parent[d]
      BY DEF p
    <3>. HIDE DEF own1, c1, p, q
    <3>3. Good(L, c1, own1)
      BY <1>1, <1>5, <3>1, <3>2, OpenInterfaceCounts
    <3>5. Adds(L, c2.n, own2)
      BY <1>1, <1>3, <1>5, <2>1, <3>1, <3>3, <3>4, EnterFirst DEF Good
    <3>. QED
      BY <1>4, <3>3, <3>5 DEF Good, Follows
  <2>2. CASE c.n[d] # 0
    <3>1. c1 = c /\ c.n[d] > 0
      BY <2>2, <1>1 DEF Pairs
    <3>. HIDE DEF c1, p, q
    <3>2. Adds(L, c2.n, own2)
      BY <1>1, <1>5, <3>1, EnterAgain DEF Good
    <3>. QED
      BY <1>4, <1>5, <3>1, <3>2 DEF Good, Follows
  <2>. QED
    BY <2>1, <2>2
<1>6. Follows({d, p, q}, c, c2)
  <2>. HIDE DEF p, q, c1
  <2>1. {p, q} \cup {d} = {d, p, q}
    OBVIOUS
  <2>. QED
    BY <1>2, <1>4, <2>1, FollowsTwice
<1>. QED
  BY <1>5, <1>6

LEMMA CloseInterfaceCounts ==
  ASSUME NEW L, Tree(L), NEW i \in L \cap Interfaces, NEW c \in Pairs,
         ClosedOutside(L, c),
         NEW c2, c2 = CloseInterface(c, i)
  PROVE  /\ Follows({i, parent[i]}, c, c2)
         /\ \A own \in Owners, own2 \in Owners :
               OneMore(own2, i, own) /\ Good(L, c, own) => Good(L, c2, own2)
<1>. DEFINE p == parent[i]
            c1 == Leave(c, i)
<1>1. /\ p \in L \cap Systems /\ p # i /\ i \in L /\ i \in Objects /\ p \in Objects
      /\ L \subseteq Objects /\ c.n[i] \in Nat
  BY ObjectsAssumption DEF Tree, Pairs
<1>2. /\ c.n[i] = 1 => c2 = CloseSystem(c1, p)
      /\ c.n[i] > 1 => c2 = c1
      /\ c.n[i] = 0 => c2 = c
  BY DEF CloseInterface
<1>. HIDE DEF p
<1>3. c.n[i] > 0 => Follows({i}, c, c1)
  BY <1>1, LeaveFollows
<1>. HIDE DEF c1
<1>4. c.n[i] > 0 => c1 \in Pairs /\ ClosedOutside(L, c1)
  BY <1>1, <1>3 DEF Follows, ClosedOutside
<1>5. Follows({i, p}, c, c2)
  <2>1. CASE c.n[i] = 1
    <3>1. Follows({p}, c1, c2)
      BY <1>1, <1>2, <1>4, <2>1, CloseSystemCounts
    <3>2. {i} \cup {p} = {i, p}
      OBVIOUS
    <3>. QED
      BY <1>3, <2>1, <3>1, <3>2, FollowsTwice
  <2>2. CASE c.n[i] > 1
    <3>1. {i} \subseteq {i, p}
      OBVIOUS
    <3>. QED
      BY <1>1, <1>2, <1>3, <2>2, <3>1, FollowsMore
  <2>3. CASE c.n[i] = 0
    BY <1>2, <2>3, FollowsMore
  <2>. QED
    BY <1>1, <2>1, <2>2, <2>3
<1>6. ASSUME NEW own \in Owners, NEW own2 \in Owners, OneMore(own2, i, own), Good(L, c, own)
      PROVE  Good(L, c2, own2)
  <2>1. own[i] > 0 /\ Cardinality(OpenBelow(L, c.n, i)) \in Nat
    BY <1>1, <1>6, BelowFinite DEF OneMore, Owners
  <2>2. c.n[i] > 0
    BY <1>1, <1>6, <2>1 DEF Good, Adds, Owners
  <2>3. c.n[i] = 1 => \A x \in Below(i) : c.n[x] = 0
    BY <1>1, <1>6, <2>1, NoneBelow DEF Good
  <2>4. ClosedIsNull(c1) /\ OpenIsValid(c1)
    BY <1>1, <1>3, <1>6, <2>2, <2>3, LeaveFollows DEF Good, Follows, c1
  <2>5. CASE c.n[i] = 1
    <3>. DEFINE own1 == [own2 EXCEPT ![p] = @ + 1]
    <3>1. own1 \in Owners /\ OneMore(own2, p, own1)
      BY <1>1 DEF Owners, OneMore
    <3>. HIDE DEF own1
    <3>2. Adds(L, c1.n, own1)
      BY <1>1, <1>6, <2>5, <3>1, LeaveLast DEF Good, c1, p
    <3>3. Good(L, c1, own1)
      BY <2>4, <3>2 DEF Good
    <3>4. c2 = CloseSystem(c1, p) /\ c1 \in Pairs /\ ClosedOutside(L, c1)
      BY <1>2, <1>4, <2>5
    <3>. QED
      BY <1>1, <3>1, <3>3, <3>4, CloseSystemCounts
  <2>6. CASE c.n[i] > 1
    <3>1. Adds(L, c1.n, own2)
      BY <1>1, <1>6, <2>6, LeaveAgain DEF Good, c1
    <3>. QED
      BY <1>2, <2>4, <2>6, <3>1 DEF Good
  <2>. QED
    BY <1>1, <2>2, <2>5, <2>6
<1>. QED
  BY <1>5, <1>6 DEF p

LEMMA CloseDeviceCounts ==
  ASSUME NEW L, Tree(L), NEW d \in L \cap Devices, NEW c \in Pairs,
         ClosedOutside(L, c),
         NEW c2, c2 = CloseDevice(c, d)
  PROVE  /\ Follows({d, parent[d], parent[parent[d]]}, c, c2)
         /\ \A own \in Owners, own2 \in Owners :
               OneMore(own2, d, own) /\ Good(L, c, own) => Good(L, c2, own2)
<1>. DEFINE p == parent[d]
            q == parent[p]
            c1 == Leave(c, d)
<1>1. /\ p \in L \cap Interfaces /\ p # d /\ d \in L /\ d \in Objects /\ p \in Objects
      /\ L \subseteq Objects /\ c.n[d] \in Nat /\ q = parent[p]
  BY ObjectsAssumption DEF Tree, Pairs
<1>2. /\ c.n[d] = 1 => c2 = CloseInterface(c1, p)
      /\ c.n[d] > 1 => c2 = c1
      /\ c.n[d] = 0 => c2 = c
  BY DEF CloseDevice
<1>. HIDE DEF p, q
<1>3. c.n[d] > 0 => Follows({d}, c, c1)
  BY <1>1, LeaveFollows
<1>. HIDE DEF c1
<1>4. c.n[d] > 0 => c1 \in Pairs /\ ClosedOutside(L, c1)
  BY <1>1, <1>3 DEF Follows, ClosedOutside
<1>5. Follows({d, p, q}, c, c2)
  <2>1. CASE c.n[d] = 1
    <3>1. Follows({p, q}, c1, c2)
      BY <1>1, <1>2, <1>4, <2>1, CloseInterfaceCounts
    <3>2. {d} \cup {p, q} = {d, p, q}
      OBVIOUS
    <3>. QED
      BY <1>3, <2>1, <3>1, <3>2, FollowsTwice
  <2>2. CASE c.n[d] > 1
    <3>1. {d} \subseteq {d, p, q}
      OBVIOUS
    <3>. QED
      BY <1>1, <1>2, <1>3, <2>2, <3>1, FollowsMore
  <2>3. CASE c.n[d] = 0
    BY <1>2, <2>3, FollowsMore
  <2>. QED
    BY <1>1, <2>1, <2>2, <2>3
<1>6. ASSUME NEW own \in Owners, NEW own2 \in Owners, OneMore(own2, d, own), Good(L, c, own)
      PROVE  Good(L, c2, own2)
  <2>1. own[d] > 0 /\ Cardinality(OpenBelow(L, c.n, d)) \in Nat
    BY <1>1, <1>6, BelowFinite DEF OneMore, Owners
  <2>2. c.n[d] > 0
    BY <1>1, <1>6, <2>1 DEF Good, Adds, Owners
  <2>3. c.n[d] = 1 => \A x \in Below(d) : c.n[x] = 0
    BY <1>1, <1>6, <2>1, NoneBelow DEF Good
  <2>4. ClosedIsNull(c1) /\ OpenIsValid(c1)
    BY <1>1, <1>3, <1>6, <2>2, <2>3, LeaveFollows DEF Good, Follows, c1
  <2>5. CASE c.n[d] = 1
    <3>. DEFINE own1 == [own2 EXCEPT ![p] = @ + 1]
    <3>1. own1 \in Owners /\ OneMore(own2, p, own1)
      BY <1>1 DEF Owners, OneMore
    <3>. HIDE DEF own1
    <3>2. Adds(L, c1.n, own1)
      BY <1>1, <1>6, <2>5, <3>1, LeaveLast DEF Good, c1, p
    <3>3. Good(L, c1, own1)
      BY <2>4, <3>2 DEF Good
    <3>4. c2 = CloseInterface(c1, p) /\ c1 \in Pairs /\ ClosedOutside(L, c1)
      BY <1>2, <1>4, <2>5
    <3>. QED
      BY <1>1, <3>1, <3>3, <3>4, CloseInterfaceCounts
  <2>6. CASE c.n[d] > 1
    <3>1. Adds(L, c1.n, own2)
      BY <1>1, <1>6, <2>6, LeaveAgain DEF Good, c1
    <3>. QED
      BY <1>2, <2>4, <2>6, <3>1 DEF Good
  <2>. QED
    BY <1>1, <2>2, <2>5, <2>6
<1>. QED
  BY <1>5, <1>6 DEF p, q

-----------------------------------------------------------------------------
(* The calls, in a tree of live objects. *)

LEMMA OpenedCounts ==
  ASSUME NEW L, Tree(L), Now \in Pairs, NEW o \in L, NEW c2, c2 = Opened(o)
  PROVE  /\ Follows(L, Now, c2)
         /\ \A own \in Owners, own2 \in Owners :
               OneMore(own, o, own2) /\ Good(L, Now, own) => Good(L, c2, own2)
<1>1. CASE o \in Systems
  <2>1. c2 = OpenSystem(Now, o) /\ {o} \subseteq L
    BY <1>1 DEF Opened
  <2>. QED
    <3>1. o \in L \cap Systems
      BY <1>1
    <3>2. /\ Follows({o}, Now, c2)
          /\ \A own \in Owners, own2 \in Owners :
                OneMore(own, o, own2) /\ Good(L, Now, own) => Good(L, c2, own2)
      BY <2>1, <3>1, OpenSystemCounts
    <3>3. Follows(L, Now, c2)
      BY <2>1, <3>2, FollowsMore
    <3>. QED
      BY <3>2, <3>3
<1>2. CASE o \in Interfaces
  <2>1. c2 = OpenInterface(Now, o) /\ {o, parent[o]} \subseteq L
    BY <1>2, ObjectsAssumption DEF Opened, Tree
  <2>. QED
    <3>1. o \in L \cap Interfaces
      BY <1>2
    <3>2. /\ Follows({o, parent[o]}, Now, c2)
          /\ \A own \in Owners, own2 \in Owners :
                OneMore(own, o, own2) /\ Good(L, Now, own) => Good(L, c2, own2)
      BY <2>1, <3>1, OpenInterfaceCounts
    <3>3. Follows(L, Now, c2)
      BY <2>1, <3>2, FollowsMore
    <3>. QED
      BY <3>2, <3>3
<1>3. CASE o \in Devices
  <2>1. c2 = OpenDevice(Now, o) /\ {o, parent[o], parent[parent[o]]} \subseteq L
    BY <1>3, ObjectsAssumption DEF Opened, Tree
  <2>. QED
    <3>1. o \in L \cap Devices
      BY <1>3
    <3>2. /\ Follows({o, parent[o], parent[parent[o]]}, Now, c2)
          /\ \A own \in Owners, own2 \in Owners :
                OneMore(own, o, own2) /\ Good(L, Now, own) => Good(L, c2, own2)
      BY <2>1, <3>1, OpenDeviceCounts
    <3>3. Follows(L, Now, c2)
      BY <2>1, <3>2, FollowsMore
    <3>. QED
      BY <3>2, <3>3
<1>. QED
  BY <1>1, <1>2, <1>3 DEF Tree, Objects

LEMMA ClosedCounts ==
  ASSUME NEW L, Tree(L), Now \in Pairs, ClosedOutside(L, Now), NEW o \in L,
         NEW c2, c2 = Closed(o)
  PROVE  /\ Follows(L, Now, c2)
         /\ \A own \in Owners, own2 \in Owners :
               OneMore(own2, o, own) /\ Good(L, Now, own) => Good(L, c2, own2)
<1>1. CASE o \in Systems
  <2>1. c2 = CloseSystem(Now, o) /\ {o} \subseteq L
    BY <1>1 DEF Closed
  <2>. QED
    BY <1>1, <2>1, CloseSystemCounts, FollowsMore
<1>2. CASE o \in Interfaces
  <2>1. c2 = CloseInterface(Now, o) /\ {o, parent[o]} \subseteq L
    BY <1>2, ObjectsAssumption DEF Closed, Tree
  <2>. QED
    BY <1>2, <2>1, CloseInterfaceCounts, FollowsMore
<1>3. CASE o \in Devices
  <2>1. c2 = CloseDevice(Now, o) /\ {o, parent[o], parent[parent[o]]} \subseteq L
    BY <1>3, ObjectsAssumption DEF Closed, Tree
  <2>. QED
    BY <1>3, <2>1, CloseDeviceCounts, FollowsMore
<1>. QED
  BY <1>1, <1>2, <1>3 DEF Tree, Objects

LEMMA StaysClosedOutside ==
  ASSUME NEW L, NEW c, NEW c2, ClosedOutside(L, c), Follows(L, c, c2)
  PROVE  ClosedOutside(L, c2)
  BY DEF ClosedOutside, Follows

\* The parent is opened and closed again.
LEMMA OpenFailsCounts ==
  ASSUME NEW L, Tree(L), Now \in Pairs, ClosedOutside(L, Now), NEW o \in L,
         NEW c2, c2 = OpenFails(o)
  PROVE  /\ Follows(L, Now, c2)
         /\ \A own \in Owners : Good(L, Now, own) => Good(L, c2, own)
<1>1. CASE o \in Systems \/ nOpen[o] > 0
  <2>1. c2 = Now
    BY <1>1 DEF OpenFails
  <2>. QED
    BY <2>1 DEF Follows
<1>2. CASE o \in Interfaces /\ ~(nOpen[o] > 0)
  <2>. DEFINE p == parent[o]
              c1 == OpenSystem(Now, p)
  <2>1. p \in L \cap Systems /\ {p} \subseteq L /\ o \notin Systems
    BY <1>2, ObjectsAssumption DEF Tree
  <2>2. c2 = CloseSystem(c1, p)
    BY <1>2, <2>1 DEF OpenFails
  <2>. HIDE DEF p, c1
  <2>3. /\ Follows(L, Now, c1)
        /\ \A own \in Owners, own2 \in Owners :
              OneMore(own, p, own2) /\ Good(L, Now, own) => Good(L, c1, own2)
    BY <2>1, OpenSystemCounts, FollowsMore DEF c1
  <2>4. c1 \in Pairs /\ ClosedOutside(L, c1)
    BY <2>3, StaysClosedOutside DEF Follows
  <2>5. /\ Follows(L, c1, c2)
        /\ \A own \in Owners, own2 \in Owners :
              OneMore(own2, p, own) /\ Good(L, c1, own) => Good(L, c2, own2)
    BY <2>1, <2>2, <2>4, CloseSystemCounts, FollowsMore
  <2>6. \A own \in Owners : \E own1 \in Owners : OneMore(own, p, own1)
    <3>1. ASSUME NEW own \in Owners
          PROVE  [own EXCEPT ![p] = @ + 1] \in Owners /\ OneMore(own, p, [own EXCEPT ![p] = @ + 1])
      BY <2>1 DEF Owners, OneMore, Tree
    <3>. QED
      BY <3>1
  <2>7. L \cup L = L
    OBVIOUS
  <2>8. Follows(L, Now, c2)
    BY <2>3, <2>5, <2>7, FollowsTwice
  <2>. QED
    BY <2>3, <2>5, <2>6, <2>8
<1>3. CASE o \in Devices /\ ~(nOpen[o] > 0)
  <2>. DEFINE p == parent[o]
              c1 == OpenInterface(Now, p)
  <2>1. p \in L \cap Interfaces /\ {p, parent[p]} \subseteq L /\ o \notin Systems /\ o \notin Interfaces
    BY <1>3, ObjectsAssumption DEF Tree
  <2>2. c2 = CloseInterface(c1, p)
    BY <1>3, <2>1 DEF OpenFails
  <2>. HIDE DEF p, c1
  <2>3. /\ Follows(L, Now, c1)
        /\ \A own \in Owners, own2 \in Owners :
              OneMore(own, p, own2) /\ Good(L, Now, own) => Good(L, c1, own2)
    BY <2>1, OpenInterfaceCounts, FollowsMore DEF c1
  <2>4. c1 \in Pairs /\ ClosedOutside(L, c1)
    BY <2>3, StaysClosedOutside DEF Follows
  <2>5. /\ Follows(L, c1, c2)
        /\ \A own \in Owners, own2 \in Owners :
              OneMore(own2, p, own) /\ Good(L, c1, own) => Good(L, c2, own2)
    BY <2>1, <2>2, <2>4, CloseInterfaceCounts, FollowsMore
  <2>6. \A own \in Owners : \E own1 \in Owners : OneMore(own, p, own1)
    <3>1. ASSUME NEW own \in Owners
          PROVE  [own EXCEPT ![p] = @ + 1] \in Owners /\ OneMore(own, p, [own EXCEPT ![p] = @ + 1])
      BY <2>1 DEF Owners, OneMore, Tree
    <3>. QED
      BY <3>1
  <2>7. L \cup L = L
    OBVIOUS
  <2>8. Follows(L, Now, c2)
    BY <2>3, <2>5, <2>7, FollowsTwice
  <2>. QED
    BY <2>3, <2>5, <2>6, <2>8
<1>. QED
  BY <1>1, <1>2, <1>3 DEF Tree, Objects

\* An interface is opened, its handle renewed, and closed.
LEMMA VisitedCounts ==
  ASSUME NEW L, Tree(L), Now \in Pairs, ClosedOutside(L, Now), NEW i \in L \cap Interfaces,
         NEW c2, c2 = Visited(i)
  PROVE  /\ Follows(L, Now, c2)
         /\ \A own \in Owners : Good(L, Now, own) => Good(L, c2, own)
<1>. DEFINE c1 == OpenInterface(Now, i)
            c3 == [c1 EXCEPT !.h[i] = "live"]
<1>1. {i, parent[i]} \subseteq L /\ i \in Objects
  BY DEF Tree
<1>2. c2 = CloseInterface(c3, i)
  BY DEF Visited
<1>3. /\ Follows(L, Now, c1)
      /\ \A own \in Owners, own2 \in Owners :
            OneMore(own, i, own2) /\ Good(L, Now, own) => Good(L, c1, own2)
  BY <1>1, OpenInterfaceCounts, FollowsMore
<1>4. c1.n[i] > 0
  <2>1. \E c \in Pairs : c1 = Enter(c, i)
    <3>1. Tree(L) /\ parent[i] \in L \cap Systems
      BY DEF Tree
    <3>2. OpenSystem(Now, parent[i]) \in Pairs
      BY <3>1, OpenSystemCounts DEF Follows
    <3>. QED
      BY <3>2 DEF OpenInterface
  <2>2. PICK c \in Pairs : c1 = Enter(c, i)
    BY <2>1
  <2>3. c1.n = [c.n EXCEPT ![i] = @ + 1] /\ c.n \in [Objects -> Nat]
    BY <2>2 DEF Enter, Pairs
  <2>. QED
    BY <1>1, <2>3
<1>. HIDE DEF c1
<1>5. /\ c1 \in Pairs /\ c3 \in Pairs /\ c3.n = c1.n /\ c3.h[i] = "live"
      /\ \A x \in Objects \ {i} : c3.h[x] = c1.h[x]
  BY <1>1, <1>3 DEF Follows, Pairs
<1>. HIDE DEF c3
<1>6. Follows(L, Now, c3)
  BY <1>1, <1>3, <1>4, <1>5 DEF Follows, ClosedIsNull
<1>7. \A own \in Owners : Good(L, c1, own) => Good(L, c3, own)
  BY <1>1, <1>4, <1>5 DEF Good, ClosedIsNull, OpenIsValid
<1>8. ClosedOutside(L, c3)
  BY <1>6, StaysClosedOutside
<1>9. /\ Follows(L, c3, c2)
      /\ \A own \in Owners, own2 \in Owners :
            OneMore(own2, i, own) /\ Good(L, c3, own) => Good(L, c2, own2)
  BY <1>1, <1>2, <1>5, <1>8, CloseInterfaceCounts, FollowsMore
<1>10. \A own \in Owners : \E own1 \in Owners : OneMore(own, i, own1)
  <2>1. ASSUME NEW own \in Owners
        PROVE  [own EXCEPT ![i] = @ + 1] \in Owners /\ OneMore(own, i, [own EXCEPT ![i] = @ + 1])
    BY <1>1 DEF Owners, OneMore
  <2>. QED
    BY <2>1
<1>11. L \cup L = L
  OBVIOUS
<1>12. Follows(L, Now, c2)
  BY <1>6, <1>9, <1>11, FollowsTwice
<1>. QED
  BY <1>3, <1>7, <1>9, <1>10, <1>12

\* The last pointer to o is gone: its parent is closed if o was open.
LEMMA DestroyedCounts ==
  ASSUME Tree(live), Now \in Pairs, \A x \in Objects \ live : nOpen[x] = 0,
         NEW o \in live, Children(o) = {},
         NEW c2, c2 = Destroyed(o)
  PROVE  /\ Tree(live \ {o}) /\ Follows(live, Now, c2) /\ c2.n[o] = 0
         /\ \A own \in Owners : Good(live, Now, own) => Good(live \ {o}, c2, own)
<1>. DEFINE L == live \ {o}
            p == parent[o]
            c == [n |-> [nOpen EXCEPT ![o] = 0], h |-> Freed(handle, o)]
<1>1. Tree(L) /\ o \in Objects /\ L \subseteq Objects /\ live \subseteq Objects
  BY DEF Tree, Children
<1>2. Below(o) = {}
  BY ObjectsAssumption DEF Below, Children, Tree, Objects
<1>3. nOpen \in [Objects -> Nat] /\ handle \in [Objects -> {"null", "live", "stale"}]
  BY DEF Now, Pairs
<1>4. c \in Pairs /\ c.n[o] = 0 /\ c.h[o] = "null"
  BY <1>1, <1>3 DEF Pairs, Freed
<1>5. \A x \in Objects \ {o} : c.n[x] = nOpen[x] /\ c.h[x] = handle[x]
  BY <1>1, <1>2, <1>3 DEF Freed
<1>6. /\ ~(nOpen[o] > 0) \/ o \in Systems => c2 = c
      /\ nOpen[o] > 0 /\ o \in Interfaces => c2 = CloseSystem(c, p)
      /\ nOpen[o] > 0 /\ o \in Devices => c2 = CloseInterface(c, p)
  BY <1>1, <1>3, ObjectsAssumption DEF Destroyed
<1>7. o \in Interfaces => p \in L \cap Systems /\ {p} \subseteq L
  BY ObjectsAssumption DEF Tree
<1>8. o \in Devices => p \in L \cap Interfaces /\ {p, parent[p]} \subseteq L
  BY ObjectsAssumption DEF Tree
<1>9. o \in Systems => p = None
  BY DEF Tree
<1>10. o \in Systems \/ o \in Interfaces \/ o \in Devices
  BY <1>1 DEF Objects
<1>. HIDE DEF L, p, c
<1>11. ClosedOutside(L, c) /\ L \subseteq live
  BY <1>1, <1>4 DEF ClosedOutside, L
<1>12. Follows(live, Now, c)
  BY <1>1, <1>4, <1>5 DEF Follows, ClosedIsNull, Now
<1>13. ASSUME NEW own \in Owners, Good(live, Now, own)
       PROVE  /\ ClosedIsNull(c) /\ OpenIsValid(c)
              /\ ~(nOpen[o] > 0) \/ p = None => Good(L, c, own)
              /\ \A own1 \in Owners :
                    nOpen[o] > 0 /\ p \in L /\ OneMore(own, p, own1) => Good(L, c, own1)
  <2>1. ClosedIsNull(c) /\ OpenIsValid(c)
    BY <1>1, <1>3, <1>4, <1>5, <1>13 DEF Good, ClosedIsNull, OpenIsValid, Now
  <2>2. \A x \in L : x \in live /\ x \in Objects /\ x # o /\ x # None
    BY <1>1, ObjectsAssumption DEF L, Objects
  <2>3. \A x \in live : nOpen[x] = own[x] + Cardinality(OpenBelow(live, nOpen, x))
    BY <1>13 DEF Good, Adds, Now
  <2>4. \A x \in L : ~(nOpen[o] > 0) \/ x # p => OpenBelow(L, c.n, x) = OpenBelow(live, nOpen, x)
    BY <1>4, <1>5, <2>2 DEF OpenBelow, L, p
  <2>5. ~(nOpen[o] > 0) \/ p = None => Adds(L, c.n, own)
    BY <1>5, <2>2, <2>3, <2>4 DEF Adds
  <2>6. ASSUME NEW own1 \in Owners, nOpen[o] > 0, p \in L, OneMore(own, p, own1)
        PROVE  Adds(L, c.n, own1)
    <3>1. OpenBelow(live, nOpen, p) = OpenBelow(L, c.n, p) \cup {o} /\ o \notin OpenBelow(L, c.n, p)
      BY <1>4, <1>5, <2>2, <2>6 DEF OpenBelow, L, p
    <3>2. IsFiniteSet(OpenBelow(L, c.n, p))
      BY <1>1, BelowFinite
    <3>3. Cardinality(OpenBelow(live, nOpen, p)) = Cardinality(OpenBelow(L, c.n, p)) + 1
      BY <3>1, <3>2, FS_AddElement
    <3>4. \A x \in L : Cardinality(OpenBelow(L, c.n, x)) \in Nat
      BY <1>1, BelowFinite
    <3>5. ASSUME NEW x \in L
          PROVE  c.n[x] = own1[x] + Cardinality(OpenBelow(L, c.n, x))
      <4>1. CASE x = p
        BY <1>5, <2>2, <2>3, <2>6, <3>3, <3>4, <4>1 DEF OneMore, Owners
      <4>2. CASE x # p
        BY <1>5, <2>2, <2>3, <2>4, <2>6, <4>2 DEF OneMore
      <4>. QED
        BY <4>1, <4>2
    <3>. QED
      BY <3>5 DEF Adds
  <2>. QED
    BY <2>1, <2>5, <2>6 DEF Good
<1>14. \A x \in L : \A own \in Owners : \E own1 \in Owners : OneMore(own, x, own1)
  <2>1. ASSUME NEW x \in L, NEW own \in Owners
        PROVE  [own EXCEPT ![x] = @ + 1] \in Owners /\ OneMore(own, x, [own EXCEPT ![x] = @ + 1])
    BY <1>1 DEF Owners, OneMore
  <2>. QED
    BY <2>1
<1>15. Follows(live, Now, c2) /\ c2.n[o] = 0 /\ \A own \in Owners : Good(live, Now, own) => Good(L, c2, own)
  <2>1. CASE ~(nOpen[o] > 0) \/ o \in Systems
    BY <1>4, <1>6, <1>9, <1>12, <1>13, <2>1
  <2>2. CASE nOpen[o] > 0 /\ o \in Interfaces
    <3>1. /\ Follows({p}, c, c2)
          /\ \A own \in Owners, own2 \in Owners :
                OneMore(own2, p, own) /\ Good(L, c, own) => Good(L, c2, own2)
      BY <1>1, <1>4, <1>6, <1>7, <1>11, <2>2, CloseSystemCounts
    <3>2. Follows(L, c, c2)
      BY <1>4, <1>7, <2>2, <3>1, FollowsMore
    <3>3. Follows(live, Now, c2) /\ c2.n[o] = 0
      BY <1>1, <1>4, <1>11, <1>12, <3>2 DEF Follows, L
    <3>. QED
      BY <1>7, <1>13, <1>14, <2>2, <3>1, <3>3
  <2>3. CASE nOpen[o] > 0 /\ o \in Devices
    <3>1. /\ Follows({p, parent[p]}, c, c2)
          /\ \A own \in Owners, own2 \in Owners :
                OneMore(own2, p, own) /\ Good(L, c, own) => Good(L, c2, own2)
      BY <1>1, <1>4, <1>6, <1>8, <1>11, <2>3, CloseInterfaceCounts
    <3>2. Follows(L, c, c2)
      BY <1>4, <1>8, <2>3, <3>1, FollowsMore
    <3>3. Follows(live, Now, c2) /\ c2.n[o] = 0
      BY <1>1, <1>4, <1>11, <1>12, <3>2 DEF Follows, L
    <3>. QED
      BY <1>8, <1>13, <1>14, <2>3, <3>1, <3>3
  <2>. QED
    BY <1>10, <2>1, <2>2, <2>3
<1>. QED
  BY <1>1, <1>15 DEF L

-----------------------------------------------------------------------------
(* The inductive invariant. *)

\* Who holds whom: a pointer that is held is one to a live object, and the
\* interfaces in the list of a system have that system as parent.
Pointers ==
  /\ Tree(live) /\ parent \in [Objects -> Objects \cup {None}]
  /\ \A s \in Systems : parent[s] = None
  /\ app \subseteq live /\ systemList \subseteq live \cap Systems
  /\ ilist \in [Systems -> SUBSET Interfaces]
  /\ \A s \in Systems : \A i \in ilist[s] : i \in live /\ parent[i] = s
  /\ dlist \in [Interfaces -> SUBSET Devices]
  /\ \A i \in Interfaces : dlist[i] \subseteq live

\* What is not live is not open.
Counts ==
  /\ nOpen \in [Objects -> Nat] /\ handle \in [Objects -> {"null", "live", "stale"}]
  /\ opens \in [Objects -> Nat] /\ leaked \in [Objects -> Nat]
  /\ \A o \in Objects \ live : nOpen[o] = 0 /\ opens[o] = 0 /\ leaked[o] = 0
  /\ unopened \subseteq live

\* The loops go through interfaces of a list that stays as it is.
Loops ==
  /\ task \in [op : {"none", "clear", "open", "enumerate", "collect"},
               todo : SUBSET Interfaces, all : Systems \cup {None}, got : SUBSET Devices]
  /\ task.all # None => task.all \in systemList
  /\ task.op \in {"none", "clear"} => task.all = None
  /\ task.op \in {"enumerate", "collect"} => task.all # None
  /\ task.op = "clear" => \A i \in task.todo : \E s \in systemList : i \in ilist[s]
  /\ task.op = "open" => \A i \in task.todo : \E s \in Systems : i \in ilist[s]
  /\ task.op = "open" => task.todo \cap unopened = {}
  /\ task.op = "collect" => task.todo \subseteq ilist[task.all]
  /\ task.got \subseteq live

Owned ==
  [o \in Objects |-> opens[o] + OpenedByList(o) + OpenedByTask(o) + leaked[o]]

Accounts ==
  /\ ClosedIsNull(Now)
  /\ taken = {} => Good(live, Now, Owned)

Inv == Pointers /\ Counts /\ Loops /\ Accounts

LEMMA OwnedIsOwners ==
  ASSUME opens \in [Objects -> Nat], leaked \in [Objects -> Nat]
  PROVE  Owned \in Owners
  BY DEF Owned, Owners, OpenedByList, OpenedByTask

LEMMA OwnedIsOwnersNext ==
  ASSUME opens' \in [Objects -> Nat], leaked' \in [Objects -> Nat]
  PROVE  Owned' \in Owners
  BY DEF Owned, Owners, OpenedByList, OpenedByTask

LEMMA InvImpliesOpensAccounted == Inv => OpensAccounted
<1>. SUFFICES ASSUME Inv, taken = {}, NEW o \in live
     PROVE  nOpen[o] = opens[o] + OpenedByList(o) + OpenedByTask(o) + leaked[o]
                       + Cardinality({x \in Children(o) : nOpen[x] > 0})
  BY DEF OpensAccounted
<1>1. OpenBelow(live, nOpen, o) = {x \in Children(o) : nOpen[x] > 0}
  BY DEF OpenBelow, Children
<1>2. o \in Objects /\ Adds(live, nOpen, Owned)
  BY DEF Inv, Accounts, Good, Now, Pointers, Tree
<1>. QED
  BY <1>1, <1>2 DEF Adds, Owned

LEMMA InvImpliesHandleFollowsCounter == Inv => HandleFollowsCounter
<1>. SUFFICES ASSUME Inv, NEW o \in Objects
     PROVE  IF o \notin live \/ nOpen[o] = 0
            THEN handle[o] = "null"
            ELSE \/ handle[o] = "live"
                 \/ "lost" \in seen /\ o \notin Systems /\ handle[o] = "stale"
                 \/ taken # {}
  BY DEF HandleFollowsCounter
<1>1. nOpen[o] \in Nat /\ (o \notin live => nOpen[o] = 0)
  BY DEF Inv, Counts
<1>2. nOpen[o] = 0 => handle[o] = "null"
  BY DEF Inv, Accounts, ClosedIsNull, Now
<1>3. taken = {} /\ nOpen[o] > 0 =>
        handle[o] = "live" \/ ("lost" \in seen /\ o \notin Systems /\ handle[o] = "stale")
  BY DEF Inv, Accounts, Good, OpenIsValid, Now
<1>. QED
  BY <1>1, <1>2, <1>3

-----------------------------------------------------------------------------
(* Effects that several actions share. *)

LEMMA NowIs ==
  ASSUME NEW c \in Pairs, Becomes(c)
  PROVE  Now' = c /\ nOpen' = c.n /\ handle' = c.h
  BY DEF Becomes, Now, Pairs

LEMMA NowInPairs ==
  ASSUME Counts
  PROVE  Now \in Pairs
  BY DEF Counts, Now, Pairs

\* The accounts after a step that may add objects, all of them closed, and
\* keeps the others in their places; c are the counters and handles after it.
LEMMA AccountsStep ==
  ASSUME Pointers, Pointers', NEW c \in Pairs, Becomes(c),
         ClosedIsNull(c), \A x \in Objects \ live : c.n[x] = 0,
         NEW own, taken' = {} => Good(live, c, own),
         live \subseteq live', \A x \in live : parent'[x] = parent[x],
         \A x \in live : Owned'[x] = own[x],
         \A x \in live' \ live : Owned'[x] = 0,
         seen \subseteq seen' /\ taken \subseteq taken'
  PROVE  Accounts'
<1>1. Now' = c /\ nOpen' = c.n /\ handle' = c.h
  BY NowIs
<1>2. ClosedIsNull(Now)'
  BY <1>1 DEF ClosedIsNull
<1>3. ASSUME taken' = {}
      PROVE  Good(live, Now, Owned)'
  <2>1. Good(live, c, own)
    BY <1>3
  <2>2. OpenIsValid(Now)'
    BY <1>1, <2>1 DEF Good, OpenIsValid
  <2>3. \A x \in live : c.n[x] = own[x] + Cardinality(OpenBelow(live, c.n, x))
    BY <2>1 DEF Good, Adds
  <2>4. /\ live' \subseteq Objects /\ live \subseteq Objects
        /\ \A x \in live : x # None /\ (parent[x] # None => parent[x] \in live)
    BY ObjectsAssumption DEF Pointers, Tree, Objects
  <2>5. \A x \in live' : x # None
    BY <2>4, ObjectsAssumption DEF Objects
  <2>6. \A x \in live : OpenBelow(live, nOpen, x)' = OpenBelow(live, c.n, x)
    BY <1>1, <2>4 DEF OpenBelow
  <2>7. \A x \in live' \ live : OpenBelow(live, nOpen, x)' = {}
    BY <1>1, <2>4, <2>5 DEF OpenBelow
  <2>8. Cardinality({}) = 0
    BY FS_EmptySet
  <2>9. ASSUME NEW x \in live'
        PROVE  nOpen'[x] = Owned'[x] + Cardinality(OpenBelow(live, nOpen, x)')
    <3>1. CASE x \in live
      BY <1>1, <2>3, <2>6, <3>1
    <3>2. CASE x \notin live
      BY <1>1, <2>4, <2>7, <2>8, <3>2
    <3>. QED
      BY <3>1, <3>2
  <2>10. Adds(live, Now.n, Owned)'
    BY <1>1, <2>9 DEF Adds, Now, OpenBelow
  <2>. QED
    BY <1>2, <2>2, <2>10 DEF Good
<1>. QED
  BY <1>2, <1>3 DEF Accounts

LEMMA PastIs ==
  ASSUME UNCHANGED past
  PROVE  seen' = seen /\ leaked' = leaked /\ unopened' = unopened /\ taken' = taken
  BY DEF past, leftovers

\* A step that changes counters, handles and the application's opens only.
LEMMA LoopCallStep ==
  ASSUME Inv, NEW c, Follows(live, Now, c), Becomes(c),
         UNCHANGED <<lists, objects, app>>, seen \subseteq seen' /\ taken \subseteq taken',
         opens' \in [Objects -> Nat], \A x \in Objects \ live : opens'[x] = 0,
         leaked' \in [Objects -> Nat], \A x \in Objects \ live : leaked'[x] = 0,
         unopened' \subseteq live,
         taken' = {} => Good(live, c, Owned')
  PROVE  Pointers' /\ Counts' /\ Accounts'
<1>1. /\ live' = live /\ parent' = parent /\ systemList' = systemList
      /\ ilist' = ilist /\ dlist' = dlist /\ app' = app
  BY DEF lists, objects
<1>2. Pointers'
  BY <1>1 DEF Inv, Pointers, Tree
<1>3. c \in Pairs /\ ClosedIsNull(c) /\ \A x \in Objects \ live : c.n[x] = 0
  BY DEF Inv, Accounts, Follows, Counts, Now
<1>4. nOpen' = c.n /\ handle' = c.h
  BY <1>3, NowIs
<1>5. Counts'
  BY <1>1, <1>3, <1>4 DEF Counts, Pairs
<1>6. Accounts'
  BY <1>1, <1>2, <1>3, AccountsStep DEF Inv
<1>. QED
  BY <1>2, <1>5, <1>6

\* The same when no loop leaves anything behind.
LEMMA CallStep ==
  ASSUME Inv, NEW c, Follows(live, Now, c), Becomes(c),
         UNCHANGED <<lists, objects, app, past>>,
         opens' \in [Objects -> Nat], \A x \in Objects \ live : opens'[x] = 0,
         taken' = {} => Good(live, c, Owned')
  PROVE  Pointers' /\ Counts' /\ Accounts'
<1>1. leaked' = leaked /\ unopened' = unopened /\ seen' = seen /\ taken' = taken
  BY PastIs
<1>2. /\ leaked \in [Objects -> Nat] /\ \A x \in Objects \ live : leaked[x] = 0
      /\ unopened \subseteq live
  BY DEF Inv, Counts
<1>. QED
  BY <1>1, <1>2, LoopCallStep

\* A step that adds objects nobody has opened.
LEMMA GrowStep ==
  ASSUME Inv, NEW c, Follows(live, Now, c), Becomes(c), Pointers',
         live \subseteq live', \A x \in live : parent'[x] = parent[x],
         opens' = opens, leaked' = leaked, unopened' = unopened, seen \subseteq seen' /\ taken \subseteq taken',
         \A x \in live : Owned'[x] = Owned[x], \A x \in live' \ live : Owned'[x] = 0,
         taken' = {} => Good(live, c, Owned)
  PROVE  Counts' /\ Accounts'
<1>1. c \in Pairs /\ ClosedIsNull(c) /\ \A x \in Objects \ live : c.n[x] = 0
  BY DEF Inv, Accounts, Follows, Counts, Now
<1>2. nOpen' = c.n /\ handle' = c.h
  BY <1>1, NowIs
<1>3. Counts'
  BY <1>1, <1>2 DEF Inv, Counts, Pairs
<1>4. Accounts'
  BY <1>1, AccountsStep DEF Inv
<1>. QED
  BY <1>3, <1>4

\* A step that opens and closes nothing and adds no object.
LEMMA QuietStep ==
  ASSUME Inv, UNCHANGED <<objects, counters, opens, leaked, unopened>>, Pointers', seen \subseteq seen' /\ taken \subseteq taken',
         \A x \in live : Owned'[x] = Owned[x]
  PROVE  Counts' /\ Accounts'
<1>1. live' = live /\ parent' = parent /\ nOpen' = nOpen /\ handle' = handle
  BY DEF objects, counters
<1>2. Now \in Pairs /\ Becomes(Now) /\ Follows(live, Now, Now)
  BY <1>1, NowInPairs DEF Inv, Becomes, Now, Follows
<1>3. taken' = {} => Good(live, Now, Owned)
  BY DEF Inv, Accounts
<1>. QED
  BY <1>1, <1>2, <1>3, GrowStep

LEMMA LoopsSame ==
  ASSUME Inv, task' = task, ilist' = ilist, systemList' = systemList, unopened' = unopened,
         live \subseteq live'
  PROVE  Loops'
  BY DEF Inv, Loops

\* What the lists count while the loops and the lists stay as they are.
LEMMA OwnedSame ==
  ASSUME task' = task, ilist' = ilist, systemList' = systemList, unopened' = unopened,
         NEW o \in Objects
  PROVE  /\ OpenedByList(o)' = OpenedByList(o)
         /\ OpenedByTask(o)' = OpenedByTask(o)
  BY DEF OpenedByList, OpenedByTask

-----------------------------------------------------------------------------
(* The actions. *)

LEMMA OpenStep ==
  ASSUME Inv, NEW o \in Objects, Open(o)
  PROVE  Inv'
<1>1. /\ o \in live /\ Tree(live) /\ Now \in Pairs /\ ClosedOutside(live, Now)
      /\ Owned \in Owners /\ opens \in [Objects -> Nat]
  BY NowInPairs, OwnedIsOwners DEF Inv, Pointers, Counts, Open, ClosedOutside
<1>2. UNCHANGED <<lists, objects, app>> /\ UNCHANGED past /\ task' = task
  BY DEF Open
<1>3. /\ ilist' = ilist /\ systemList' = systemList /\ live' = live
      /\ leaked' = leaked /\ unopened' = unopened /\ taken' = taken /\ leaked \in [Objects -> Nat]
  BY <1>2, PastIs DEF lists, objects, Inv, Counts
<1>4. Loops'
  BY <1>2, <1>3, LoopsSame
<1>5. CASE Becomes(Opened(o)) /\ opens' = [opens EXCEPT ![o] = @ + 1]
  <2>1. opens' \in [Objects -> Nat] /\ \A x \in Objects \ live : opens'[x] = 0
    BY <1>1, <1>5 DEF Inv, Counts
  <2>2. Owned' \in Owners
    BY <1>3, <2>1, OwnedIsOwnersNext
  <2>3. OneMore(Owned, o, Owned')
    <3>1. ASSUME NEW x \in Objects
          PROVE  Owned'[x] = IF x = o THEN Owned[x] + 1 ELSE Owned[x]
      <4>1. OpenedByList(x)' = OpenedByList(x) /\ OpenedByTask(x)' = OpenedByTask(x)
        BY <1>2, <1>3, OwnedSame
      <4>2. OpenedByList(x) \in Nat /\ OpenedByTask(x) \in Nat
        BY DEF OpenedByList, OpenedByTask
      <4>. QED
        BY <1>1, <1>3, <1>5, <4>1, <4>2 DEF Owned
    <3>. QED
      BY <3>1 DEF OneMore
  <2>4. /\ Follows(live, Now, Opened(o))
        /\ \A own \in Owners, own2 \in Owners :
              OneMore(own, o, own2) /\ Good(live, Now, own) => Good(live, Opened(o), own2)
    BY <1>1, OpenedCounts
  <2>5. taken' = {} => Good(live, Opened(o), Owned')
    BY <1>1, <1>3, <2>2, <2>3, <2>4 DEF Inv, Accounts
  <2>6. Pointers' /\ Counts' /\ Accounts'
    BY <1>2, <1>5, <2>1, <2>4, <2>5, CallStep
  <2>. QED
    BY <1>4, <2>6 DEF Inv
<1>6. CASE Becomes(OpenFails(o)) /\ opens' = opens
  <2>1. /\ Follows(live, Now, OpenFails(o))
        /\ \A own \in Owners : Good(live, Now, own) => Good(live, OpenFails(o), own)
    BY <1>1, OpenFailsCounts
  <2>2. Owned' = Owned
    BY <1>2, <1>3, <1>6 DEF Owned, OpenedByList, OpenedByTask
  <2>3. taken' = {} => Good(live, OpenFails(o), Owned')
    BY <1>1, <1>3, <2>1, <2>2 DEF Inv, Accounts
  <2>4. Pointers' /\ Counts' /\ Accounts'
    BY <1>2, <1>6, <2>1, <2>3, CallStep DEF Inv, Counts
  <2>. QED
    BY <1>4, <2>4 DEF Inv
<1>. QED
  BY <1>5, <1>6 DEF Open

LEMMA CloseStep ==
  ASSUME Inv, NEW o \in Objects, Close(o)
  PROVE  Inv'
<1>1. /\ o \in live /\ Tree(live) /\ Now \in Pairs /\ ClosedOutside(live, Now)
      /\ Owned \in Owners /\ opens \in [Objects -> Nat] /\ opens[o] > 0
  BY NowInPairs, OwnedIsOwners DEF Inv, Pointers, Counts, Close, ClosedOutside
<1>2. /\ UNCHANGED <<lists, objects, app>> /\ UNCHANGED past /\ task' = task
      /\ Becomes(Closed(o)) /\ opens' = [opens EXCEPT ![o] = @ - 1]
  BY DEF Close
<1>3. /\ ilist' = ilist /\ systemList' = systemList /\ live' = live
      /\ leaked' = leaked /\ unopened' = unopened /\ taken' = taken /\ leaked \in [Objects -> Nat]
  BY <1>2, PastIs DEF lists, objects, Inv, Counts
<1>4. Loops'
  BY <1>2, <1>3, LoopsSame
<1>5. opens' \in [Objects -> Nat] /\ \A x \in Objects \ live : opens'[x] = 0
  BY <1>1, <1>2 DEF Inv, Counts
<1>6. Owned' \in Owners
  BY <1>3, <1>5, OwnedIsOwnersNext
<1>7. OneMore(Owned', o, Owned)
  <2>1. ASSUME NEW x \in Objects
        PROVE  Owned[x] = IF x = o THEN Owned'[x] + 1 ELSE Owned'[x]
    <3>1. OpenedByList(x)' = OpenedByList(x) /\ OpenedByTask(x)' = OpenedByTask(x)
      BY <1>2, <1>3, OwnedSame
    <3>2. OpenedByList(x) \in Nat /\ OpenedByTask(x) \in Nat
      BY DEF OpenedByList, OpenedByTask
    <3>. QED
      <4>. DEFINE a == OpenedByList(x)
                  b == OpenedByTask(x)
      <4>1. /\ Owned[x] = opens[x] + a + b + leaked[x]
            /\ Owned'[x] = opens'[x] + a + b + leaked[x]
        BY <1>3, <3>1 DEF Owned
      <4>. HIDE DEF a, b
      <4>2. a \in Nat /\ b \in Nat
        BY <3>2 DEF a, b
      <4>3. opens[x] \in Nat /\ leaked[x] \in Nat /\ opens'[x] = IF x = o THEN opens[x] - 1 ELSE opens[x]
        BY <1>1, <1>2, <1>3
      <4>. QED
        BY <1>1, <4>1, <4>2, <4>3
  <2>. QED
    BY <2>1 DEF OneMore
<1>8. /\ Follows(live, Now, Closed(o))
      /\ \A own \in Owners, own2 \in Owners :
            OneMore(own2, o, own) /\ Good(live, Now, own) => Good(live, Closed(o), own2)
  BY <1>1, ClosedCounts
<1>9. taken' = {} => Good(live, Closed(o), Owned')
  BY <1>1, <1>3, <1>6, <1>7, <1>8 DEF Inv, Accounts
<1>10. Pointers' /\ Counts' /\ Accounts'
  BY <1>2, <1>5, <1>8, <1>9, CallStep
<1>. QED
  BY <1>4, <1>10 DEF Inv

\* Calls that only hand out pointers.
LEMMA PointersOnly ==
  ASSUME Inv, UNCHANGED <<lists, objects, counters, opens, task, past>>, app' \subseteq live
  PROVE  Inv'
<1>1. /\ live' = live /\ parent' = parent /\ systemList' = systemList
      /\ ilist' = ilist /\ dlist' = dlist /\ leaked' = leaked /\ unopened' = unopened
      /\ seen' = seen /\ taken' = taken
  BY PastIs DEF lists, objects
<1>2. Pointers'
  BY <1>1 DEF Inv, Pointers, Tree
<1>3. Loops'
  BY <1>1, LoopsSame
<1>4. \A x \in live : Owned'[x] = Owned[x]
  BY <1>1 DEF Owned, OpenedByList, OpenedByTask
<1>. QED
  BY <1>1, <1>2, <1>3, <1>4, QuietStep DEF Inv

LEMMA GetSystemsStep ==
  ASSUME Inv, GetSystems
  PROVE  Inv'
<1>1. task = Idle /\ opens \in [Objects -> Nat]
  BY DEF GetSystems, Ready, Inv, Counts
<1>2. CASE SystemsReused
  <2>1. app' \subseteq live
    BY <1>2 DEF SystemsReused, Inv, Pointers
  <2>. QED
    BY <1>2, <2>1, PointersOnly DEF SystemsReused
<1>3. CASE SystemConstructed
  <2>1. PICK s \in Systems \ live :
           /\ systemList' = {s} /\ live' = live \cup {s} /\ app' = app \cup {s}
    BY <1>3 DEF SystemConstructed
  <2>2. /\ UNCHANGED <<ilist, dlist, parent, opens, task, seen, leaked, unopened, taken, nOpen, handle>>
        /\ systemList = {}
    BY <1>3, PastIs DEF SystemConstructed, counters
  <2>3. s \in Objects /\ s # None /\ s \notin Interfaces
    BY ObjectsAssumption DEF Objects
  <2>4. Tree(live)'
    BY <2>1, <2>2, <2>3, ObjectsAssumption DEF Inv, Pointers, Tree
  <2>5. Pointers'
    BY <2>1, <2>2, <2>4 DEF Inv, Pointers
  <2>6. Loops'
    BY <1>1, <2>1, <2>2 DEF Inv, Loops, Idle
  <2>7. /\ \A x \in live : Owned'[x] = Owned[x]
        /\ Owned'[s] = 0
    <3>1. task' = Idle /\ task = Idle
      BY <1>1, <2>2
    <3>2. \A x \in Objects : OpenedByList(x)' = OpenedByList(x) /\ OpenedByTask(x)' = OpenedByTask(x)
      BY <2>2, <3>1 DEF OpenedByList, OpenedByTask, Idle
    <3>3. OpenedByList(s) = 0 /\ OpenedByTask(s) = 0 /\ opens[s] = 0 /\ leaked[s] = 0
      BY <2>1, <2>3, <3>1 DEF OpenedByList, OpenedByTask, Idle, Inv, Pointers, Counts
    <3>. QED
      BY <2>2, <2>3, <3>2, <3>3 DEF Owned, Inv, Pointers, Tree
  <2>8. Now \in Pairs /\ Becomes(Now) /\ Follows(live, Now, Now)
    BY <2>2, NowInPairs DEF Inv, Becomes, Now, Follows
  <2>9. taken' = {} => Good(live, Now, Owned)
    BY <2>2 DEF Inv, Accounts
  <2>10. Counts' /\ Accounts'
    BY <2>1, <2>2, <2>5, <2>7, <2>8, <2>9, GrowStep
  <2>. QED
    BY <2>5, <2>6, <2>10 DEF Inv
<1>4. CASE NoSystems
  <2>1. /\ UNCHANGED <<ilist, dlist, objects, counters, app, opens, task, leaked, unopened, taken>>
        /\ systemList' = {} /\ seen \subseteq seen' /\ taken \subseteq taken'
    BY <1>4 DEF NoSystems, Mishap, leftovers
  <2>2. live' = live /\ parent' = parent
    BY <2>1 DEF objects
  <2>3. Pointers'
    BY <2>1, <2>2 DEF Inv, Pointers, Tree
  <2>4. Loops'
    BY <1>1, <2>1, <2>2 DEF Inv, Loops, Idle
  <2>5. \A x \in live : Owned'[x] = Owned[x]
    BY <1>1, <2>1 DEF Owned, OpenedByList, OpenedByTask, Idle
  <2>6. Counts' /\ Accounts'
    BY <2>1, <2>3, <2>5, QuietStep
  <2>. QED
    BY <2>3, <2>4, <2>6 DEF Inv
<1>. QED
  BY <1>2, <1>3, <1>4 DEF GetSystems

\* A change of the loop in which nothing is opened or closed.
LEMMA LoopOnly ==
  ASSUME Inv, UNCHANGED <<lists, objects, counters, opens, past>>, app' \subseteq live, Loops',
         \A x \in live : Owned'[x] = Owned[x]
  PROVE  Inv'
<1>1. /\ live' = live /\ parent' = parent /\ systemList' = systemList
      /\ ilist' = ilist /\ dlist' = dlist /\ leaked' = leaked /\ unopened' = unopened
      /\ seen' = seen /\ taken' = taken
  BY PastIs DEF lists, objects
<1>2. Pointers'
  BY <1>1 DEF Inv, Pointers, Tree
<1>. QED
  BY <1>1, <1>2, QuietStep DEF Inv

LEMMA ClearSystemsStep ==
  ASSUME Inv, ClearSystems
  PROVE  Inv'
<1>1. /\ UNCHANGED <<lists, objects, counters, opens, past>> /\ app' = app
      /\ task = Idle
      /\ task' = [Idle EXCEPT !.op = "clear", !.todo = UNION {ilist[s] : s \in systemList}]
  BY DEF ClearSystems, Ready
<1>2. /\ systemList' = systemList /\ ilist' = ilist /\ live' = live
      /\ leaked' = leaked /\ unopened' = unopened
  BY <1>1, PastIs DEF lists, objects
<1>3. /\ task'.op = "clear" /\ task'.all = None /\ task'.got = {}
      /\ task'.todo = UNION {ilist[s] : s \in systemList}
      /\ task' = [op |-> task'.op, todo |-> task'.todo, all |-> task'.all, got |-> task'.got]
  BY <1>1 DEF Idle
<1>4. task'.todo \subseteq Interfaces
  BY <1>3 DEF Inv, Pointers
<1>5. Loops'
  BY <1>2, <1>3, <1>4 DEF Loops
<1>6. \A x \in live : Owned'[x] = Owned[x]
  <2>1. \A x \in Objects : OpenedByList(x)' = OpenedByList(x)
    BY <1>1, <1>2, <1>3 DEF OpenedByList, Idle
  <2>2. \A x \in Objects : OpenedByTask(x)' = OpenedByTask(x)
    BY <1>1, <1>3 DEF OpenedByTask, Idle
  <2>. QED
    BY <1>1, <1>2, <2>1, <2>2 DEF Owned, Inv, Pointers, Tree
<1>. QED
  BY <1>1, <1>5, <1>6, LoopOnly DEF Inv, Pointers

LEMMA ClearInterfaceStep ==
  ASSUME Inv, ClearInterface
  PROVE  Inv'
<1>1. PICK i \in task.todo :
         /\ Becomes(CloseInterface(Now, i))
         /\ taken' = IF i \in unopened /\ nOpen[i] > 0 THEN taken \cup {i} ELSE taken
         /\ task' = [task EXCEPT !.todo = @ \ {i}]
  BY DEF ClearInterface
<1>2. UNCHANGED <<lists, objects, app, opens, seen, leaked, unopened>> /\ task.op = "clear"
  BY DEF ClearInterface
<1>3. systemList' = systemList /\ ilist' = ilist /\ live' = live
  BY <1>2 DEF lists, objects
<1>4. PICK s \in systemList : i \in ilist[s]
  BY <1>2 DEF Inv, Loops
<1>5. i \in live \cap Interfaces /\ i \in Objects /\ parent[i] = s /\ s \in Systems
  BY <1>1, <1>4 DEF Inv, Pointers, Loops, Tree
<1>6. task'.op = "clear" /\ task'.all = task.all /\ task'.todo = task.todo \ {i} /\ task'.got = task.got
  BY <1>1, <1>2 DEF Inv, Loops
<1>7. Loops'
  BY <1>1, <1>3, <1>2 DEF Inv, Loops
<1>8. /\ Tree(live) /\ Now \in Pairs /\ ClosedOutside(live, Now) /\ nOpen[i] \in Nat
      /\ Owned \in Owners /\ opens \in [Objects -> Nat] /\ leaked \in [Objects -> Nat]
  BY <1>5, NowInPairs, OwnedIsOwners DEF Inv, Pointers, Counts, ClosedOutside
<1>9. Owned' \in Owners
  BY <1>2, <1>8, OwnedIsOwnersNext
<1>10. \A x \in Objects \ {i} : Owned'[x] = Owned[x]
  <2>1. \A x \in Objects \ {i} : OpenedByList(x)' = OpenedByList(x)
    BY <1>2, <1>3, <1>6 DEF OpenedByList
  <2>2. \A x \in Objects : OpenedByTask(x)' = OpenedByTask(x)
    BY <1>6 DEF OpenedByTask
  <2>. QED
    BY <1>2, <2>1, <2>2 DEF Owned
<1>11. /\ Follows({i, parent[i]}, Now, CloseInterface(Now, i))
       /\ \A own \in Owners, own2 \in Owners :
             OneMore(own2, i, own) /\ Good(live, Now, own) => Good(live, CloseInterface(Now, i), own2)
  BY <1>5, <1>8, CloseInterfaceCounts
<1>12. Follows(live, Now, CloseInterface(Now, i))
  <2>1. {i, parent[i]} \subseteq live
    BY <1>4, <1>5 DEF Inv, Pointers
  <2>. QED
    BY <1>8, <1>11, <2>1, FollowsMore
<1>13. taken' = {} => taken = {} /\ Good(live, Now, Owned)
  BY <1>1 DEF Inv, Accounts
<1>14. taken' = {} => Good(live, CloseInterface(Now, i), Owned')
  <2>1. OpenedByTask(i)' = OpenedByTask(i) /\ OpenedByTask(i) \in Nat
    BY <1>6 DEF OpenedByTask
  <2>2. \A z \in Systems : i \in ilist[z] => z = s
    BY <1>5 DEF Inv, Pointers
  <2>3. OpenedByList(i)' = 0
    BY <1>3, <1>4, <1>6, <2>2 DEF OpenedByList
  <2>4. CASE i \notin unopened
    <3>1. OpenedByList(i) = 1
      BY <1>1, <1>2, <1>4, <1>5, <2>4 DEF OpenedByList
    <3>2. Owned[i] = Owned'[i] + 1
      BY <1>2, <1>5, <1>8, <2>1, <2>3, <3>1 DEF Owned
    <3>3. OneMore(Owned', i, Owned)
      BY <1>10, <3>2 DEF OneMore
    <3>. QED
      BY <1>8, <1>9, <1>11, <1>13, <3>3
  <2>5. CASE i \in unopened /\ nOpen[i] = 0
    <3>1. CloseInterface(Now, i) = Now
      BY <2>5 DEF CloseInterface, Now
    <3>2. OpenedByList(i) = 0
      BY <1>5, <2>5 DEF OpenedByList
    <3>3. Owned'[i] = Owned[i]
      BY <1>2, <1>5, <2>1, <2>3, <3>2 DEF Owned
    <3>4. \A x \in live : Owned'[x] = Owned[x]
      BY <1>8, <1>10, <3>3 DEF Tree
    <3>. QED
      BY <1>13, <3>1, <3>4, GoodSame
  <2>6. CASE i \in unopened /\ nOpen[i] > 0
    BY <1>1, <2>6
  <2>. QED
    BY <1>8, <2>4, <2>5, <2>6
<1>15. /\ opens' \in [Objects -> Nat] /\ \A x \in Objects \ live : opens'[x] = 0
       /\ leaked' \in [Objects -> Nat] /\ \A x \in Objects \ live : leaked'[x] = 0
       /\ unopened' \subseteq live /\ seen \subseteq seen' /\ taken \subseteq taken'
  BY <1>1, <1>2 DEF Inv, Counts
<1>16. Pointers' /\ Counts' /\ Accounts'
  BY <1>1, <1>2, <1>12, <1>14, <1>15, LoopCallStep
<1>. QED
  BY <1>7, <1>16 DEF Inv

LEMMA ClearDoneStep ==
  ASSUME Inv, ClearDone
  PROVE  Inv'
<1>1. /\ UNCHANGED <<dlist, objects, counters, app, opens, past>>
      /\ task.op = "clear" /\ task.todo = {} /\ task' = Idle /\ systemList' = {}
      /\ ilist' = [s \in Systems |-> IF s \in systemList THEN {} ELSE ilist[s]]
  BY DEF ClearDone
<1>2. /\ live' = live /\ parent' = parent
      /\ leaked' = leaked /\ unopened' = unopened /\ seen' = seen /\ taken' = taken
  BY <1>1, PastIs DEF objects
<1>3. Pointers'
  BY <1>1, <1>2 DEF Inv, Pointers, Tree
<1>4. Loops'
  BY <1>1 DEF Loops, Idle
<1>5. \A x \in live : Owned'[x] = Owned[x]
  <2>1. \A x \in Objects : OpenedByList(x)' = OpenedByList(x)
    BY <1>1, <1>2 DEF OpenedByList, Idle
  <2>2. \A x \in Objects : OpenedByTask(x)' = OpenedByTask(x)
    BY <1>1 DEF OpenedByTask, Idle, Inv, Loops
  <2>. QED
    BY <1>1, <1>2, <2>1, <2>2 DEF Owned, Inv, Pointers, Tree
<1>6. Counts' /\ Accounts'
  BY <1>1, <1>2, <1>3, <1>5, QuietStep
<1>. QED
  BY <1>3, <1>4, <1>6 DEF Inv

\* An enumeration of interfaces, in getInterfaces() or in a discovery over all
\* systems: the new objects are still closed.
LEMMA ListedStep ==
  ASSUME Inv, NEW s \in live \cap Systems, NEW all, all = task.all,
         task.op \in {"none", "enumerate"},
         InterfacesListed(s, all), UNCHANGED counters
  PROVE  Inv'
<1>1. PICK new \in SUBSET (Interfaces \ live) :
        /\ live' = live \cup new
        /\ parent' = [o \in Objects |-> IF o \in new THEN s ELSE parent[o]]
        /\ ilist' = [ilist EXCEPT ![s] = new]
        /\ task' = [Idle EXCEPT !.op = "open", !.todo = new, !.all = all]
  BY DEF InterfacesListed
<1>2. /\ UNCHANGED <<systemList, dlist, library, ident, app, opens, nOpen, handle>>
      /\ seen \subseteq seen' /\ taken \subseteq taken' /\ ilist[s] = {}
      /\ leaked' = leaked /\ unopened' = unopened /\ taken' = taken
  BY DEF InterfacesListed, Mishap, counters, leftovers
<1>3. /\ new \subseteq Objects /\ s \in Objects /\ s \notin new /\ s # None
      /\ \A x \in new : x \notin Systems /\ x \notin Devices /\ x # None
  BY ObjectsAssumption DEF Objects
<1>4. /\ parent' \in [Objects -> Objects \cup {None}]
      /\ \A x \in Objects : parent'[x] = IF x \in new THEN s ELSE parent[x]
      /\ \A x \in live : x \in Objects /\ x \notin new
  BY <1>1, <1>3 DEF Inv, Pointers, Tree
<1>5. /\ ilist' \in [Systems -> SUBSET Interfaces]
      /\ \A z \in Systems : ilist'[z] = IF z = s THEN new ELSE ilist[z]
  BY <1>1 DEF Inv, Pointers
<1>6. Tree(live)'
  BY <1>1, <1>3, <1>4 DEF Inv, Pointers, Tree
<1>7. Pointers'
  <2>1. \A z \in Systems : parent'[z] = None
    BY <1>3, <1>4 DEF Inv, Pointers, Objects
  <2>2. app' \subseteq live' /\ systemList' \subseteq live' \cap Systems
    BY <1>1, <1>2 DEF Inv, Pointers
  <2>3. ASSUME NEW z \in Systems, NEW i \in ilist'[z]
        PROVE  i \in live' /\ parent'[i] = z
    <3>1. CASE z = s
      BY <1>1, <1>3, <1>4, <1>5, <2>3, <3>1
    <3>2. CASE z # s
      BY <1>1, <1>4, <1>5, <2>3, <3>2 DEF Inv, Pointers
    <3>. QED
      BY <3>1, <3>2
  <2>4. dlist' \in [Interfaces -> SUBSET Devices] /\ \A i \in Interfaces : dlist'[i] \subseteq live'
    BY <1>1, <1>2 DEF Inv, Pointers
  <2>. QED
    BY <1>4, <1>5, <1>6, <2>1, <2>2, <2>3, <2>4 DEF Pointers
<1>8. /\ task'.op = "open" /\ task'.todo = new /\ task'.all = task.all /\ task'.got = {}
      /\ task' = [op |-> "open", todo |-> new, all |-> task.all, got |-> {}]
  BY <1>1 DEF Idle
<1>9. Loops'
  BY <1>1, <1>2, <1>5, <1>8 DEF Inv, Loops, Counts
<1>10. \A x \in Objects : OpenedByTask(x)' = OpenedByTask(x)
  BY <1>8 DEF OpenedByTask
<1>11. ASSUME NEW x \in live
       PROVE  OpenedByList(x)' = OpenedByList(x)
  <2>1. \A z \in Systems : x \in ilist'[z] <=> x \in ilist[z]
    BY <1>2, <1>4, <1>5
  <2>. QED
    BY <1>2, <1>4, <1>8, <2>1 DEF OpenedByList
<1>12. ASSUME NEW x \in new
       PROVE  OpenedByList(x)' = 0 /\ OpenedByTask(x) = 0 /\ opens[x] = 0 /\ leaked[x] = 0
  <2>1. \A z \in Systems : x \notin ilist[z]
    BY DEF Inv, Pointers
  <2>2. OpenedByList(x)' = 0
    BY <1>5, <1>8, <2>1 DEF OpenedByList
  <2>3. OpenedByTask(x) = 0
    BY <1>3 DEF OpenedByTask, Inv, Loops
  <2>. QED
    BY <1>3, <2>2, <2>3 DEF Inv, Counts
<1>13. /\ \A x \in live : Owned'[x] = Owned[x]
       /\ \A x \in live' \ live : Owned'[x] = 0
  BY <1>1, <1>2, <1>3, <1>4, <1>10, <1>11, <1>12 DEF Owned
<1>14. Now \in Pairs /\ Becomes(Now) /\ Follows(live, Now, Now)
  BY <1>2, NowInPairs DEF Inv, Becomes, Now, Follows
<1>15. taken' = {} => Good(live, Now, Owned)
  BY <1>2 DEF Inv, Accounts
<1>16. Counts' /\ Accounts'
  BY <1>1, <1>2, <1>4, <1>7, <1>13, <1>14, <1>15, GrowStep
<1>. QED
  BY <1>7, <1>9, <1>16 DEF Inv

LEMMA GetInterfacesStep ==
  ASSUME Inv, NEW s \in Systems, GetInterfaces(s)
  PROVE  Inv'
<1>1. task = Idle /\ task.op = "none" /\ task.all = None /\ s \in live \cap Systems
  BY DEF GetInterfaces, Ready, Idle, Inv, Pointers
<1>2. CASE InterfacesReused(s)
  <2>1. app' \subseteq live
    BY <1>2 DEF InterfacesReused, Inv, Pointers
  <2>. QED
    BY <1>2, <2>1, PointersOnly DEF InterfacesReused
<1>3. CASE InterfacesListed(s, None)
  <2>1. UNCHANGED counters
    BY <1>3 DEF InterfacesListed
  <2>. QED
    BY <1>1, <1>3, <2>1, ListedStep
<1>. QED
  BY <1>2, <1>3 DEF GetInterfaces

LEMMA OpenListedStep ==
  ASSUME Inv, OpenListed
  PROVE  Inv'
<1>1. PICK i \in task.todo :
         /\ Becomes(OpenInterface(Now, i))
         /\ task' = [task EXCEPT !.todo = @ \ {i}]
  BY DEF OpenListed
<1>2. UNCHANGED <<lists, objects, app, opens, past>> /\ task.op = "open"
  BY DEF OpenListed
<1>3. /\ systemList' = systemList /\ ilist' = ilist /\ live' = live
      /\ leaked' = leaked /\ unopened' = unopened /\ taken' = taken /\ leaked \in [Objects -> Nat]
  BY <1>2, PastIs DEF lists, objects, Inv, Counts
<1>4. PICK s \in Systems : i \in ilist[s]
  BY <1>2 DEF Inv, Loops
<1>5. i \in live \cap Interfaces /\ i \in Objects /\ parent[i] = s
  BY <1>1, <1>4 DEF Inv, Pointers, Loops, Tree
<1>6. task'.op = "open" /\ task'.all = task.all /\ task'.todo = task.todo \ {i} /\ task'.got = task.got
  BY <1>1, <1>2 DEF Inv, Loops
<1>7. Loops'
  BY <1>1, <1>3, <1>2 DEF Inv, Loops
<1>8. /\ Tree(live) /\ Now \in Pairs
      /\ Owned \in Owners /\ opens \in [Objects -> Nat]
  BY NowInPairs, OwnedIsOwners DEF Inv, Pointers, Counts
<1>9. Owned' \in Owners /\ OneMore(Owned, i, Owned')
  <2>1. OpenedByList(i) = 0
    BY <1>1, <1>2 DEF OpenedByList
  <2>3. OpenedByList(i)' = 1
    BY <1>1, <1>2, <1>3, <1>4, <1>5, <1>6 DEF OpenedByList, Inv, Loops
  <2>4. \A x \in Objects \ {i} : OpenedByList(x)' = OpenedByList(x)
    BY <1>2, <1>3, <1>6 DEF OpenedByList
  <2>5. \A x \in Objects : OpenedByTask(x)' = OpenedByTask(x) /\ OpenedByTask(x) \in Nat
    BY <1>6 DEF OpenedByTask
  <2>6. Owned' \in Owners
    BY <1>2, <1>3, <1>8, OwnedIsOwnersNext
  <2>7. ASSUME NEW x \in Objects
        PROVE  Owned'[x] = IF x = i THEN Owned[x] + 1 ELSE Owned[x]
    BY <1>2, <1>3, <1>5, <1>8, <2>1, <2>3, <2>4, <2>5 DEF Owned
  <2>. QED
    BY <2>6, <2>7 DEF OneMore
<1>10. /\ Follows({i, parent[i]}, Now, OpenInterface(Now, i))
       /\ \A own \in Owners, own2 \in Owners :
             OneMore(own, i, own2) /\ Good(live, Now, own) => Good(live, OpenInterface(Now, i), own2)
  BY <1>5, <1>8, OpenInterfaceCounts
<1>11. {i, parent[i]} \subseteq live
  BY <1>5, <1>8, ObjectsAssumption DEF Tree
<1>12. Follows(live, Now, OpenInterface(Now, i))
  BY <1>8, <1>10, <1>11, FollowsMore
<1>13. taken' = {} => Good(live, OpenInterface(Now, i), Owned')
  BY <1>2, <1>3, <1>8, <1>9, <1>10 DEF Inv, Accounts
<1>14. opens' \in [Objects -> Nat] /\ \A x \in Objects \ live : opens'[x] = 0
  BY <1>2 DEF Inv, Counts
<1>15. Pointers' /\ Counts' /\ Accounts'
  BY <1>1, <1>2, <1>12, <1>13, <1>14, CallStep
<1>. QED
  BY <1>7, <1>15 DEF Inv

\* A loop that throws is over.  The open() of its system is counted as left
\* behind from then on.
LEMMA ThrowStep ==
  ASSUME Inv, NEW c, Follows(live, Now, c), Becomes(c),
         UNCHANGED <<lists, objects, app, opens, taken>>, task' = Idle, seen \subseteq seen',
         leaked' \in [Objects -> Nat], \A x \in Objects \ live : leaked'[x] = 0,
         unopened' \subseteq live,
         taken = {} => Good(live, c, Owned')
  PROVE  Inv'
<1>1. opens' \in [Objects -> Nat] /\ \A x \in Objects \ live : opens'[x] = 0
  BY DEF Inv, Counts
<1>2. taken' = taken /\ UNCHANGED <<lists, objects, app>>
  OBVIOUS
<1>3. Pointers' /\ Counts' /\ Accounts'
  BY <1>1, <1>2, LoopCallStep
<1>4. Loops'
  BY DEF Loops, Idle
<1>. QED
  BY <1>3, <1>4 DEF Inv

LEMMA OpenListedThrowsStep ==
  ASSUME Inv, OpenListedThrows
  PROVE  Inv'
<1>1. PICK i \in task.todo : Becomes(OpenFails(i))
  BY DEF OpenListedThrows
<1>2. /\ task.op = "open" /\ task' = Idle /\ UNCHANGED <<lists, objects, app, opens, taken>>
      /\ unopened' = unopened \cup task.todo /\ seen \subseteq seen'
      /\ leaked' = IF task.all = None THEN leaked ELSE [leaked EXCEPT ![task.all] = @ + 1]
  BY DEF OpenListedThrows, Mishap, LeavesOpen
<1>3. /\ task.todo \subseteq live /\ i \in live /\ unopened' \subseteq live
      /\ task.all # None => task.all \in live /\ task.all \in Objects
  BY <1>1, <1>2 DEF Inv, Loops, Pointers, Counts, Tree
<1>4. Tree(live) /\ Now \in Pairs /\ ClosedOutside(live, Now) /\ leaked \in [Objects -> Nat]
      /\ Owned \in Owners
  BY NowInPairs, OwnedIsOwners DEF Inv, Pointers, Counts, ClosedOutside
<1>5. /\ Follows(live, Now, OpenFails(i))
      /\ \A own \in Owners : Good(live, Now, own) => Good(live, OpenFails(i), own)
  BY <1>3, <1>4, OpenFailsCounts
<1>6. /\ leaked' \in [Objects -> Nat]
      /\ \A x \in Objects : leaked'[x] = IF x = task.all THEN leaked[x] + 1 ELSE leaked[x]
  BY <1>2, <1>3, <1>4, ObjectsAssumption DEF Objects
<1>7. \A x \in Objects \ live : leaked'[x] = 0
  BY <1>3, <1>6, ObjectsAssumption DEF Inv, Counts, Objects
<1>8. \A x \in Objects : OpenedByTask(x)' = 0 /\ OpenedByTask(x) = IF x = task.all THEN 1 ELSE 0
  BY <1>2, ObjectsAssumption DEF OpenedByTask, Idle, Objects
<1>9. \A x \in Objects : OpenedByList(x)' = OpenedByList(x) /\ OpenedByList(x) \in Nat
  <2>1. task'.op = "none" /\ task.op = "open" /\ ilist' = ilist
    BY <1>2 DEF Idle, lists
  <2>. QED
    BY <1>2, <2>1 DEF OpenedByList
<1>10. \A x \in Objects : Owned'[x] = Owned[x]
  BY <1>2, <1>4, <1>6, <1>8, <1>9 DEF Owned, Inv, Counts
<1>11. taken = {} => Good(live, OpenFails(i), Owned')
  BY <1>4, <1>5, <1>10, GoodSame DEF Inv, Accounts, Tree
<1>. QED
  BY <1>1, <1>2, <1>3, <1>5, <1>6, <1>7, <1>11, ThrowStep

LEMMA InterfacesReturnedStep ==
  ASSUME Inv, InterfacesReturned
  PROVE  Inv'
<1>1. /\ UNCHANGED <<lists, objects, counters, opens, past>> /\ task' = Idle
      /\ task.op = "open" /\ task.todo = {} /\ task.all = None
      /\ app' = app \cup UNION {ilist[s] : s \in Systems}
  BY DEF InterfacesReturned
<1>2. app' \subseteq live
  BY <1>1 DEF Inv, Pointers
<1>3. Loops'
  BY <1>1 DEF Loops, Idle
<1>4. \A x \in live : Owned'[x] = Owned[x]
  <2>1. \A x \in Objects : OpenedByList(x)' = OpenedByList(x)
    BY <1>1, PastIs DEF OpenedByList, Idle, lists
  <2>2. \A x \in Objects : OpenedByTask(x)' = OpenedByTask(x)
    BY <1>1 DEF OpenedByTask, Idle
  <2>. QED
    BY <1>1, <2>1, <2>2, PastIs DEF Owned, Inv, Pointers, Tree
<1>. QED
  BY <1>1, <1>2, <1>3, <1>4, LoopOnly

-----------------------------------------------------------------------------
(* Devices. *)

\* A discovery adds devices that nobody has opened.
LEMMA DiscoveredPointers ==
  ASSUME Inv, NEW i \in live \cap Interfaces, NEW ids, NEW found \in SUBSET Devices,
         Discovered(i, ids, found),
         UNCHANGED <<systemList, ilist>>, app' \subseteq app \cup found
  PROVE  /\ Pointers' /\ live' = live \cup found
         /\ \A x \in live : parent'[x] = parent[x]
         /\ \A x \in live' \ live : x \in Devices /\ x \in Objects /\ parent'[x] = i
<1>. DEFINE known == {d \in dlist[i] : ident[d] \in ids}
            new == found \ known
<1>1. /\ known \subseteq found /\ new \subseteq Devices \ live
      /\ live' = live \cup new
      /\ parent' = [o \in Objects |-> IF o \in new THEN i ELSE parent[o]]
      /\ dlist' = [dlist EXCEPT ![i] = found]
  BY DEF Discovered
<1>2. known \subseteq live /\ found = known \cup new
  BY <1>1 DEF Inv, Pointers
<1>. HIDE DEF known, new
<1>3. /\ new \subseteq Objects /\ i \in Objects /\ i # None /\ i \notin Systems /\ i \notin new
      /\ \A x \in new : x \notin Systems /\ x \notin Interfaces /\ x # None
  BY <1>1, ObjectsAssumption DEF Objects
<1>4. /\ parent' \in [Objects -> Objects \cup {None}]
      /\ \A x \in Objects : parent'[x] = IF x \in new THEN i ELSE parent[x]
      /\ \A x \in live : x \in Objects /\ x \notin new
  BY <1>1, <1>3 DEF Inv, Pointers, Tree
<1>5. Tree(live)'
  BY <1>1, <1>3, <1>4 DEF Inv, Pointers, Tree
<1>6. Pointers'
  <2>1. \A z \in Systems : parent'[z] = None
    BY <1>3, <1>4 DEF Inv, Pointers, Objects
  <2>2. app' \subseteq live' /\ systemList' \subseteq live' \cap Systems
    BY <1>1, <1>2 DEF Inv, Pointers
  <2>3. /\ ilist' \in [Systems -> SUBSET Interfaces]
        /\ \A z \in Systems : \A x \in ilist'[z] : x \in live' /\ parent'[x] = z
    BY <1>1, <1>4 DEF Inv, Pointers
  <2>4. dlist' \in [Interfaces -> SUBSET Devices] /\ \A x \in Interfaces : dlist'[x] \subseteq live'
    BY <1>1, <1>2 DEF Inv, Pointers
  <2>. QED
    BY <1>4, <1>5, <2>1, <2>2, <2>3, <2>4 DEF Pointers
<1>. QED
  BY <1>1, <1>2, <1>3, <1>4, <1>6

\* New devices are counted by nobody.
LEMMA DevicesNotOwned ==
  ASSUME Inv, opens' = opens, leaked' = leaked, unopened' = unopened, ilist' = ilist, systemList' = systemList,
         task'.op = task.op, task'.all = task.all,
         \A z \in Systems : \A x \in ilist[z] : x \in task'.todo <=> x \in task.todo,
         live \subseteq live', \A x \in live' \ live : x \in Devices
  PROVE  /\ \A x \in live : Owned'[x] = Owned[x]
         /\ \A x \in live' \ live : Owned'[x] = 0
<1>1. \A x \in Objects : OpenedByList(x)' = OpenedByList(x) /\ OpenedByTask(x)' = OpenedByTask(x)
  BY DEF OpenedByList, OpenedByTask
<1>2. ASSUME NEW x \in Devices, x \notin live
      PROVE  OpenedByList(x) = 0 /\ OpenedByTask(x) = 0 /\ opens[x] = 0 /\ leaked[x] = 0
             /\ x \in Objects
  <2>1. x \in Objects /\ x # None /\ x \notin Systems
    BY <1>2, ObjectsAssumption DEF Objects
  <2>2. OpenedByTask(x) = 0
    BY <2>1 DEF OpenedByTask, Inv, Loops
  <2>3. \A z \in Systems : x \notin ilist[z]
    BY <1>2 DEF Inv, Pointers
  <2>4. OpenedByList(x) = 0
    BY <2>3 DEF OpenedByList
  <2>. QED
    BY <1>2, <2>1, <2>2, <2>4 DEF Inv, Counts
<1>3. live \subseteq Objects
  BY DEF Inv, Pointers, Tree
<1>. QED
  BY <1>1, <1>2, <1>3 DEF Owned

\* The interface is open, so its handle may be renewed.
LEMMA ReopenedFollows ==
  ASSUME Inv, NEW i \in Interfaces, i \in live, Reopened(i)
  PROVE  \E c \in Pairs :
           /\ Becomes(c) /\ Follows(live, Now, c)
           /\ taken = {} => Good(live, c, Owned)
<1>. DEFINE c == [n |-> nOpen, h |-> [handle EXCEPT ![i] = "live"]]
<1>1. /\ handle[i] # "null" /\ Becomes(c) /\ i \in Objects
      /\ nOpen \in [Objects -> Nat] /\ handle \in [Objects -> {"null", "live", "stale"}]
  BY DEF Reopened, Becomes, Objects, Inv, Counts
<1>2. c \in Pairs /\ c.n = nOpen /\ c.h[i] = "live" /\ \A x \in Objects \ {i} : c.h[x] = handle[x]
  BY <1>1 DEF Pairs
<1>. HIDE DEF c
<1>3. nOpen[i] # 0
  BY <1>1 DEF Inv, Accounts, ClosedIsNull, Now
<1>4. Follows(live, Now, c)
  BY <1>2, <1>3 DEF Follows, ClosedIsNull, Now
<1>5. taken = {} => Good(live, c, Owned)
  BY <1>2, <1>3 DEF Inv, Accounts, Good, ClosedIsNull, OpenIsValid, Now
<1>. QED
  BY <1>1, <1>2, <1>4, <1>5

LEMMA DiscoveredStep ==
  ASSUME Inv, NEW i \in Interfaces, i \in app, Reopened(i),
         NEW ids, NEW found \in SUBSET Devices, Discovered(i, ids, found),
         app' \subseteq app \cup found,
         UNCHANGED <<systemList, ilist, opens, task, past>>
  PROVE  Inv'
<1>1. i \in live
  BY DEF Inv, Pointers
<1>2. /\ Pointers' /\ live' = live \cup found
      /\ \A x \in live : parent'[x] = parent[x]
      /\ \A x \in live' \ live : x \in Devices
  BY <1>1, DiscoveredPointers
<1>3. PICK c \in Pairs :
         /\ Becomes(c) /\ Follows(live, Now, c)
         /\ taken = {} => Good(live, c, Owned)
  BY <1>1, ReopenedFollows
<1>4. /\ \A x \in live : Owned'[x] = Owned[x]
      /\ \A x \in live' \ live : Owned'[x] = 0
  BY <1>2, DevicesNotOwned, PastIs
<1>5. Counts' /\ Accounts'
  BY <1>2, <1>3, <1>4, GrowStep, PastIs
<1>6. Loops'
  BY <1>2, LoopsSame, PastIs
<1>. QED
  BY <1>2, <1>5, <1>6 DEF Inv

LEMMA GetDevicesStep ==
  ASSUME Inv, NEW i \in Interfaces, GetDevices(i) \/ GetDevice(i)
  PROVE  Inv'
<1>1. /\ i \in app /\ Reopened(i) /\ UNCHANGED <<systemList, ilist, opens, task, past>>
      /\ \E ids \in SUBSET DeviceIds, found \in SUBSET Devices :
            Discovered(i, ids, found) /\ app' \subseteq app \cup found
  <2>1. CASE GetDevices(i)
    BY <2>1 DEF GetDevices
  <2>2. CASE GetDevice(i)
    BY <2>2 DEF GetDevice
  <2>. QED
    BY <2>1, <2>2
<1>2. PICK ids \in SUBSET DeviceIds, found \in SUBSET Devices :
         Discovered(i, ids, found) /\ app' \subseteq app \cup found
  BY <1>1
<1>. QED
  BY <1>1, <1>2, DiscoveredStep

LEMMA GetDevicesThrowsStep ==
  ASSUME Inv, NEW i \in Interfaces, GetDevicesThrows(i)
  PROVE  Inv'
<1>1. i \in live /\ Reopened(i) /\ UNCHANGED <<lists, objects, app, opens, task, past>>
  BY DEF GetDevicesThrows, Inv, Pointers
<1>2. PICK c \in Pairs :
         /\ Becomes(c) /\ Follows(live, Now, c)
         /\ taken = {} => Good(live, c, Owned)
  BY <1>1, ReopenedFollows
<1>3. Owned' = Owned
  BY <1>1, PastIs DEF Owned, OpenedByList, OpenedByTask, lists
<1>4. opens' \in [Objects -> Nat] /\ \A x \in Objects \ live : opens'[x] = 0
  BY <1>1 DEF Inv, Counts
<1>5. Pointers' /\ Counts' /\ Accounts'
  BY <1>1, <1>2, <1>3, <1>4, CallStep, PastIs
<1>6. Loops'
  BY <1>1, LoopsSame, PastIs DEF lists, objects
<1>. QED
  BY <1>5, <1>6 DEF Inv

LEMMA GetHiddenDeviceStep ==
  ASSUME Inv, NEW i \in Interfaces, GetHiddenDevice(i)
  PROVE  Inv'
<1>1. /\ i \in live /\ Reopened(i) /\ UNCHANGED <<systemList, ilist, opens, task, past>>
      /\ i \in Objects /\ i \notin Systems
  BY ObjectsAssumption DEF GetHiddenDevice, Inv, Pointers, Objects
<1>2. PICK d \in Devices \ live :
         /\ live' = live \cup {d} /\ app' = app \cup {d} /\ parent' = [parent EXCEPT ![d] = i]
  BY DEF GetHiddenDevice
<1>3. PICK still \in SUBSET dlist[i] : dlist' = [dlist EXCEPT ![i] = still]
  BY DEF GetHiddenDevice
<1>4. d \in Objects /\ d # None /\ d \notin Systems /\ d \notin Interfaces
  BY ObjectsAssumption DEF Objects
<1>5. /\ parent' \in [Objects -> Objects \cup {None}] /\ parent'[d] = i
      /\ \A x \in Objects \ {d} : parent'[x] = parent[x]
      /\ \A x \in live : x \in Objects /\ x # d
  BY <1>1, <1>2, <1>4 DEF Inv, Pointers, Tree
<1>6. Tree(live)'
  BY <1>1, <1>2, <1>4, <1>5 DEF Inv, Pointers, Tree
<1>7. Pointers'
  <2>1. \A z \in Systems : parent'[z] = None
    BY <1>4, <1>5 DEF Inv, Pointers, Objects
  <2>2. app' \subseteq live' /\ systemList' \subseteq live' \cap Systems
    BY <1>1, <1>2 DEF Inv, Pointers
  <2>3. /\ ilist' \in [Systems -> SUBSET Interfaces]
        /\ \A z \in Systems : \A x \in ilist'[z] : x \in live' /\ parent'[x] = z
    BY <1>1, <1>2, <1>5 DEF Inv, Pointers
  <2>4. dlist' \in [Interfaces -> SUBSET Devices] /\ \A x \in Interfaces : dlist'[x] \subseteq live'
    BY <1>2, <1>3 DEF Inv, Pointers
  <2>. QED
    BY <1>5, <1>6, <2>1, <2>2, <2>3, <2>4 DEF Pointers
<1>8. PICK c \in Pairs :
         /\ Becomes(c) /\ Follows(live, Now, c)
         /\ taken = {} => Good(live, c, Owned)
  BY <1>1, ReopenedFollows
<1>9. /\ \A x \in live : Owned'[x] = Owned[x]
      /\ \A x \in live' \ live : Owned'[x] = 0
  BY <1>1, <1>2, DevicesNotOwned, PastIs
<1>10. Counts' /\ Accounts'
  BY <1>1, <1>2, <1>5, <1>7, <1>8, <1>9, GrowStep, PastIs
<1>11. Loops'
  BY <1>1, <1>2, LoopsSame, PastIs
<1>. QED
  BY <1>7, <1>10, <1>11 DEF Inv

-----------------------------------------------------------------------------
(* The discovery over all systems. *)

LEMMA AllDevicesStep ==
  ASSUME Inv, NEW s \in Systems, AllDevices(s)
  PROVE  Inv'
<1>1. /\ task = Idle /\ s \in systemList /\ s \in live \cap Systems
      /\ Becomes(OpenSystem(Now, s)) /\ task' = [Idle EXCEPT !.op = "enumerate", !.all = s]
      /\ UNCHANGED <<lists, objects, app, opens, past>>
  BY DEF AllDevices, Ready, Inv, Pointers
<1>2. /\ systemList' = systemList /\ ilist' = ilist /\ live' = live
      /\ leaked' = leaked /\ unopened' = unopened /\ taken' = taken /\ leaked \in [Objects -> Nat]
  BY <1>1, PastIs DEF lists, objects, Inv, Counts
<1>3. /\ task'.op = "enumerate" /\ task'.all = s /\ task'.todo = {} /\ task'.got = {}
      /\ task' = [op |-> "enumerate", todo |-> {}, all |-> s, got |-> {}]
      /\ s # None /\ s \in Objects
  BY <1>1, ObjectsAssumption DEF Idle, Objects
<1>4. Loops'
  BY <1>1, <1>2, <1>3 DEF Loops
<1>5. /\ Tree(live) /\ Now \in Pairs /\ Owned \in Owners /\ opens \in [Objects -> Nat]
  BY NowInPairs, OwnedIsOwners DEF Inv, Pointers, Counts
<1>6. Owned' \in Owners /\ OneMore(Owned, s, Owned')
  <2>1. \A x \in Objects : OpenedByList(x)' = OpenedByList(x) /\ OpenedByList(x) \in Nat
    BY <1>1, <1>2, <1>3 DEF OpenedByList, Idle
  <2>2. \A x \in Objects : OpenedByTask(x) = 0 /\ OpenedByTask(x)' = IF x = s THEN 1 ELSE 0
    BY <1>1, <1>3, ObjectsAssumption DEF OpenedByTask, Idle, Objects
  <2>3. Owned' \in Owners
    BY <1>1, <1>2, <1>5, OwnedIsOwnersNext
  <2>4. ASSUME NEW x \in Objects
        PROVE  Owned'[x] = IF x = s THEN Owned[x] + 1 ELSE Owned[x]
    BY <1>1, <1>2, <1>5, <2>1, <2>2 DEF Owned
  <2>. QED
    BY <2>3, <2>4 DEF OneMore
<1>7. /\ Follows({s}, Now, OpenSystem(Now, s))
      /\ \A own \in Owners, own2 \in Owners :
            OneMore(own, s, own2) /\ Good(live, Now, own) => Good(live, OpenSystem(Now, s), own2)
  BY <1>1, <1>5, OpenSystemCounts
<1>8. Follows(live, Now, OpenSystem(Now, s))
  BY <1>1, <1>5, <1>7, FollowsMore
<1>9. taken' = {} => Good(live, OpenSystem(Now, s), Owned')
  BY <1>1, <1>2, <1>5, <1>6, <1>7 DEF Inv, Accounts
<1>10. opens' \in [Objects -> Nat] /\ \A x \in Objects \ live : opens'[x] = 0
  BY <1>1 DEF Inv, Counts
<1>11. Pointers' /\ Counts' /\ Accounts'
  BY <1>1, <1>8, <1>9, <1>10, CallStep
<1>. QED
  BY <1>4, <1>11 DEF Inv

\* The list of interfaces is complete, and the collecting starts.
LEMMA CollectStarts ==
  ASSUME Inv, UNCHANGED <<lists, objects, counters, app, opens, past>>,
         task.op = "enumerate" \/ (task.op = "open" /\ task.todo = {}), task.all # None,
         task' = [task EXCEPT !.op = "collect", !.todo = ilist[task.all]]
  PROVE  Inv'
<1>1. /\ systemList' = systemList /\ ilist' = ilist /\ live' = live
      /\ leaked' = leaked /\ unopened' = unopened
  BY PastIs DEF lists, objects
<1>2. task.all \in systemList /\ task.all \in Systems /\ ilist[task.all] \subseteq Interfaces
  BY DEF Inv, Loops, Pointers
<1>3. task'.op = "collect" /\ task'.all = task.all
  BY DEF Inv, Loops
<1>4. Loops'
  BY <1>1, <1>2 DEF Inv, Loops
<1>5. \A x \in live : Owned'[x] = Owned[x]
  <2>1. \A x \in Objects : OpenedByList(x)' = OpenedByList(x)
    BY <1>1, <1>3 DEF OpenedByList
  <2>2. \A x \in Objects : OpenedByTask(x)' = OpenedByTask(x)
    BY <1>3 DEF OpenedByTask
  <2>. QED
    BY <1>1, <2>1, <2>2 DEF Owned, Inv, Pointers, Tree
<1>. QED
  BY <1>4, <1>5, LoopOnly DEF Inv, Pointers

LEMMA EnumerateAllStep ==
  ASSUME Inv, EnumerateAll
  PROVE  Inv'
<1>1. task.op = "enumerate" /\ UNCHANGED counters /\ task.all # None
  BY DEF EnumerateAll, Inv, Loops
<1>2. task.all \in live \cap Systems
  BY <1>1 DEF Inv, Loops, Pointers
<1>3. CASE InterfacesListed(task.all, task.all)
  BY <1>1, <1>2, <1>3, ListedStep
<1>4. CASE /\ task' = [task EXCEPT !.op = "collect", !.todo = ilist[task.all]]
           /\ UNCHANGED <<lists, objects, app, opens, past>>
  BY <1>1, <1>4, CollectStarts
<1>. QED
  BY <1>3, <1>4 DEF EnumerateAll

LEMMA AllOpenedStep ==
  ASSUME Inv, AllOpened
  PROVE  Inv'
  BY CollectStarts DEF AllOpened

LEMMA CollectDevicesStep ==
  ASSUME Inv, CollectDevices
  PROVE  Inv'
<1>1. PICK i \in task.todo, ids \in SUBSET DeviceIds, found \in SUBSET Devices :
         /\ Becomes(Visited(i)) /\ Discovered(i, ids, found)
         /\ task' = [task EXCEPT !.todo = @ \ {i}, !.got = @ \cup found]
  BY DEF CollectDevices
<1>2. task.op = "collect" /\ UNCHANGED <<systemList, ilist, library, app, opens, past>>
  BY DEF CollectDevices
<1>3. i \in live \cap Interfaces
  BY <1>1, <1>2 DEF Inv, Loops, Pointers
<1>4. /\ Pointers' /\ live' = live \cup found
      /\ \A x \in live : parent'[x] = parent[x]
      /\ \A x \in live' \ live : x \in Devices
  BY <1>1, <1>2, <1>3, DiscoveredPointers
<1>5. /\ task'.op = "collect" /\ task'.all = task.all
      /\ task'.todo = task.todo \ {i} /\ task'.got = task.got \cup found
  BY <1>1, <1>2 DEF Inv, Loops
<1>6. Loops'
  BY <1>1, <1>2, <1>4, <1>5 DEF Inv, Loops
<1>7. /\ Tree(live) /\ Now \in Pairs /\ ClosedOutside(live, Now) /\ Owned \in Owners
  BY NowInPairs, OwnedIsOwners DEF Inv, Pointers, Counts, ClosedOutside
<1>8. /\ Follows(live, Now, Visited(i))
      /\ \A own \in Owners : Good(live, Now, own) => Good(live, Visited(i), own)
  BY <1>3, <1>7, VisitedCounts
<1>9. /\ \A x \in live : Owned'[x] = Owned[x]
      /\ \A x \in live' \ live : Owned'[x] = 0
  <2>1. \A x \in Objects : OpenedByList(x)' = OpenedByList(x) /\ OpenedByTask(x)' = OpenedByTask(x)
    BY <1>2, <1>5, PastIs DEF OpenedByList, OpenedByTask
  <2>2. \A x \in live : Owned'[x] = Owned[x]
    BY <1>2, <2>1, PastIs DEF Owned, Inv, Pointers, Tree
  <2>3. ASSUME NEW x \in Devices, x \notin live
        PROVE  Owned'[x] = 0
    <3>1. x \in Objects /\ x # None /\ x \notin Systems
      BY <2>3, ObjectsAssumption DEF Objects
    <3>2. OpenedByTask(x) = 0
      BY <3>1 DEF OpenedByTask, Inv, Loops
    <3>3. OpenedByList(x) = 0
      BY <2>3 DEF OpenedByList, Inv, Pointers
    <3>. QED
      BY <1>2, <2>1, <2>3, <3>1, <3>2, <3>3, PastIs DEF Owned, Inv, Counts
  <2>. QED
    BY <1>4, <2>2, <2>3
<1>10. taken' = {} => Good(live, Visited(i), Owned)
  BY <1>2, <1>7, <1>8, PastIs DEF Inv, Accounts
<1>11. Counts' /\ Accounts'
  BY <1>1, <1>2, <1>4, <1>8, <1>9, <1>10, GrowStep, PastIs
<1>. QED
  BY <1>4, <1>6, <1>11 DEF Inv

LEMMA CollectThrowsStep ==
  ASSUME Inv, CollectThrows
  PROVE  Inv'
<1>. DEFINE s == task.all
<1>1. /\ task.op = "collect" /\ task' = Idle /\ seen \subseteq seen'
      /\ UNCHANGED <<lists, objects, app, opens, unopened, taken>>
  BY DEF CollectThrows, Mishap
<1>2. s \in live /\ s \in Systems /\ s \in Objects /\ s # None
  BY <1>1 DEF Inv, Loops, Pointers, Tree
<1>3. PICK i \in task.todo :
        \/ Becomes(OpenFails(i)) /\ leaked' = [leaked EXCEPT ![s] = @ + 1]
        \/ /\ Becomes(OpenInterface(Now, i))
           /\ leaked' = [[leaked EXCEPT ![s] = @ + 1] EXCEPT ![i] = @ + 1]
  BY DEF CollectThrows, LeavesOpen
<1>4. i \in live \cap Interfaces /\ {i, parent[i]} \subseteq live /\ i \in Objects /\ i # s
  BY <1>1, <1>2, <1>3, ObjectsAssumption DEF Inv, Loops, Pointers, Tree
<1>5. /\ Tree(live) /\ Now \in Pairs /\ ClosedOutside(live, Now) /\ Owned \in Owners
      /\ leaked \in [Objects -> Nat] /\ opens \in [Objects -> Nat] /\ unopened' \subseteq live
  BY <1>1, NowInPairs, OwnedIsOwners DEF Inv, Pointers, Counts, ClosedOutside
<1>6. \A x \in Objects : OpenedByTask(x)' = 0 /\ OpenedByTask(x) = IF x = s THEN 1 ELSE 0
  BY <1>1, ObjectsAssumption DEF OpenedByTask, Idle, Objects
<1>7. \A x \in Objects : OpenedByList(x)' = OpenedByList(x) /\ OpenedByList(x) \in Nat
  <2>1. task'.op = "none" /\ task.op = "collect" /\ ilist' = ilist
    BY <1>1 DEF Idle, lists
  <2>. QED
    BY <1>1, <2>1 DEF OpenedByList
<1>8. CASE Becomes(OpenFails(i)) /\ leaked' = [leaked EXCEPT ![s] = @ + 1]
  <2>1. /\ leaked' \in [Objects -> Nat]
        /\ \A x \in Objects : leaked'[x] = IF x = s THEN leaked[x] + 1 ELSE leaked[x]
    BY <1>2, <1>5, <1>8
  <2>2. /\ Follows(live, Now, OpenFails(i))
        /\ \A own \in Owners : Good(live, Now, own) => Good(live, OpenFails(i), own)
    BY <1>4, <1>5, OpenFailsCounts
  <2>3. \A x \in Objects : Owned'[x] = Owned[x]
    BY <1>1, <1>5, <1>6, <1>7, <2>1 DEF Owned
  <2>4. taken = {} => Good(live, OpenFails(i), Owned')
    BY <1>5, <2>2, <2>3, GoodSame DEF Inv, Accounts, Tree
  <2>5. \A x \in Objects \ live : leaked'[x] = 0
    BY <1>2, <2>1 DEF Inv, Counts
  <2>. QED
    BY <1>1, <1>5, <1>8, <2>1, <2>2, <2>4, <2>5, ThrowStep
<1>9. CASE /\ Becomes(OpenInterface(Now, i))
           /\ leaked' = [[leaked EXCEPT ![s] = @ + 1] EXCEPT ![i] = @ + 1]
  <2>1. /\ leaked' \in [Objects -> Nat]
        /\ \A x \in Objects : leaked'[x] = IF x \in {s, i} THEN leaked[x] + 1 ELSE leaked[x]
    BY <1>2, <1>4, <1>5, <1>9
  <2>2. /\ Follows({i, parent[i]}, Now, OpenInterface(Now, i))
        /\ \A own \in Owners, own2 \in Owners :
              OneMore(own, i, own2) /\ Good(live, Now, own)
                => Good(live, OpenInterface(Now, i), own2)
    BY <1>4, <1>5, OpenInterfaceCounts
  <2>3. Follows(live, Now, OpenInterface(Now, i))
    BY <1>4, <1>5, <2>2, FollowsMore
  <2>4. Owned' \in Owners
    BY <1>1, <1>5, <2>1, OwnedIsOwnersNext
  <2>5. ASSUME NEW x \in Objects
        PROVE  Owned'[x] = IF x = i THEN Owned[x] + 1 ELSE Owned[x]
    BY <1>1, <1>4, <1>5, <1>6, <1>7, <2>1 DEF Owned
  <2>6. OneMore(Owned, i, Owned')
    BY <2>5 DEF OneMore
  <2>7. taken = {} => Good(live, OpenInterface(Now, i), Owned')
    BY <1>5, <2>2, <2>4, <2>6 DEF Inv, Accounts
  <2>8. \A x \in Objects \ live : leaked'[x] = 0
    BY <1>2, <1>4, <2>1 DEF Inv, Counts
  <2>. QED
    BY <1>1, <1>5, <1>9, <2>1, <2>3, <2>7, <2>8, ThrowStep
<1>. QED
  BY <1>3, <1>8, <1>9

LEMMA CollectedStep ==
  ASSUME Inv, Collected
  PROVE  Inv'
<1>. DEFINE s == task.all
            c == CloseSystem(Now, s)
<1>1. /\ task.op = "collect" /\ task' = Idle /\ Becomes(c)
      /\ UNCHANGED <<lists, objects, opens, past>> /\ app' \subseteq app \cup task.got
  BY DEF Collected
<1>2. /\ s \in systemList /\ s \in live \cap Systems /\ s # None /\ s \in Objects
      /\ app' \subseteq live
  BY <1>1 DEF Inv, Loops, Pointers, Tree
<1>3. /\ live' = live /\ parent' = parent /\ systemList' = systemList
      /\ ilist' = ilist /\ dlist' = dlist /\ leaked' = leaked /\ unopened' = unopened
      /\ seen' = seen /\ taken' = taken /\ leaked \in [Objects -> Nat]
  BY <1>1, PastIs DEF lists, objects, Inv, Counts
<1>4. Pointers'
  BY <1>2, <1>3 DEF Inv, Pointers, Tree
<1>5. Loops'
  BY <1>1 DEF Loops, Idle
<1>6. /\ Tree(live) /\ Now \in Pairs /\ ClosedOutside(live, Now)
      /\ Owned \in Owners /\ opens \in [Objects -> Nat]
  BY NowInPairs, OwnedIsOwners DEF Inv, Pointers, Counts, ClosedOutside
<1>7. Owned' \in Owners /\ OneMore(Owned', s, Owned)
  <2>1. \A x \in Objects : OpenedByList(x)' = OpenedByList(x) /\ OpenedByList(x) \in Nat
    BY <1>1, <1>3 DEF OpenedByList, Idle
  <2>2. \A x \in Objects : OpenedByTask(x)' = 0 /\ OpenedByTask(x) = IF x = s THEN 1 ELSE 0
    BY <1>1, ObjectsAssumption DEF OpenedByTask, Idle, Objects
  <2>3. Owned' \in Owners
    BY <1>1, <1>3, <1>6, OwnedIsOwnersNext
  <2>4. ASSUME NEW x \in Objects
        PROVE  Owned[x] = IF x = s THEN Owned'[x] + 1 ELSE Owned'[x]
    BY <1>1, <1>3, <1>6, <2>1, <2>2 DEF Owned
  <2>. QED
    BY <2>3, <2>4 DEF OneMore
<1>. HIDE DEF s, c
<1>8. /\ Follows({s}, Now, c)
      /\ \A own \in Owners, own2 \in Owners :
            OneMore(own2, s, own) /\ Good(live, Now, own) => Good(live, c, own2)
  BY <1>2, <1>6, CloseSystemCounts DEF c
<1>9. Follows(live, Now, c)
  BY <1>2, <1>6, <1>8, FollowsMore
<1>10. taken' = {} => Good(live, c, Owned')
  BY <1>1, <1>3, <1>6, <1>7, <1>8 DEF Inv, Accounts
<1>11. c \in Pairs /\ ClosedIsNull(c) /\ \A x \in Objects \ live : c.n[x] = 0
  BY <1>9 DEF Inv, Accounts, Follows, Counts, Now
<1>12. nOpen' = c.n /\ handle' = c.h
  BY <1>1, <1>11, NowIs
<1>13. Counts'
  BY <1>1, <1>3, <1>11, <1>12 DEF Inv, Counts, Pairs
<1>14. Accounts'
  BY <1>1, <1>3, <1>4, <1>10, <1>11, AccountsStep DEF Inv
<1>. QED
  BY <1>4, <1>5, <1>13, <1>14 DEF Inv

-----------------------------------------------------------------------------
(* Pointers and destructors. *)

LEMMA GetParentStep ==
  ASSUME Inv, NEW o \in Objects, GetParent(o)
  PROVE  Inv'
<1>1. o \in live /\ parent[o] \in live
  BY DEF GetParent, Inv, Pointers, Tree, Objects
<1>2. app' \subseteq live
  BY <1>1 DEF GetParent, Inv, Pointers
<1>. QED
  BY <1>2, PointersOnly DEF GetParent

LEMMA DropStep ==
  ASSUME Inv, NEW o \in Objects, Drop(o)
  PROVE  Inv'
<1>1. app' \subseteq live
  BY DEF Drop, Inv, Pointers
<1>. QED
  BY <1>1, PointersOnly DEF Drop

LEMMA DestroyStep ==
  ASSUME Inv, Destroy
  PROVE  Inv'
<1>1. PICK o \in Unreferenced :
        /\ Becomes(Destroyed(o))
        /\ live' = live \ {o}
        /\ parent' = [parent EXCEPT ![o] = None]
        /\ ilist' = [s \in Systems |-> IF s = o THEN {} ELSE ilist[s]]
        /\ dlist' = [i \in Interfaces |-> IF i = o THEN {} ELSE dlist[i] \ {o}]
        /\ opens' = [opens EXCEPT ![o] = 0] /\ leaked' = [leaked EXCEPT ![o] = 0]
        /\ unopened' = unopened \ {o}
  BY DEF Destroy
<1>2. task = Idle /\ UNCHANGED <<systemList, app, task, seen, taken>>
  BY DEF Destroy
<1>3. /\ o \in live /\ o \in Objects /\ o \notin app /\ o \notin systemList
      /\ \A s \in Systems : o \notin ilist[s]
      /\ Children(o) = {}
  BY DEF Unreferenced, Held, Inv, Pointers, Tree
<1>4. /\ parent' \in [Objects -> Objects \cup {None}] /\ parent'[o] = None
      /\ \A x \in Objects \ {o} : parent'[x] = parent[x]
  BY <1>1, <1>3 DEF Inv, Pointers
<1>5. \A x \in live : x \in Objects /\ parent[x] # o
  BY <1>3 DEF Children, Inv, Pointers, Tree
<1>6. Tree(live)'
  BY <1>1, <1>4, <1>5 DEF Inv, Pointers, Tree
<1>7. \A s \in Systems : ilist'[s] = ilist[s]
  BY <1>1, <1>5 DEF Inv, Pointers
<1>8. Pointers'
  <2>1. \A z \in Systems : parent'[z] = None
    BY <1>4 DEF Inv, Pointers, Objects
  <2>2. app' \subseteq live' /\ systemList' \subseteq live' \cap Systems
    BY <1>1, <1>2, <1>3 DEF Inv, Pointers
  <2>3. ilist' \in [Systems -> SUBSET Interfaces]
    BY <1>1 DEF Inv, Pointers
  <2>4. \A z \in Systems : \A x \in ilist'[z] : x \in live' /\ parent'[x] = z
    BY <1>1, <1>3, <1>4, <1>5, <1>7 DEF Inv, Pointers
  <2>5. dlist' \in [Interfaces -> SUBSET Devices] /\ \A x \in Interfaces : dlist'[x] \subseteq live'
    BY <1>1 DEF Inv, Pointers
  <2>. QED
    BY <1>4, <1>6, <2>1, <2>2, <2>3, <2>4, <2>5 DEF Pointers
<1>9. Loops'
  BY <1>2 DEF Loops, Idle
<1>10. Tree(live) /\ Now \in Pairs /\ \A x \in Objects \ live : nOpen[x] = 0
  BY NowInPairs DEF Inv, Pointers, Counts
<1>. DEFINE c == Destroyed(o)
<1>11. /\ Tree(live \ {o}) /\ Follows(live, Now, c) /\ c.n[o] = 0
       /\ \A own \in Owners : Good(live, Now, own) => Good(live \ {o}, c, own)
  BY <1>3, <1>10, DestroyedCounts
<1>12. Becomes(c)
  BY <1>1
<1>. HIDE DEF c
<1>13. c \in Pairs /\ ClosedIsNull(c) /\ \A x \in Objects \ live' : c.n[x] = 0
  BY <1>1, <1>11 DEF Inv, Accounts, Follows, Counts, Now
<1>14. Now' = c /\ nOpen' = c.n /\ handle' = c.h
  BY <1>12, <1>13, NowIs
<1>15. /\ opens' \in [Objects -> Nat] /\ opens'[o] = 0
       /\ \A x \in Objects \ {o} : opens'[x] = opens[x]
       /\ leaked' \in [Objects -> Nat] /\ leaked'[o] = 0
       /\ \A x \in Objects \ {o} : leaked'[x] = leaked[x]
  BY <1>1, <1>3 DEF Inv, Counts
<1>16. Counts'
  BY <1>1, <1>13, <1>14, <1>15 DEF Inv, Counts, Pairs
<1>17. Owned \in Owners
  BY OwnedIsOwners DEF Inv, Counts
<1>18. \A x \in live' : Owned'[x] = Owned[x]
  <2>1. \A x \in Objects : OpenedByList(x)' = OpenedByList(x)
    BY <1>1, <1>2, <1>3, <1>7 DEF OpenedByList
  <2>2. \A x \in Objects : OpenedByTask(x)' = OpenedByTask(x)
    BY <1>2 DEF OpenedByTask
  <2>. QED
    BY <1>1, <1>5, <1>15, <2>1, <2>2 DEF Owned
<1>19. ASSUME taken' = {}
       PROVE  Good(live, Now, Owned)'
  <2>1. Good(live \ {o}, c, Owned)
    BY <1>2, <1>11, <1>17, <1>19 DEF Inv, Accounts
  <2>2. OpenIsValid(Now)' /\ ClosedIsNull(Now)'
    BY <1>2, <1>13, <1>14, <2>1 DEF Good, OpenIsValid, ClosedIsNull
  <2>3. \A x \in live' : OpenBelow(live, nOpen, x)' = OpenBelow(live \ {o}, c.n, x)
    BY <1>1, <1>4, <1>5, <1>14 DEF OpenBelow
  <2>4. \A x \in live' : nOpen'[x] = Owned'[x] + Cardinality(OpenBelow(live, nOpen, x)')
    BY <1>1, <1>14, <1>18, <2>1, <2>3 DEF Good, Adds
  <2>5. Adds(live, Now.n, Owned)'
    BY <1>14, <2>4 DEF Adds, Now, OpenBelow
  <2>. QED
    BY <2>2, <2>5 DEF Good
<1>20. Accounts'
  BY <1>13, <1>14, <1>19 DEF Accounts, ClosedIsNull
<1>. QED
  BY <1>8, <1>9, <1>16, <1>20 DEF Inv

\* The producer takes handles of devices and of an interface, and the counters
\* stay as they are.
LEMMA InterfaceLostStep ==
  ASSUME Inv, NEW i \in Interfaces, InterfaceLost(i)
  PROVE  Inv'
<1>1. /\ UNCHANGED <<lists, objects, nOpen, app, opens, task>> /\ handle[i] = "live"
      /\ handle' = [Freed(handle, i) EXCEPT ![i] = "stale"]
      /\ "lost" \in seen' /\ seen \subseteq seen' /\ taken \subseteq taken'
      /\ leaked' = leaked /\ unopened' = unopened /\ taken' = taken
  BY DEF InterfaceLost, Mishap, leftovers
<1>. DEFINE c == [n |-> nOpen, h |-> handle']
<1>2. /\ i \in Objects /\ i \notin Systems
      /\ nOpen \in [Objects -> Nat] /\ handle \in [Objects -> {"null", "live", "stale"}]
  BY ObjectsAssumption DEF Objects, Inv, Counts
<1>3. \A x \in Below(i) : x \notin Systems
  BY <1>2, ObjectsAssumption DEF Below, Inv, Pointers, Objects
<1>4. /\ handle' \in [Objects -> {"null", "live", "stale"}]
      /\ \A x \in Objects : \/ handle'[x] = handle[x]
                            \/ x \notin Systems /\ handle[x] = "live" /\ handle'[x] = "stale"
  BY <1>1, <1>2, <1>3 DEF Freed
<1>5. c \in Pairs /\ c.n = nOpen /\ c.h = handle' /\ Becomes(c)
  BY <1>1, <1>2, <1>4 DEF Pairs, Becomes
<1>. HIDE DEF c
<1>6. Follows(live, Now, c)
  BY <1>4, <1>5 DEF Follows, ClosedIsNull, Now
<1>7. ilist' = ilist /\ systemList' = systemList /\ live' = live /\ parent' = parent
  BY <1>1 DEF lists, objects
<1>8. Loops'
  BY <1>1, <1>7, LoopsSame
<1>9. Pointers'
  BY <1>1, <1>7 DEF Inv, Pointers, Tree, lists
<1>10. Owned' = Owned
  BY <1>1, <1>7 DEF Owned, OpenedByList, OpenedByTask
<1>11. nOpen' = nOpen
  BY <1>1
<1>12. Counts'
  BY <1>1, <1>4, <1>7 DEF Inv, Counts
<1>13. Now' = c
  BY <1>5, NowIs
<1>14. ClosedIsNull(Now)'
  BY <1>6, <1>13 DEF Inv, Accounts, Follows, ClosedIsNull
<1>15. ASSUME taken' = {}
       PROVE  Good(live, Now, Owned)'
  <2>1. Good(live, Now, Owned)
    BY <1>1, <1>15 DEF Inv, Accounts
  <2>2. OpenIsValid(Now)'
    BY <1>1, <1>4, <1>5, <1>13, <2>1 DEF Good, OpenIsValid, Now
  <2>3. \A x \in live : OpenBelow(live, nOpen, x)' = OpenBelow(live, nOpen, x)
    BY <1>7, <1>11 DEF OpenBelow
  <2>4. \A x \in live' : nOpen'[x] = Owned'[x] + Cardinality(OpenBelow(live, nOpen, x)')
    BY <1>7, <1>10, <1>11, <2>1, <2>3 DEF Good, Adds, Now
  <2>5. Adds(live, Now.n, Owned)'
    BY <2>4 DEF Adds, Now, OpenBelow
  <2>. QED
    BY <1>14, <2>2, <2>5 DEF Good
<1>. QED
  BY <1>8, <1>9, <1>12, <1>14, <1>15 DEF Inv, Accounts

LEMMA InvStep == Inv /\ [Next]_vars => Inv'
<1>. SUFFICES ASSUME Inv, [Next]_vars PROVE Inv'
  OBVIOUS
<1>1. CASE GetSystems
  BY <1>1, GetSystemsStep
<1>2. CASE ClearSystems
  BY <1>2, ClearSystemsStep
<1>3. CASE ClearInterface
  BY <1>3, ClearInterfaceStep
<1>4. CASE ClearDone
  BY <1>4, ClearDoneStep
<1>5. CASE \E s \in Systems : GetInterfaces(s)
  BY <1>5, GetInterfacesStep
<1>6. CASE OpenListed
  BY <1>6, OpenListedStep
<1>7. CASE OpenListedThrows
  BY <1>7, OpenListedThrowsStep
<1>8. CASE InterfacesReturned
  BY <1>8, InterfacesReturnedStep
<1>9. CASE \E s \in Systems : AllDevices(s)
  BY <1>9, AllDevicesStep
<1>10. CASE EnumerateAll
  BY <1>10, EnumerateAllStep
<1>11. CASE AllOpened
  BY <1>11, AllOpenedStep
<1>12. CASE CollectDevices
  BY <1>12, CollectDevicesStep
<1>13. CASE CollectThrows
  BY <1>13, CollectThrowsStep
<1>14. CASE Collected
  BY <1>14, CollectedStep
<1>15. CASE \E i \in Interfaces : GetDevices(i) \/ GetDevice(i)
  BY <1>15, GetDevicesStep
<1>16. CASE \E i \in Interfaces : GetDevicesThrows(i)
  BY <1>16, GetDevicesThrowsStep
<1>17. CASE \E i \in Interfaces : GetHiddenDevice(i)
  BY <1>17, GetHiddenDeviceStep
<1>18. CASE \E i \in Interfaces : InterfaceLost(i)
  BY <1>18, InterfaceLostStep
<1>19. CASE \E o \in Objects : Open(o)
  BY <1>19, OpenStep
<1>20. CASE \E o \in Objects : Close(o)
  BY <1>20, CloseStep
<1>21. CASE \E o \in Objects : GetParent(o)
  BY <1>21, GetParentStep
<1>22. CASE \E o \in Objects : Drop(o)
  BY <1>22, DropStep
<1>23. CASE Destroy
  BY <1>23, DestroyStep
<1>24. CASE UNCHANGED vars
  <2>1. UNCHANGED <<lists, objects, counters, app, opens, task, past>>
    BY <1>24 DEF vars
  <2>2. app' \subseteq live
    BY <2>1 DEF Inv, Pointers
  <2>. QED
    BY <2>1, <2>2, PointersOnly
<1>. QED
  BY <1>1, <1>2, <1>3, <1>4, <1>5, <1>6, <1>7, <1>8, <1>9, <1>10, <1>11, <1>12, <1>13,
     <1>14, <1>15, <1>16, <1>17, <1>18, <1>19, <1>20, <1>21, <1>22, <1>23, <1>24
  DEF Next

LEMMA InitInv == Init => Inv
<1>. SUFFICES ASSUME Init PROVE Inv
  OBVIOUS
<1>1. Pointers
  <2>1. Tree(live) /\ app \subseteq live /\ systemList \subseteq live \cap Systems
    BY DEF Init, Tree
  <2>2. parent \in [Objects -> Objects \cup {None}] /\ \A s \in Systems : parent[s] = None
    BY DEF Init, Objects
  <2>3. ilist \in [Systems -> SUBSET Interfaces] /\ \A s \in Systems : ilist[s] = {}
    BY DEF Init
  <2>4. dlist \in [Interfaces -> SUBSET Devices] /\ \A i \in Interfaces : dlist[i] = {}
    BY DEF Init
  <2>. QED
    BY <2>1, <2>2, <2>3, <2>4 DEF Pointers
<1>2. Counts
  BY DEF Init, Counts
<1>3. Loops
  BY DEF Init, Loops, Idle
<1>4. Accounts
  <2>1. ClosedIsNull(Now) /\ OpenIsValid(Now)
    BY DEF Init, ClosedIsNull, OpenIsValid, Now
  <2>2. Adds(live, Now.n, Owned)
    BY DEF Init, Adds
  <2>. QED
    BY <2>1, <2>2 DEF Accounts, Good
<1>. QED
  BY <1>1, <1>2, <1>3, <1>4 DEF Inv

THEOREM InvHolds == Spec => []Inv
  BY InitInv, InvStep, PTL DEF Spec

\* Every open() that is counted has somebody who closes it, or stems from a
\* discovery that has thrown, for any number of systems, interfaces, devices and
\* nested calls (the counters of System::open, Interface::open and Device::open);
\* until clearSystems() has closed an interface that it had not opened.
THEOREM OpensAccountedHolds == Spec => []OpensAccounted
  BY InvHolds, InvImpliesOpensAccounted, PTL

\* What is open has its handle, whatever has thrown, until clearSystems() has
\* closed an interface that it had not opened; what is closed or destroyed has
\* none.
THEOREM HandleFollowsCounterHolds == Spec => []HandleFollowsCounter
  BY InvHolds, InvImpliesHandleFollowsCounter, PTL

-----------------------------------------------------------------------------
(* Discoveries. *)

LEMMA DiscoveredReuses ==
  ASSUME Inv, NEW i \in Interfaces, NEW ids, NEW found \in SUBSET Devices,
         Discovered(i, ids, found)
  PROVE  \A j \in Interfaces : \A d \in dlist'[j] \ dlist[j], e \in dlist[j] :
            ident[e] # ident'[d]
<1>. DEFINE known == {d \in dlist[i] : ident[d] \in ids}
            names == ids \ {ident[d] : d \in known}
            new == found \ known
<1>1. dlist' = [dlist EXCEPT ![i] = found] /\ dlist \in [Interfaces -> SUBSET Devices]
  BY DEF Discovered, Inv, Pointers
<1>2. PICK name \in [new -> names] :
         ident' = [d \in Devices |-> IF d \in new THEN name[d] ELSE ident[d]]
  BY DEF Discovered
<1>3. ASSUME NEW j \in Interfaces, NEW d \in dlist'[j] \ dlist[j], NEW e \in dlist[j]
      PROVE  ident[e] # ident'[d]
  <2>1. j = i /\ d \in new
    BY <1>1
  <2>2. ident'[d] \in names
    BY <1>2, <2>1
  <2>3. ident[e] \in ids => e \in known
    BY <2>1
  <2>. QED
    BY <2>2, <2>3
<1>. QED
  BY <1>3

\* Interface::getDevices() and getDevice() hand out the object they know.
THEOREM ListingReusesHolds == Spec => ListingReuses
<1>. DEFINE Reuses == \A i \in Interfaces : \A d \in dlist'[i] \ dlist[i], e \in dlist[i] :
                        ident[e] # ident'[d]
<1>1. ASSUME Inv, Next PROVE Reuses \/ UNCHANGED vars
  <2>1. CASE \E i \in Interfaces : GetDevices(i) \/ GetDevice(i)
    BY <1>1, <2>1, DiscoveredReuses DEF GetDevices, GetDevice
  <2>2. CASE CollectDevices
    <3>1. PICK i \in task.todo, ids \in SUBSET DeviceIds, found \in SUBSET Devices :
             Discovered(i, ids, found)
      BY <2>2 DEF CollectDevices
    <3>2. i \in Interfaces
      BY <1>1 DEF Inv, Loops
    <3>. QED
      BY <1>1, <3>1, <3>2, DiscoveredReuses
  <2>3. CASE \E i \in Interfaces : GetHiddenDevice(i)
    <3>1. PICK i \in Interfaces : GetHiddenDevice(i)
      BY <2>3
    <3>2. PICK still \in SUBSET dlist[i] : dlist' = [dlist EXCEPT ![i] = still]
      BY <3>1 DEF GetHiddenDevice
    <3>3. \A j \in Interfaces : dlist'[j] \subseteq dlist[j]
      BY <1>1, <3>2 DEF Inv, Pointers
    <3>. QED
      BY <3>3
  <2>4. CASE Destroy
    <3>1. \A j \in Interfaces : dlist'[j] \subseteq dlist[j]
      BY <2>4 DEF Destroy
    <3>. QED
      BY <3>1
  <2>5. ASSUME dlist' = dlist PROVE Reuses
    BY <2>5
  <2>6. CASE GetSystems
    BY <2>5, <2>6 DEF GetSystems, SystemsReused, SystemConstructed, NoSystems, lists
  <2>7. CASE ClearSystems \/ ClearInterface \/ ClearDone
    BY <2>5, <2>7 DEF ClearSystems, ClearInterface, ClearDone, lists
  <2>8. CASE \E s \in Systems : GetInterfaces(s) \/ AllDevices(s)
    BY <2>5, <2>8 DEF GetInterfaces, InterfacesReused, InterfacesListed, AllDevices, lists
  <2>9. CASE OpenListed \/ OpenListedThrows \/ InterfacesReturned
    BY <2>5, <2>9 DEF OpenListed, OpenListedThrows, InterfacesReturned, lists
  <2>10. CASE EnumerateAll \/ AllOpened \/ CollectThrows \/ Collected
    BY <2>5, <2>10 DEF EnumerateAll, InterfacesListed, AllOpened, CollectThrows, Collected, lists
  <2>11. CASE \E i \in Interfaces : GetDevicesThrows(i) \/ InterfaceLost(i)
    BY <2>5, <2>11 DEF GetDevicesThrows, InterfaceLost, lists
  <2>12. CASE \E o \in Objects : Open(o) \/ Close(o) \/ GetParent(o) \/ Drop(o)
    BY <2>5, <2>12 DEF Open, Close, GetParent, Drop, lists
  <2>. HIDE DEF Reuses
  <2>. QED
    BY <1>1, <2>1, <2>2, <2>3, <2>4, <2>6, <2>7, <2>8, <2>9, <2>10, <2>11, <2>12 DEF Next
<1>2. Inv /\ [Next]_vars => [Reuses]_vars
  BY <1>1
<1>. QED
  BY <1>2, InvHolds, PTL DEF Spec, ListingReuses

-----------------------------------------------------------------------------
(* Nothing is left behind. *)

\* Without these two mishaps only listed systems keep interfaces.
Listed ==
  /\ library \in live \cup {None}
  /\ seen \cap {"gone", "late"} = {} =>
       \A s \in Systems : ilist[s] # {} => s \in systemList

LEMMA ListedImpliesReleased == Inv /\ Listed => Released
<1>. SUFFICES ASSUME Inv, Listed, systemList = {}, app = {}, Unreferenced = {}
     PROVE  /\ \A o \in live : \E s \in Systems : ilist[s] # {} /\ o \in {s} \cup ilist[s]
            /\ seen \cap {"gone", "late"} = {} => live = {} /\ library = None
  BY DEF Released, Ready
<1>1. /\ Tree(live) /\ live \subseteq Objects
      /\ \A s \in Systems : \A i \in ilist[s] : i \in live /\ parent[i] = s
      /\ ilist \in [Systems -> SUBSET Interfaces]
  BY DEF Inv, Pointers, Tree
<1>2. \A o \in live : (\E s \in Systems : o \in ilist[s]) \/ \E x \in live : parent[x] = o
  BY <1>1 DEF Unreferenced, Held, Children
<1>3. \A d \in Devices : d \notin live
  BY <1>1, <1>2, ObjectsAssumption DEF Tree, Objects
<1>4. ASSUME NEW i \in live \cap Interfaces
      PROVE  \E s \in Systems : i \in ilist[s]
  BY <1>1, <1>2, <1>3, ObjectsAssumption DEF Tree, Objects
<1>5. ASSUME NEW s \in live \cap Systems
      PROVE  ilist[s] # {}
  <2>1. PICK x \in live : parent[x] = s
    BY <1>1, <1>2, ObjectsAssumption
  <2>2. x \in Interfaces
    BY <1>1, <1>3, <2>1, ObjectsAssumption DEF Tree, Objects
  <2>3. PICK z \in Systems : x \in ilist[z]
    BY <1>4, <2>2
  <2>. QED
    BY <1>1, <2>1, <2>3
<1>6. \A o \in live : \E s \in Systems : ilist[s] # {} /\ o \in {s} \cup ilist[s]
  BY <1>1, <1>3, <1>4, <1>5 DEF Objects
<1>7. ASSUME seen \cap {"gone", "late"} = {}
      PROVE  live = {} /\ library = None
  BY <1>6, <1>7 DEF Listed
<1>. QED
  BY <1>6, <1>7

LEMMA ListedHolds ==
  ASSUME Inv, Listed, [Next]_vars
  PROVE  Listed'
<1>1. ASSUME library' = library, live \subseteq live', ilist' = ilist,
             systemList' = systemList, seen \subseteq seen'
      PROVE  Listed'
  BY <1>1 DEF Listed
<1>2. ASSUME NEW s \in Systems, NEW all, InterfacesListed(s, all)
      PROVE  Listed'
  <2>1. /\ library' = library /\ live \subseteq live' /\ systemList' = systemList
        /\ seen \subseteq seen' /\ (s \notin systemList => "late" \in seen')
        /\ \A z \in Systems \ {s} : ilist'[z] = ilist[z]
    BY <1>2 DEF InterfacesListed, Mishap, Inv, Pointers
  <2>. QED
    BY <2>1 DEF Listed
<1>3. CASE GetSystems
  <2>1. CASE SystemsReused
    BY <1>1, <2>1 DEF SystemsReused, lists, objects, past
  <2>2. CASE SystemConstructed
    <3>1. /\ systemList = {} /\ ilist' = ilist /\ seen' = seen
          /\ \E s \in Systems : library' = s /\ live' = live \cup {s}
      BY <2>2 DEF SystemConstructed, past
    <3>. QED
      BY <3>1 DEF Listed
  <2>3. CASE NoSystems
    <3>1. /\ library' = library /\ live' = live /\ ilist' = ilist
          /\ systemList = {} \/ "gone" \in seen'
          /\ systemList = {} => systemList' = {} /\ seen' = seen
      BY <2>3 DEF NoSystems, Mishap, objects
    <3>. QED
      BY <3>1 DEF Listed
  <2>. QED
    BY <1>3, <2>1, <2>2, <2>3 DEF GetSystems
<1>4. CASE ClearDone
  <2>1. /\ library' = library /\ live' = live /\ seen' = seen
        /\ ilist' = [s \in Systems |-> IF s \in systemList THEN {} ELSE ilist[s]]
    BY <1>4 DEF ClearDone, objects, past
  <2>. QED
    BY <2>1 DEF Listed
<1>5. CASE ClearSystems \/ ClearInterface
  BY <1>1, <1>5 DEF ClearSystems, ClearInterface, lists, objects, past
<1>6. CASE \E s \in Systems : GetInterfaces(s) \/ AllDevices(s)
  BY <1>1, <1>2, <1>6 DEF GetInterfaces, InterfacesReused, AllDevices, lists, objects, past
<1>7. CASE OpenListed \/ OpenListedThrows \/ InterfacesReturned
  BY <1>1, <1>7 DEF OpenListed, OpenListedThrows, InterfacesReturned, Mishap, lists, objects, past
<1>8. CASE EnumerateAll
  <2>1. task.all \in Systems
    BY <1>8 DEF EnumerateAll, Inv, Loops
  <2>. QED
    BY <1>1, <1>2, <1>8, <2>1 DEF EnumerateAll, lists, objects, past
<1>9. CASE AllOpened \/ CollectThrows \/ Collected
  BY <1>1, <1>9 DEF AllOpened, CollectThrows, Collected, Mishap, lists, objects, past
<1>10. CASE CollectDevices
  BY <1>1, <1>10 DEF CollectDevices, Discovered, past
<1>11. CASE \E i \in Interfaces : GetDevices(i) \/ GetDevice(i)
  BY <1>1, <1>11 DEF GetDevices, GetDevice, Discovered, past
<1>12. CASE \E i \in Interfaces : GetHiddenDevice(i)
  BY <1>1, <1>12 DEF GetHiddenDevice, past
<1>13. CASE \E i \in Interfaces : GetDevicesThrows(i) \/ InterfaceLost(i)
  BY <1>1, <1>13 DEF GetDevicesThrows, InterfaceLost, Mishap, lists, objects, past
<1>14. CASE \E o \in Objects : Open(o) \/ Close(o) \/ GetParent(o) \/ Drop(o)
  BY <1>1, <1>14 DEF Open, Close, GetParent, Drop, lists, objects, past
<1>15. CASE Destroy
  <2>1. PICK o \in Unreferenced :
          /\ live' = live \ {o}
          /\ library' = IF o = library THEN None ELSE library
          /\ ilist' = [s \in Systems |-> IF s = o THEN {} ELSE ilist[s]]
    BY <1>15 DEF Destroy
  <2>2. systemList' = systemList /\ seen' = seen
    BY <1>15 DEF Destroy
  <2>. QED
    BY <2>1, <2>2 DEF Listed
<1>16. CASE UNCHANGED vars
  BY <1>1, <1>16 DEF vars, lists, objects, past
<1>. QED
  BY <1>3, <1>4, <1>5, <1>6, <1>7, <1>8, <1>9, <1>10, <1>11, <1>12, <1>13, <1>14, <1>15, <1>16
  DEF Next

\* After System::clearSystems() an application without pointers has left no
\* object and no initialised library behind, for any number of them, apart from
\* a system that was out of its reach and that system's interfaces.
THEOREM ReleasedHolds == Spec => []Released
<1>1. Init => Listed
  BY DEF Init, Listed
<1>2. Inv /\ Listed /\ [Next]_vars => Listed'
  BY ListedHolds
<1>. QED
  BY <1>1, <1>2, InvHolds, ListedImpliesReleased, PTL DEF Spec
=============================================================================
