---------------------------- MODULE LocksProofs ----------------------------
(***************************************************************************)
(* Proofs about the mutexes, for any threads and objects and any number of *)
(* calls: no deadlock, if what is in use stays listed; and whatever is     *)
(* listed, a handle that was checked is still open when it is used, and    *)
(* the opens add up.                                                       *)
(*                                                                         *)
(* What a thread will still do is in the instructions it has left, and     *)
(* these are as many as its calls are nested.  So the invariant gives      *)
(* every thread a view: what it holds, what it has opened and not yet      *)
(* handed on, and what it is destroying.  Every instruction has a meaning  *)
(* as a step from a view to another (Does), and the instructions left must *)
(* lead from the view of the thread to that of a call that has ended       *)
(* (Typed).  An instruction that is executed moves the thread on to the    *)
(* next view; a method that is called puts its instructions in front, and  *)
(* these must lead from the new view to the one the thread had.  Every     *)
(* thread also claims the objects above it that it may touch, which its    *)
(* shared pointers or the list of the system keep alive.                   *)
(***************************************************************************)
EXTENDS Locks, FiniteSetTheorems, SequenceTheorems, WellFoundedInduction, TLAPS

(***************************************************************************)
(* A set of natural numbers has a least element: the order of the numbers  *)
(* is well-founded, and a well-founded relation has minimal elements.      *)
(***************************************************************************)
LEMMA MinimalIsLeast ==
  ASSUME NEW R, IsWellFoundedOn(R, Nat),
         \A x \in Nat, y \in Nat : y < x => <<y, x>> \in R,
         NEW T, T \subseteq Nat, T # {}
  PROVE  \E x \in T : \A y \in T : x <= y
<1>1. PICK x \in T : \A y \in T : <<y, x>> \notin R
  BY WFMin, Zenon
<1>2. \A y \in T : ~(y < x)
  BY <1>1
<1>. QED
  BY <1>2

\* The order of the numbers, as a relation.
LEMMA SmallerIsRelated ==
  \A x \in Nat, y \in Nat : y < x => <<y, x>> \in OpToRel(<, Nat)
  BY Zenon DEF OpToRel

\* A set of numbers has a least one.
LEMMA LeastNumber ==
  ASSUME NEW T, T \subseteq Nat, T # {}
  PROVE  \E x \in T : \A y \in T : x <= y
  BY MinimalIsLeast, SmallerIsRelated, NatLessThanWellFounded, Zenon

\* How far an object is below the system: mutexes are locked upwards.
Level(o) == IF o = System THEN 0 ELSE IF o \in Interfaces THEN 1
            ELSE IF o \in Devices THEN 2 ELSE 3

\* The instructions.
Ops == {"lock", "unlock", "opening", "attach", "opened", "closing", "interfaces",
        "current", "enumerate", "return", "release", "destroy", "free", "start", "stop"}

\* What an exception passes, or executes because it is of a destructor.
Calm == {"unlock", "attach", "opened", "return", "release"}

\* The instructions that may be left.
Codes == Seq(Ops \X Objects)

\* What a thread has in the middle of a call:
\*   held    how often it has locked each mutex,
\*   credit  an object it has opened, which no other object or call accounts for,
\*   first   objects it is opening for the first time,
\*   opens   the object its call of open() will have opened,
\*   dying   the object it is destroying, and shut: that is closed already,
\*   calm    whether only instructions that cannot fail but in attach are left,
\*   listed  whether the next instruction returns a list,
\*   local   whether local variables with shared pointers will be released,
\*   new     whether the list of interfaces is of a new, closed interface,
\*   asked   whether it has checked that an object it lists is open.
Views == [held : [Objects -> Nat], credit : Objects \cup {None}, first : SUBSET Objects,
          opens : Objects \cup {None}, dying : Objects \cup {None}, shut : BOOLEAN,
          calm : BOOLEAN, listed : BOOLEAN, local : BOOLEAN, new : BOOLEAN,
          asked : BOOLEAN]

\* An object that the thread with claims m and view v may touch.
Near(m, v, o) ==
  \/ o = System \/ o \in m \/ o = v.dying
  \/ \E s \in Streams : (s \in m \/ s = v.dying) /\ o = Parent[s]

\* No mutex is locked.
Nothing(v) == \A q \in Objects : v.held[q] = 0

\* All mutexes locked are of objects below o, but for that of the system, which
\* lists the interfaces it has just created.
Above(v, o) ==
  \A q \in Objects : v.held[q] > 0 =>
     Level(q) > Level(o) \/ (q = System /\ (o = System \/ (o \in Interfaces /\ v.new)))

\* The same when the mutex of o is locked.
AtLeast(v, o) ==
  \A q \in Objects : v.held[q] > 0 =>
     Level(q) >= Level(o) \/ (q = System /\ o \in Interfaces)

\* The order is kept unless what is in use can be missing in a listing.
Ordered(A) == Vanish = "no" => A

\* The credit goes to o, or to the list of interfaces.
Credited(v, o, w) ==
  w.credit = o \/ (w.credit = None /\ o \in Interfaces /\ v.held[System] > 0)

SameOpens(v, w) == w.credit = v.credit /\ w.first = v.first /\ w.opens = v.opens
SameDying(v, w) == w.dying = v.dying /\ w.shut = v.shut
SameLists(v, w) == w.listed = v.listed /\ w.local = v.local
SameRest(v, w) == w.held = v.held /\ SameDying(v, w) /\ SameLists(v, w)

\* What each instruction does to the view v, which becomes w.
DoesLock(v, o, w) ==
  /\ Ordered(Above(v, o))
  /\ w.held = [v.held EXCEPT ![o] = @ + 1]
  /\ SameOpens(v, w) /\ SameDying(v, w) /\ SameLists(v, w)

DoesUnlock(v, o, w) ==
  /\ v.held[o] > 0
  /\ w.held = [v.held EXCEPT ![o] = @ - 1] /\ (o \in v.first => w.held[o] > 0)
  /\ SameOpens(v, w) /\ SameDying(v, w) /\ SameLists(v, w)

DoesOpening(v, o, w) ==
  /\ o \notin Streams /\ v.held[o] > 0 /\ v.credit = None /\ v.dying = None
  /\ Ordered(AtLeast(v, o)) /\ (o # System /\ v.held[System] > 0 => v.new)
  /\ \A q \in v.first : Level(q) > Level(o)
  /\ Credited(v, o, w) /\ w.first = v.first /\ w.opens = v.opens
  /\ w.calm /\ SameRest(v, w)

DoesAttach(v, o, w) ==
  /\ o \notin Streams /\ v.held[o] > 0 /\ v.dying = None
  /\ o \in v.first /\ v.credit = (IF o = System THEN None ELSE Parent[o])
  /\ Ordered(AtLeast(v, o))
  /\ Credited(v, o, w) /\ w.first = v.first \ {o} /\ w.opens = v.opens
  /\ w.calm /\ SameRest(v, w)

DoesOpened(v, o, w) ==
  /\ v.credit = o /\ v.opens = o
  /\ w.credit = None /\ w.first = v.first /\ w.opens = None /\ SameRest(v, w)

DoesClosing(v, o, w) ==
  /\ o \notin Streams /\ v.held[o] > 0 /\ v.credit = o /\ v.first = {}
  /\ Ordered(\A q \in Objects : v.held[q] > 0 => Level(q) >= Level(o))
  /\ w.credit = None /\ w.first = v.first /\ w.opens = v.opens /\ SameRest(v, w)

DoesInterfaces(v, o, w) ==
  /\ o = System /\ v.held[o] > 0 /\ v.credit = None /\ v.dying = None
  /\ v.first = {} /\ ~v.local /\ w.calm
  /\ Ordered(\A q \in Objects : v.held[q] > 0 => q = System)
  /\ w.held = v.held /\ w.listed = v.listed /\ w.local = TRUE
  /\ SameOpens(v, w) /\ SameDying(v, w)

DoesList(v, o, w) ==
  /\ o \in Interfaces \cup Devices /\ v.held[o] > 0 /\ v.credit = None
  /\ v.dying = None /\ w.calm
  /\ w.held = v.held /\ w.listed = TRUE /\ w.local = TRUE
  /\ SameOpens(v, w) /\ SameDying(v, w)

DoesReturn(v, w) ==
  /\ w.held = v.held /\ w.listed = FALSE /\ w.local = v.local
  /\ SameOpens(v, w) /\ SameDying(v, w)

DoesRelease(v, w) ==
  /\ v.credit = None /\ v.first = {} /\ v.dying = None /\ v.local
  /\ w.held = v.held /\ w.listed = v.listed /\ w.local = FALSE
  /\ SameOpens(v, w) /\ SameDying(v, w)

DoesDestroy(v, o, w) ==
  /\ v.dying = o /\ v.credit = None /\ v.first = {} /\ Ordered(Nothing(v))
  /\ w.dying = None /\ SameOpens(v, w) /\ SameLists(v, w)
  /\ w.held = v.held

\* The instruction i leads from view v to view w.
Does(m, i, v, w) ==
  LET op == i[1]
      o == i[2]
  IN
  /\ Near(m, v, o)
  /\ v.calm => w.calm /\ op \in Calm
  /\ v.listed => op = "return"
  /\ w.new = (op = "lock" /\ v.new) /\ w.asked = FALSE
  /\ \/ op = "lock" /\ DoesLock(v, o, w)
     \/ op = "unlock" /\ DoesUnlock(v, o, w)
     \/ op = "opening" /\ DoesOpening(v, o, w)
     \/ op = "attach" /\ DoesAttach(v, o, w)
     \/ op = "opened" /\ DoesOpened(v, o, w)
     \/ op = "closing" /\ DoesClosing(v, o, w)
     \/ op = "interfaces" /\ DoesInterfaces(v, o, w)
     \/ op = "current" /\ ~v.local /\ DoesList(v, o, w)
     \/ op = "enumerate" /\ v.local /\ v.asked /\ DoesList(v, o, w)
     \/ op = "return" /\ DoesReturn(v, w)
     \/ op = "release" /\ DoesRelease(v, w)
     \/ op = "destroy" /\ o \in Devices \cup Streams /\ ~v.shut /\ DoesDestroy(v, o, w)
     \/ op = "free" /\ (o \notin Streams => v.shut) /\ DoesDestroy(v, o, w)
     \/ op \in {"start", "stop"} /\ o \in Streams /\ SameOpens(v, w) /\ SameRest(v, w)

\* The view of a thread whose call has ended.
AtEnd(v) == Nothing(v) /\ v.credit = None /\ v.dying = None /\ ~v.listed /\ ~v.local /\ ~v.new

\* The instructions lead from the view v to that of a call that has ended.
Typed(m, code, v) ==
  \E f \in [1..(Len(code) + 1) -> Views] :
     /\ f[1] = v
     /\ \A k \in 1..Len(code) : Does(m, code[k], f[k], f[k + 1])
     /\ AtEnd(f[Len(code) + 1])

\* The first instruction leads to a view that the others start from.
LEMMA TypedStep ==
  ASSUME NEW m, NEW code \in Codes, NEW v, Typed(m, code, v), code # <<>>
  PROVE  \E w \in Views : Does(m, code[1], v, w) /\ Typed(m, Tail(code), w)
<1>1. PICK f \in [1..(Len(code) + 1) -> Views] :
         /\ f[1] = v
         /\ \A k \in 1..Len(code) : Does(m, code[k], f[k], f[k + 1])
         /\ AtEnd(f[Len(code) + 1])
  BY DEF Typed
<1>2. /\ Len(code) \in Nat /\ Len(code) > 0
      /\ Tail(code) \in Codes /\ Len(Tail(code)) = Len(code) - 1
      /\ \A k \in 1..Len(Tail(code)) : Tail(code)[k] = code[k + 1]
  BY DEF Codes
<1>. DEFINE g == [k \in 1..Len(code) |-> f[k + 1]]
<1>3. g \in [1..(Len(Tail(code)) + 1) -> Views]
  BY <1>1, <1>2
<1>4. \A k \in 1..Len(Tail(code)) : Does(m, Tail(code)[k], g[k], g[k + 1])
  <2>. SUFFICES ASSUME NEW k \in 1..Len(Tail(code))
                PROVE  Does(m, Tail(code)[k], g[k], g[k + 1])
    OBVIOUS
  <2>1. k + 1 \in 1..Len(code) /\ g[k] = f[k + 1] /\ g[k + 1] = f[(k + 1) + 1]
    BY <1>2
  <2>2. Does(m, code[k + 1], f[k + 1], f[(k + 1) + 1])
    BY <1>1, <2>1
  <2>3. Tail(code)[k] = code[k + 1]
    BY <1>2
  <2>. QED
    BY <2>1, <2>2, <2>3
<1>5. g[1] = f[2] /\ g[Len(Tail(code)) + 1] = f[Len(code) + 1] /\ f[2] \in Views
  BY <1>1, <1>2
<1>6. Does(m, code[1], v, f[2])
  <2>1. 1 \in 1..Len(code) /\ 1 + 1 = 2
    BY <1>2
  <2>. QED
    BY <1>1, <2>1
<1>. HIDE DEF g
<1>7. Typed(m, Tail(code), f[2])
  BY <1>1, <1>3, <1>4, <1>5 DEF Typed
<1>. QED
  BY <1>5, <1>6, <1>7

\* An instruction in front of others.
LEMMA TypedCons ==
  ASSUME NEW m, NEW code \in Codes, NEW v \in Views, NEW w, Typed(m, code, w),
         NEW op \in Ops, NEW o \in Objects, Does(m, <<op, o>>, v, w)
  PROVE  I(op, o) \o code \in Codes /\ Typed(m, I(op, o) \o code, v)
<1>1. PICK f \in [1..(Len(code) + 1) -> Views] :
         /\ f[1] = w
         /\ \A k \in 1..Len(code) : Does(m, code[k], f[k], f[k + 1])
         /\ AtEnd(f[Len(code) + 1])
  BY DEF Typed
<1>. DEFINE new == I(op, o) \o code
<1>2. /\ Len(code) \in Nat /\ new \in Codes /\ Len(new) = Len(code) + 1
      /\ new[1] = <<op, o>> /\ \A k \in 2..Len(new) : new[k] = code[k - 1]
  BY DEF Codes, I
<1>. DEFINE g == [k \in 1..(Len(code) + 2) |-> IF k = 1 THEN v ELSE f[k - 1]]
<1>. HIDE DEF new
<1>3. g \in [1..(Len(new) + 1) -> Views] /\ g[1] = v
  BY <1>1, <1>2
<1>4. \A k \in 1..Len(new) : Does(m, new[k], g[k], g[k + 1])
  <2>. SUFFICES ASSUME NEW k \in 1..Len(new)
                PROVE  Does(m, new[k], g[k], g[k + 1])
    OBVIOUS
  <2>1. CASE k = 1
    <3>1. g[1] = v /\ g[1 + 1] = w
      BY <1>1, <1>2
    <3>. QED
      BY <1>2, <2>1, <3>1
  <2>2. CASE k > 1
    <3>1. k - 1 \in 1..Len(code) /\ g[k] = f[k - 1] /\ g[k + 1] = f[(k - 1) + 1]
      BY <1>2, <2>2
    <3>2. Does(m, code[k - 1], f[k - 1], f[(k - 1) + 1])
      BY <1>1, <3>1
    <3>3. new[k] = code[k - 1]
      BY <1>2, <2>2
    <3>. QED
      BY <3>1, <3>2, <3>3
  <2>. QED
    BY <1>2, <2>1, <2>2
<1>5. AtEnd(g[Len(new) + 1])
  <2>1. g[Len(new) + 1] = f[Len(code) + 1]
    BY <1>2
  <2>. QED
    BY <1>1, <2>1
<1>6. Typed(m, new, v)
  <2>. HIDE DEF g
  <2>. QED
    BY <1>3, <1>4, <1>5 DEF Typed
<1>. QED
  BY <1>2, <1>6 DEF new

\* Without instructions the call has ended.
LEMMA TypedEmpty ==
  ASSUME NEW m, NEW v \in Views
  PROVE  Typed(m, <<>>, v) <=> AtEnd(v)
<1>1. ASSUME AtEnd(v) PROVE Typed(m, <<>>, v)
  <2>. DEFINE f == [k \in 1..1 |-> v]
  <2>1. Len(<<>>) + 1 = 1 /\ f \in [1..1 -> Views] /\ f[1] = v /\ 1..0 = {}
    OBVIOUS
  <2>. HIDE DEF f
  <2>. QED
    BY <1>1, <2>1 DEF Typed
<1>2. ASSUME Typed(m, <<>>, v) PROVE AtEnd(v)
  BY <1>2 DEF Typed
<1>. QED
  BY <1>1, <1>2

\* A thread that claims more may do as much.
LEMMA DoesMore ==
  ASSUME NEW m, NEW n, m \subseteq n, NEW i, NEW v, NEW w, Does(m, i, v, w)
  PROVE  Does(n, i, v, w)
<1>1. Near(m, v, i[2]) => Near(n, v, i[2])
  BY DEF Near
<1>. QED
  BY <1>1 DEF Does

\* The same, of all instructions.
LEMMA TypedMore ==
  ASSUME NEW m, NEW n, m \subseteq n, NEW code, NEW v, Typed(m, code, v)
  PROVE  Typed(n, code, v)
BY DoesMore DEF Typed

-----------------------------------------------------------------------------
\* The function in Only, on its last n + 1 arguments.
LeftFrom(ops, code, n, f) ==
  f = [k \in (Len(code) + 1 - n)..(Len(code) + 1) |->
        IF k > Len(code) THEN <<>>
        ELSE IF code[k][1] \in ops THEN <<code[k]>> \o f[k + 1]
        ELSE f[k + 1]]

\* Only is defined: the recursive function in it exists.
LEMMA LeftExists ==
  ASSUME NEW ops, NEW code \in Codes
  PROVE  \A n \in 0..Len(code) : \E f : LeftFrom(ops, code, n, f)
<1>. DEFINE L == Len(code)
            T == {n \in 0..L : ~\E f : LeftFrom(ops, code, n, f)}
<1>1. SUFFICES ASSUME T # {} PROVE FALSE
  OBVIOUS
<1>2. L \in Nat
  BY DEF Codes
<1>3. PICK n \in T : \A m \in T : n <= m
  <2>1. T \subseteq Nat
    BY <1>2
  <2>2. \E x \in T : \A y \in T : x <= y
    BY <1>1, <2>1, LeastNumber
  <2>. QED
    BY <2>2
<1>4. n \in 0..L /\ ~\E f : LeftFrom(ops, code, n, f)
  BY <1>3
<1>5. CASE n = 0
  <2>1. LeftFrom(ops, code, 0, [k \in (L + 1)..(L + 1) |-> <<>>])
    BY <1>2 DEF LeftFrom
  <2>. QED
    BY <1>4, <1>5, <2>1
<1>6. CASE n > 0
  <2>1. n - 1 \in 0..L /\ n - 1 \notin T
    BY <1>2, <1>3, <1>4, <1>6
  <2>2. PICK f : LeftFrom(ops, code, n - 1, f)
    BY <2>1
  <2>. DEFINE b == L + 1 - n
              g == [k \in b..(L + 1) |->
                     IF k > b THEN f[k]
                     ELSE IF code[b][1] \in ops THEN <<code[b]>> \o f[b + 1]
                     ELSE f[b + 1]]
  <2>3. b \in 1..L /\ L + 1 - (n - 1) = b + 1 /\ b + 1 \in 2..(L + 1)
    BY <1>2, <1>4, <1>6
  <2>4. ASSUME NEW k \in b..(L + 1)
        PROVE  g[k] = IF k > L THEN <<>>
                      ELSE IF code[k][1] \in ops THEN <<code[k]>> \o g[k + 1]
                      ELSE g[k + 1]
    <3>1. CASE k > b
      <4>1. k \in (b + 1)..(L + 1) /\ g[k] = f[k]
        BY <1>2, <2>3, <3>1
      <4>2. k <= L => g[k + 1] = f[k + 1]
        BY <1>2, <2>3, <3>1
      <4>3. f[k] = IF k > L THEN <<>>
                   ELSE IF code[k][1] \in ops THEN <<code[k]>> \o f[k + 1]
                   ELSE f[k + 1]
        BY <2>2, <2>3, <4>1 DEF LeftFrom
      <4>. QED
        BY <1>2, <4>1, <4>2, <4>3
    <3>2. CASE k = b
      <4>1. g[b + 1] = f[b + 1] /\ ~(b > L)
        BY <1>2, <2>3
      <4>. QED
        BY <2>3, <3>2, <4>1
    <3>. QED
      BY <1>2, <2>3, <3>1, <3>2
  <2>5. LeftFrom(ops, code, n, g)
    BY <2>4 DEF LeftFrom
  <2>. QED
    BY <2>5, <1>4
<1>. QED
  BY <1>4, <1>5, <1>6

\* The claims of a call that an exception ends.
Bare(v) == [held |-> v.held, credit |-> None, first |-> {}, opens |-> None,
            dying |-> v.dying, shut |-> v.shut, calm |-> v.calm,
            listed |-> FALSE, local |-> v.local, new |-> FALSE,
            asked |-> FALSE]

\* What an exception does not skip leads between bare views.
LEMMA BareSteps ==
  ASSUME NEW m, NEW i \in Ops \X Objects, NEW v \in Views, NEW w \in Views,
         Does(m, i, v, w), v.calm
  PROVE  /\ w.calm
         /\ i[1] \in {"unlock", "release"} => Does(m, i, Bare(v), Bare(w))
         /\ i[1] \notin {"unlock", "release"} => Bare(v) = Bare(w)
<1>. DEFINE op == i[1]
            o == i[2]
<1>1. w.calm /\ op \in Calm /\ v.calm = TRUE /\ w.calm = TRUE /\ Near(m, v, o)
  BY DEF Does, Views
<1>2. Near(m, Bare(v), o)
  BY <1>1 DEF Near, Bare
<1>3. CASE op = "unlock"
  <2>1. DoesUnlock(v, o, w)
    BY <1>3 DEF Does
  <2>2. DoesUnlock(Bare(v), o, Bare(w))
    BY <2>1 DEF DoesUnlock, Bare, SameOpens, SameDying, SameLists
  <2>. QED
    BY <1>1, <1>2, <1>3, <2>2 DEF Does, Bare
<1>4. CASE op = "release"
  <2>1. DoesRelease(v, w)
    BY <1>4 DEF Does
  <2>2. DoesRelease(Bare(v), Bare(w))
    BY <2>1 DEF DoesRelease, Bare, SameOpens, SameDying, SameLists
  <2>. QED
    BY <1>1, <1>2, <1>4, <2>2 DEF Does, Bare
<1>5. CASE op \in {"attach", "opened", "return"}
  <2>1. w.held = v.held /\ w.dying = v.dying /\ w.shut = v.shut /\ w.local = v.local
    BY <1>5 DEF Does, DoesAttach, DoesOpened, DoesReturn, SameRest, SameDying, SameLists
  <2>. QED
    BY <1>1, <1>5, <2>1 DEF Bare
<1>. QED
  BY <1>1, <1>3, <1>4, <1>5 DEF Calm

\* What an exception skips changes no bare view.
LEMMA SkippedSteps ==
  ASSUME NEW m, NEW i \in Ops \X Objects, NEW v \in Views, NEW w \in Views,
         Does(m, i, v, w), v.calm, i[1] \notin {"unlock", "release"}
  PROVE  Bare(v) = Bare(w)
BY BareSteps

\* What an exception leaves of the instructions leads from the bare view.
LEMMA TypedUnwind ==
  ASSUME NEW m, NEW code \in Codes, NEW v \in Views, Typed(m, code, v), v.calm
  PROVE  Unwind(code) \in Codes /\ Typed(m, Unwind(code), Bare(v))
<1>. DEFINE L == Len(code)
            ops == {"unlock", "release"}
<1>1. PICK g \in [1..(L + 1) -> Views] :
         /\ g[1] = v
         /\ \A k \in 1..L : Does(m, code[k], g[k], g[k + 1])
         /\ AtEnd(g[L + 1])
  BY DEF Typed
<1>2. L \in Nat /\ \A k \in 1..L : code[k] \in Ops \X Objects
  BY DEF Codes
<1>. DEFINE Left(f) == f = [k \in 1..(L + 1) |->
                             IF k > L THEN <<>>
                             ELSE IF code[k][1] \in ops THEN <<code[k]>> \o f[k + 1]
                             ELSE f[k + 1]]
            f == CHOOSE h : Left(h)
<1>3. Left(f)
  <2>1. L \in 0..L /\ L + 1 - L = 1
    BY <1>2
  <2>2. \E h : LeftFrom(ops, code, L, h)
    BY <2>1, LeftExists
  <2>3. \E h : Left(h)
    BY <2>1, <2>2 DEF LeftFrom
  <2>. QED
    BY <2>3
<1>4. Unwind(code) = f[1]
  BY DEF Unwind, Only
<1>. DEFINE Good(k) == g[k].calm /\ f[k] \in Codes /\ Typed(m, f[k], Bare(g[k]))
<1>5. \A k \in 1..(L + 1) : g[k].calm
  <2>. DEFINE T == {k \in 1..(L + 1) : ~g[k].calm}
  <2>1. SUFFICES ASSUME T # {} PROVE FALSE
    OBVIOUS
  <2>2. PICK k \in T : \A j \in T : k <= j
    <3>1. T \subseteq Nat
      BY <1>2
    <3>2. \E x \in T : \A y \in T : x <= y
      BY <2>1, <3>1, LeastNumber
    <3>. QED
      BY <3>2
  <2>3. k # 1
    BY <1>1, <2>2
  <2>4. k - 1 \in 1..L /\ k - 1 \notin T /\ (k - 1) + 1 = k
    BY <1>2, <2>2, <2>3
  <2>5. g[k - 1].calm /\ g[k - 1] \in Views /\ g[k] \in Views /\ Does(m, code[k - 1], g[k - 1], g[k])
    BY <1>1, <1>2, <2>4, <2>2
  <2>. QED
    BY <2>2, <2>5 DEF Does
<1>6. Good(L + 1)
  <2>1. L + 1 \in 1..(L + 1) /\ <<>> \in Codes /\ g[L + 1] \in Views /\ L + 1 > L
    BY <1>1, <1>2 DEF Codes
  <2>3. f[L + 1] = <<>>
    BY <1>3, <2>1
  <2>2. Bare(g[L + 1]) \in Views /\ AtEnd(Bare(g[L + 1]))
    BY <1>1, <2>1 DEF AtEnd, Bare, Views, Nothing
  <2>. QED
    BY <1>5, <2>1, <2>2, <2>3, TypedEmpty
<1>7. ASSUME NEW k \in 1..L, Good(k + 1) PROVE Good(k)
  <2>1. k \in 1..(L + 1) /\ k + 1 \in 1..(L + 1) /\ ~(k > L)
    BY <1>2
  <2>2. /\ Does(m, code[k], g[k], g[k + 1]) /\ g[k].calm /\ g[k + 1].calm
        /\ g[k] \in Views /\ g[k + 1] \in Views /\ code[k] \in Ops \X Objects
    BY <1>1, <1>2, <1>5, <2>1
  <2>3. Bare(g[k]) \in Views /\ Bare(g[k + 1]) \in Views
    BY <2>2 DEF Bare, Views
  <2>4. f[k] = IF code[k][1] \in ops THEN <<code[k]>> \o f[k + 1] ELSE f[k + 1]
    BY <1>3, <2>1
  <2>5. CASE code[k][1] \in ops
    <3>1. Does(m, code[k], Bare(g[k]), Bare(g[k + 1]))
      BY <2>2, <2>5, BareSteps
    <3>2. PICK op \in Ops, o \in Objects : code[k] = <<op, o>>
      BY <2>2
    <3>3. f[k] = I(op, o) \o f[k + 1]
      BY <2>4, <2>5, <3>2 DEF I
    <3>. HIDE DEF f
    <3>. QED
      BY <1>7, <2>2, <2>3, <3>1, <3>2, <3>3, TypedCons
  <2>6. CASE code[k][1] \notin ops
    <3>1. Bare(g[k]) = Bare(g[k + 1])
      <4>1. /\ code[k] \in Ops \X Objects /\ g[k] \in Views /\ g[k + 1] \in Views
            /\ Does(m, code[k], g[k], g[k + 1]) /\ g[k].calm
            /\ code[k][1] \notin {"unlock", "release"}
        BY <2>2, <2>6
      <4>. HIDE DEF f, ops
      <4>. QED
        BY <4>1, SkippedSteps
    <3>. QED
      BY <1>7, <2>2, <2>4, <2>6, <3>1
  <2>. QED
    BY <2>5, <2>6
<1>. HIDE DEF Good
<1>8. Good(1)
  <2>. DEFINE T == {n \in 0..L : ~Good(L + 1 - n)}
  <2>1. T = {}
    <3>1. SUFFICES ASSUME T # {} PROVE FALSE
      OBVIOUS
    <3>2. PICK n \in T : \A j \in T : n <= j
      <4>1. T \subseteq Nat
        BY <1>2
      <4>2. \E x \in T : \A y \in T : x <= y
        BY <3>1, <4>1, LeastNumber
      <4>. QED
        BY <4>2
    <3>3. n # 0
      BY <1>2, <1>6, <3>2
    <3>4. n \in 0..L /\ ~Good(L + 1 - n) /\ n - 1 \in 0..L /\ L + 1 - n \in 1..L
          /\ L + 1 - (n - 1) = (L + 1 - n) + 1 /\ ~(n <= n - 1)
      BY <1>2, <3>2, <3>3
    <3>5. Good((L + 1 - n) + 1)
      <4>1. n - 1 \notin T
        BY <3>2, <3>4
      <4>2. Good(L + 1 - (n - 1))
        BY <3>4, <4>1
      <4>. QED
        BY <3>4, <4>2
    <3>6. Good(L + 1 - n)
      BY <1>7, <3>4, <3>5
    <3>. QED
      BY <3>4, <3>6
  <2>2. L \in 0..L /\ L + 1 - L = 1
    BY <1>2
  <2>. QED
    BY <2>1, <2>2
<1>. QED
  BY <1>1, <1>4, <1>8 DEF Good

\* Nothing special comes before the next instruction.
Plain(w) == ~w.new /\ ~w.asked /\ ~w.listed

-----------------------------------------------------------------------------
(* The methods' instructions. *)

\* A single instruction.
LEMMA InstructionCodes ==
  ASSUME NEW op \in Ops, NEW o \in Objects
  PROVE  /\ I(op, o) \in Codes /\ I(op, o) # <<>> /\ I(op, o)[1] = <<op, o>>
         /\ Tail(I(op, o)) = <<>>
BY DEF I, Codes

\* Concatenation, of instructions.
LEMMA Assoc ==
  ASSUME NEW a \in Codes, NEW b \in Codes, NEW c \in Codes
  PROVE  (a \o b) \o c = a \o (b \o c)
BY ConcatAssociative DEF Codes

\* Concatenation, of instructions.
LEMMA CodesConcat ==
  ASSUME NEW a \in Codes, NEW b \in Codes
  PROVE  a \o b \in Codes
BY DEF Codes

\* The first of several instructions.
LEMMA HeadOfConcat ==
  ASSUME NEW op \in Ops, NEW o \in Objects, NEW code \in Codes
  PROVE  /\ I(op, o) \o code # <<>>
         /\ (I(op, o) \o code)[1] = <<op, o>>
         /\ Tail(I(op, o) \o code) = code
<1>1. I(op, o) = <<<<op, o>>>> /\ code \in Seq(Ops \X Objects)
      /\ <<op, o>> \in Ops \X Objects
  BY DEF I, Codes
<1>. QED
  BY <1>1

\* A method of one instruction between lock and unlock, in front of others.
LEMMA Bracket ==
  ASSUME NEW op \in Ops, NEW o \in Objects, NEW code \in Codes
  PROVE  ((I("lock", o) \o I(op, o)) \o I("unlock", o)) \o code
           = I("lock", o) \o (I(op, o) \o (I("unlock", o) \o code))
<1>1. "lock" \in Ops /\ "unlock" \in Ops
  BY DEF Ops
<1>2. I("lock", o) \in Codes /\ I(op, o) \in Codes /\ I("unlock", o) \in Codes
  BY <1>1, InstructionCodes
<1>3. /\ I("lock", o) \o I(op, o) \in Codes /\ I("unlock", o) \o code \in Codes
  BY <1>2, CodesConcat
<1>4. ((I("lock", o) \o I(op, o)) \o I("unlock", o)) \o code
        = (I("lock", o) \o I(op, o)) \o (I("unlock", o) \o code)
  BY <1>2, <1>3, Assoc
<1>. DEFINE a == I("lock", o)
            b == I(op, o)
            c == I("unlock", o) \o code
<1>5. (a \o b) \o c = a \o (b \o c)
  <2>1. a \in Codes /\ b \in Codes /\ c \in Codes
    BY <1>2, <1>3
  <2>. HIDE DEF a, b, c
  <2>. QED
    BY <2>1, Assoc
<1>. QED
  BY <1>4, <1>5

\* The view w without what it says of the instructions before it, and the
\* same with the mutex of o locked once more.
Loose(w) == [w EXCEPT !.calm = FALSE, !.asked = FALSE]
Within(w, o) == [w EXCEPT !.held = [w.held EXCEPT ![o] = @ + 1], !.calm = FALSE, !.asked = FALSE]

\* What these views are.
LEMMA WithinViews ==
  ASSUME NEW w \in Views, NEW o \in Objects
  PROVE  /\ Loose(w) \in Views /\ Loose(w).calm = FALSE
         /\ Loose(w).held = w.held /\ Loose(w).new = w.new /\ Loose(w).asked = FALSE
         /\ SameOpens(Loose(w), w) /\ SameDying(Loose(w), w) /\ SameLists(Loose(w), w)
         /\ Within(w, o) \in Views /\ Within(w, o).calm = FALSE
         /\ Within(w, o).held = [w.held EXCEPT ![o] = @ + 1] /\ Within(w, o).new = w.new /\ Within(w, o).asked = FALSE
         /\ SameOpens(Within(w, o), w) /\ SameDying(Within(w, o), w) /\ SameLists(Within(w, o), w)
         /\ w.held \in [Objects -> Nat]
<1>1. /\ Loose(w) \in Views /\ Loose(w).calm = FALSE
      /\ Loose(w).held = w.held /\ Loose(w).new = w.new /\ Loose(w).asked = FALSE
  BY DEF Views, Loose
<1>2. SameOpens(Loose(w), w) /\ SameDying(Loose(w), w) /\ SameLists(Loose(w), w)
  BY DEF Views, Loose, SameOpens, SameDying, SameLists
<1>. DEFINE h == [w.held EXCEPT ![o] = @ + 1]
<1>3. h \in [Objects -> Nat] /\ w.held \in [Objects -> Nat]
  BY DEF Views
<1>. HIDE DEF h
<1>4. Within(w, o) = [w EXCEPT !.held = h, !.calm = FALSE, !.asked = FALSE]
  BY DEF Within, h
<1>5. /\ Within(w, o) \in Views /\ Within(w, o).calm = FALSE
      /\ Within(w, o).held = h /\ Within(w, o).new = w.new /\ Within(w, o).asked = FALSE
  BY <1>3, <1>4 DEF Views
<1>6. SameOpens(Within(w, o), w) /\ SameDying(Within(w, o), w) /\ SameLists(Within(w, o), w)
  BY <1>4 DEF Views, SameOpens, SameDying, SameLists
<1>. QED
  BY <1>1, <1>2, <1>3, <1>5, <1>6 DEF h

\* What is near depends on the claims and on what is dying.
LEMMA NearSame ==
  ASSUME NEW m, NEW v, NEW w, NEW o, w.dying = v.dying
  PROVE  Near(m, v, o) <=> Near(m, w, o)
BY DEF Near

\* The end of a method, in front of instructions that start from w.
LEMMA TypedUnlock ==
  ASSUME NEW m, NEW code \in Codes, NEW w \in Views, Typed(m, code, w),
         NEW o \in Objects, Plain(w), Near(m, w, o), o \in w.first => w.held[o] > 0
  PROVE  Typed(m, I("unlock", o) \o code, Within(w, o))
<1>. DEFINE v == Within(w, o)
<1>1. /\ v \in Views /\ v.calm = FALSE /\ v.asked = FALSE /\ v.new = w.new /\ w.held \in [Objects -> Nat]
      /\ v.held = [w.held EXCEPT ![o] = @ + 1]
      /\ SameOpens(v, w) /\ SameDying(v, w) /\ SameLists(v, w)
  BY WithinViews
<1>. HIDE DEF v
<1>2. v.held[o] > 0 /\ w.held = [v.held EXCEPT ![o] = @ - 1] /\ (o \in v.first => w.held[o] > 0)
  BY <1>1 DEF SameOpens
<1>3. Near(m, v, o) /\ ~v.listed
  BY <1>1, NearSame DEF Plain, SameDying, SameLists
<1>4. Does(m, <<"unlock", o>>, v, w)
  BY <1>1, <1>2, <1>3 DEF Does, DoesUnlock, Views
<1>. QED
  BY <1>1, <1>4, TypedCons DEF Ops, v

\* Device::getRemoteNodeMap, in front of others.
LEMMA TypedNodeMap ==
  ASSUME NEW m, NEW code \in Codes, NEW w \in Views, Typed(m, code, w),
         NEW o \in Objects, Plain(w), Near(m, w, o), w.first = {}, Ordered(Above(w, o))
  PROVE  /\ NodeMap(o) \o code \in Codes
         /\ NodeMap(o) \o code # <<>>
         /\ Typed(m, NodeMap(o) \o code, Loose(w))
<1>. DEFINE v == Loose(w)
            a == Within(w, o)
<1>1. /\ v \in Views /\ v.calm = FALSE /\ v.asked = FALSE /\ v.new = w.new /\ v.held = w.held
      /\ SameOpens(v, w) /\ SameDying(v, w) /\ SameLists(v, w)
      /\ a \in Views /\ a.calm = FALSE /\ a.asked = FALSE /\ a.new = w.new /\ a.held = [w.held EXCEPT ![o] = @ + 1]
      /\ SameOpens(a, w) /\ SameDying(a, w) /\ SameLists(a, w)
  BY WithinViews
<1>2. Typed(m, I("unlock", o) \o code, a) /\ I("unlock", o) \o code \in Codes
  BY TypedUnlock, CodesConcat, InstructionCodes DEF Ops
<1>. HIDE DEF v, a
<1>3. Near(m, v, o) /\ ~v.listed /\ Ordered(Above(v, o))
  BY <1>1, NearSame DEF Plain, SameDying, SameLists, Ordered, Above
<1>4. Does(m, <<"lock", o>>, v, a)
  BY <1>1, <1>3 DEF Does, DoesLock, SameOpens, SameDying, SameLists, Views
<1>5. Typed(m, I("lock", o) \o (I("unlock", o) \o code), v)
      /\ I("lock", o) \o (I("unlock", o) \o code) \in Codes
  BY <1>1, <1>2, <1>4, TypedCons DEF Ops
<1>6. NodeMap(o) \o code = I("lock", o) \o (I("unlock", o) \o code)
  <2>1. I("lock", o) \in Codes /\ I("unlock", o) \in Codes
    BY InstructionCodes DEF Ops
  <2>. QED
    BY <2>1, Assoc DEF NodeMap
<1>7. I("lock", o) \o (I("unlock", o) \o code) # <<>>
  BY <1>2, HeadOfConcat DEF Ops
<1>. QED
  BY <1>5, <1>6, <1>7 DEF v

\* close(), in front of others, uses up a credit.
LEMMA TypedClose ==
  ASSUME NEW m, NEW code \in Codes, NEW w \in Views, Typed(m, code, w),
         NEW o \in Objects, o \notin Streams, Plain(w), Near(m, w, o),
         w.credit = None, w.first = {}, Ordered(Above(w, o)),
         NEW v \in Views, v.held = w.held, v.credit = o, v.first = w.first,
         v.opens = w.opens, SameDying(v, w), SameLists(v, w), ~v.calm, v.new = FALSE, v.asked = FALSE
  PROVE  Close(o) \o code \in Codes /\ Typed(m, Close(o) \o code, v)
<1>. DEFINE b == Within(w, o)
            a == [b EXCEPT !.credit = o]
<1>1. /\ b \in Views /\ b.calm = FALSE /\ b.asked = FALSE /\ b.new = w.new /\ b.held = [w.held EXCEPT ![o] = @ + 1]
      /\ SameOpens(b, w) /\ SameDying(b, w) /\ SameLists(b, w) /\ w.held \in [Objects -> Nat]
  BY WithinViews
<1>2. Typed(m, I("unlock", o) \o code, b) /\ I("unlock", o) \o code \in Codes
  BY TypedUnlock, CodesConcat, InstructionCodes DEF Ops
<1>. HIDE DEF b
<1>3. /\ a \in Views /\ a.calm = FALSE /\ a.asked = FALSE /\ a.new = FALSE /\ a.held = b.held /\ a.credit = o
      /\ a.first = b.first /\ a.opens = b.opens /\ SameDying(a, b) /\ SameLists(a, b)
  BY <1>1 DEF Plain, Views, SameDying, SameLists
<1>. HIDE DEF a
<1>4. Near(m, a, o) /\ ~a.listed /\ Near(m, v, o) /\ ~v.listed
  BY <1>1, <1>3, NearSame DEF Plain, SameDying, SameLists
<1>5. Ordered(\A q \in Objects : a.held[q] > 0 => Level(q) >= Level(o))
  <2>. SUFFICES ASSUME Vanish = "no", NEW q \in Objects, a.held[q] > 0
                PROVE  Level(q) >= Level(o)
    BY DEF Ordered
  <2>1. CASE q = o
    BY <2>1 DEF Level
  <2>2. CASE q # o
    <3>1. w.held[q] > 0
      BY <1>1, <1>3, <2>2
    <3>2. Level(q) > Level(o) \/ (q = System /\ o = System)
      BY <3>1 DEF Plain, Ordered, Above
    <3>. QED
      BY <3>2, <2>2 DEF Level
  <2>. QED
    BY <2>1, <2>2
<1>6. Does(m, <<"closing", o>>, a, b)
  <2>1. a.held[o] > 0
    BY <1>1, <1>3
  <2>2. DoesClosing(a, o, b)
    BY <1>1, <1>3, <1>5, <2>1 DEF DoesClosing, SameRest, SameOpens, SameDying, SameLists
  <2>3. b.new = FALSE
    BY <1>1 DEF Plain, Views
  <2>. QED
    BY <1>1, <1>3, <1>4, <2>2, <2>3 DEF Does
<1>7. Typed(m, I("closing", o) \o (I("unlock", o) \o code), a)
      /\ I("closing", o) \o (I("unlock", o) \o code) \in Codes
  BY <1>2, <1>3, <1>6, TypedCons DEF Ops
<1>8. Ordered(Above(v, o))
  BY DEF Plain, Ordered, Above
<1>9. Does(m, <<"lock", o>>, v, a)
  BY <1>1, <1>3, <1>4, <1>8 DEF Does, DoesLock, SameOpens, SameDying, SameLists, Views
<1>10. Typed(m, I("lock", o) \o (I("closing", o) \o (I("unlock", o) \o code)), v)
       /\ I("lock", o) \o (I("closing", o) \o (I("unlock", o) \o code)) \in Codes
  BY <1>7, <1>9, TypedCons DEF Ops
<1>11. "closing" \in Ops
  BY DEF Ops
<1>12. Close(o) \o code = I("lock", o) \o (I("closing", o) \o (I("unlock", o) \o code))
  BY <1>11, Bracket DEF Close
<1>. QED
  BY <1>10, <1>12

\* open(), in front of others, creates a credit.
LEMMA TypedOpen ==
  ASSUME NEW m, NEW code \in Codes, NEW w \in Views, Typed(m, code, w),
         NEW o \in Objects, o \notin Streams, Plain(w), Near(m, w, o),
         w.calm, w.dying = None, \A q \in w.first : Level(q) > Level(o),
         NEW v \in Views, v.held = w.held, v.credit = None, v.first = w.first,
         v.opens = w.opens, SameDying(v, w), SameLists(v, w), ~v.calm,
         Credited(v, o, w), Ordered(Above(v, o)),
         o # System /\ v.held[System] > 0 => v.new
  PROVE  /\ Open(o) \o code \in Codes /\ Typed(m, Open(o) \o code, v)
         /\ Open(o) \o code = I("lock", o) \o (I("opening", o) \o (I("unlock", o) \o code))
<1>. DEFINE b == [Within(w, o) EXCEPT !.calm = TRUE]
            a == [Within(w, o) EXCEPT !.credit = None, !.new = v.new]
<1>1. /\ Within(w, o) \in Views /\ Within(w, o).new = w.new /\ Within(w, o).asked = FALSE
      /\ Within(w, o).held = [w.held EXCEPT ![o] = @ + 1] /\ Within(w, o).calm = FALSE
      /\ SameOpens(Within(w, o), w) /\ SameDying(Within(w, o), w)
      /\ SameLists(Within(w, o), w) /\ w.held \in [Objects -> Nat]
  BY WithinViews
<1>2. /\ b \in Views /\ b.calm = TRUE /\ b.asked = FALSE /\ b.new = w.new /\ b.held = [w.held EXCEPT ![o] = @ + 1]
      /\ SameOpens(b, w) /\ SameDying(b, w) /\ SameLists(b, w)
  BY <1>1 DEF Views, SameOpens, SameDying, SameLists
<1>3. /\ a \in Views /\ a.calm = FALSE /\ a.asked = FALSE /\ a.new = v.new /\ a.held = b.held /\ a.credit = None
      /\ a.first = b.first /\ a.opens = b.opens /\ SameDying(a, b) /\ SameLists(a, b)
  BY <1>1 DEF Views, SameOpens, SameDying, SameLists
<1>. HIDE DEF a, b
<1>4. /\ Near(m, a, o) /\ ~a.listed /\ Near(m, v, o) /\ ~v.listed /\ Near(m, b, o) /\ ~b.listed
  BY <1>2, <1>3, NearSame DEF Plain, SameDying, SameLists
<1>5. Does(m, <<"unlock", o>>, b, w)
  <2>1. b.held[o] > 0 /\ w.held = [b.held EXCEPT ![o] = @ - 1]
    BY <1>1, <1>2
  <2>2. o \notin b.first
    <3>1. Level(o) \in 0..3
      BY DEF Level
    <3>. QED
      BY <1>2, <3>1 DEF SameOpens
  <2>. QED
    BY <1>2, <1>4, <2>1, <2>2 DEF Does, DoesUnlock, Calm, SameOpens, SameDying, SameLists, Views
<1>6. Typed(m, I("unlock", o) \o code, b) /\ I("unlock", o) \o code \in Codes
  BY <1>2, <1>5, TypedCons DEF Ops
<1>7. Ordered(AtLeast(a, o))
  <2>. SUFFICES ASSUME Vanish = "no", NEW q \in Objects, a.held[q] > 0
                PROVE  Level(q) >= Level(o) \/ (q = System /\ o \in Interfaces)
    BY DEF Ordered, AtLeast
  <2>1. CASE q = o
    BY <2>1 DEF Level
  <2>2. CASE q # o
    <3>1. w.held[q] > 0
      BY <1>1, <1>2, <1>3, <2>2
    <3>2. Level(q) > Level(o) \/ (q = System /\ (o = System \/ o \in Interfaces))
      BY <3>1 DEF Ordered, Above
    <3>. QED
      BY <3>2, <2>2 DEF Level
  <2>. QED
    BY <2>1, <2>2
<1>8. o # System /\ a.held[System] > 0 => a.new
  <2>1. o # System => a.held[System] = v.held[System]
    BY <1>1, <1>2, <1>3 DEF Objects
  <2>. QED
    BY <1>3, <2>1
<1>9. Credited(a, o, b)
  <2>1. v.held[System] > 0 => a.held[System] > 0
    BY <1>1, <1>2, <1>3 DEF Objects
  <2>. QED
    BY <1>2, <2>1 DEF Credited, SameOpens
<1>10. a.held[o] > 0 /\ a.dying = None
  BY <1>1, <1>2, <1>3 DEF SameDying
<1>11. Does(m, <<"opening", o>>, a, b)
  BY <1>2, <1>3, <1>4, <1>7, <1>8, <1>9, <1>10
     DEF Plain, Does, DoesOpening, SameRest, SameOpens, SameDying, SameLists, Views
<1>12. Typed(m, I("opening", o) \o (I("unlock", o) \o code), a)
       /\ I("opening", o) \o (I("unlock", o) \o code) \in Codes
  BY <1>3, <1>6, <1>11, TypedCons DEF Ops
<1>13. Does(m, <<"lock", o>>, v, a)
  BY <1>2, <1>3, <1>4 DEF Does, DoesLock, SameOpens, SameDying, SameLists, Views
<1>14. Typed(m, I("lock", o) \o (I("opening", o) \o (I("unlock", o) \o code)), v)
       /\ I("lock", o) \o (I("opening", o) \o (I("unlock", o) \o code)) \in Codes
  BY <1>12, <1>13, TypedCons DEF Ops
<1>15. "opening" \in Ops
  BY DEF Ops
<1>16. Open(o) \o code = I("lock", o) \o (I("opening", o) \o (I("unlock", o) \o code))
  BY <1>15, Bracket DEF Open
<1>. QED
  BY <1>14, <1>16

-----------------------------------------------------------------------------
(* The inductive invariant. *)

\* The type of the state.
TypeInv ==
  /\ owner \in [Objects -> Threads \cup {None}] /\ depth \in [Objects -> Nat]
  /\ \A o \in Objects : owner[o] = None <=> depth[o] = 0
  /\ nOpen \in [Objects -> Nat] /\ live \subseteq Objects
  /\ refs \in [Objects -> SUBSET Threads] /\ tmp \in [Threads -> SUBSET Objects]
  /\ ilist \in Interfaces \cup {None}
  /\ weak \in [Objects -> SUBSET (Devices \cup Streams)]
  /\ opened \subseteq Threads \X Objects /\ todo \in [Threads -> Codes]

\* Objects that exist have parents that exist, and only they have users.
LiveInv ==
  /\ System \in live /\ \A i \in Interfaces : i \in live <=> i = ilist
  /\ \A o \in live \ {System} : Parent[o] \in live
  /\ \A o \in Objects : refs[o] # {} => o \in live
  /\ \A t \in Threads : tmp[t] \subseteq live
  /\ \A o \in Objects \ Streams : o \notin live =>
        nOpen[o] = 0 /\ \A t \in Threads : <<t, o>> \notin opened

\* The view of a thread fits its instructions and the mutexes it has locked.
CodeInv(t, m, v) ==
  /\ Typed(m, todo[t], v)
  /\ \A o \in Objects : v.held[o] = IF owner[o] = t THEN depth[o] ELSE 0

\* What a thread claims is kept alive by it or by the list of the system; what
\* it opens first is closed and locked by it.
ClaimInv(t, m, v) ==
  /\ \A o \in m : t \in refs[o] \/ o = ilist
  /\ \A i \in Interfaces : v.held[i] > 0 => i \in m
  /\ \A o \in v.first : o \notin Streams /\ nOpen[o] = 0 /\ owner[o] = t
  /\ v.opens # None => <<t, v.opens>> \notin opened
  /\ v.credit # None => Near(m, v, v.credit) /\ v.credit \notin Streams

\* A thread that asks the producer for children has an open object; it has local
\* shared pointers only if it will release them, and unless objects vanish, they
\* are copies of others.
ListInv(t, v) ==
  /\ v.asked => \E o \in Objects : At(t, "enumerate", o) /\ nOpen[o] > 0
  /\ v.asked => tmp[t] \subseteq Devices \cup Streams
  /\ tmp[t] # {} => v.local
  /\ Vanish = "no" => \A c \in tmp[t] :
        \/ c = ilist \/ t \in refs[c]
        \/ todo[t] # <<>> /\ todo[t][1][1] \in {"return", "enumerate"}

\* What a thread destroys exists, has no owner and no child.
DyingInv(v) == v.dying # None =>
  /\ v.dying \in Devices \cup Streams /\ v.dying \in live
  /\ refs[v.dying] = {} /\ Children(v.dying) \cap live = {}
  /\ \A u \in Threads : v.dying \notin tmp[u]
  /\ v.shut /\ v.dying \notin Streams => nOpen[v.dying] = 0

\* An interface just created is known to one thread only, that opens it next.
NewInv(t, mine, v) == v.new =>
  /\ ilist # None /\ nOpen[ilist] = 0 /\ refs[ilist] = {}
  /\ Children(ilist) \cap live = {} /\ owner[System] = t
  /\ \A u \in Threads \ {t} : ilist \notin mine[u] /\ ilist \notin tmp[u]
  /\ \/ At(t, "opening", ilist)
     \/ /\ At(t, "lock", ilist) /\ owner[ilist] = None
        /\ Rest(t) # <<>> /\ Rest(t)[1] = <<"opening", ilist>>

\* All of this, of one thread.
ThreadInv(t, mine, view) ==
  /\ CodeInv(t, mine[t], view[t]) /\ ClaimInv(t, mine[t], view[t])
  /\ ListInv(t, view[t]) /\ DyingInv(view[t]) /\ NewInv(t, mine, view[t])

\* No object is destroyed twice.
DyingDiffer(view) ==
  \A t \in Threads, u \in Threads :
     t # u /\ view[t].dying # None => view[t].dying # view[u].dying

\* The threads, children and calls that have opened o.
Openers(o) == {t \in Threads : <<t, o>> \in opened}
OpenChildren(o) == {c \in Children(o) \ Streams : nOpen[c] > 0}
Creditors(view, o) == {t \in Threads : view[t].credit = o}

\* n_open is the number of those that opened o; the list of interfaces
\* adds one.
Account(view, o) ==
  \E s \in {0, 1} :
     /\ s = 1 => o = ilist
     /\ nOpen[o] = Cardinality(Openers(o)) + Cardinality(OpenChildren(o))
                    + Cardinality(Creditors(view, o)) + s

\* The same of all objects but those in destruction.
Accounts(view) ==
  \A o \in Objects \ Streams :
     (\A t \in Threads : view[t].dying # o) => Account(view, o)

\* The invariant, for given claims and views.
J(mine, view) ==
  /\ TypeInv /\ LiveInv
  /\ \A t \in Threads : ThreadInv(t, mine, view)
  /\ DyingDiffer(view) /\ Accounts(view)

Claims == [Threads -> SUBSET Objects]
\* The inductive invariant.
Inv == \E mine \in Claims, view \in [Threads -> Views] : J(mine, view)

-----------------------------------------------------------------------------
\* The objects are a tree.
LEMMA ObjectFacts ==
  /\ System \in Objects /\ None \notin Objects /\ None \notin Threads
  /\ Interfaces \subseteq Objects /\ Devices \subseteq Objects /\ Streams \subseteq Objects
  /\ System \notin Interfaces \cup Devices \cup Streams
  /\ Interfaces \cap Devices = {} /\ Interfaces \cap Streams = {} /\ Devices \cap Streams = {}
  /\ \A o \in Objects \ {System} : Parent[o] \in Objects
  /\ \A i \in Interfaces : Parent[i] = System
  /\ \A d \in Devices : Parent[d] \in Interfaces
  /\ \A s \in Streams : Parent[s] \in Devices
  /\ \A o \in Objects : Children(o) \subseteq Objects \ {System}
  /\ \A o \in Objects : \A c \in Children(o) : Parent[c] = o
  /\ \A c \in Objects \ {System} : c \in Children(Parent[c])
BY ObjectsAssumption, ParentAssumption, OtherAssumption DEF Objects, Children

\* The levels follow the tree.
LEMMA LevelFacts ==
  /\ Level(System) = 0 /\ \A i \in Interfaces : Level(i) = 1
  /\ \A d \in Devices : Level(d) = 2 /\ \A s \in Streams : Level(s) = 3
  /\ \A o \in Objects : Level(o) \in 0..3 /\ (Level(o) = 0 => o = System)
  /\ \A o \in Objects \ {System} : Level(o) = Level(Parent[o]) + 1
<1>1. /\ Level(System) = 0 /\ \A i \in Interfaces : Level(i) = 1
      /\ \A d \in Devices : Level(d) = 2
      /\ \A s \in Streams : Level(s) = 3
  BY ObjectFacts DEF Level
<1>2. Objects = {System} \cup Interfaces \cup Devices \cup Streams
  BY DEF Objects
<1>. QED
  BY <1>1, <1>2, ObjectFacts

\* What is near to a thread is not given up by others.
LEMMA NearFacts ==
  ASSUME NEW mine \in Claims, NEW view \in [Threads -> Views], J(mine, view),
         NEW t \in Threads, NEW o \in Objects, Near(mine[t], view[t], o)
  PROVE  /\ o \in live
         /\ \A u \in Threads \ {t} : view[u].dying # o
         /\ \A u \in Threads \ {t} : view[u].new => o = System
         /\ o \in Interfaces => o = ilist /\ o \in mine[t]
         /\ o \in Devices => Parent[o] = ilist
<1>1. /\ TypeInv /\ LiveInv /\ ClaimInv(t, mine[t], view[t]) /\ DyingInv(view[t])
      /\ DyingDiffer(view) /\ \A u \in Threads : DyingInv(view[u]) /\ NewInv(u, mine, view[u])
      /\ mine[t] \subseteq Objects
  BY DEF J, ThreadInv, Claims
<1>2. ASSUME NEW x \in Objects, x \in mine[t] \/ x = view[t].dying
      PROVE  /\ x \in live /\ \A u \in Threads \ {t} : view[u].dying # x
             /\ x \in Interfaces => x \in mine[t]
             /\ \A u \in Threads \ {t} : view[u].new => x # ilist
  <2>1. CASE x \in mine[t]
    <3>1. t \in refs[x] \/ (x = ilist /\ x \in Interfaces)
      BY <1>1, <2>1, ObjectFacts DEF ClaimInv, TypeInv
    <3>2. x \in live
      BY <1>1, <3>1 DEF LiveInv
    <3>3. \A u \in Threads \ {t} : view[u].dying # x
      BY <1>1, <3>1, ObjectFacts DEF DyingInv
    <3>. QED
      BY <1>1, <2>1, <3>2, <3>3 DEF NewInv
  <2>2. CASE x = view[t].dying
    <3>1. x \in live /\ x \in Devices \cup Streams
      BY <1>1, <2>2, ObjectFacts DEF DyingInv
    <3>2. \A u \in Threads \ {t} : view[u].dying # x
      BY <1>1, <2>2, <3>1, ObjectFacts DEF DyingDiffer
    <3>. QED
      BY <1>1, <2>2, <3>1, <3>2, ObjectFacts DEF NewInv, TypeInv
  <2>. QED
    BY <1>2, <2>1, <2>2
<1>3. ASSUME NEW s \in Streams, s \in mine[t] \/ s = view[t].dying, o = Parent[s]
      PROVE  o \in live /\ o \in Devices /\ s \in Children(o) \cap live
  BY <1>1, <1>2, <1>3, ObjectFacts DEF LiveInv
<1>4. o \in live
  BY <1>1, <1>2, <1>3 DEF Near, LiveInv
<1>5. \A u \in Threads \ {t} : view[u].dying # o
  <2>. SUFFICES ASSUME NEW u \in Threads \ {t}, view[u].dying = o PROVE FALSE
    OBVIOUS
  <2>1. o \in Devices \cup Streams /\ Children(o) \cap live = {}
    BY <1>1, ObjectFacts DEF DyingInv
  <2>. QED
    BY <1>2, <1>3, <2>1, ObjectFacts DEF Near
<1>6. o \in Interfaces => o = ilist /\ o \in mine[t]
  BY <1>1, <1>2, <1>3, <1>4, ObjectFacts DEF Near, LiveInv
<1>7. o \in Devices => Parent[o] = ilist
  BY <1>1, <1>4, ObjectFacts DEF LiveInv
<1>8. ASSUME NEW u \in Threads \ {t}, view[u].new PROVE o = System
  <2>1. Children(ilist) \cap live = {} /\ ilist \notin mine[t] /\ ilist \in Interfaces
    BY <1>1, <1>8 DEF NewInv, TypeInv
  <2>2. o \notin Interfaces
    BY <1>6, <2>1
  <2>3. o \notin Devices
    BY <1>4, <1>7, <2>1, ObjectFacts
  <2>4. o \notin Streams
    <3>. SUFFICES ASSUME o \in Streams PROVE FALSE
      OBVIOUS
    <3>1. Parent[o] \in live /\ Parent[o] \in Devices
      BY <1>1, <1>4, ObjectFacts DEF LiveInv
    <3>2. Parent[Parent[o]] = ilist
      BY <1>1, <3>1, ObjectFacts DEF LiveInv
    <3>. QED
      BY <2>1, <3>1, <3>2, ObjectFacts
  <2>. QED
    BY <2>2, <2>3, <2>4 DEF Objects
<1>. QED
  BY <1>4, <1>5, <1>6, <1>7, <1>8

\* The instruction that a thread executes leads to a view for the rest.
LEMMA StepFacts ==
  ASSUME NEW mine \in Claims, NEW view \in [Threads -> Views], J(mine, view),
         NEW t \in Threads, NEW op \in Ops, NEW o, At(t, op, o)
  PROVE  /\ o \in Objects /\ Near(mine[t], view[t], o) /\ Rest(t) \in Codes
         /\ todo[t] # <<>> /\ todo[t] \in Codes /\ todo[t][1] = <<op, o>>
         /\ \E w \in Views : Does(mine[t], <<op, o>>, view[t], w) /\ Typed(mine[t], Rest(t), w)
<1>1. todo[t] \in Codes /\ Typed(mine[t], todo[t], view[t])
  BY DEF J, TypeInv, ThreadInv, CodeInv
<1>2. todo[t] # <<>> /\ todo[t][1] = <<op, o>>
  BY DEF At
<1>3. todo[t][1] \in Ops \X Objects /\ Tail(todo[t]) \in Codes
  BY <1>1, <1>2 DEF Codes
<1>4. PICK w \in Views : Does(mine[t], <<op, o>>, view[t], w) /\ Typed(mine[t], Rest(t), w)
  BY <1>1, <1>2, TypedStep DEF Rest
<1>5. Near(mine[t], view[t], o)
  BY <1>4 DEF Does
<1>. QED
  BY <1>1, <1>2, <1>3, <1>4, <1>5 DEF Rest

-----------------------------------------------------------------------------
(* A step of thread t, seen from another thread u. *)

\* The function f with x at t.
Put(f, t, x) == [f EXCEPT ![t] = x]

\* A step of thread t, which claims m2 then, spares thread u: it leaves alone
\* what the invariant says of u.
Spares(u, t, view, m2) ==
  /\ todo'[u] = todo[u] /\ tmp'[u] = tmp[u]
  /\ \A o \in Objects : /\ owner'[o] = u <=> owner[o] = u
                        /\ owner[o] = u => depth'[o] = depth[o]
  /\ \A o \in Objects : u \in refs[o] => u \in refs'[o]
  /\ \A o \in Objects : refs[o] = {} /\ o \notin tmp[t] => refs'[o] = {}
  /\ ilist = None \/ ilist' = ilist
  /\ \A o \in Objects \ Streams :
        nOpen[o] = 0 /\ (owner[o] = u \/ o = view[u].dying \/ (view[u].new /\ o = ilist))
          => nOpen'[o] = 0
  /\ \A o \in Objects : At(u, "enumerate", o) /\ nOpen[o] > 0 => nOpen'[o] > 0
  /\ \A o \in Objects : <<u, o>> \in opened' => <<u, o>> \in opened
  /\ \A o \in Objects : o = view[u].dying \/ (view[u].new /\ o = ilist) =>
        /\ o \in live => o \in live'
        /\ Children(o) \cap live = {} => Children(o) \cap live' = {}
        /\ o \notin tmp[t] => o \notin tmp'[t]
  /\ view[u].new =>
        /\ ilist \notin m2 /\ owner'[System] = owner[System]
        /\ owner[ilist] = None => owner'[ilist] = None

\* The invariant of a thread that is spared is kept.
LEMMA SparesIsEnough ==
  ASSUME NEW mine \in Claims, NEW view \in [Threads -> Views], J(mine, view),
         NEW t \in Threads, NEW u \in Threads \ {t}, NEW m2 \in SUBSET Objects, NEW v2 \in Views,
         Spares(u, t, view, m2), \A x \in Threads \ {t} : tmp'[x] = tmp[x]
  PROVE  ThreadInv(u, Put(mine, t, m2), Put(view, t, v2))'
<1>1. /\ TypeInv /\ CodeInv(u, mine[u], view[u]) /\ ClaimInv(u, mine[u], view[u])
      /\ ListInv(u, view[u]) /\ DyingInv(view[u]) /\ NewInv(u, mine, view[u])
      /\ view[u] \in Views /\ mine[u] \subseteq Objects
  BY DEF J, ThreadInv, Claims
<1>2. /\ Put(mine, t, m2)[u] = mine[u] /\ Put(view, t, v2)[u] = view[u]
      /\ Put(mine, t, m2)[t] = m2 /\ \A x \in Threads \ {t} : Put(mine, t, m2)[x] = mine[x]
  BY DEF Put, Claims
<1>3. /\ view[u].first \subseteq Objects /\ view[u].opens \in Objects \cup {None}
      /\ view[u].dying \in Objects \cup {None}
  BY <1>1 DEF Views
<1>4. CodeInv(u, mine[u], view[u])'
  BY <1>1, ObjectFacts DEF CodeInv, Spares
<1>5. ClaimInv(u, mine[u], view[u])'
  <2>1. \A o \in mine[u] : (u \in refs[o] \/ o = ilist)'
    BY <1>1, ObjectFacts DEF ClaimInv, Spares
  <2>2. \A o \in view[u].first : o \notin Streams /\ (nOpen[o] = 0 /\ owner[o] = u)'
    BY <1>1, <1>3 DEF ClaimInv, Spares
  <2>3. view[u].opens # None => (<<u, view[u].opens>> \notin opened)'
    BY <1>1, <1>3 DEF ClaimInv, Spares
  <2>. QED
    BY <1>1, <2>1, <2>2, <2>3 DEF ClaimInv
<1>6. ListInv(u, view[u])'
  <2>1. view[u].asked => \E o \in Objects : (At(u, "enumerate", o) /\ nOpen[o] > 0)'
    BY <1>1 DEF ListInv, Spares, At
  <2>2. \A c \in tmp[u] : c = ilist \/ u \in refs[c] => c = ilist' \/ u \in refs'[c]
    BY <1>1, ObjectFacts DEF Spares, TypeInv
  <2>3. tmp'[u] = tmp[u] /\ todo'[u] = todo[u]
    BY DEF Spares
  <2>. QED
    BY <1>1, <2>1, <2>2, <2>3 DEF ListInv
<1>7. DyingInv(view[u])'
  <2>. SUFFICES ASSUME view[u].dying # None
                PROVE  DyingInv(view[u])'
    BY DEF DyingInv
  <2>. DEFINE d == view[u].dying
  <2>1. /\ d \in Objects /\ d \in Devices \cup Streams /\ d \in live /\ refs[d] = {}
        /\ Children(d) \cap live = {} /\ \A x \in Threads : d \notin tmp[x]
        /\ view[u].shut /\ d \notin Streams => nOpen[d] = 0
    BY <1>1, <1>3 DEF DyingInv
  <2>2. /\ d \in live' /\ refs'[d] = {} /\ Children(d) \cap live' = {} /\ d \notin tmp'[t]
        /\ view[u].shut /\ d \notin Streams => nOpen'[d] = 0
    BY <2>1 DEF Spares
  <2>3. \A x \in Threads : d \notin tmp'[x]
    BY <2>1, <2>2
  <2>. QED
    BY <2>1, <2>2, <2>3 DEF DyingInv
<1>8. NewInv(u, Put(mine, t, m2), view[u])'
  <2>. SUFFICES ASSUME view[u].new
                PROVE  NewInv(u, Put(mine, t, m2), view[u])'
    BY DEF NewInv
  <2>1. /\ ilist \in Objects \ Streams /\ ilist # None /\ nOpen[ilist] = 0 /\ refs[ilist] = {}
        /\ Children(ilist) \cap live = {} /\ owner[System] = u
        /\ \A x \in Threads \ {u} : ilist \notin mine[x] /\ ilist \notin tmp[x]
        /\ \/ At(u, "opening", ilist)
           \/ /\ At(u, "lock", ilist) /\ owner[ilist] = None
              /\ Rest(u) # <<>> /\ Rest(u)[1] = <<"opening", ilist>>
    BY <1>1, ObjectFacts DEF NewInv, TypeInv
  <2>2. /\ ilist' = ilist /\ nOpen'[ilist] = 0 /\ refs'[ilist] = {} /\ owner'[System] = u
        /\ Children(ilist) \cap live' = {} /\ ilist \notin tmp'[t] /\ ilist \notin m2
        /\ owner[ilist] = None => owner'[ilist] = None
        /\ todo'[u] = todo[u]
    BY <2>1 DEF Spares
  <2>3. \A x \in Threads \ {u} : ilist' \notin Put(mine, t, m2)[x] /\ ilist' \notin tmp'[x]
    BY <1>2, <2>1, <2>2
  <2>4. \/ At(u, "opening", ilist)'
        \/ /\ At(u, "lock", ilist)' /\ owner'[ilist'] = None
           /\ Rest(u)' # <<>> /\ Rest(u)'[1] = <<"opening", ilist>>'
    BY <2>1, <2>2 DEF At, Rest
  <2>. QED
    BY <2>1, <2>2, <2>3, <2>4 DEF NewInv
<1>. QED
  BY <1>2, <1>4, <1>5, <1>6, <1>7, <1>8 DEF ThreadInv

\* It is enough to show what becomes of the thread that moves, what becomes of
\* the objects, and that the other threads are spared.
LEMMA Assemble ==
  ASSUME NEW mine \in Claims, NEW view \in [Threads -> Views], J(mine, view),
         NEW t \in Threads, NEW m2 \in SUBSET Objects, NEW v2 \in Views,
         TypeInv', LiveInv', CodeInv(t, m2, v2)', ClaimInv(t, m2, v2)',
         ListInv(t, v2)', DyingInv(v2)', NewInv(t, Put(mine, t, m2), v2)',
         \A u \in Threads \ {t} : Spares(u, t, view, m2),
         v2.dying # None => \A u \in Threads \ {t} : view[u].dying # v2.dying,
         Accounts(Put(view, t, v2))'
  PROVE  Inv'
<1>. DEFINE mine2 == Put(mine, t, m2)
            view2 == Put(view, t, v2)
<1>1. /\ mine2 \in Claims /\ view2 \in [Threads -> Views] /\ mine2[t] = m2 /\ view2[t] = v2
      /\ \A u \in Threads \ {t} : view2[u] = view[u]
  BY DEF Put, Claims
<1>2. \A u \in Threads \ {t} : tmp'[u] = tmp[u]
  BY DEF Spares
<1>3. \A u \in Threads \ {t} : ThreadInv(u, mine2, view2)'
  BY <1>2, SparesIsEnough
<1>. HIDE DEF mine2, view2
<1>4. NewInv(t, mine2, v2)' /\ Accounts(view2)'
  BY DEF mine2, view2
<1>5. ThreadInv(t, mine2, view2)'
  BY <1>1, <1>4 DEF ThreadInv
<1>6. DyingDiffer(view2)
  <2>1. DyingDiffer(view)
    BY DEF J
  <2>. QED
    BY <1>1, <2>1 DEF DyingDiffer
<1>7. \A u \in Threads : ThreadInv(u, mine2, view2)'
  BY <1>3, <1>5
<1>8. J(mine2, view2)'
  BY <1>4, <1>6, <1>7 DEF J, DyingDiffer
<1>. QED
  BY <1>1, <1>8 DEF Inv

-----------------------------------------------------------------------------
(* Counting. *)

\* A set that gains or loses one element.
LEMMA Toggle ==
  ASSUME NEW S, NEW T, NEW x, IsFiniteSet(S), S \ {x} = T \ {x}
  PROVE  /\ IsFiniteSet(T) /\ Cardinality(S) \in Nat /\ Cardinality(T) \in Nat
         /\ Cardinality(T) + (IF x \in S THEN 1 ELSE 0)
              = Cardinality(S) + (IF x \in T THEN 1 ELSE 0)
<1>1. CASE x \in S /\ x \notin T
  <2>1. T = S \ {x}
    BY <1>1
  <2>2. IsFiniteSet(T) /\ Cardinality(T) = Cardinality(S) - 1
    BY <1>1, <2>1, FS_RemoveElement
  <2>3. Cardinality(S) \in Nat /\ Cardinality(T) \in Nat
    BY <2>2, FS_CardinalityType
  <2>. QED
    BY <1>1, <2>2, <2>3
<1>2. CASE x \notin S /\ x \in T
  <2>1. T = S \cup {x}
    BY <1>2
  <2>. QED
    BY <1>2, <2>1, FS_AddElement, FS_CardinalityType
<1>3. CASE (x \in S) <=> (x \in T)
  <2>1. T = S
    BY <1>3
  <2>. QED
    BY <2>1, FS_CardinalityType
<1>. QED
  BY <1>1, <1>2, <1>3

\* The sets that are counted are finite.
LEMMA FiniteCounts ==
  ASSUME NEW o
  PROVE  /\ IsFiniteSet(Openers(o)) /\ IsFiniteSet(OpenChildren(o))
         /\ \A view : IsFiniteSet(Creditors(view, o)) /\ Cardinality(Creditors(view, o)) \in Nat
         /\ Cardinality(Openers(o)) \in Nat /\ Cardinality(OpenChildren(o)) \in Nat
<1>1. IsFiniteSet(Threads) /\ IsFiniteSet(Objects)
  BY ObjectsAssumption
<1>2. Openers(o) \subseteq Threads /\ OpenChildren(o) \subseteq Objects
      /\ \A view : Creditors(view, o) \subseteq Threads
  BY DEF Openers, OpenChildren, Creditors, Children
<1>3. /\ IsFiniteSet(Openers(o)) /\ IsFiniteSet(OpenChildren(o))
      /\ \A view : IsFiniteSet(Creditors(view, o))
  BY <1>1, <1>2, FS_Subset
<1>. QED
  BY <1>3, FS_CardinalityType

\* The calls with a credit for q, after a step of t.
LEMMA CreditCount ==
  ASSUME NEW view \in [Threads -> Views], NEW t \in Threads, NEW v2, NEW o
  PROVE  Cardinality(Creditors(Put(view, t, v2), o)) + (IF view[t].credit = o THEN 1 ELSE 0)
           = Cardinality(Creditors(view, o)) + (IF v2.credit = o THEN 1 ELSE 0)
<1>. DEFINE S == Creditors(view, o)
            T == Creditors(Put(view, t, v2), o)
<1>1. S \ {t} = T \ {t} /\ (t \in S <=> view[t].credit = o) /\ (t \in T <=> v2.credit = o)
  BY DEF Creditors, Put
<1>2. IsFiniteSet(S)
  BY FiniteCounts
<1>. HIDE DEF S, T
<1>3. Cardinality(T) + (IF t \in S THEN 1 ELSE 0) = Cardinality(S) + (IF t \in T THEN 1 ELSE 0)
  BY <1>1, <1>2, Toggle
<1>. QED
  BY <1>1, <1>3 DEF S, T

\* The open children of q, after a step that changes the nOpen of o only.
LEMMA ChildCount ==
  ASSUME NEW c, NEW o, \A x \in Objects \ {c} : nOpen'[x] = nOpen[x]
  PROVE  Cardinality(OpenChildren(o))'
           + (IF c \in Children(o) \ Streams /\ nOpen[c] > 0 THEN 1 ELSE 0)
           = Cardinality(OpenChildren(o))
               + (IF c \in Children(o) \ Streams /\ nOpen'[c] > 0 THEN 1 ELSE 0)
<1>. DEFINE S == OpenChildren(o)
            T == {x \in Children(o) \ Streams : nOpen'[x] > 0}
<1>1. S \ {c} = T \ {c} /\ (c \in S <=> c \in Children(o) \ Streams /\ nOpen[c] > 0)
      /\ (c \in T <=> c \in Children(o) \ Streams /\ nOpen'[c] > 0)
  BY DEF OpenChildren, Children
<1>2. IsFiniteSet(S)
  BY FiniteCounts
<1>3. T = OpenChildren(o)'
  BY DEF OpenChildren
<1>. HIDE DEF S, T
<1>4. Cardinality(T) + (IF c \in S THEN 1 ELSE 0) = Cardinality(S) + (IF c \in T THEN 1 ELSE 0)
  BY <1>1, <1>2, Toggle
<1>. QED
  BY <1>1, <1>3, <1>4 DEF S

\* The threads that have opened q, after a step of t.
LEMMA OpenerCount ==
  ASSUME NEW t \in Threads, NEW o, \A x \in Threads \ {t} : <<x, o>> \in opened' <=> <<x, o>> \in opened
  PROVE  Cardinality(Openers(o))' + (IF <<t, o>> \in opened THEN 1 ELSE 0)
           = Cardinality(Openers(o)) + (IF <<t, o>> \in opened' THEN 1 ELSE 0)
<1>. DEFINE S == Openers(o)
            T == {x \in Threads : <<x, o>> \in opened'}
<1>1. S \ {t} = T \ {t} /\ (t \in S <=> <<t, o>> \in opened) /\ (t \in T <=> <<t, o>> \in opened')
  BY DEF Openers
<1>2. IsFiniteSet(S)
  BY FiniteCounts
<1>3. T = Openers(o)'
  BY DEF Openers
<1>. HIDE DEF S, T
<1>4. Cardinality(T) + (IF t \in S THEN 1 ELSE 0) = Cardinality(S) + (IF t \in T THEN 1 ELSE 0)
  BY <1>1, <1>2, Toggle
<1>. QED
  BY <1>1, <1>3, <1>4 DEF S

\* Nothing is counted anew.
LEMMA AccountsSame ==
  ASSUME NEW mine, NEW view \in [Threads -> Views], J(mine, view), NEW t \in Threads, NEW v2,
         \A o \in Objects \ Streams : nOpen'[o] = nOpen[o],
         \A o \in Objects \ Streams, x \in Threads : <<x, o>> \in opened' <=> <<x, o>> \in opened,
         ilist = None \/ ilist' = ilist, v2.credit = view[t].credit,
         view[t].dying # None => v2.dying = view[t].dying
  PROVE  Accounts(Put(view, t, v2))'
<1>. DEFINE view2 == Put(view, t, v2)
<1>1. /\ view2[t] = v2 /\ \A u \in Threads \ {t} : view2[u] = view[u]
  BY DEF Put
<1>2. SUFFICES ASSUME NEW o \in Objects \ Streams, \A u \in Threads : view2[u].dying # o
               PROVE  Account(view2, o)'
  BY DEF Accounts
<1>3. \A u \in Threads : view[u].dying # o
  BY <1>1, <1>2, ObjectFacts
<1>4. Account(view, o)
  BY <1>2, <1>3 DEF J, Accounts
<1>5. Openers(o)' = Openers(o)
  BY <1>2 DEF Openers
<1>6. OpenChildren(o)' = OpenChildren(o)
  BY DEF OpenChildren, Children
<1>7. Creditors(view2, o) = Creditors(view, o)
  BY <1>1 DEF Creditors
<1>8. ilist # o \/ ilist' = ilist
  BY ObjectFacts
<1>. HIDE DEF view2
<1>. QED
  BY <1>2, <1>4, <1>5, <1>6, <1>7, <1>8 DEF Account

\* Thread t goes on with the given instructions.
GoesOn(t, code) == todo' = [todo EXCEPT ![t] = code]

\* What the thread has, when it moves, with the claims m2.
Claimed(t, mine, view, m2) ==
  /\ \A o \in m2 : o \in mine[t] \/ t \in refs[o] \/ o = ilist
  /\ \A u \in Threads \ {t} : view[u].new => ilist \notin m2

\* The instructions of the other threads are the same.
LEMMA TypeKept ==
  ASSUME TypeInv, NEW t \in Threads, NEW code \in Codes, GoesOn(t, code)
  PROVE  /\ todo' \in [Threads -> Codes] /\ todo'[t] = code
         /\ \A u \in Threads \ {t} : todo'[u] = todo[u]
BY DEF TypeInv, GoesOn

\* An interface that another thread has just created is out of reach.
LEMMA NewIsNotMine ==
  ASSUME NEW mine \in Claims, NEW view \in [Threads -> Views], J(mine, view),
         NEW t \in Threads
  PROVE  \A u \in Threads \ {t} : view[u].new => ilist \notin mine[t] /\ ilist \notin tmp[t]
BY DEF J, ThreadInv, NewInv

\* The invariant, of one thread.
LEMMA ViewFacts ==
  ASSUME NEW mine \in Claims, NEW view \in [Threads -> Views], J(mine, view),
         NEW t \in Threads
  PROVE  /\ TypeInv /\ LiveInv /\ mine[t] \in SUBSET Objects /\ view[t] \in Views
         /\ CodeInv(t, mine[t], view[t]) /\ ClaimInv(t, mine[t], view[t])
         /\ ListInv(t, view[t]) /\ DyingInv(view[t]) /\ NewInv(t, mine, view[t])
         /\ view[t].held \in [Objects -> Nat] /\ view[t].first \subseteq Objects
         /\ view[t].credit \in Objects \cup {None} /\ view[t].opens \in Objects \cup {None}
         /\ view[t].dying \in Objects \cup {None}
         /\ \A o \in Objects : view[t].held[o] > 0 <=> owner[o] = t
<1>1. /\ TypeInv /\ LiveInv /\ mine[t] \in SUBSET Objects /\ view[t] \in Views
      /\ CodeInv(t, mine[t], view[t]) /\ ClaimInv(t, mine[t], view[t])
      /\ ListInv(t, view[t]) /\ DyingInv(view[t]) /\ NewInv(t, mine, view[t])
  BY DEF J, ThreadInv, Claims
<1>2. /\ view[t].held \in [Objects -> Nat] /\ view[t].first \subseteq Objects
      /\ view[t].credit \in Objects \cup {None} /\ view[t].opens \in Objects \cup {None}
      /\ view[t].dying \in Objects \cup {None}
  BY <1>1 DEF Views
<1>3. \A o \in Objects : view[t].held[o] > 0 <=> owner[o] = t
  BY <1>1, ObjectFacts DEF CodeInv, TypeInv
<1>. QED
  BY <1>1, <1>2, <1>3

\* A step that changes nothing but the instructions.
LEMMA Quiet ==
  ASSUME NEW mine \in Claims, NEW view \in [Threads -> Views], J(mine, view),
         NEW t \in Threads, NEW m2 \in SUBSET Objects, NEW v2 \in Views,
         NEW code \in Codes, GoesOn(t, code), Typed(m2, code, v2),
         UNCHANGED <<owner, depth, objVars, refs, tmp, opened>>,
         Claimed(t, mine, view, m2),
         mine[t] \subseteq m2 \/ (Nothing(view[t]) /\ v2.credit = None),
         v2.held = view[t].held, v2.credit = view[t].credit,
         \A o \in v2.first : \/ o \in view[t].first
                             \/ o \notin Streams /\ nOpen[o] = 0 /\ owner[o] = t,
         v2.opens # None => v2.opens = view[t].opens \/ <<t, v2.opens>> \notin opened,
         SameDying(view[t], v2) \/ (view[t].dying = None /\ v2.dying = None),
         ~v2.asked, ~v2.new, tmp[t] # {} => v2.local,
         \/ todo[t] # <<>> /\ todo[t][1][1] \notin {"return", "enumerate"}
         \/ Vanish = "no" => tmp[t] = {}
  PROVE  Inv'
<1>. DEFINE v == view[t]
<1>1. /\ TypeInv /\ LiveInv /\ CodeInv(t, mine[t], v) /\ ClaimInv(t, mine[t], v)
      /\ ListInv(t, v) /\ DyingInv(v) /\ DyingDiffer(view)
  BY ViewFacts DEF J
<1>2. /\ UNCHANGED owner /\ UNCHANGED depth /\ UNCHANGED nOpen /\ UNCHANGED live
      /\ UNCHANGED ilist /\ UNCHANGED weak /\ UNCHANGED refs /\ UNCHANGED tmp /\ UNCHANGED opened
  BY DEF objVars
<1>3. /\ todo' \in [Threads -> Codes] /\ todo'[t] = code
      /\ \A u \in Threads \ {t} : todo'[u] = todo[u]
  BY <1>1, TypeKept
<1>4. TypeInv'
  BY <1>1, <1>2, <1>3 DEF TypeInv
<1>5. LiveInv'
  BY <1>1, <1>2 DEF LiveInv
<1>6. CodeInv(t, m2, v2)'
  BY <1>1, <1>2, <1>3 DEF CodeInv
<1>7. ClaimInv(t, m2, v2)'
  <2>1. \A o \in m2 : t \in refs[o] \/ o = ilist
    BY <1>1 DEF ClaimInv, Claimed
  <2>2. \A i \in Interfaces : v2.held[i] > 0 => i \in m2
    BY <1>1, ObjectFacts DEF ClaimInv, Nothing
  <2>3. \A o \in v2.first : o \notin Streams /\ nOpen[o] = 0 /\ owner[o] = t
    BY <1>1 DEF ClaimInv
  <2>4. v2.opens # None => <<t, v2.opens>> \notin opened
    BY <1>1 DEF ClaimInv
  <2>5. v2.credit # None => Near(m2, v2, v2.credit) /\ v2.credit \notin Streams
    BY <1>1 DEF ClaimInv, Near, SameDying
  <2>. QED
    BY <1>2, <2>1, <2>2, <2>3, <2>4, <2>5 DEF ClaimInv
<1>8. ListInv(t, v2)'
  <2>1. Vanish = "no" => \A c \in tmp[t] : c = ilist \/ t \in refs[c]
    BY <1>1 DEF ListInv
  <2>. QED
    BY <1>2, <2>1 DEF ListInv
<1>9. DyingInv(v2)'
  <2>1. DyingInv(v2)
    BY <1>1 DEF DyingInv, SameDying
  <2>. QED
    BY <1>2, <2>1 DEF DyingInv
<1>10. NewInv(t, Put(mine, t, m2), v2)'
  BY DEF NewInv
<1>11. ASSUME NEW u \in Threads \ {t} PROVE Spares(u, t, view, m2)
  <2>1. view[u].new => ilist \notin m2
    BY DEF Claimed
  <2>2. DyingInv(view[u]) /\ NewInv(u, mine, view[u])
    BY ViewFacts
  <2>. QED
    BY <1>2, <1>3, <2>1, <2>2, ObjectFacts DEF Spares
<1>12. v2.dying # None => \A u \in Threads \ {t} : view[u].dying # v2.dying
  BY <1>1 DEF SameDying, DyingDiffer
<1>13. Accounts(Put(view, t, v2))'
  <2>1. view[t].dying # None => v2.dying = view[t].dying
    BY DEF SameDying
  <2>. QED
    BY <1>2, <2>1, AccountsSame
<1>. QED
  BY <1>4, <1>5, <1>6, <1>7, <1>8, <1>9, <1>10, <1>11, <1>12, <1>13, Assemble

-----------------------------------------------------------------------------
(* Locking. *)

\* A step that changes nothing but a mutex and the instructions.
LEMMA MutexStep ==
  ASSUME NEW mine \in Claims, NEW view \in [Threads -> Views], J(mine, view),
         NEW t \in Threads, NEW o \in Objects, NEW w \in Views,
         NEW code \in Codes, GoesOn(t, code),
         Typed(mine[t], code, w), Near(mine[t], view[t], o), UNCHANGED <<objVars, refs, tmp, opened>>,
         owner' \in [Objects -> Threads \cup {None}], depth' \in [Objects -> Nat],
         \A q \in Objects : owner'[q] = None <=> depth'[q] = 0,
         \A q \in Objects \ {o} : owner'[q] = owner[q] /\ depth'[q] = depth[q],
         owner[o] \in {t, None}, owner'[o] \in {t, None},
         \A q \in Objects : w.held[q] = IF owner'[q] = t THEN depth'[q] ELSE 0,
         \A q \in view[t].first : owner'[q] = t,
         SameOpens(view[t], w), SameDying(view[t], w), SameLists(view[t], w), ~w.asked,
         todo[t] # <<>>, todo[t][1][1] \notin {"return", "enumerate"},
         w.new => NewInv(t, Put(mine, t, mine[t]), w)'
  PROVE  Inv'
<1>. DEFINE v == view[t]
            m2 == mine[t]
<1>1. /\ TypeInv /\ LiveInv /\ CodeInv(t, mine[t], v) /\ ClaimInv(t, mine[t], v)
      /\ ListInv(t, v) /\ DyingInv(v) /\ DyingDiffer(view) /\ m2 \in SUBSET Objects
  BY ViewFacts DEF J
<1>2. /\ UNCHANGED nOpen /\ UNCHANGED live
      /\ UNCHANGED ilist /\ UNCHANGED weak /\ UNCHANGED refs /\ UNCHANGED tmp /\ UNCHANGED opened
  BY DEF objVars
<1>3. /\ todo' \in [Threads -> Codes] /\ todo'[t] = code
      /\ \A u \in Threads \ {t} : todo'[u] = todo[u]
  BY <1>1, TypeKept
<1>4. TypeInv'
  BY <1>1, <1>2, <1>3 DEF TypeInv
<1>5. LiveInv'
  BY <1>1, <1>2 DEF LiveInv
<1>6. CodeInv(t, m2, w)'
  BY <1>1, <1>2, <1>3 DEF CodeInv
<1>7. ClaimInv(t, m2, w)'
  <2>1. \A i \in Interfaces : w.held[i] > 0 => i \in m2
    <3>. SUFFICES ASSUME NEW i \in Interfaces, w.held[i] > 0 PROVE i \in m2
      OBVIOUS
    <3>1. CASE i = o
      BY <3>1, NearFacts
    <3>2. CASE i # o
      BY <1>1, <3>2, ObjectFacts DEF CodeInv, ClaimInv
    <3>. QED
      BY <3>1, <3>2
  <2>2. w.first = v.first /\ w.opens = v.opens /\ w.credit = v.credit /\ w.dying = v.dying
    BY DEF SameOpens, SameDying
  <2>3. \A q \in Objects : Near(m2, v, q) <=> Near(m2, w, q)
    BY <2>2, NearSame
  <2>4. \A q \in m2 : t \in refs'[q] \/ q = ilist'
    BY <1>1, <1>2 DEF ClaimInv
  <2>5. \A q \in w.first : (q \notin Streams /\ nOpen[q] = 0 /\ owner[q] = t)'
    BY <1>1, <1>2, <2>2 DEF ClaimInv
  <2>6. w.opens # None => <<t, w.opens>> \notin opened'
    BY <1>1, <1>2, <2>2 DEF ClaimInv
  <2>7. w.credit # None => Near(m2, w, w.credit) /\ w.credit \notin Streams
    BY <1>1, <2>2, <2>3, ViewFacts DEF ClaimInv
  <2>. QED
    BY <2>1, <2>4, <2>5, <2>6, <2>7 DEF ClaimInv
<1>8. ListInv(t, w)'
  <2>1. Vanish = "no" => \A c \in tmp[t] : c = ilist \/ t \in refs[c]
    BY <1>1 DEF ListInv
  <2>2. tmp[t] # {} => w.local
    BY <1>1 DEF ListInv, SameLists
  <2>. QED
    BY <1>2, <2>1, <2>2 DEF ListInv
<1>9. DyingInv(w)'
  <2>1. DyingInv(w)
    BY <1>1 DEF DyingInv, SameDying
  <2>. QED
    BY <1>2, <2>1 DEF DyingInv
<1>10. NewInv(t, Put(mine, t, m2), w)'
  BY DEF NewInv
<1>11. ASSUME NEW u \in Threads \ {t} PROVE Spares(u, t, view, m2)
  <2>1. view[u].new => ilist \notin m2 /\ o = System
    BY NewIsNotMine, NearFacts
  <2>2. DyingInv(view[u]) /\ NewInv(u, mine, view[u])
    BY ViewFacts
  <2>3. \A q \in Objects : /\ owner'[q] = u <=> owner[q] = u
                           /\ owner[q] = u => depth'[q] = depth[q]
    BY ObjectFacts
  <2>4. view[u].new => /\ owner'[System] = owner[System]
                       /\ owner[ilist] = None => owner'[ilist] = None
    <3>. SUFFICES ASSUME view[u].new
                  PROVE  /\ owner'[System] = owner[System]
                         /\ owner[ilist] = None => owner'[ilist] = None
      OBVIOUS
    <3>1. owner[System] = u /\ ilist \in Objects \ {System}
      BY <1>1, <2>2, ObjectFacts DEF NewInv, TypeInv
    <3>. QED
      BY <2>1, <2>3, <3>1, ObjectFacts
  <2>. QED
    BY <1>2, <1>3, <2>1, <2>2, <2>3, <2>4 DEF Spares, DyingInv, NewInv
<1>12. w.dying # None => \A u \in Threads \ {t} : view[u].dying # w.dying
  BY <1>1 DEF SameDying, DyingDiffer
<1>13. Accounts(Put(view, t, w))'
  BY <1>2, AccountsSame DEF SameDying, SameOpens
<1>. QED
  BY <1>1, <1>4, <1>5, <1>6, <1>7, <1>8, <1>9, <1>10, <1>11, <1>12, <1>13, Assemble

\* A thread locks a mutex.
LEMMA LockStep ==
  ASSUME NEW mine \in Claims, NEW view \in [Threads -> Views], J(mine, view),
         NEW t \in Threads, Lock(t)
  PROVE  Inv'
<1>. DEFINE v == view[t]
<1>1. PICK o \in Objects :
        /\ At(t, "lock", o) /\ CanLock(t, o)
        /\ owner' = [owner EXCEPT ![o] = t] /\ depth' = [depth EXCEPT ![o] = @ + 1]
        /\ Continue(t, Rest(t)) /\ UNCHANGED <<objVars, refs, tmp, opened, calls>>
  BY DEF Lock
<1>2. "lock" \in Ops
  BY DEF Ops
<1>3. /\ Near(mine[t], v, o) /\ Rest(t) \in Codes /\ todo[t] # <<>> /\ todo[t][1] = <<"lock", o>>
  BY <1>1, <1>2, StepFacts
<1>4. PICK w \in Views : Does(mine[t], <<"lock", o>>, v, w) /\ Typed(mine[t], Rest(t), w)
  BY <1>1, <1>2, StepFacts
<1>5. DoesLock(v, o, w) /\ w.new = v.new /\ ~w.asked
  BY <1>4 DEF Does, Views
<1>6. /\ SameOpens(v, w) /\ SameDying(v, w) /\ SameLists(v, w)
      /\ w.held = [v.held EXCEPT ![o] = @ + 1]
  BY <1>5 DEF DoesLock
<1>7. /\ TypeInv /\ CodeInv(t, mine[t], v) /\ ClaimInv(t, mine[t], v) /\ v.held \in [Objects -> Nat]
      /\ owner[o] \in {t, None} /\ NewInv(t, mine, v)
  BY <1>1, ViewFacts DEF CanLock
<1>8. /\ owner' \in [Objects -> Threads \cup {None}] /\ depth' \in [Objects -> Nat]
      /\ \A q \in Objects : owner'[q] = None <=> depth'[q] = 0
      /\ \A q \in Objects \ {o} : owner'[q] = owner[q] /\ depth'[q] = depth[q]
      /\ owner'[o] = t /\ depth'[o] = depth[o] + 1
  BY <1>1, <1>7, ObjectFacts DEF TypeInv
<1>9. \A q \in Objects : w.held[q] = IF owner'[q] = t THEN depth'[q] ELSE 0
  BY <1>6, <1>7, <1>8, ObjectFacts DEF CodeInv, TypeInv
<1>10. \A q \in v.first : owner'[q] = t
  BY <1>7, <1>8, ViewFacts DEF ClaimInv
<1>11. ASSUME w.new PROVE NewInv(t, Put(mine, t, mine[t]), w)'
  <2>1. Put(mine, t, mine[t]) = mine
    BY DEF Put, Claims
  <2>2. v.new /\ ilist \in Interfaces
    BY <1>5, <1>7, <1>11 DEF NewInv, TypeInv
  <2>3. ~At(t, "opening", ilist)
    BY <1>3 DEF At
  <2>4. At(t, "lock", ilist) /\ Rest(t) # <<>> /\ Rest(t)[1] = <<"opening", ilist>>
    BY <1>7, <2>2, <2>3 DEF NewInv
  <2>5. o = ilist /\ o # System
    BY <1>3, <2>2, <2>4, ObjectFacts DEF At
  <2>6. todo'[t] = Rest(t)
    BY <1>1, <1>7 DEF Continue, TypeInv
  <2>7. At(t, "opening", ilist)'
    BY <1>1, <2>4, <2>6 DEF At, objVars
  <2>8. owner'[System] = t
    BY <1>7, <1>8, <2>2, <2>5, ObjectFacts DEF NewInv
  <2>9. /\ ilist # None /\ nOpen[ilist] = 0 /\ refs[ilist] = {}
        /\ Children(ilist) \cap live = {}
        /\ \A u \in Threads \ {t} : ilist \notin mine[u] /\ ilist \notin tmp[u]
    BY <1>7, <2>2 DEF NewInv
  <2>10. UNCHANGED ilist /\ UNCHANGED nOpen /\ UNCHANGED refs /\ UNCHANGED live /\ UNCHANGED tmp
    BY <1>1 DEF objVars
  <2>11. /\ ilist' # None /\ nOpen'[ilist'] = 0 /\ refs'[ilist'] = {}
         /\ Children(ilist') \cap live' = {}
         /\ \A u \in Threads \ {t} : ilist' \notin mine[u] /\ ilist' \notin tmp'[u]
    BY <2>9, <2>10
  <2>. QED
    BY <2>1, <2>7, <2>8, <2>11 DEF NewInv
<1>12. GoesOn(t, Rest(t)) /\ UNCHANGED <<objVars, refs, tmp, opened>>
       /\ todo[t][1][1] \notin {"return", "enumerate"}
  BY <1>1, <1>3 DEF GoesOn, Continue
<1>. DEFINE code == Rest(t)
<1>. HIDE DEF v, code
<1>13. v = view[t]
  BY DEF v
<1>14. SameOpens(view[t], w) /\ SameDying(view[t], w) /\ SameLists(view[t], w) /\ ~w.asked
  BY <1>5, <1>6, <1>13
<1>15. Near(mine[t], view[t], o) /\ Typed(mine[t], code, w) /\ code \in Codes
  BY <1>3, <1>4, <1>13 DEF code
<1>16. \A q \in view[t].first : owner'[q] = t
  BY <1>10, <1>13
<1>17. owner[o] \in {t, None} /\ owner'[o] \in {t, None}
  BY <1>7, <1>8
<1>18. GoesOn(t, code) /\ todo[t] # <<>> /\ todo[t][1][1] \notin {"return", "enumerate"}
  BY <1>3, <1>12 DEF code
<1>19. w.new => NewInv(t, Put(mine, t, mine[t]), w)'
  BY <1>11
<1>. QED
  BY <1>8, <1>9, <1>12, <1>14, <1>15, <1>16, <1>17, <1>18, <1>19, MutexStep

\* A thread unlocks a mutex.
LEMMA UnlockStep ==
  ASSUME NEW mine \in Claims, NEW view \in [Threads -> Views], J(mine, view),
         NEW t \in Threads, Unlock(t)
  PROVE  Inv'
<1>. DEFINE v == view[t]
<1>1. PICK o \in Objects :
        /\ At(t, "unlock", o)
        /\ depth' = [depth EXCEPT ![o] = @ - 1]
        /\ owner' = [owner EXCEPT ![o] = IF depth[o] = 1 THEN None ELSE @]
        /\ Continue(t, Rest(t)) /\ UNCHANGED <<objVars, refs, tmp, opened, calls>>
  BY DEF Unlock
<1>2. "unlock" \in Ops
  BY DEF Ops
<1>3. /\ Near(mine[t], v, o) /\ Rest(t) \in Codes /\ todo[t] # <<>> /\ todo[t][1] = <<"unlock", o>>
  BY <1>1, <1>2, StepFacts
<1>4. PICK w \in Views : Does(mine[t], <<"unlock", o>>, v, w) /\ Typed(mine[t], Rest(t), w)
  BY <1>1, <1>2, StepFacts
<1>5. DoesUnlock(v, o, w) /\ ~w.new /\ ~w.asked
  BY <1>4 DEF Does, Views
<1>6. /\ SameOpens(v, w) /\ SameDying(v, w) /\ SameLists(v, w)
      /\ w.held = [v.held EXCEPT ![o] = @ - 1] /\ v.held[o] > 0 /\ (o \in v.first => w.held[o] > 0)
  BY <1>5 DEF DoesUnlock
<1>7. /\ TypeInv /\ CodeInv(t, mine[t], v) /\ ClaimInv(t, mine[t], v) /\ v.held \in [Objects -> Nat]
      /\ owner[o] = t
  BY <1>6, ViewFacts
<1>8. /\ owner' \in [Objects -> Threads \cup {None}] /\ depth' \in [Objects -> Nat]
      /\ \A q \in Objects : owner'[q] = None <=> depth'[q] = 0
      /\ \A q \in Objects \ {o} : owner'[q] = owner[q] /\ depth'[q] = depth[q]
      /\ owner'[o] \in {t, None} /\ depth'[o] = depth[o] - 1 /\ (owner'[o] = None <=> depth[o] = 1)
  <2>1. depth[o] \in Nat \ {0} /\ owner \in [Objects -> Threads \cup {None}]
        /\ depth \in [Objects -> Nat] /\ \A q \in Objects : owner[q] = None <=> depth[q] = 0
    BY <1>7, ObjectFacts DEF TypeInv
  <2>2. depth' \in [Objects -> Nat] /\ depth'[o] = depth[o] - 1
    BY <1>1, <2>1
  <2>3. owner' \in [Objects -> Threads \cup {None}] /\ owner'[o] = IF depth[o] = 1 THEN None ELSE t
    BY <1>1, <1>7, <2>1
  <2>4. \A q \in Objects \ {o} : owner'[q] = owner[q] /\ depth'[q] = depth[q]
    BY <1>1, <2>1
  <2>5. owner'[o] \in {t, None} /\ (owner'[o] = None <=> depth[o] = 1)
    BY <2>3, ObjectFacts
  <2>6. \A q \in Objects : owner'[q] = None <=> depth'[q] = 0
    BY <2>1, <2>2, <2>4, <2>5
  <2>. QED
    BY <2>2, <2>3, <2>4, <2>5, <2>6
<1>9. \A q \in Objects : w.held[q] = IF owner'[q] = t THEN depth'[q] ELSE 0
  BY <1>6, <1>7, <1>8, ObjectFacts DEF CodeInv, TypeInv
<1>10. \A q \in v.first : owner'[q] = t
  <2>. SUFFICES ASSUME NEW q \in v.first PROVE owner'[q] = t
    OBVIOUS
  <2>1. q \in Objects /\ owner[q] = t
    BY <1>7, ViewFacts DEF ClaimInv
  <2>2. CASE q = o
    BY <1>6, <1>8, <1>9, <2>2
  <2>. QED
    BY <1>8, <2>1, <2>2
<1>12. GoesOn(t, Rest(t)) /\ UNCHANGED <<objVars, refs, tmp, opened>>
       /\ todo[t][1][1] \notin {"return", "enumerate"}
  BY <1>1, <1>3 DEF GoesOn, Continue
<1>. DEFINE code == Rest(t)
<1>. HIDE DEF v, code
<1>13. v = view[t]
  BY DEF v
<1>14. SameOpens(view[t], w) /\ SameDying(view[t], w) /\ SameLists(view[t], w) /\ ~w.asked
  BY <1>5, <1>6, <1>13
<1>15. Near(mine[t], view[t], o) /\ Typed(mine[t], code, w) /\ code \in Codes
  BY <1>3, <1>4, <1>13 DEF code
<1>16. \A q \in view[t].first : owner'[q] = t
  BY <1>10, <1>13
<1>17. owner[o] \in {t, None} /\ owner'[o] \in {t, None}
  BY <1>7, <1>8
<1>18. GoesOn(t, code) /\ todo[t] # <<>> /\ todo[t][1][1] \notin {"return", "enumerate"}
  BY <1>3, <1>12 DEF code
<1>19. w.new => NewInv(t, Put(mine, t, mine[t]), w)'
  BY <1>5
<1>. QED
  BY <1>8, <1>9, <1>12, <1>14, <1>15, <1>16, <1>17, <1>18, <1>19, MutexStep

\* 1 if the condition holds.
N(b) == IF b THEN 1 ELSE 0

\* What thread t adds to the opens of q equals what it takes from its claims;
\* only the nOpen of o changes, and l is an interface that its list has opened.
Balance(t, v, v2, o, q, l) ==
  nOpen'[q] + N(<<t, q>> \in opened) + N(o \in Children(q) \ Streams /\ nOpen[o] > 0)
      + N(v.credit = q)
    = nOpen[q] + N(<<t, q>> \in opened') + N(o \in Children(q) \ Streams /\ nOpen'[o] > 0)
      + N(v2.credit = q) + N(q = l)

\* If all sums change alike, they stay equal.
LEMMA Sums ==
  ASSUME NEW n \in Nat, NEW x \in Nat, NEW y \in Nat, NEW z \in Nat, NEW s \in Nat,
         NEW n2 \in Nat, NEW x2 \in Nat, NEW y2 \in Nat, NEW z2 \in Nat,
         NEW a \in Nat, NEW b \in Nat, NEW c \in Nat,
         NEW a2 \in Nat, NEW b2 \in Nat, NEW c2 \in Nat, NEW d \in Nat,
         n = x + y + z + s, z2 + a = z + a2, y2 + b = y + b2, x2 + c = x + c2,
         n2 + c + b + a = n + c2 + b2 + a2 + d
  PROVE  n2 = x2 + y2 + z2 + s + d
OBVIOUS

\* A step that keeps the balance of every object keeps the accounts.
LEMMA AccountsMove ==
  ASSUME NEW mine, NEW view \in [Threads -> Views], J(mine, view), NEW t \in Threads, NEW v2,
         NEW o \in Objects, nOpen' \in [Objects -> Nat],
         \A q \in Objects \ {o} : nOpen'[q] = nOpen[q],
         \A u \in Threads \ {t}, q \in Objects : <<u, q>> \in opened' <=> <<u, q>> \in opened,
         ilist = None \/ ilist' = ilist,
         view[t].dying # None => v2.dying = view[t].dying,
         NEW l, l # None => l = ilist' /\ nOpen[l] = 0,
         \A q \in Objects \ Streams : q # view[t].dying => Balance(t, view[t], v2, o, q, l)
  PROVE  Accounts(Put(view, t, v2))'
<1>. DEFINE view2 == Put(view, t, v2)
<1>1. /\ view2[t] = v2 /\ \A u \in Threads \ {t} : view2[u] = view[u]
  BY DEF Put
<1>2. SUFFICES ASSUME NEW q \in Objects \ Streams, \A u \in Threads : view2[u].dying # q
               PROVE  Account(view2, q)'
  BY DEF Accounts
<1>3. \A u \in Threads : view[u].dying # q
  BY <1>1, <1>2, ObjectFacts
<1>4. Account(view, q) /\ nOpen \in [Objects -> Nat]
  BY <1>2, <1>3 DEF J, Accounts, TypeInv
<1>5. PICK s \in {0, 1} :
        /\ s = 1 => q = ilist
        /\ nOpen[q] = Cardinality(Openers(q)) + Cardinality(OpenChildren(q))
                        + Cardinality(Creditors(view, q)) + s
  BY <1>4 DEF Account
<1>6. Cardinality(Creditors(view2, q)) + N(view[t].credit = q)
        = Cardinality(Creditors(view, q)) + N(v2.credit = q)
  BY CreditCount DEF N
<1>7. Cardinality(OpenChildren(q))' + N(o \in Children(q) \ Streams /\ nOpen[o] > 0)
        = Cardinality(OpenChildren(q)) + N(o \in Children(q) \ Streams /\ nOpen'[o] > 0)
  BY ChildCount DEF N
<1>8. Cardinality(Openers(q))' + N(<<t, q>> \in opened)
        = Cardinality(Openers(q)) + N(<<t, q>> \in opened')
  BY <1>2, OpenerCount DEF N
<1>9. /\ Cardinality(Openers(q)) \in Nat /\ Cardinality(OpenChildren(q)) \in Nat
      /\ Cardinality(Creditors(view, q)) \in Nat /\ Cardinality(Creditors(view2, q)) \in Nat
  BY FiniteCounts
<1>10. /\ Cardinality(Openers(q))' \in Nat /\ Cardinality(OpenChildren(q))' \in Nat
  <2>1. Openers(q)' \subseteq Threads /\ OpenChildren(q)' \subseteq Objects
    BY DEF Openers, OpenChildren, Children
  <2>2. IsFiniteSet(Openers(q)') /\ IsFiniteSet(OpenChildren(q)')
    BY <2>1, ObjectsAssumption, FS_Subset
  <2>3. Cardinality(Openers(q)') \in Nat /\ Cardinality(OpenChildren(q)') \in Nat
    BY <2>2, FS_CardinalityType
  <2>. QED
    BY <2>3
<1>11. Balance(t, view[t], v2, o, q, l)
  BY <1>2, <1>3
<1>. HIDE DEF view2
<1>12. nOpen'[q] = Cardinality(Openers(q))' + Cardinality(OpenChildren(q))'
                     + Cardinality(Creditors(view2, q)) + s + N(q = l)
  <2>. DEFINE a1 == N(view[t].credit = q)
              a2 == N(v2.credit = q)
              b1 == N(o \in Children(q) \ Streams /\ nOpen[o] > 0)
              b2 == N(o \in Children(q) \ Streams /\ nOpen'[o] > 0)
              c1 == N(<<t, q>> \in opened)
              c2 == N(<<t, q>> \in opened')
              d == N(q = l)
  <2>1. /\ a1 \in Nat /\ a2 \in Nat /\ b1 \in Nat /\ b2 \in Nat /\ c1 \in Nat /\ c2 \in Nat
        /\ d \in Nat
    BY DEF N
  <2>2. nOpen'[q] + c1 + b1 + a1 = nOpen[q] + c2 + b2 + a2 + d
    BY <1>11 DEF Balance
  <2>3. nOpen[q] \in Nat /\ nOpen'[q] \in Nat /\ s \in Nat
    BY <1>2, <1>4
  <2>. HIDE DEF a1, a2, b1, b2, c1, c2, d
  <2>4. /\ Cardinality(Creditors(view2, q)) + a1 = Cardinality(Creditors(view, q)) + a2
        /\ Cardinality(OpenChildren(q))' + b1 = Cardinality(OpenChildren(q)) + b2
        /\ Cardinality(Openers(q))' + c1 = Cardinality(Openers(q)) + c2
    BY <1>6, <1>7, <1>8 DEF a1, a2, b1, b2, c1, c2
  <2>5. nOpen'[q] = Cardinality(Openers(q))' + Cardinality(OpenChildren(q))'
                     + Cardinality(Creditors(view2, q)) + s + d
    BY <1>5, <1>9, <1>10, <2>1, <2>2, <2>3, <2>4, Sums
  <2>. QED
    BY <2>5 DEF d
<1>13. CASE q = l
  <2>1. q # None
    BY <1>2, ObjectFacts
  <2>2. s = 0
    BY <1>5, <1>9, <1>13, <2>1
  <2>3. N(q = l) = 1 /\ q = ilist'
    BY <1>13, <2>1 DEF N
  <2>4. nOpen'[q] = Cardinality(Openers(q))' + Cardinality(OpenChildren(q))'
                     + Cardinality(Creditors(view2, q)) + 1
    BY <1>9, <1>10, <1>12, <2>2, <2>3
  <2>. QED
    BY <2>3, <2>4 DEF Account
<1>14. CASE q # l
  <2>1. N(q = l) = 0 /\ (s = 1 => q = ilist')
    BY <1>2, <1>5, <1>14, ObjectFacts DEF N
  <2>2. nOpen'[q] = Cardinality(Openers(q))' + Cardinality(OpenChildren(q))'
                     + Cardinality(Creditors(view2, q)) + s
    BY <1>9, <1>10, <1>12, <2>1
  <2>. QED
    BY <2>1, <2>2 DEF Account
<1>. QED
  BY <1>13, <1>14

\* The objects that t is opening are not open and locked by t.
FirstKept(t, v) == \A q \in v.first : q \notin Streams /\ nOpen'[q] = 0 /\ owner[q] = t

\* A step that opens or closes.
LEMMA Counted ==
  ASSUME NEW mine \in Claims, NEW view \in [Threads -> Views], J(mine, view),
         NEW t \in Threads, NEW m2 \in SUBSET Objects, NEW v2 \in Views,
         NEW code \in Codes, GoesOn(t, code), Typed(m2, code, v2),
         UNCHANGED <<owner, depth, live, ilist, weak, refs, tmp>>,
         Claimed(t, mine, view, m2),
         mine[t] \subseteq m2 \/ Nothing(view[t]),
         NEW o \in Objects, o \in live, nOpen' \in [Objects -> Nat],
         \A q \in Objects \ {o} : nOpen'[q] = nOpen[q],
         \/ UNCHANGED nOpen
         \/ /\ Near(mine[t], view[t], o)
            /\ o \in Streams \/ owner[o] = t \/ (view[t].dying = o /\ nOpen'[o] = 0),
         opened' \subseteq Threads \X Objects,
         \A u \in Threads, q \in Objects :
            u # t \/ q # o => (<<u, q>> \in opened' <=> <<u, q>> \in opened),
         v2.held = view[t].held,
         FirstKept(t, v2),
         v2.opens # None => <<t, v2.opens>> \notin opened',
         v2.credit # None => Near(m2, v2, v2.credit) /\ v2.credit \notin Streams,
         v2.dying = view[t].dying,
         v2.dying # None /\ v2.shut /\ v2.dying \notin Streams => nOpen'[v2.dying] = 0,
         ~v2.asked, ~v2.new, tmp[t] # {} => v2.local,
         todo[t] = <<>> \/ todo[t][1][1] \notin {"return", "enumerate"},
         NEW l, l # None => l = ilist /\ nOpen[l] = 0,
         \A q \in Objects \ Streams : q # view[t].dying => Balance(t, view[t], v2, o, q, l)
  PROVE  Inv'
<1>. DEFINE v == view[t]
<1>1. /\ TypeInv /\ LiveInv /\ CodeInv(t, mine[t], v) /\ ClaimInv(t, mine[t], v)
      /\ ListInv(t, v) /\ DyingInv(v) /\ DyingDiffer(view)
  BY ViewFacts DEF J
<1>2. /\ UNCHANGED owner /\ UNCHANGED depth /\ UNCHANGED live
      /\ UNCHANGED ilist /\ UNCHANGED weak /\ UNCHANGED refs /\ UNCHANGED tmp
  OBVIOUS
<1>3. /\ todo' \in [Threads -> Codes] /\ todo'[t] = code
      /\ \A u \in Threads \ {t} : todo'[u] = todo[u]
  BY <1>1, TypeKept
<1>4. TypeInv'
  BY <1>1, <1>2, <1>3 DEF TypeInv
<1>5. LiveInv'
  <2>1. \A q \in Objects \ Streams : q \notin live =>
           nOpen'[q] = 0 /\ \A u \in Threads : <<u, q>> \notin opened'
    BY <1>1 DEF LiveInv
  <2>. QED
    BY <1>1, <1>2, <2>1 DEF LiveInv
<1>6. CodeInv(t, m2, v2)'
  BY <1>1, <1>2, <1>3 DEF CodeInv
<1>7. ClaimInv(t, m2, v2)'
  <2>1. \A q \in m2 : t \in refs[q] \/ q = ilist
    BY <1>1 DEF ClaimInv, Claimed
  <2>2. \A i \in Interfaces : v2.held[i] > 0 => i \in m2
    BY <1>1, ObjectFacts DEF ClaimInv, Nothing
  <2>. QED
    BY <1>2, <2>1, <2>2 DEF ClaimInv, FirstKept
<1>8. ListInv(t, v2)'
  <2>1. Vanish = "no" => \A c \in tmp[t] : c = ilist \/ t \in refs[c]
    BY <1>1 DEF ListInv
  <2>. QED
    BY <1>2, <2>1 DEF ListInv
<1>9. DyingInv(v2)'
  BY <1>1, <1>2 DEF DyingInv
<1>10. NewInv(t, Put(mine, t, m2), v2)'
  BY DEF NewInv
<1>11. ASSUME NEW u \in Threads \ {t} PROVE Spares(u, t, view, m2)
  <2>1. view[u].new => ilist \notin m2
    BY DEF Claimed
  <2>2. DyingInv(view[u]) /\ NewInv(u, mine, view[u])
    BY ViewFacts
  <2>3. ASSUME NEW q \in Objects \ Streams, nOpen[q] = 0,
               owner[q] = u \/ q = view[u].dying \/ (view[u].new /\ q = ilist)
        PROVE  nOpen'[q] = 0
    <3>1. CASE q = o /\ ~UNCHANGED nOpen
      <4>1. Near(mine[t], view[t], o)
        BY <3>1
      <4>2. view[u].dying # o /\ (view[u].new => o = System)
        BY <4>1, NearFacts
      <4>3. owner[o] = u
        BY <1>1, <2>3, <3>1, <4>2, ObjectFacts DEF TypeInv
      <4>. QED
        BY <2>3, <3>1, <4>3
    <3>. QED
      BY <2>3, <3>1
  <2>4. ASSUME NEW q \in Objects, At(u, "enumerate", q), nOpen[q] > 0
        PROVE  nOpen'[q] > 0
    <3>1. "enumerate" \in Ops
      BY DEF Ops
    <3>2. PICK w \in Views : Does(mine[u], <<"enumerate", q>>, view[u], w)
      BY <2>4, <3>1, StepFacts
    <3>3. q \notin Streams /\ view[u].held[q] > 0 /\ Near(mine[u], view[u], q)
      BY <3>2, ObjectFacts DEF Does, DoesList
    <3>4. owner[q] = u /\ view[t].dying # q
      BY <3>3, ViewFacts, NearFacts
    <3>. QED
      BY <2>4, <3>3, <3>4
  <2>5. \A q \in Objects : <<u, q>> \in opened' => <<u, q>> \in opened
    OBVIOUS
  <2>6. todo'[u] = todo[u] /\ tmp'[u] = tmp[u]
    BY <1>2, <1>3
  <2>. QED
    BY <1>2, <2>1, <2>2, <2>3, <2>4, <2>5, <2>6 DEF Spares, DyingInv, NewInv
<1>12. v2.dying # None => \A u \in Threads \ {t} : view[u].dying # v2.dying
  BY <1>1 DEF DyingDiffer
<1>13. Accounts(Put(view, t, v2))'
  BY <1>2, AccountsMove
<1>. QED
  BY <1>4, <1>5, <1>6, <1>7, <1>8, <1>9, <1>10, <1>11, <1>12, <1>13, Assemble

\* With an object a thread claims its interface.
WithParent(m, o) == m \cup ({Parent[o]} \cap Interfaces)

\* A thread that may touch o may claim its interface.
LEMMA ParentClaim ==
  ASSUME NEW mine \in Claims, NEW view \in [Threads -> Views], J(mine, view),
         NEW t \in Threads, NEW o \in Objects \ Streams, o # System,
         Near(mine[t], view[t], o)
  PROVE  LET m2 == WithParent(mine[t], o)
         IN  /\ m2 \in SUBSET Objects /\ mine[t] \subseteq m2 /\ Claimed(t, mine, view, m2)
             /\ \A v : Near(m2, v, Parent[o])
             /\ Parent[o] \in Objects \ Streams /\ Parent[o] \in live /\ Parent[o] # o
             /\ o \in Children(Parent[o]) /\ o \notin Children(o)
             /\ \A q \in Objects : o \in Children(q) => q = Parent[o]
             /\ Level(o) = Level(Parent[o]) + 1 /\ Level(Parent[o]) \in 0..3
<1>. DEFINE m2 == WithParent(mine[t], o)
            p == Parent[o]
<1>1. o \in Interfaces \/ o \in Devices
  BY DEF Objects
<1>2. o \in Interfaces => p = System
  BY ObjectFacts
<1>3. o \in Devices => p = ilist /\ p \in Interfaces
  BY NearFacts, ObjectFacts
<1>4. /\ m2 \in SUBSET Objects /\ mine[t] \subseteq m2
      /\ \A v : Near(m2, v, p)
  BY <1>1, <1>2, <1>3, ViewFacts, ObjectFacts DEF WithParent, Near
<1>5. Claimed(t, mine, view, m2)
  <2>1. \A q \in m2 : q \in mine[t] \/ q = ilist
    BY <1>1, <1>2, <1>3, ObjectFacts DEF WithParent
  <2>2. \A u \in Threads \ {t} : view[u].new => ilist \notin mine[t]
    BY NewIsNotMine
  <2>3. \A u \in Threads \ {t} : ~view[u].new
    BY NearFacts
  <2>. QED
    BY <2>1, <2>3 DEF Claimed
<1>6. p \in Objects \ Streams /\ p # o /\ p \in live
  <2>1. o \in live /\ LiveInv
    BY NearFacts, ViewFacts
  <2>. QED
    BY <1>1, <1>2, <1>3, <2>1, ObjectFacts DEF LiveInv
<1>7. o \in Children(p) /\ \A q \in Objects : o \in Children(q) => q = p
  BY ObjectFacts
<1>8. Level(o) = Level(p) + 1 /\ Level(p) \in 0..3
  BY <1>6, LevelFacts
<1>. QED
  BY <1>4, <1>5, <1>6, <1>7, <1>8

\* The system has no parent.
LEMMA SystemIsNoChild == \A q \in Objects : System \notin Children(q)
BY DEF Children

-----------------------------------------------------------------------------
\* open() returns: its object is the thread's, and no credit any more.
LEMMA OpenedStep ==
  ASSUME NEW mine \in Claims, NEW view \in [Threads -> Views], J(mine, view),
         NEW t \in Threads, Opened(t)
  PROVE  Inv'
<1>. DEFINE v == view[t]
<1>1. PICK o \in Objects :
        /\ At(t, "opened", o)
        /\ opened' = opened \cup {<<t, o>>} /\ Continue(t, Rest(t))
        /\ UNCHANGED <<Rest4, objVars, tmp>>
  BY DEF Opened
<1>2. "opened" \in Ops
  BY DEF Ops
<1>3. /\ Near(mine[t], v, o) /\ Rest(t) \in Codes /\ todo[t] # <<>> /\ todo[t][1] = <<"opened", o>>
  BY <1>1, <1>2, StepFacts
<1>4. PICK w \in Views : Does(mine[t], <<"opened", o>>, v, w) /\ Typed(mine[t], Rest(t), w)
  BY <1>1, <1>2, StepFacts
<1>. DEFINE code == Rest(t)
<1>. HIDE DEF v, code
<1>5. v = view[t]
  BY DEF v
<1>6. DoesOpened(v, o, w) /\ ~w.new /\ ~w.asked
  BY <1>4 DEF Does, Views
<1>7. /\ v.credit = o /\ v.opens = o /\ w.credit = None /\ w.first = v.first /\ w.opens = None
      /\ w.held = v.held /\ w.dying = v.dying /\ w.shut = v.shut /\ w.local = v.local
  BY <1>6 DEF DoesOpened, SameRest, SameDying, SameLists
<1>8. /\ TypeInv /\ ClaimInv(t, mine[t], v) /\ ListInv(t, v) /\ DyingInv(v)
  BY <1>5, ViewFacts
<1>9. UNCHANGED <<owner, depth, live, ilist, weak, refs, tmp>> /\ UNCHANGED nOpen
  BY <1>1 DEF objVars, Rest4
<1>10. /\ GoesOn(t, code) /\ code \in Codes /\ Typed(mine[t], code, w)
       /\ todo[t] = <<>> \/ todo[t][1][1] \notin {"return", "enumerate"}
  BY <1>1, <1>3, <1>4 DEF GoesOn, Continue, code
<1>11. /\ o \in live /\ mine[t] \in SUBSET Objects /\ nOpen \in [Objects -> Nat]
  BY <1>3, <1>5, <1>8, NearFacts, ViewFacts DEF TypeInv
<1>12. Claimed(t, mine, view, mine[t])
  BY NewIsNotMine DEF Claimed
<1>13. o \notin Streams /\ <<t, o>> \notin opened
  BY <1>7, <1>8, ObjectFacts DEF ClaimInv
<1>14. /\ opened' \subseteq Threads \X Objects
       /\ \A u \in Threads, q \in Objects :
            u # t \/ q # o => (<<u, q>> \in opened' <=> <<u, q>> \in opened)
  BY <1>1, <1>8 DEF TypeInv
<1>15. /\ w.held = view[t].held /\ w.dying = view[t].dying
       /\ FirstKept(t, w)
       /\ w.opens # None => <<t, w.opens>> \notin opened'
       /\ w.credit # None => Near(mine[t], w, w.credit) /\ w.credit \notin Streams
       /\ w.dying # None /\ w.shut /\ w.dying \notin Streams => nOpen'[w.dying] = 0
       /\ tmp[t] # {} => w.local
  BY <1>5, <1>7, <1>8, <1>9 DEF FirstKept, ClaimInv, DyingInv, ListInv
<1>16. ASSUME NEW q \in Objects \ Streams
       PROVE  Balance(t, view[t], w, o, q, None)
  <2>1. q # None /\ o # None /\ nOpen'[q] = nOpen[q] /\ nOpen'[o] = nOpen[o] /\ nOpen[q] \in Nat
    BY <1>9, <1>11, ObjectFacts
  <2>2. <<t, q>> \in opened' <=> <<t, q>> \in opened \/ q = o
    BY <1>1
  <2>. QED
    BY <1>5, <1>7, <1>13, <2>1, <2>2 DEF Balance, N
<1>. QED
  BY <1>6, <1>9, <1>10, <1>11, <1>12, <1>14, <1>15, <1>16, Counted

\* A stream is started or stopped.
LEMMA StartStopStep ==
  ASSUME NEW mine \in Claims, NEW view \in [Threads -> Views], J(mine, view),
         NEW t \in Threads, StartStop(t)
  PROVE  Inv'
<1>. DEFINE v == view[t]
<1>1. PICK o \in Streams :
        /\ todo[t] # <<>> /\ todo[t][1] \in {<<"start", o>>, <<"stop", o>>}
        /\ nOpen' = [nOpen EXCEPT ![o] = IF At(t, "start", o) THEN 1 ELSE 0]
        /\ Continue(t, Rest(t))
        /\ UNCHANGED <<Rest4, live, ilist, weak, tmp, opened>>
  BY DEF StartStop
<1>2. PICK op \in {"start", "stop"} : At(t, op, o)
  BY <1>1 DEF At
<1>3. op \in Ops /\ o \in Objects
  BY ObjectFacts DEF Ops
<1>4. /\ Near(mine[t], v, o) /\ Rest(t) \in Codes /\ todo[t] # <<>> /\ todo[t][1] = <<op, o>>
  BY <1>2, <1>3, StepFacts
<1>5. PICK w \in Views : Does(mine[t], <<op, o>>, v, w) /\ Typed(mine[t], Rest(t), w)
  BY <1>2, <1>3, StepFacts
<1>. DEFINE code == Rest(t)
<1>. HIDE DEF v, code
<1>6. v = view[t]
  BY DEF v
<1>7. SameOpens(v, w) /\ SameRest(v, w) /\ ~w.new /\ ~w.asked
  BY <1>5 DEF Does, Views
<1>8. /\ w.credit = v.credit /\ w.first = v.first /\ w.opens = v.opens
      /\ w.held = v.held /\ w.dying = v.dying /\ w.shut = v.shut /\ w.local = v.local
  BY <1>7 DEF SameOpens, SameRest, SameDying, SameLists
<1>9. /\ TypeInv /\ ClaimInv(t, mine[t], v) /\ ListInv(t, v) /\ DyingInv(v)
  BY <1>6, ViewFacts
<1>10. UNCHANGED <<owner, depth, live, ilist, weak, refs, tmp>> /\ UNCHANGED opened
  BY <1>1 DEF Rest4
<1>11. /\ GoesOn(t, code) /\ code \in Codes /\ Typed(mine[t], code, w)
       /\ todo[t] = <<>> \/ todo[t][1][1] \notin {"return", "enumerate"}
  BY <1>1, <1>4, <1>5 DEF GoesOn, Continue, code
<1>12. /\ o \in live /\ mine[t] \in SUBSET Objects /\ nOpen \in [Objects -> Nat]
       /\ Near(mine[t], view[t], o)
  BY <1>3, <1>4, <1>6, <1>9, NearFacts, ViewFacts DEF TypeInv
<1>13. Claimed(t, mine, view, mine[t])
  BY NewIsNotMine DEF Claimed
<1>14. nOpen' \in [Objects -> Nat] /\ \A q \in Objects \ {o} : nOpen'[q] = nOpen[q]
  BY <1>1, <1>12
<1>15. /\ opened' \subseteq Threads \X Objects
       /\ \A u \in Threads, q \in Objects :
            u # t \/ q # o => (<<u, q>> \in opened' <=> <<u, q>> \in opened)
  BY <1>9, <1>10 DEF TypeInv
<1>16. \A q \in Objects \ Streams : nOpen'[q] = nOpen[q]
  BY <1>14
<1>17. /\ w.held = view[t].held /\ w.dying = view[t].dying
       /\ w.opens # None => <<t, w.opens>> \notin opened'
       /\ w.credit # None => Near(mine[t], w, w.credit) /\ w.credit \notin Streams
       /\ tmp[t] # {} => w.local
  BY <1>6, <1>8, <1>9, <1>10, NearSame, ViewFacts DEF ClaimInv, ListInv
<1>18. FirstKept(t, w)
  BY <1>6, <1>8, <1>9, <1>16, ViewFacts DEF FirstKept, ClaimInv
<1>19. w.dying # None /\ w.shut /\ w.dying \notin Streams => nOpen'[w.dying] = 0
  BY <1>6, <1>8, <1>9, <1>16, ViewFacts DEF DyingInv
<1>20. ASSUME NEW q \in Objects \ Streams
       PROVE  Balance(t, view[t], w, o, q, None)
  <2>1. q # None /\ nOpen'[q] = nOpen[q] /\ nOpen[q] \in Nat
    BY <1>12, <1>16, ObjectFacts
  <2>. QED
    BY <1>1, <1>6, <1>8, <1>10, <2>1 DEF Balance, N
<1>. QED
  BY <1>3, <1>7, <1>10, <1>11, <1>12, <1>13, <1>14, <1>15, <1>17, <1>18, <1>19, <1>20, Counted

\* The producer has opened the object.
LEMMA AttachStep ==
  ASSUME NEW mine \in Claims, NEW view \in [Threads -> Views], J(mine, view),
         NEW t \in Threads, Attach(t)
  PROVE  Inv'
<1>. DEFINE v == view[t]
<1>1. PICK o \in Objects :
        /\ At(t, "attach", o)
        /\ nOpen' = [nOpen EXCEPT ![o] = @ + 1] /\ Continue(t, Rest(t))
        /\ UNCHANGED <<Rest4, live, ilist, weak, tmp, opened>>
  BY DEF Attach
<1>2. "attach" \in Ops
  BY DEF Ops
<1>3. /\ Near(mine[t], v, o) /\ Rest(t) \in Codes /\ todo[t] # <<>> /\ todo[t][1] = <<"attach", o>>
  BY <1>1, <1>2, StepFacts
<1>4. PICK w \in Views : Does(mine[t], <<"attach", o>>, v, w) /\ Typed(mine[t], Rest(t), w)
  BY <1>1, <1>2, StepFacts
<1>. DEFINE code == Rest(t)
<1>. HIDE DEF v, code
<1>5. v = view[t]
  BY DEF v
<1>6. DoesAttach(v, o, w) /\ ~w.new /\ ~w.asked
  BY <1>4 DEF Does, Views
<1>7. /\ o \notin Streams /\ v.held[o] > 0 /\ v.dying = None
      /\ o \in v.first /\ v.credit = (IF o = System THEN None ELSE Parent[o])
      /\ Credited(v, o, w) /\ w.first = v.first \ {o} /\ w.opens = v.opens
      /\ w.held = v.held /\ w.dying = v.dying /\ w.shut = v.shut /\ w.local = v.local
  BY <1>6 DEF DoesAttach, SameRest, SameDying, SameLists
<1>8. /\ TypeInv /\ ClaimInv(t, mine[t], v) /\ ListInv(t, v) /\ DyingInv(v)
  BY <1>5, ViewFacts
<1>9. UNCHANGED <<owner, depth, live, ilist, weak, refs, tmp>> /\ UNCHANGED opened
  BY <1>1 DEF Rest4
<1>10. /\ GoesOn(t, code) /\ code \in Codes /\ Typed(mine[t], code, w)
       /\ todo[t] = <<>> \/ todo[t][1][1] \notin {"return", "enumerate"}
  BY <1>1, <1>3, <1>4 DEF GoesOn, Continue, code
<1>11. /\ o \in live /\ mine[t] \in SUBSET Objects /\ nOpen \in [Objects -> Nat]
       /\ Near(mine[t], view[t], o) /\ nOpen[o] = 0 /\ owner[o] = t
  BY <1>3, <1>5, <1>7, <1>8, NearFacts, ViewFacts DEF TypeInv, ClaimInv
<1>12. Claimed(t, mine, view, mine[t])
  BY NewIsNotMine DEF Claimed
<1>13. nOpen' \in [Objects -> Nat] /\ nOpen'[o] = 1 /\ \A q \in Objects \ {o} : nOpen'[q] = nOpen[q]
  BY <1>1, <1>11
<1>14. /\ opened' \subseteq Threads \X Objects
       /\ \A u \in Threads, q \in Objects :
            u # t \/ q # o => (<<u, q>> \in opened' <=> <<u, q>> \in opened)
  BY <1>8, <1>9 DEF TypeInv
<1>15. FirstKept(t, w)
  BY <1>5, <1>7, <1>8, <1>13, ViewFacts DEF FirstKept, ClaimInv
<1>16. w.credit # None => w.credit = o
  BY <1>7 DEF Credited
<1>17. Near(mine[t], w, o)
  BY <1>5, <1>7, <1>11, NearSame
<1>18. /\ w.held = view[t].held /\ w.dying = view[t].dying
       /\ w.opens # None => <<t, w.opens>> \notin opened'
       /\ w.credit # None => Near(mine[t], w, w.credit) /\ w.credit \notin Streams
       /\ w.dying # None /\ w.shut /\ w.dying \notin Streams => nOpen'[w.dying] = 0
       /\ tmp[t] # {} => w.local
  BY <1>5, <1>7, <1>8, <1>9, <1>16, <1>17 DEF ClaimInv, ListInv
<1>. DEFINE l == IF w.credit = o THEN None ELSE o
<1>19. l # None => l = ilist /\ nOpen[l] = 0
  <2>. SUFFICES ASSUME w.credit # o PROVE o = ilist
    BY <1>11
  <2>1. o \in Interfaces
    BY <1>7 DEF Credited
  <2>. QED
    BY <1>11, <2>1, NearFacts
<1>20. ASSUME NEW q \in Objects \ Streams
       PROVE  Balance(t, view[t], w, o, q, l)
  <2>0. q # None /\ o # None /\ nOpen[q] \in Nat /\ N(<<t, q>> \in opened) = N(<<t, q>> \in opened')
        /\ N(<<t, q>> \in opened) \in Nat
    BY <1>9, <1>11, ObjectFacts DEF N
  <2>1. w.credit = None \/ w.credit = o
    BY <1>7 DEF Credited
  <2>2. o # System => Parent[o] # o /\ Parent[o] # None /\ o \in Children(Parent[o]) /\ o \notin Children(o)
                      /\ \A x \in Objects : o \in Children(x) => x = Parent[o]
    BY <1>7, <1>11, ParentClaim, ObjectFacts
  <2>3. o = System => o \notin Children(q)
    BY SystemIsNoChild
  <2>4. CASE q = o
    <3>1. o \notin Children(o)
      BY <2>2, <2>3, <2>4
    <3>2. v.credit # o
      BY <1>7, <2>0, <2>2
    <3>. QED
      BY <1>5, <1>11, <1>13, <2>0, <2>1, <2>4, <3>1, <3>2 DEF Balance, N
  <2>5. CASE q # o
    <3>1. nOpen'[q] = nOpen[q] /\ w.credit # q /\ q # l
      BY <1>13, <2>0, <2>1, <2>5
    <3>2. o \in Children(q) \ Streams <=> v.credit = q
      BY <1>7, <2>0, <2>2, <2>3
    <3>. QED
      BY <1>5, <1>11, <1>13, <2>0, <3>1, <3>2 DEF Balance, N
  <2>. QED
    BY <2>4, <2>5
<1>21. mine[t] \subseteq mine[t] \/ Nothing(view[t])
  OBVIOUS
<1>22. \/ UNCHANGED nOpen
       \/ /\ Near(mine[t], view[t], o)
          /\ o \in Streams \/ owner[o] = t \/ (view[t].dying = o /\ nOpen'[o] = 0)
  BY <1>11
<1>23. ~w.asked /\ ~w.new
  BY <1>6
<1>24. \A q \in Objects \ Streams : q # view[t].dying => Balance(t, view[t], w, o, q, l)
  BY <1>20
<1>. HIDE DEF l
<1>. QED
  BY <1>9, <1>10, <1>11, <1>12, <1>13, <1>14, <1>15, <1>18, <1>19, <1>21, <1>22, <1>23, <1>24, Counted

\* The producer fails: the parent is closed, and the call unwinds.
LEMMA AttachFailsStep ==
  ASSUME NEW mine \in Claims, NEW view \in [Threads -> Views], J(mine, view),
         NEW t \in Threads, AttachFails(t)
  PROVE  Inv'
<1>. DEFINE v == view[t]
<1>1. PICK o \in Objects :
        /\ At(t, "attach", o)
        /\ Continue(t, (IF o = System THEN <<>> ELSE Close(Parent[o])) \o Unwind(Rest(t)))
        /\ UNCHANGED <<Rest4, objVars, tmp, opened>>
  BY DEF AttachFails
<1>2. "attach" \in Ops
  BY DEF Ops
<1>3. /\ Near(mine[t], v, o) /\ Rest(t) \in Codes /\ todo[t] # <<>> /\ todo[t][1] = <<"attach", o>>
  BY <1>1, <1>2, StepFacts
<1>4. PICK w \in Views : Does(mine[t], <<"attach", o>>, v, w) /\ Typed(mine[t], Rest(t), w)
  BY <1>1, <1>2, StepFacts
<1>. DEFINE rest == Unwind(Rest(t))
            b == Bare(w)
<1>5. DoesAttach(v, o, w) /\ ~w.new /\ ~w.asked /\ ~v.listed
  BY <1>4 DEF Does, Views
<1>6. /\ o \notin Streams /\ v.held[o] > 0 /\ v.dying = None /\ w.calm /\ Ordered(AtLeast(v, o))
      /\ o \in v.first /\ v.credit = (IF o = System THEN None ELSE Parent[o])
      /\ w.held = v.held /\ w.dying = v.dying /\ w.shut = v.shut /\ w.local = v.local
  BY <1>5 DEF DoesAttach, SameRest, SameDying, SameLists
<1>7. rest \in Codes /\ Typed(mine[t], rest, b)
  BY <1>3, <1>4, <1>6, TypedUnwind
<1>8. /\ b \in Views /\ b.held = v.held /\ b.credit = None /\ b.first = {} /\ b.opens = None
      /\ b.dying = None /\ b.shut = v.shut /\ b.local = v.local /\ b.listed = FALSE
      /\ b.new = FALSE /\ b.asked = FALSE /\ b.calm = w.calm
  BY <1>6 DEF Bare, Views
<1>9. /\ TypeInv /\ ClaimInv(t, mine[t], v) /\ ListInv(t, v) /\ DyingInv(v)
  BY ViewFacts
<1>10. UNCHANGED <<owner, depth, objVars, refs, tmp, opened>>
  BY <1>1 DEF Rest4
<1>11. \/ todo[t] # <<>> /\ todo[t][1][1] \notin {"return", "enumerate"}
       \/ Vanish = "no" => tmp[t] = {}
  BY <1>3
<1>12. tmp[t] # {} => v.local
  BY <1>9 DEF ListInv
<1>. HIDE DEF v, rest, b
<1>13. v = view[t]
  BY DEF v
<1>14. CASE o = System
  <2>1. GoesOn(t, rest)
    BY <1>1, <1>7, <1>14 DEF Continue, GoesOn, rest, Codes
  <2>2. Claimed(t, mine, view, mine[t]) /\ mine[t] \in SUBSET Objects
    BY NewIsNotMine, ViewFacts DEF Claimed
  <2>3. b.credit = view[t].credit /\ b.held = view[t].held /\ SameDying(view[t], b)
    BY <1>6, <1>8, <1>13, <1>14 DEF SameDying
  <2>4. /\ \A q \in b.first : q \in view[t].first \/ (q \notin Streams /\ nOpen[q] = 0 /\ owner[q] = t)
        /\ b.opens # None => b.opens = view[t].opens \/ <<t, b.opens>> \notin opened
        /\ ~b.asked /\ ~b.new /\ (tmp[t] # {} => b.local)
    BY <1>8, <1>12
  <2>. QED
    BY <1>7, <1>8, <1>10, <1>11, <2>1, <2>2, <2>3, <2>4, Quiet
<1>15. CASE o # System
  <2>. DEFINE p == Parent[o]
              m2 == WithParent(mine[t], o)
              code == Close(p) \o rest
              v2 == [b EXCEPT !.credit = p, !.calm = FALSE]
  <2>1. /\ m2 \in SUBSET Objects /\ mine[t] \subseteq m2 /\ Claimed(t, mine, view, m2)
        /\ Near(m2, b, p) /\ p \in Objects \ Streams /\ Level(o) = Level(p) + 1
        /\ Level(p) \in 0..3 /\ (o \in Interfaces => p = System)
    BY <1>3, <1>6, <1>13, <1>15, ParentClaim, ObjectFacts
  <2>2. GoesOn(t, code)
    BY <1>1, <1>15 DEF Continue, GoesOn, rest
  <2>3. /\ v2 \in Views /\ v2.held = b.held /\ v2.credit = p /\ v2.first = {} /\ v2.opens = None
        /\ SameDying(v2, b) /\ SameLists(v2, b) /\ ~v2.calm /\ v2.new = FALSE /\ v2.asked = FALSE
        /\ v2.local = b.local
    BY <1>8, <2>1 DEF Views, SameDying, SameLists
  <2>4. Ordered(Above(b, p))
    <3>. SUFFICES ASSUME Vanish = "no", NEW q \in Objects, b.held[q] > 0
                  PROVE  Level(q) > Level(p) \/ (q = System /\ p = System)
      BY DEF Ordered, Above
    <3>1. Level(q) >= Level(o) \/ (q = System /\ o \in Interfaces)
      BY <1>6, <1>8 DEF Ordered, AtLeast
    <3>2. Level(q) \in 0..3
      BY LevelFacts
    <3>. QED
      BY <2>1, <3>1, <3>2
  <2>5. Typed(m2, rest, b)
    BY <1>7, <2>1, TypedMore
  <2>6. Plain(b)
    BY <1>8 DEF Plain
  <2>. HIDE DEF p, m2, v2
  <2>7. code \in Codes /\ Typed(m2, code, v2)
    BY <1>7, <1>8, <2>1, <2>3, <2>4, <2>5, <2>6, TypedClose
  <2>8. v2.credit = view[t].credit /\ v2.held = view[t].held /\ SameDying(view[t], v2)
    BY <1>6, <1>8, <1>13, <1>15, <2>3 DEF SameDying, p
  <2>9. /\ \A q \in v2.first : q \in view[t].first \/ (q \notin Streams /\ nOpen[q] = 0 /\ owner[q] = t)
        /\ v2.opens # None => v2.opens = view[t].opens \/ <<t, v2.opens>> \notin opened
        /\ ~v2.asked /\ ~v2.new /\ (tmp[t] # {} => v2.local)
    BY <1>8, <1>12, <2>3
  <2>. HIDE DEF code
  <2>. QED
    BY <1>10, <1>11, <2>1, <2>2, <2>3, <2>7, <2>8, <2>9, Quiet
<1>. QED
  BY <1>14, <1>15

\* The instruction that asks the producer for o, before the rest of open().
LEMMA TypedAttach ==
  ASSUME NEW m, NEW code \in Codes, NEW v \in Views, NEW w \in Views, Typed(m, code, w),
         NEW o \in Objects, Near(m, v, o), DoesOpening(v, o, w), ~v.listed, Plain(w),
         NEW c \in Objects \cup {None}, c = IF o = System THEN None ELSE Parent[o],
         NEW a \in Views,
         a.held = w.held, a.credit = c, a.first = v.first \cup {o}, a.opens = w.opens,
         a.dying = w.dying, a.shut = w.shut, a.calm = w.calm, a.listed = w.listed,
         a.local = w.local, a.new = w.new, a.asked = w.asked
  PROVE  /\ I("attach", o) \o code \in Codes /\ Typed(m, I("attach", o) \o code, a)
         /\ a.held = v.held /\ a.credit = c /\ a.first = v.first \cup {o} /\ a.opens = v.opens
         /\ SameDying(v, a) /\ SameLists(v, a) /\ a.calm /\ Plain(a)
<1>1. /\ a.held = w.held /\ a.credit = c /\ a.first = v.first \cup {o} /\ a.opens = w.opens
      /\ a.dying = w.dying /\ a.shut = w.shut /\ a.calm = w.calm /\ a.listed = w.listed
      /\ a.local = w.local /\ a.new = w.new /\ a.asked = w.asked
  OBVIOUS
<1>2. /\ w.held = v.held /\ SameDying(v, w) /\ SameLists(v, w) /\ w.opens = v.opens /\ w.calm
      /\ w.first = v.first /\ o \notin Streams /\ v.held[o] > 0 /\ v.dying = None
      /\ Ordered(AtLeast(v, o)) /\ Credited(v, o, w) /\ \A q \in v.first : Level(q) > Level(o)
  BY DEF DoesOpening, SameRest
<1>3. Level(o) \in 0..3
  BY LevelFacts
<1>4. o \notin v.first
  BY <1>2, <1>3
<1>5. /\ a.held = v.held /\ a.opens = v.opens /\ SameDying(v, a) /\ SameLists(v, a) /\ a.calm
      /\ Plain(a)
  BY <1>1, <1>2 DEF SameDying, SameLists, Plain
<1>6. Near(m, a, o)
  BY <1>5, NearSame DEF SameDying
<1>7. Ordered(AtLeast(a, o)) /\ Credited(a, o, w)
  BY <1>2, <1>5 DEF Ordered, AtLeast, Credited
<1>8. DoesAttach(a, o, w)
  <2>1. w.first = a.first \ {o}
    BY <1>1, <1>2, <1>4
  <2>2. SameRest(a, w)
    BY <1>1 DEF SameRest, SameDying, SameLists
  <2>. QED
    BY <1>1, <1>2, <1>5, <1>7, <2>1, <2>2 DEF DoesAttach, SameDying
<1>9. Does(m, <<"attach", o>>, a, w)
  BY <1>2, <1>5, <1>6, <1>8 DEF Does, Calm, Plain, Views
<1>. QED
  BY <1>1, <1>5, <1>9, TypedCons DEF Ops

\* open() counts, or opens the parent and then asks the producer.
LEMMA OpeningStep ==
  ASSUME NEW mine \in Claims, NEW view \in [Threads -> Views], J(mine, view),
         NEW t \in Threads, Opening(t)
  PROVE  Inv'
<1>. DEFINE v == view[t]
<1>1. PICK o \in Objects :
        /\ At(t, "opening", o)
        /\ IF nOpen[o] > 0
           THEN nOpen' = [nOpen EXCEPT ![o] = @ + 1] /\ Continue(t, Rest(t))
           ELSE /\ Continue(t, (IF o = System THEN <<>> ELSE Open(Parent[o]))
                                 \o I("attach", o) \o Rest(t))
                /\ UNCHANGED nOpen
        /\ UNCHANGED <<Rest4, live, ilist, weak, tmp, opened>>
  BY DEF Opening
<1>2. "opening" \in Ops /\ "attach" \in Ops
  BY DEF Ops
<1>3. /\ Near(mine[t], v, o) /\ Rest(t) \in Codes /\ todo[t] # <<>> /\ todo[t][1] = <<"opening", o>>
  BY <1>1, <1>2, StepFacts
<1>4. PICK w \in Views : Does(mine[t], <<"opening", o>>, v, w) /\ Typed(mine[t], Rest(t), w)
  BY <1>1, <1>2, StepFacts
<1>. DEFINE rest == Rest(t)
<1>. HIDE DEF v, rest
<1>5. v = view[t]
  BY DEF v
<1>6. DoesOpening(v, o, w) /\ ~w.new /\ ~w.asked /\ ~v.listed
  BY <1>4, <1>5 DEF Does, Views
<1>7. /\ o \notin Streams /\ v.held[o] > 0 /\ v.credit = None /\ v.dying = None
      /\ (o # System /\ v.held[System] > 0 => v.new) /\ Ordered(AtLeast(v, o))
      /\ \A q \in v.first : Level(q) > Level(o)
      /\ Credited(v, o, w) /\ w.first = v.first /\ w.opens = v.opens /\ w.calm
      /\ w.held = v.held /\ w.dying = v.dying /\ w.shut = v.shut /\ w.local = v.local
      /\ w.listed = v.listed
  BY <1>6 DEF DoesOpening, SameRest, SameDying, SameLists
<1>8. /\ TypeInv /\ ClaimInv(t, mine[t], v) /\ ListInv(t, v) /\ DyingInv(v) /\ NewInv(t, mine, v)
      /\ v \in Views
  BY <1>5, ViewFacts
<1>9. UNCHANGED <<owner, depth, live, ilist, weak, refs, tmp>> /\ UNCHANGED opened
  BY <1>1 DEF Rest4
<1>10. todo[t] # <<>> /\ todo[t][1][1] \notin {"return", "enumerate"}
  BY <1>3
<1>11. /\ o \in live /\ mine[t] \in SUBSET Objects /\ nOpen \in [Objects -> Nat]
       /\ Near(mine[t], view[t], o) /\ owner[o] = t
  <2>1. o \in live
    BY <1>3, <1>5, NearFacts
  <2>2. owner[o] = t
    BY <1>5, <1>7, ViewFacts
  <2>. QED
    BY <1>3, <1>5, <1>8, <2>1, <2>2, ViewFacts DEF TypeInv
<1>12. Claimed(t, mine, view, mine[t])
  BY NewIsNotMine DEF Claimed
<1>13. v.new => o = ilist
  BY <1>8, <1>10, <1>3 DEF NewInv, At
<1>14. Near(mine[t], w, o)
  BY <1>5, <1>7, <1>11, NearSame
<1>15. CASE nOpen[o] > 0
  <2>1. nOpen' \in [Objects -> Nat] /\ nOpen'[o] = nOpen[o] + 1
        /\ \A q \in Objects \ {o} : nOpen'[q] = nOpen[q]
    BY <1>1, <1>11, <1>15
  <2>2. GoesOn(t, rest) /\ rest \in Codes /\ Typed(mine[t], rest, w)
    BY <1>1, <1>3, <1>4, <1>15 DEF GoesOn, Continue, rest
  <2>3. ~v.new
    BY <1>8, <1>13, <1>15 DEF NewInv
  <2>4. w.credit = o
    <3>1. ~(o \in Interfaces /\ v.held[System] > 0)
      BY <1>7, <2>3, ObjectFacts
    <3>. QED
      BY <1>7, <3>1 DEF Credited
  <2>5. FirstKept(t, w)
    <3>. SUFFICES ASSUME NEW q \in w.first
                  PROVE  q \notin Streams /\ nOpen'[q] = 0 /\ owner[q] = t
      BY DEF FirstKept
    <3>1. q \notin Streams /\ nOpen[q] = 0 /\ owner[q] = t /\ q \in Objects
      BY <1>5, <1>7, <1>8, ViewFacts DEF ClaimInv
    <3>. QED
      BY <1>15, <2>1, <3>1
  <2>6. /\ w.held = view[t].held /\ w.dying = view[t].dying
        /\ w.opens # None => <<t, w.opens>> \notin opened'
        /\ w.credit # None => Near(mine[t], w, w.credit) /\ w.credit \notin Streams
        /\ w.dying # None /\ w.shut /\ w.dying \notin Streams => nOpen'[w.dying] = 0
        /\ tmp[t] # {} => w.local
    BY <1>5, <1>7, <1>8, <1>9, <1>14, <2>4 DEF ClaimInv, ListInv
  <2>7. /\ opened' \subseteq Threads \X Objects
        /\ \A u \in Threads, q \in Objects :
             u # t \/ q # o => (<<u, q>> \in opened' <=> <<u, q>> \in opened)
    BY <1>8, <1>9 DEF TypeInv
  <2>8. ASSUME NEW q \in Objects \ Streams
        PROVE  Balance(t, view[t], w, o, q, None)
    <3>1. /\ q # None /\ o # None /\ nOpen[q] \in Nat /\ nOpen[o] \in Nat
          /\ N(<<t, q>> \in opened) = N(<<t, q>> \in opened') /\ N(<<t, q>> \in opened) \in Nat
      BY <1>9, <1>11, ObjectFacts DEF N
    <3>2. nOpen[o] > 0 /\ nOpen'[o] > 0
      BY <1>15, <2>1, <3>1
    <3>. QED
      BY <1>5, <1>7, <2>1, <2>4, <3>1, <3>2 DEF Balance, N
  <2>9. mine[t] \subseteq mine[t] \/ Nothing(view[t])
    OBVIOUS
  <2>10. \/ UNCHANGED nOpen
         \/ /\ Near(mine[t], view[t], o)
            /\ o \in Streams \/ owner[o] = t \/ (view[t].dying = o /\ nOpen'[o] = 0)
    BY <1>11
  <2>11. \A q \in Objects \ Streams : q # view[t].dying => Balance(t, view[t], w, o, q, None)
    BY <2>8
  <2>12. todo[t] = <<>> \/ todo[t][1][1] \notin {"return", "enumerate"}
    BY <1>10
  <2>14. ~w.asked /\ ~w.new
    BY <1>6
  <2>. QED
    BY <1>9, <1>11, <1>12, <2>1, <2>2, <2>5, <2>6, <2>7, <2>9, <2>10, <2>11, <2>12, <2>14, Counted
<1>16. CASE ~(nOpen[o] > 0)
  <2>. DEFINE c == IF o = System THEN None ELSE Parent[o]
              a == [w EXCEPT !.credit = c, !.first = v.first \cup {o}]
              attach == I("attach", o) \o rest
  <2>1. nOpen[o] = 0 /\ UNCHANGED <<owner, depth, objVars, refs, tmp, opened>>
    BY <1>1, <1>9, <1>11, <1>16 DEF objVars
  <2>2. c \in Objects \cup {None}
    BY ObjectFacts
  <2>3. a \in Views
    BY <1>8, <2>2 DEF Views
  <2>4. /\ attach \in Codes /\ Typed(mine[t], attach, a)
        /\ a.held = v.held /\ a.credit = c /\ a.first = v.first \cup {o} /\ a.opens = v.opens
        /\ SameDying(v, a) /\ SameLists(v, a) /\ a.calm /\ Plain(a)
    <3>1. Typed(mine[t], rest, w) /\ rest \in Codes /\ Plain(w) /\ Near(mine[t], v, o)
      BY <1>3, <1>4, <1>6, <1>7 DEF rest, Plain
    <3>. HIDE DEF c
    <3>3. c = IF o = System THEN None ELSE Parent[o]
      BY DEF c
    <3>4. /\ a.held = w.held /\ a.credit = c /\ a.first = v.first \cup {o} /\ a.opens = w.opens
          /\ a.dying = w.dying /\ a.shut = w.shut /\ a.calm = w.calm /\ a.listed = w.listed
          /\ a.local = w.local /\ a.new = w.new /\ a.asked = w.asked
      BY DEF Views
    <3>5. DoesOpening(v, o, w) /\ ~v.listed /\ v \in Views
      BY <1>6, <1>8
    <3>. HIDE DEF a
    <3>2. /\ attach \in Codes /\ Typed(mine[t], attach, a)
          /\ a.held = v.held /\ a.credit = c /\ a.first = v.first \cup {o} /\ a.opens = v.opens
          /\ SameDying(v, a) /\ SameLists(v, a) /\ a.calm /\ Plain(a)
      BY <2>2, <2>3, <3>1, <3>3, <3>4, <3>5, TypedAttach
    <3>. QED
      BY <3>2
  <2>5. \A q \in a.first : \/ q \in view[t].first
                           \/ q \notin Streams /\ nOpen[q] = 0 /\ owner[q] = t
    BY <1>5, <1>7, <1>11, <2>1, <2>4
  <2>6. CASE o = System
    <3>1. GoesOn(t, attach)
      <4>1. (<<>> \o I("attach", o)) \o rest = attach
        BY <1>2, InstructionCodes DEF Codes
      <4>. QED
        BY <1>1, <1>16, <2>6, <4>1 DEF Continue, GoesOn, rest
    <3>2. /\ a.held = view[t].held /\ a.credit = view[t].credit /\ SameDying(view[t], a)
          /\ a.opens # None => a.opens = view[t].opens \/ <<t, a.opens>> \notin opened
          /\ ~a.asked /\ ~a.new /\ (tmp[t] # {} => a.local)
      BY <1>5, <1>7, <1>8, <2>4, <2>6 DEF Plain, ListInv, SameLists
    <3>3. mine[t] \subseteq mine[t] \/ (Nothing(view[t]) /\ a.credit = None)
      OBVIOUS
    <3>4. \/ todo[t] # <<>> /\ todo[t][1][1] \notin {"return", "enumerate"}
          \/ Vanish = "no" => tmp[t] = {}
      BY <1>10
    <3>. HIDE DEF a, attach, c
    <3>. QED
      BY <1>11, <1>12, <2>1, <2>3, <2>4, <2>5, <3>1, <3>2, <3>3, <3>4, Quiet
  <2>7. CASE o # System
    <3>. HIDE DEF a, attach, c
    <3>. DEFINE p == Parent[o]
                m2 == WithParent(mine[t], o)
                code == Open(p) \o attach
                v2 == [a EXCEPT !.credit = None, !.calm = FALSE]
    <3>1. /\ m2 \in SUBSET Objects /\ mine[t] \subseteq m2 /\ Claimed(t, mine, view, m2)
          /\ Near(m2, a, p) /\ p \in Objects \ Streams /\ Level(o) = Level(p) + 1
          /\ Level(p) \in 0..3 /\ (o \in Interfaces => p = System)
      <4>1. o \in Objects \ Streams /\ Near(mine[t], view[t], o)
        BY <1>7, <1>11
      <4>2. /\ m2 \in SUBSET Objects /\ mine[t] \subseteq m2 /\ Claimed(t, mine, view, m2)
            /\ \A x : Near(m2, x, p)
            /\ p \in Objects \ Streams /\ Level(o) = Level(p) + 1 /\ Level(p) \in 0..3
        BY <2>7, <4>1, ParentClaim
      <4>. HIDE DEF m2, p
      <4>. QED
        BY <4>2, ObjectFacts DEF p
    <3>2. Typed(m2, attach, a)
      BY <2>4, <3>1, TypedMore
    <3>3. c = p
      BY <2>7 DEF c
    <3>4. /\ v2 \in Views /\ v2.held = a.held /\ v2.credit = None /\ v2.first = a.first
          /\ v2.opens = a.opens /\ SameDying(v2, a) /\ SameLists(v2, a) /\ ~v2.calm
          /\ v2.new = a.new /\ v2.asked = a.asked /\ v2.dying = a.dying /\ v2.shut = a.shut
          /\ v2.local = a.local
      BY <2>3 DEF Views, SameDying, SameLists
    <3>5. Ordered(Above(v2, p))
      <4>. SUFFICES ASSUME Vanish = "no", NEW q \in Objects, v2.held[q] > 0
                    PROVE  Level(q) > Level(p) \/ (q = System /\ p = System)
        BY DEF Ordered, Above
      <4>1. Level(q) >= Level(o) \/ (q = System /\ o \in Interfaces)
        BY <1>7, <2>4, <3>4 DEF Ordered, AtLeast
      <4>2. Level(q) \in 0..3
        BY LevelFacts
      <4>. QED
        BY <3>1, <4>1, <4>2
    <3>6. p # System => v2.held[System] = 0
      <4>. SUFFICES ASSUME p # System PROVE v2.held[System] = 0
        OBVIOUS
      <4>1. o \notin Interfaces
        BY <3>1
      <4>2. ~v.new
        BY <1>8, <1>13, <4>1, ObjectFacts DEF NewInv, TypeInv
      <4>3. v.held \in [Objects -> Nat] /\ ~(v.held[System] > 0)
        BY <1>5, <1>7, <2>7, <4>2, ViewFacts
      <4>. QED
        BY <2>4, <3>4, <4>3, ObjectFacts
    <3>7. Credited(v2, p, a)
      BY <2>4, <3>3 DEF Credited
    <3>8. \A q \in a.first : Level(q) > Level(p)
      <4>. SUFFICES ASSUME NEW q \in a.first PROVE Level(q) > Level(p)
        OBVIOUS
      <4>1. q \in Objects
        BY <1>5, <1>11, <2>4, ViewFacts
      <4>2. Level(q) >= Level(o) /\ Level(q) \in 0..3
        BY <1>7, <2>4, <3>1, <4>1, LevelFacts
      <4>. QED
        BY <3>1, <4>2
    <3>9. a.dying = None /\ attach \in Codes /\ a.calm /\ Plain(a)
      BY <1>7, <2>4 DEF SameDying
    <3>. HIDE DEF p, m2, v2
    <3>10. code \in Codes /\ Typed(m2, code, v2)
      <4>1. p \in Objects /\ p \notin Streams /\ (p # System /\ v2.held[System] > 0 => v2.new)
        BY <3>1, <3>6, LevelFacts
      <4>. QED
        BY <2>3, <3>1, <3>2, <3>4, <3>5, <3>7, <3>8, <3>9, <4>1, TypedOpen
    <3>11. GoesOn(t, code)
      <4>1. p \in Objects
        BY <3>1
      <4>2. (Open(p) \o I("attach", o)) \o rest = Open(p) \o (I("attach", o) \o rest)
        <5>1. "lock" \in Ops /\ "unlock" \in Ops
          BY DEF Ops
        <5>2. Open(p) \in Codes /\ I("attach", o) \in Codes /\ rest \in Codes
          BY <1>2, <1>3, <4>1, <5>1, InstructionCodes, CodesConcat DEF Open, rest
        <5>. QED
          BY <5>2, Assoc
      <4>. QED
        BY <1>1, <1>16, <2>7, <4>2 DEF Continue, GoesOn, rest, attach, p
    <3>12. /\ v2.held = view[t].held /\ v2.credit = view[t].credit /\ SameDying(view[t], v2)
           /\ v2.opens # None => v2.opens = view[t].opens \/ <<t, v2.opens>> \notin opened
           /\ ~v2.asked /\ ~v2.new /\ (tmp[t] # {} => v2.local)
      BY <1>5, <1>7, <1>8, <2>4, <3>4 DEF Plain, ListInv, SameLists, SameDying
    <3>13. mine[t] \subseteq m2 \/ (Nothing(view[t]) /\ v2.credit = None)
      BY <3>1
    <3>14. \/ todo[t] # <<>> /\ todo[t][1][1] \notin {"return", "enumerate"}
           \/ Vanish = "no" => tmp[t] = {}
      BY <1>10
    <3>15. \A q \in v2.first : \/ q \in view[t].first
                               \/ q \notin Streams /\ nOpen[q] = 0 /\ owner[q] = t
      BY <2>5, <3>4
    <3>. HIDE DEF code
    <3>. QED
      BY <2>1, <3>1, <3>4, <3>10, <3>11, <3>12, <3>13, <3>14, <3>15, Quiet
  <2>. QED
    BY <2>6, <2>7
<1>. QED
  BY <1>15, <1>16

\* The last close() of o gives what its parent was opened for to its close().
LEMMA ClosingStep ==
  ASSUME NEW mine \in Claims, NEW view \in [Threads -> Views], J(mine, view),
         NEW t \in Threads, Closing(t)
  PROVE  Inv'
<1>. DEFINE v == view[t]
<1>1. PICK o \in Objects :
        /\ At(t, "closing", o)
        /\ nOpen' = [nOpen EXCEPT ![o] = IF @ > 0 THEN @ - 1 ELSE 0]
        /\ Continue(t, (IF nOpen[o] = 1 /\ o # System THEN Close(Parent[o]) ELSE <<>>)
                         \o Rest(t))
        /\ UNCHANGED <<Rest4, live, ilist, weak, tmp, opened>>
  BY DEF Closing
<1>2. "closing" \in Ops
  BY DEF Ops
<1>3. /\ Near(mine[t], v, o) /\ Rest(t) \in Codes /\ todo[t] # <<>> /\ todo[t][1] = <<"closing", o>>
  BY <1>1, <1>2, StepFacts
<1>4. PICK w \in Views : Does(mine[t], <<"closing", o>>, v, w) /\ Typed(mine[t], Rest(t), w)
  BY <1>1, <1>2, StepFacts
<1>. DEFINE rest == Rest(t)
<1>. HIDE DEF v, rest
<1>5. v = view[t]
  BY DEF v
<1>6. DoesClosing(v, o, w) /\ ~w.new /\ ~w.asked /\ ~v.listed
  BY <1>4, <1>5 DEF Does, Views
<1>7. /\ o \notin Streams /\ v.held[o] > 0 /\ v.credit = o /\ v.first = {}
      /\ Ordered(\A q \in Objects : v.held[q] > 0 => Level(q) >= Level(o))
      /\ w.credit = None /\ w.first = {} /\ w.opens = v.opens
      /\ w.held = v.held /\ w.dying = v.dying /\ w.shut = v.shut /\ w.local = v.local
      /\ ~w.listed
  BY <1>6 DEF DoesClosing, SameRest, SameDying, SameLists
<1>8. /\ TypeInv /\ ClaimInv(t, mine[t], v) /\ ListInv(t, v) /\ DyingInv(v)
  BY <1>5, ViewFacts
<1>9. UNCHANGED <<owner, depth, live, ilist, weak, refs, tmp>> /\ UNCHANGED opened
  BY <1>1 DEF Rest4
<1>10. todo[t] = <<>> \/ todo[t][1][1] \notin {"return", "enumerate"}
  BY <1>3
<1>11. /\ o \in live /\ mine[t] \in SUBSET Objects /\ nOpen \in [Objects -> Nat]
       /\ Near(mine[t], view[t], o) /\ owner[o] = t
  <2>1. o \in live
    BY <1>3, <1>5, NearFacts
  <2>2. owner[o] = t
    BY <1>5, <1>7, ViewFacts
  <2>. QED
    BY <1>3, <1>5, <1>8, <2>1, <2>2, ViewFacts DEF TypeInv
<1>12. nOpen' \in [Objects -> Nat] /\ \A q \in Objects \ {o} : nOpen'[q] = nOpen[q]
  BY <1>1, <1>11
<1>13. nOpen'[o] = IF nOpen[o] > 0 THEN nOpen[o] - 1 ELSE 0
  BY <1>1, <1>11
<1>14. /\ opened' \subseteq Threads \X Objects
       /\ \A u \in Threads, q \in Objects :
            u # t \/ q # o => (<<u, q>> \in opened' <=> <<u, q>> \in opened)
  BY <1>8, <1>9 DEF TypeInv
<1>15. nOpen[o] > 0 \/ view[t].dying = o
  <2>. SUFFICES ASSUME view[t].dying # o PROVE nOpen[o] > 0
    OBVIOUS
  <2>1. \A u \in Threads : view[u].dying # o
    BY <1>11, NearFacts
  <2>2. Account(view, o)
    BY <1>7, <2>1 DEF J, Accounts
  <2>3. Creditors(view, o) # {}
    BY <1>5, <1>7 DEF Creditors
  <2>4. Cardinality(Creditors(view, o)) > 0
    BY <2>3, FiniteCounts, FS_EmptySet
  <2>. QED
    BY <2>2, <2>4, FiniteCounts DEF Account
<1>16. v.dying # None /\ v.shut /\ v.dying \notin Streams => nOpen'[v.dying] = 0
  BY <1>5, <1>8, <1>12, <1>13, ViewFacts DEF DyingInv
<1>17. \/ UNCHANGED nOpen
       \/ /\ Near(mine[t], view[t], o)
          /\ o \in Streams \/ owner[o] = t \/ (view[t].dying = o /\ nOpen'[o] = 0)
  BY <1>11
<1>18. w.opens # None => <<t, w.opens>> \notin opened'
  BY <1>7, <1>8, <1>9 DEF ClaimInv
<1>19. tmp[t] # {} => w.local
  BY <1>7, <1>8 DEF ListInv
<1>20. CASE ~(nOpen[o] = 1 /\ o # System)
  <2>1. GoesOn(t, rest) /\ rest \in Codes /\ Typed(mine[t], rest, w)
    <3>1. <<>> \o Rest(t) = Rest(t)
      BY <1>3 DEF Codes
    <3>. QED
      BY <1>1, <1>3, <1>4, <1>20, <3>1 DEF GoesOn, Continue, rest
  <2>2. FirstKept(t, w)
    BY <1>7 DEF FirstKept
  <2>3. Claimed(t, mine, view, mine[t])
    BY NewIsNotMine DEF Claimed
  <2>4. ASSUME NEW q \in Objects \ Streams, q # view[t].dying
        PROVE  Balance(t, view[t], w, o, q, None)
    <3>1. /\ q # None /\ o # None /\ nOpen[q] \in Nat /\ nOpen[o] \in Nat
          /\ N(<<t, q>> \in opened) = N(<<t, q>> \in opened') /\ N(<<t, q>> \in opened) \in Nat
      BY <1>9, <1>11, ObjectFacts DEF N
    <3>2. (o \in Children(q) \ Streams /\ nOpen[o] > 0)
            <=> (o \in Children(q) \ Streams /\ nOpen'[o] > 0)
      BY <1>13, <1>20, <3>1, SystemIsNoChild
    <3>3. N(o \in Children(q) \ Streams /\ nOpen[o] > 0)
            = N(o \in Children(q) \ Streams /\ nOpen'[o] > 0)
          /\ N(o \in Children(q) \ Streams /\ nOpen[o] > 0) \in Nat
      BY <3>2 DEF N
    <3>4. w.credit # q /\ (v.credit = q <=> q = o)
      BY <1>7, <3>1
    <3>5. nOpen'[q] + (IF q = o THEN 1 ELSE 0) = nOpen[q] /\ nOpen'[q] \in Nat
      BY <1>12, <1>13, <1>15, <2>4, <3>1
    <3>6. N(v.credit = q) = (IF q = o THEN 1 ELSE 0) /\ N(w.credit = q) = 0 /\ N(q = None) = 0
      BY <3>1, <3>4 DEF N
    <3>. QED
      BY <1>5, <3>1, <3>3, <3>5, <3>6 DEF Balance
  <2>5. mine[t] \subseteq mine[t] \/ Nothing(view[t])
    OBVIOUS
  <2>6. /\ w.held = view[t].held /\ w.dying = view[t].dying /\ ~w.asked /\ ~w.new
        /\ w.credit # None => Near(mine[t], w, w.credit) /\ w.credit \notin Streams
        /\ w.dying # None /\ w.shut /\ w.dying \notin Streams => nOpen'[w.dying] = 0
    BY <1>5, <1>6, <1>7, <1>16
  <2>. QED
    BY <1>9, <1>10, <1>11, <1>12, <1>14, <1>17, <1>18, <1>19, <2>1, <2>2, <2>3, <2>4, <2>5, <2>6, Counted
<1>21. CASE nOpen[o] = 1 /\ o # System
  <2>. DEFINE p == Parent[o]
              m2 == WithParent(mine[t], o)
              code == Close(p) \o rest
              v2 == [w EXCEPT !.credit = p, !.calm = FALSE]
  <2>1. /\ m2 \in SUBSET Objects /\ mine[t] \subseteq m2 /\ Claimed(t, mine, view, m2)
        /\ \A x : Near(m2, x, p)
        /\ p \in Objects \ Streams /\ Level(o) = Level(p) + 1 /\ Level(p) \in 0..3
        /\ p # o /\ o \in Children(p) /\ o \notin Children(o)
        /\ \A q \in Objects : o \in Children(q) => q = p
    <3>1. o \in Objects \ Streams /\ Near(mine[t], view[t], o) /\ o # System
      BY <1>7, <1>11, <1>21
    <3>. QED
      BY <3>1, ParentClaim
  <2>2. GoesOn(t, code)
    BY <1>1, <1>21 DEF Continue, GoesOn, rest
  <2>3. /\ v2 \in Views /\ v2.held = w.held /\ v2.credit = p /\ v2.first = w.first /\ v2.opens = w.opens
        /\ SameDying(v2, w) /\ SameLists(v2, w) /\ ~v2.calm /\ v2.new = w.new /\ v2.asked = w.asked
        /\ v2.local = w.local /\ v2.dying = w.dying /\ v2.shut = w.shut
    BY <2>1 DEF Views, SameDying, SameLists
  <2>4. Ordered(Above(w, p))
    <3>. SUFFICES ASSUME Vanish = "no", NEW q \in Objects, w.held[q] > 0
                  PROVE  Level(q) > Level(p) \/ (q = System /\ p = System)
      BY DEF Ordered, Above
    <3>1. Level(q) >= Level(o)
      BY <1>7 DEF Ordered
    <3>2. Level(q) \in 0..3
      BY LevelFacts
    <3>. QED
      BY <2>1, <3>1, <3>2
  <2>5. Typed(m2, rest, w) /\ rest \in Codes
    BY <1>3, <1>4, <2>1, TypedMore DEF rest
  <2>6. Plain(w) /\ w.new = FALSE /\ w.asked = FALSE
    BY <1>6, <1>7 DEF Plain, Views
  <2>7. Near(m2, w, p) /\ Near(m2, v2, p) /\ p \in Objects /\ p \notin Streams
    BY <2>1
  <2>. HIDE DEF p, m2, v2
  <2>8. code \in Codes /\ Typed(m2, code, v2)
    BY <1>7, <2>3, <2>4, <2>5, <2>6, <2>7, TypedClose
  <2>9. FirstKept(t, v2)
    BY <1>7, <2>3 DEF FirstKept
  <2>10. ASSUME NEW q \in Objects \ Streams, q # view[t].dying
         PROVE  Balance(t, view[t], v2, o, q, None)
    <3>1. /\ q # None /\ o # None /\ nOpen[q] \in Nat /\ nOpen[o] \in Nat
          /\ N(<<t, q>> \in opened) = N(<<t, q>> \in opened') /\ N(<<t, q>> \in opened) \in Nat
      BY <1>9, <1>11, ObjectFacts DEF N
    <3>2. nOpen[o] > 0 /\ ~(nOpen'[o] > 0)
      BY <1>13, <1>21
    <3>3. (o \in Children(q) \ Streams) <=> q = p
      BY <1>7, <2>1
    <3>4. nOpen'[q] + (IF q = o THEN 1 ELSE 0) = nOpen[q] /\ nOpen'[q] \in Nat
      BY <1>12, <1>13, <1>15, <2>10, <3>1
    <3>5. /\ N(v.credit = q) = (IF q = o THEN 1 ELSE 0) /\ N(v2.credit = q) = (IF q = p THEN 1 ELSE 0)
          /\ N(q = None) = 0
          /\ N(o \in Children(q) \ Streams /\ nOpen[o] > 0) = (IF q = p THEN 1 ELSE 0)
          /\ N(o \in Children(q) \ Streams /\ nOpen'[o] > 0) = 0
      BY <1>7, <2>3, <3>1, <3>2, <3>3 DEF N
    <3>. QED
      BY <1>5, <3>1, <3>4, <3>5 DEF Balance
  <2>11. mine[t] \subseteq m2 \/ Nothing(view[t])
    BY <2>1
  <2>12. /\ v2.held = view[t].held /\ v2.dying = view[t].dying /\ ~v2.asked /\ ~v2.new
         /\ v2.credit # None => Near(m2, v2, v2.credit) /\ v2.credit \notin Streams
         /\ v2.dying # None /\ v2.shut /\ v2.dying \notin Streams => nOpen'[v2.dying] = 0
         /\ v2.opens # None => <<t, v2.opens>> \notin opened'
         /\ tmp[t] # {} => v2.local
    BY <1>5, <1>6, <1>7, <1>16, <1>18, <1>19, <2>3, <2>7
  <2>. HIDE DEF code
  <2>. QED
    BY <1>9, <1>10, <1>11, <1>12, <1>14, <1>17, <2>1, <2>2, <2>3, <2>8, <2>9, <2>10, <2>11, <2>12, Counted
<1>. QED
  BY <1>20, <1>21

\* startStreaming() or stopStreaming() in front of others.
LEMMA TypedStream ==
  ASSUME NEW m, NEW code \in Codes, NEW w \in Views, Typed(m, code, w),
         NEW s \in Streams, NEW op \in {"start", "stop"}, Plain(w),
         Near(m, w, s), Near(m, w, Parent[s]), w.first = {}, Ordered(Nothing(w))
  PROVE  LET c == I("lock", s) \o (NodeMap(Parent[s]) \o (I(op, s)
                    \o (NodeMap(Parent[s]) \o (I("unlock", s) \o code))))
         IN  c \in Codes /\ Typed(m, c, Loose(w))
<1>. DEFINE p == Parent[s]
            a == Within(w, s)
            b == Loose(a)
            c == Loose(b)
            v == Loose(w)
            c1 == I("unlock", s) \o code
            c2 == NodeMap(p) \o c1
            c3 == I(op, s) \o c2
            c4 == NodeMap(p) \o c3
            c5 == I("lock", s) \o c4
<1>1. s \in Objects /\ p \in Objects /\ op \in Ops /\ "lock" \in Ops /\ "unlock" \in Ops
      /\ Level(s) = 3 /\ Level(p) = 2
  BY ObjectFacts, LevelFacts DEF Ops
<1>2. /\ a \in Views /\ a.calm = FALSE /\ a.asked = FALSE /\ a.new = w.new
      /\ a.held = [w.held EXCEPT ![s] = @ + 1] /\ w.held \in [Objects -> Nat]
      /\ SameOpens(a, w) /\ SameDying(a, w) /\ SameLists(a, w)
      /\ v \in Views /\ v.calm = FALSE /\ v.held = w.held /\ v.new = w.new /\ v.asked = FALSE
      /\ SameOpens(v, w) /\ SameDying(v, w) /\ SameLists(v, w)
  BY <1>1, WithinViews
<1>3. Typed(m, c1, a) /\ c1 \in Codes
  BY <1>1, TypedUnlock, InstructionCodes, CodesConcat
<1>. HIDE DEF a, p, c1, v
<1>4. /\ b \in Views /\ b.calm = FALSE /\ b.held = a.held /\ b.new = a.new /\ b.asked = FALSE
      /\ SameOpens(b, a) /\ SameDying(b, a) /\ SameLists(b, a)
  BY <1>1, <1>2, WithinViews
<1>5. Plain(a) /\ Near(m, a, p) /\ Near(m, a, s) /\ a.first = {}
  BY <1>2, NearSame DEF Plain, SameOpens, SameDying, SameLists, p
<1>6. Ordered(Above(a, p)) /\ Ordered(Above(v, s))
  BY <1>1, <1>2, LevelFacts DEF Ordered, Above, Nothing
<1>7. c2 \in Codes /\ Typed(m, c2, b)
  BY <1>1, <1>2, <1>3, <1>5, <1>6, TypedNodeMap
<1>. HIDE DEF b, c2
<1>8. Plain(b) /\ Near(m, b, p) /\ Near(m, b, s) /\ b.first = {} /\ Ordered(Above(b, p))
  BY <1>4, <1>5, <1>6, NearSame DEF Plain, SameOpens, SameDying, SameLists, Ordered, Above
<1>9. Does(m, <<op, s>>, b, b)
  BY <1>1, <1>4, <1>8 DEF Does, Plain, SameOpens, SameRest, SameDying, SameLists, Views
<1>10. c3 \in Codes /\ Typed(m, c3, b)
  BY <1>1, <1>4, <1>7, <1>9, TypedCons
<1>11. /\ c \in Views /\ c.calm = FALSE /\ c.held = b.held /\ c.new = b.new /\ c.asked = FALSE
       /\ SameOpens(c, b) /\ SameDying(c, b) /\ SameLists(c, b)
  BY <1>1, <1>4, WithinViews
<1>. HIDE DEF c3
<1>12. c4 \in Codes /\ Typed(m, c4, c)
  BY <1>1, <1>4, <1>8, <1>10, TypedNodeMap
<1>. HIDE DEF c, c4
<1>13. Near(m, v, s) /\ ~v.listed
  BY <1>2, NearSame DEF Plain, SameDying, SameLists
<1>14. DoesLock(v, s, c)
  <2>1. c.held = [v.held EXCEPT ![s] = @ + 1]
    <3>1. c.held = a.held /\ v.held = w.held
      BY <1>2, <1>4, <1>11
    <3>2. a.held = [w.held EXCEPT ![s] = @ + 1]
      BY <1>2
    <3>. QED
      BY <3>1, <3>2, Zenon
  <2>2. SameOpens(v, c) /\ SameDying(v, c) /\ SameLists(v, c)
    <3>1. SameOpens(a, w) /\ SameOpens(v, w) /\ SameOpens(b, a) /\ SameOpens(c, b)
      BY <1>2, <1>4, <1>11
    <3>2. SameDying(a, w) /\ SameDying(v, w) /\ SameDying(b, a) /\ SameDying(c, b)
      BY <1>2, <1>4, <1>11
    <3>3. SameLists(a, w) /\ SameLists(v, w) /\ SameLists(b, a) /\ SameLists(c, b)
      BY <1>2, <1>4, <1>11
    <3>. QED
      BY <3>1, <3>2, <3>3 DEF SameOpens, SameDying, SameLists
  <2>. QED
    BY <1>6, <2>1, <2>2 DEF DoesLock
<1>15. Does(m, <<"lock", s>>, v, c)
  BY <1>2, <1>4, <1>11, <1>13, <1>14 DEF Does, Views
<1>16. c5 \in Codes /\ Typed(m, c5, v)
  BY <1>1, <1>2, <1>12, <1>15, TypedCons
<1>. QED
  BY <1>16 DEF c4, c3, c2, c1, p, v

\* Concatenation, with a name so that it is not expanded.
Then(a, b) == a \o b

\* The brackets of startStreaming() and stopStreaming().
LEMMA Regroup ==
  ASSUME NEW l \in Codes, NEW n \in Codes, NEW x \in Codes, NEW u \in Codes,
         NEW code \in Codes
  PROVE  /\ Then(Then(Then(Then(Then(l, n), x), n), u), code)
              = Then(l, Then(n, Then(x, Then(n, Then(u, code)))))
         /\ Then(Then(Then(l, Then(Then(n, x), n)), u), code)
              = Then(l, Then(n, Then(x, Then(n, Then(u, code)))))
<1>1. \A a \in Codes, b \in Codes : Then(a, b) \in Codes
  BY CodesConcat DEF Then
<1>2. \A a \in Codes, b \in Codes, c \in Codes : Then(Then(a, b), c) = Then(a, Then(b, c))
  BY Assoc DEF Then
<1>3. /\ Then(u, code) \in Codes /\ Then(n, Then(u, code)) \in Codes
      /\ Then(x, Then(n, Then(u, code))) \in Codes
      /\ Then(l, n) \in Codes /\ Then(Then(l, n), x) \in Codes
      /\ Then(Then(Then(l, n), x), n) \in Codes
      /\ Then(n, x) \in Codes /\ Then(Then(n, x), n) \in Codes
      /\ Then(l, Then(Then(n, x), n)) \in Codes
  BY <1>1
<1>. QED
  BY <1>2, <1>3

\* The instructions of startStreaming() and stopStreaming() in front of others.
LEMMA StreamCodes ==
  ASSUME NEW s \in Streams, NEW op \in {"start", "stop"}, NEW code \in Codes
  PROVE  LET c == I("lock", s) \o (NodeMap(Parent[s]) \o (I(op, s)
                    \o (NodeMap(Parent[s]) \o (I("unlock", s) \o code))))
             n == NodeMap(Parent[s])
         IN  /\ (I("lock", s) \o n \o I(op, s) \o n \o I("unlock", s)) \o code = c
             /\ (I("lock", s) \o (n \o I(op, s) \o n) \o I("unlock", s)) \o code = c
<1>1. /\ I("lock", s) \in Codes /\ I(op, s) \in Codes /\ I("unlock", s) \in Codes
  BY InstructionCodes, ObjectFacts DEF Ops
<1>2. NodeMap(Parent[s]) \in Codes
  BY InstructionCodes, CodesConcat, ObjectFacts DEF Ops, NodeMap
<1>. DEFINE n == NodeMap(Parent[s])
            l == I("lock", s)
            x == I(op, s)
            u == I("unlock", s)
<1>3. l \in Codes /\ n \in Codes /\ x \in Codes /\ u \in Codes
  BY <1>1, <1>2
<1>. HIDE DEF n, l, x, u
<1>4. /\ Then(Then(Then(Then(Then(l, n), x), n), u), code)
           = Then(l, Then(n, Then(x, Then(n, Then(u, code)))))
      /\ Then(Then(Then(l, Then(Then(n, x), n)), u), code)
           = Then(l, Then(n, Then(x, Then(n, Then(u, code)))))
  BY <1>3, Regroup
<1>. QED
  BY <1>4, Zenon DEF Then, n, l, x, u

-----------------------------------------------------------------------------
\* The destructor: stopStreaming() or close() before the object is freed.
LEMMA DestructStep ==
  ASSUME NEW mine \in Claims, NEW view \in [Threads -> Views], J(mine, view),
         NEW t \in Threads, Destruct(t)
  PROVE  Inv'
<1>. DEFINE v == view[t]
<1>1. PICK o \in Objects \ {System} :
        /\ At(t, "destroy", o)
        /\ Continue(t, (IF o \in Streams THEN Stop(o)
                        ELSE IF nOpen[o] > 0 THEN Close(Parent[o]) ELSE <<>>)
                         \o I("free", o) \o Rest(t))
        /\ nOpen' = IF o \in Streams THEN nOpen ELSE [nOpen EXCEPT ![o] = 0]
        /\ UNCHANGED <<Rest4, live, ilist, weak, tmp, opened>>
  BY DEF Destruct
<1>2. "destroy" \in Ops /\ "free" \in Ops /\ "lock" \in Ops /\ "unlock" \in Ops
  BY DEF Ops
<1>3. /\ Near(mine[t], v, o) /\ Rest(t) \in Codes /\ todo[t] # <<>> /\ todo[t][1] = <<"destroy", o>>
  BY <1>1, <1>2, StepFacts
<1>4. PICK w \in Views : Does(mine[t], <<"destroy", o>>, v, w) /\ Typed(mine[t], Rest(t), w)
  BY <1>1, <1>2, StepFacts
<1>. DEFINE rest == Rest(t)
            free == I("free", o) \o rest
            x == [w EXCEPT !.dying = o, !.shut = TRUE, !.calm = FALSE]
<1>. HIDE DEF v, rest
<1>5. v = view[t]
  BY DEF v
<1>6. DoesDestroy(v, o, w) /\ ~w.new /\ ~w.asked /\ ~v.listed /\ o \in Devices \cup Streams
  BY <1>4, <1>5 DEF Does, Views
<1>7. /\ v.dying = o /\ v.credit = None /\ v.first = {} /\ Ordered(Nothing(v))
      /\ w.dying = None /\ w.credit = None /\ w.first = {} /\ w.opens = v.opens
      /\ w.held = v.held /\ w.local = v.local /\ ~w.listed
  BY <1>6 DEF DoesDestroy, SameOpens, SameLists
<1>8. /\ TypeInv /\ ClaimInv(t, mine[t], v) /\ ListInv(t, v) /\ DyingInv(v)
  BY <1>5, ViewFacts
<1>9. UNCHANGED <<owner, depth, live, ilist, weak, refs, tmp>> /\ UNCHANGED opened
  BY <1>1 DEF Rest4
<1>10. todo[t] = <<>> \/ todo[t][1][1] \notin {"return", "enumerate"}
  BY <1>3
<1>11. /\ o \in live /\ mine[t] \in SUBSET Objects /\ nOpen \in [Objects -> Nat]
       /\ Near(mine[t], view[t], o) /\ o \in Objects
  <2>1. o \in live
    BY <1>3, <1>5, NearFacts
  <2>. QED
    BY <1>3, <1>5, <1>8, <2>1, ViewFacts DEF TypeInv
<1>12. /\ x \in Views /\ x.held = v.held /\ x.credit = None /\ x.first = {} /\ x.opens = v.opens
       /\ x.dying = o /\ x.shut = TRUE /\ x.calm = FALSE /\ ~x.listed /\ x.local = v.local
       /\ x.new = FALSE /\ x.asked = FALSE
  BY <1>6, <1>7, <1>11 DEF Views
<1>. HIDE DEF x
<1>13. Does(mine[t], <<"free", o>>, x, w)
  <2>1. DoesDestroy(x, o, w)
    BY <1>7, <1>12 DEF DoesDestroy, SameOpens, SameLists, Ordered, Nothing, Views
  <2>2. Near(mine[t], x, o)
    BY <1>12 DEF Near
  <2>. QED
    BY <1>6, <1>12, <2>1, <2>2 DEF Does, Views
<1>14. free \in Codes /\ Typed(mine[t], free, x)
  BY <1>2, <1>3, <1>4, <1>11, <1>12, <1>13, TypedCons DEF rest
<1>. HIDE DEF free
<1>15. Plain(x)
  BY <1>12 DEF Plain
<1>16. Ordered(Nothing(x))
  BY <1>7, <1>12 DEF Ordered, Nothing
<1>17. /\ opened' \subseteq Threads \X Objects
       /\ \A u \in Threads, q \in Objects :
            u # t \/ q # o => (<<u, q>> \in opened' <=> <<u, q>> \in opened)
  BY <1>8, <1>9 DEF TypeInv
<1>18. v.opens # None => <<t, v.opens>> \notin opened'
  BY <1>8, <1>9 DEF ClaimInv
<1>19. tmp[t] # {} => v.local
  BY <1>8 DEF ListInv
<1>20. ASSUME NEW a \in Codes
       PROVE  (a \o I("free", o)) \o Rest(t) = a \o free
  BY <1>2, <1>3, <1>11, Assoc, InstructionCodes DEF free, rest
<1>21. CASE o \in Streams
  <2>. DEFINE code == Stop(o) \o free
              y == Loose(x)
  <2>1. /\ y \in Views /\ y.calm = FALSE /\ y.held = x.held /\ y.new = x.new /\ y.asked = FALSE
        /\ SameOpens(y, x) /\ SameDying(y, x) /\ SameLists(y, x)
    BY <1>11, <1>12, WithinViews
  <2>2. Near(mine[t], x, o) /\ Near(mine[t], x, Parent[o])
    BY <1>12, <1>21 DEF Near
  <2>3. Stop(o) \in Codes /\ code \in Codes /\ Typed(mine[t], code, y)
    <3>1. CASE nOpen[o] = 0
      <4>1. Stop(o) = NodeMap(o) /\ NodeMap(o) \in Codes
        <5>1. I("lock", o) \in Codes /\ I("unlock", o) \in Codes
          BY <1>2, <1>11, InstructionCodes
        <5>2. I("lock", o) \o <<>> = I("lock", o) /\ I("lock", o) \o I("unlock", o) \in Codes
          BY <5>1, CodesConcat DEF Codes
        <5>. QED
          BY <3>1, <5>2 DEF Stop, NodeMap
      <4>2. Ordered(Above(x, o))
        BY <1>16 DEF Ordered, Above, Nothing
      <4>. QED
        BY <1>11, <1>12, <1>14, <1>15, <2>2, <4>1, <4>2, TypedNodeMap
    <3>2. CASE nOpen[o] # 0
      <4>1. Stop(o) = I("lock", o) \o (NodeMap(Parent[o]) \o I("stop", o) \o NodeMap(Parent[o])) \o I("unlock", o)
        BY <3>2 DEF Stop
      <4>2. code = I("lock", o) \o (NodeMap(Parent[o]) \o (I("stop", o)
                    \o (NodeMap(Parent[o]) \o (I("unlock", o) \o free))))
        <5>1. "stop" \in {"start", "stop"}
          OBVIOUS
        <5>2. (I("lock", o) \o (NodeMap(Parent[o]) \o I("stop", o) \o NodeMap(Parent[o])) \o I("unlock", o)) \o free
                = I("lock", o) \o (NodeMap(Parent[o]) \o (I("stop", o)
                    \o (NodeMap(Parent[o]) \o (I("unlock", o) \o free))))
          BY <1>14, <1>21, <5>1, StreamCodes, Zenon
        <5>. QED
          BY <4>1, <5>2, Zenon
      <4>3. I("lock", o) \in Codes /\ I("unlock", o) \in Codes /\ I("stop", o) \in Codes
            /\ NodeMap(Parent[o]) \in Codes
        BY <1>11, <1>21, InstructionCodes, CodesConcat, ObjectFacts DEF Ops, NodeMap
      <4>4. Stop(o) \in Codes
        BY <4>1, <4>3, CodesConcat
      <4>. QED
        BY <1>7, <1>12, <1>14, <1>15, <1>16, <1>21, <2>2, <4>2, <4>4, TypedStream
    <3>. QED
      BY <3>1, <3>2
  <2>4. GoesOn(t, code)
    BY <1>1, <1>20, <1>21, <2>3 DEF Continue, GoesOn
  <2>5. UNCHANGED nOpen /\ nOpen' \in [Objects -> Nat] /\ \A q \in Objects \ {o} : nOpen'[q] = nOpen[q]
    BY <1>1, <1>11, <1>21
  <2>6. Claimed(t, mine, view, mine[t])
    BY NewIsNotMine DEF Claimed
  <2>7. FirstKept(t, y)
    BY <1>12, <2>1 DEF FirstKept, SameOpens
  <2>8. ASSUME NEW q \in Objects \ Streams, q # view[t].dying
        PROVE  Balance(t, view[t], y, o, q, None)
    <3>1. q # None /\ nOpen'[q] = nOpen[q] /\ nOpen'[o] = nOpen[o] /\ nOpen[q] \in Nat
          /\ y.credit = None
      BY <1>11, <1>12, <2>1, <2>5, ObjectFacts DEF SameOpens
    <3>. QED
      BY <1>5, <1>7, <1>9, <3>1 DEF Balance, N
  <2>9. mine[t] \subseteq mine[t] \/ Nothing(view[t])
    OBVIOUS
  <2>10. /\ y.held = view[t].held /\ y.dying = view[t].dying /\ ~y.asked /\ ~y.new
         /\ y.credit # None => Near(mine[t], y, y.credit) /\ y.credit \notin Streams
         /\ y.dying # None /\ y.shut /\ y.dying \notin Streams => nOpen'[y.dying] = 0
         /\ y.opens # None => <<t, y.opens>> \notin opened'
         /\ tmp[t] # {} => y.local
    BY <1>5, <1>7, <1>12, <1>18, <1>19, <1>21, <2>1 DEF SameOpens, SameDying, SameLists
  <2>. HIDE DEF code, y
  <2>. QED
    BY <1>9, <1>10, <1>11, <1>17, <2>1, <2>3, <2>4, <2>5, <2>6, <2>7, <2>8, <2>9, <2>10, Counted
<1>22. CASE o \notin Streams
  <2>. DEFINE p == Parent[o]
              m2 == WithParent(mine[t], o)
  <2>1. /\ m2 \in SUBSET Objects /\ mine[t] \subseteq m2 /\ Claimed(t, mine, view, m2)
        /\ \A y : Near(m2, y, p)
        /\ p \in Objects \ Streams /\ Level(o) = Level(p) + 1 /\ Level(p) \in 0..3
        /\ p # o /\ o \in Children(p) /\ o \notin Children(o)
        /\ \A q \in Objects : o \in Children(q) => q = p
    <3>1. o \in Objects \ Streams /\ Near(mine[t], view[t], o) /\ o # System
      BY <1>11, <1>22
    <3>. QED
      BY <3>1, ParentClaim
  <2>2. nOpen' \in [Objects -> Nat] /\ nOpen'[o] = 0 /\ \A q \in Objects \ {o} : nOpen'[q] = nOpen[q]
    BY <1>1, <1>11, <1>22
  <2>3. \/ UNCHANGED nOpen
        \/ /\ Near(mine[t], view[t], o)
           /\ o \in Streams \/ owner[o] = t \/ (view[t].dying = o /\ nOpen'[o] = 0)
    BY <1>5, <1>7, <1>11, <2>2
  <2>4. Typed(m2, free, x)
    BY <1>14, <2>1, TypedMore
  <2>5. ASSUME NEW q \in Objects \ Streams, q # view[t].dying
        PROVE  /\ q # None /\ nOpen[q] \in Nat /\ nOpen[o] \in Nat /\ nOpen'[q] = nOpen[q]
               /\ N(<<t, q>> \in opened) = N(<<t, q>> \in opened') /\ N(<<t, q>> \in opened) \in Nat
               /\ N(v.credit = q) = 0 /\ N(q = None) = 0
               /\ N(o \in Children(q) \ Streams /\ nOpen[o] > 0) = N(q = p /\ nOpen[o] > 0)
               /\ N(o \in Children(q) \ Streams /\ nOpen'[o] > 0) = 0
    <3>1. /\ q # None /\ nOpen[q] \in Nat /\ nOpen[o] \in Nat /\ nOpen'[q] = nOpen[q]
          /\ N(<<t, q>> \in opened) = N(<<t, q>> \in opened') /\ N(<<t, q>> \in opened) \in Nat
      BY <1>5, <1>7, <1>9, <1>11, <2>2, <2>5, ObjectFacts DEF N
    <3>2. (o \in Children(q) \ Streams) <=> q = p
      BY <1>22, <2>1
    <3>3. ~(nOpen'[o] > 0) /\ v.credit # q
      BY <1>7, <2>2, <3>1
    <3>. QED
      BY <3>1, <3>2, <3>3 DEF N
  <2>. HIDE DEF p, m2
  <2>6. CASE nOpen[o] > 0
    <3>. DEFINE code == Close(p) \o free
                y == [x EXCEPT !.credit = p]
    <3>1. /\ y \in Views /\ y.held = x.held /\ y.credit = p /\ y.first = x.first /\ y.opens = x.opens
          /\ SameDying(y, x) /\ SameLists(y, x) /\ ~y.calm /\ y.new = FALSE /\ y.asked = FALSE
          /\ y.local = x.local /\ y.dying = x.dying /\ y.shut = x.shut
      BY <1>12, <2>1 DEF Views, SameDying, SameLists
    <3>. HIDE DEF y
    <3>2. Ordered(Above(x, p))
      BY <1>16 DEF Ordered, Above, Nothing
    <3>3. code \in Codes /\ Typed(m2, code, y)
      BY <1>12, <1>14, <1>15, <2>1, <2>4, <3>1, <3>2, TypedClose
    <3>4. GoesOn(t, code)
      <4>1. Close(p) \in Codes
        BY <2>1, InstructionCodes, CodesConcat DEF Close, Ops
      <4>2. Continue(t, (Close(p) \o I("free", o)) \o Rest(t))
        BY <1>1, <1>22, <2>6 DEF p
      <4>. QED
        BY <1>20, <4>1, <4>2 DEF Continue, GoesOn
    <3>5. FirstKept(t, y)
      BY <1>12, <3>1 DEF FirstKept
    <3>6. ASSUME NEW q \in Objects \ Streams, q # view[t].dying
          PROVE  Balance(t, view[t], y, o, q, None)
      <4>1. N(q = p /\ nOpen[o] > 0) = N(y.credit = q) /\ N(y.credit = q) \in Nat
        BY <2>6, <3>1 DEF N
      <4>. QED
        BY <1>5, <2>5, <3>6, <4>1 DEF Balance
    <3>7. mine[t] \subseteq m2 \/ Nothing(view[t])
      BY <2>1
    <3>8. /\ y.held = view[t].held /\ y.dying = view[t].dying /\ ~y.asked /\ ~y.new
          /\ y.credit # None => Near(m2, y, y.credit) /\ y.credit \notin Streams
          /\ y.dying # None /\ y.shut /\ y.dying \notin Streams => nOpen'[y.dying] = 0
          /\ y.opens # None => <<t, y.opens>> \notin opened'
          /\ tmp[t] # {} => y.local
      BY <1>5, <1>7, <1>12, <1>18, <1>19, <2>1, <2>2, <3>1
    <3>. HIDE DEF code
    <3>. QED
      BY <1>9, <1>10, <1>11, <1>17, <2>1, <2>2, <2>3, <3>1, <3>3, <3>4, <3>5, <3>6, <3>7, <3>8, Counted
  <2>7. CASE ~(nOpen[o] > 0)
    <3>1. GoesOn(t, free)
      <4>1. <<>> \in Codes /\ <<>> \o free = free
        BY <1>14 DEF Codes
      <4>2. Continue(t, (<<>> \o I("free", o)) \o Rest(t))
        BY <1>1, <1>22, <2>7
      <4>. QED
        BY <1>20, <4>1, <4>2 DEF Continue, GoesOn
    <3>2. FirstKept(t, x)
      BY <1>12 DEF FirstKept
    <3>3. ASSUME NEW q \in Objects \ Streams, q # view[t].dying
          PROVE  Balance(t, view[t], x, o, q, None)
      <4>1. N(q = p /\ nOpen[o] > 0) = 0 /\ N(x.credit = q) = 0
        BY <1>12, <2>5, <2>7, <3>3 DEF N
      <4>. QED
        BY <1>5, <2>5, <3>3, <4>1 DEF Balance
    <3>4. mine[t] \subseteq m2 \/ Nothing(view[t])
      BY <2>1
    <3>5. /\ x.held = view[t].held /\ x.dying = view[t].dying /\ ~x.asked /\ ~x.new
          /\ x.credit # None => Near(m2, x, x.credit) /\ x.credit \notin Streams
          /\ x.dying # None /\ x.shut /\ x.dying \notin Streams => nOpen'[x.dying] = 0
          /\ x.opens # None => <<t, x.opens>> \notin opened'
          /\ tmp[t] # {} => x.local
      BY <1>5, <1>7, <1>12, <1>18, <1>19, <2>2
    <3>. QED
      BY <1>9, <1>10, <1>11, <1>12, <1>14, <1>17, <2>1, <2>2, <2>3, <2>4, <3>1, <3>2, <3>3, <3>4, <3>5, Counted
  <2>. QED
    BY <2>6, <2>7
<1>. QED
  BY <1>21, <1>22

\* What a step of thread t that only moves shared pointers may do.
HandlesKept(t) ==
  /\ \A u \in Threads \ {t} : tmp'[u] = tmp[u]
  /\ \A u \in Threads \ {t}, q \in Objects : u \in refs[q] => u \in refs'[q]
  /\ \A q \in Objects : refs[q] = {} /\ q \notin tmp[t] => refs'[q] = {}
  /\ ilist = None \/ ilist' = ilist

\* Nor does it reach what another thread destroys, or has just created.
OthersKept(t, view, m2) ==
  \A u \in Threads \ {t} :
     /\ view[u].new => ilist \notin m2
     /\ \A q \in Objects : q = view[u].dying \/ (view[u].new /\ q = ilist) =>
          /\ q \in live => q \in live'
          /\ Children(q) \cap live = {} => Children(q) \cap live' = {}
          /\ q \notin tmp[t] => q \notin tmp'[t]

\* What thread t claims after the step.
ClaimsKept(t, m2, v, v2) ==
  /\ \A q \in m2 : t \in refs'[q] \/ q = ilist'
  /\ \A i \in Interfaces : v2.held[i] > 0 => i \in m2
  /\ v2.held = v.held /\ v2.credit = v.credit /\ v2.first \subseteq v.first
  /\ v2.opens # None => v2.opens = v.opens
  /\ v2.credit # None => Near(m2, v2, v2.credit)

\* A step that opens and locks nothing.
LEMMA Moved ==
  ASSUME NEW mine \in Claims, NEW view \in [Threads -> Views], J(mine, view),
         NEW t \in Threads, NEW m2 \in SUBSET Objects, NEW v2 \in Views,
         NEW code \in Codes, GoesOn(t, code), Typed(m2, code, v2),
         UNCHANGED <<owner, depth, nOpen, opened>>,
         TypeInv', LiveInv', HandlesKept(t), OthersKept(t, view, m2),
         ClaimsKept(t, m2, view[t], v2),
         ListInv(t, v2)', DyingInv(v2)', NewInv(t, Put(mine, t, m2), v2)',
         v2.dying # None => \A u \in Threads \ {t} : view[u].dying # v2.dying,
         view[t].dying # None => v2.dying = view[t].dying
  PROVE  Inv'
<1>. DEFINE v == view[t]
<1>1. /\ TypeInv /\ LiveInv /\ CodeInv(t, mine[t], v) /\ ClaimInv(t, mine[t], v)
  BY ViewFacts
<1>2. /\ UNCHANGED owner /\ UNCHANGED depth /\ UNCHANGED nOpen /\ UNCHANGED opened
  OBVIOUS
<1>3. /\ todo'[t] = code /\ \A u \in Threads \ {t} : todo'[u] = todo[u]
  BY <1>1, TypeKept
<1>4. CodeInv(t, m2, v2)'
  BY <1>1, <1>2, <1>3 DEF CodeInv, ClaimsKept
<1>5. ClaimInv(t, m2, v2)'
  BY <1>1, <1>2, ViewFacts DEF ClaimInv, ClaimsKept
<1>6. ASSUME NEW u \in Threads \ {t} PROVE Spares(u, t, view, m2)
  BY <1>2, <1>3 DEF Spares, HandlesKept, OthersKept, At
<1>7. Accounts(Put(view, t, v2))'
  BY <1>2, AccountsSame DEF HandlesKept, ClaimsKept
<1>. QED
  BY <1>4, <1>5, <1>6, <1>7, Assemble

-----------------------------------------------------------------------------
(* The start of a call. *)

\* The objects that thread t has shared pointers of.
Held(t) == {q \in Objects : t \in refs[q]}

\* The view at the end of a call.
Ended(h) ==
  [held |-> h, credit |-> None, first |-> {}, opens |-> None, dying |-> None,
   shut |-> FALSE, calm |-> TRUE, listed |-> FALSE, local |-> FALSE, new |-> FALSE,
   asked |-> FALSE]

\* What the view at the end of a call is.
LEMMA EndedFacts ==
  ASSUME NEW h \in [Objects -> Nat], \A q \in Objects : h[q] = 0, NEW m
  PROVE  /\ Ended(h) \in Views /\ AtEnd(Ended(h)) /\ Plain(Ended(h))
         /\ Typed(m, <<>>, Ended(h)) /\ <<>> \in Codes
         /\ Ordered(Nothing(Ended(h))) /\ \A o : Ordered(Above(Ended(h), o))
         /\ Ended(h).held = h /\ Ended(h).credit = None /\ Ended(h).first = {}
         /\ Ended(h).opens = None /\ Ended(h).dying = None /\ Ended(h).shut = FALSE
         /\ Ended(h).calm = TRUE /\ Ended(h).listed = FALSE /\ Ended(h).local = FALSE
         /\ Ended(h).new = FALSE /\ Ended(h).asked = FALSE
<1>1. Ended(h) \in Views
  BY DEF Ended, Views
<1>2. /\ Ended(h).held = h /\ Ended(h).credit = None /\ Ended(h).first = {}
      /\ Ended(h).opens = None /\ Ended(h).dying = None /\ Ended(h).shut = FALSE
      /\ Ended(h).calm = TRUE /\ Ended(h).listed = FALSE /\ Ended(h).local = FALSE
      /\ Ended(h).new = FALSE /\ Ended(h).asked = FALSE
  BY DEF Ended
<1>3. Nothing(Ended(h))
  BY <1>2 DEF Nothing
<1>4. AtEnd(Ended(h)) /\ Plain(Ended(h))
  BY <1>2, <1>3 DEF AtEnd, Plain
<1>5. Typed(m, <<>>, Ended(h)) /\ <<>> \in Codes
  BY <1>1, <1>4, TypedEmpty DEF Codes
<1>6. Ordered(Nothing(Ended(h))) /\ \A o : Ordered(Above(Ended(h), o))
  BY <1>2 DEF Ordered, Above, Nothing
<1>. QED
  BY <1>1, <1>2, <1>4, <1>5, <1>6

\* What a thread has between two calls.
LEMMA Idle ==
  ASSUME NEW mine \in Claims, NEW view \in [Threads -> Views], J(mine, view),
         NEW t \in Threads, todo[t] = <<>>
  PROVE  /\ view[t].held \in [Objects -> Nat] /\ \A q \in Objects : view[t].held[q] = 0
         /\ Nothing(view[t]) /\ view[t].credit = None /\ view[t].dying = None
         /\ view[t].first = {} /\ tmp[t] = {}
         /\ Held(t) \in SUBSET Objects /\ Claimed(t, mine, view, Held(t))
         /\ \A q \in Held(t) : q \in live
<1>1. /\ CodeInv(t, mine[t], view[t]) /\ ClaimInv(t, mine[t], view[t]) /\ ListInv(t, view[t])
      /\ view[t].held \in [Objects -> Nat] /\ view[t] \in Views /\ LiveInv
  BY ViewFacts
<1>2. AtEnd(view[t])
  BY <1>1, TypedEmpty DEF CodeInv
<1>3. Nothing(view[t]) /\ view[t].credit = None /\ view[t].dying = None /\ tmp[t] = {}
  BY <1>1, <1>2 DEF AtEnd, ListInv
<1>4. view[t].first = {}
  BY <1>1, <1>3, ViewFacts DEF ClaimInv, Nothing
<1>5. Claimed(t, mine, view, Held(t))
  <2>1. \A u \in Threads \ {t} : view[u].new => refs[ilist] = {}
    BY ViewFacts DEF NewInv
  <2>. QED
    BY <2>1 DEF Claimed, Held
<1>. QED
  BY <1>1, <1>3, <1>4, <1>5 DEF Held, Nothing, LiveInv

\* A thread calls open().
LEMMA CallOpenStep ==
  ASSUME NEW mine \in Claims, NEW view \in [Threads -> Views], J(mine, view),
         NEW t \in Threads, CallOpen(t)
  PROVE  Inv'
<1>1. PICK o \in Objects \ Streams :
        /\ t \in refs[o] /\ <<t, o>> \notin opened /\ todo[t] = <<>>
        /\ Continue(t, Open(o) \o I("opened", o))
        /\ UNCHANGED <<owner, depth, objVars, refs, tmp, opened>>
  BY DEF CallOpen, Call
<1>. DEFINE h == view[t].held
            m2 == Held(t)
            e == Ended(h)
            w == [e EXCEPT !.credit = o, !.opens = o]
            v2 == [e EXCEPT !.opens = o, !.calm = FALSE]
            code == Open(o) \o I("opened", o)
<1>2. /\ h \in [Objects -> Nat] /\ \A q \in Objects : h[q] = 0
      /\ view[t].credit = None /\ view[t].dying = None /\ tmp[t] = {} /\ Nothing(view[t])
      /\ m2 \in SUBSET Objects /\ Claimed(t, mine, view, m2) /\ o \in m2
  BY <1>1, Idle DEF Held
<1>. HIDE DEF h, m2
<1>3. /\ e \in Views /\ Plain(e) /\ Typed(m2, <<>>, e) /\ <<>> \in Codes
      /\ \A q : Ordered(Above(e, q))
      /\ e.held = h /\ e.credit = None /\ e.first = {} /\ e.opens = None /\ e.dying = None
      /\ e.shut = FALSE /\ e.calm = TRUE /\ e.listed = FALSE /\ e.local = FALSE
      /\ e.new = FALSE /\ e.asked = FALSE
  BY <1>2, EndedFacts
<1>. HIDE DEF e
<1>4. /\ w \in Views /\ w.held = h /\ w.credit = o /\ w.first = {} /\ w.opens = o
      /\ w.dying = None /\ w.shut = FALSE /\ w.calm = TRUE /\ w.listed = FALSE
      /\ w.local = FALSE /\ w.new = FALSE /\ w.asked = FALSE
  BY <1>3 DEF Views
<1>5. /\ v2 \in Views /\ v2.held = h /\ v2.credit = None /\ v2.first = {} /\ v2.opens = o
      /\ v2.dying = None /\ v2.shut = FALSE /\ v2.calm = FALSE /\ v2.listed = FALSE
      /\ v2.local = FALSE /\ v2.new = FALSE /\ v2.asked = FALSE
  BY <1>3 DEF Views
<1>. HIDE DEF w, v2
<1>6. "opened" \in Ops
  BY DEF Ops
<1>7. Near(m2, w, o)
  BY <1>2 DEF Near
<1>8. Does(m2, <<"opened", o>>, w, e)
  <2>1. DoesOpened(w, o, e)
    BY <1>3, <1>4 DEF DoesOpened, SameRest, SameDying, SameLists
  <2>. QED
    BY <1>3, <1>4, <1>7, <2>1 DEF Does, Calm
<1>9. Typed(m2, I("opened", o), w) /\ I("opened", o) \in Codes
  <2>1. /\ I("opened", o) \o <<>> \in Codes /\ Typed(m2, I("opened", o) \o <<>>, w)
    BY <1>1, <1>3, <1>4, <1>6, <1>8, TypedCons
  <2>2. I("opened", o) \o <<>> = I("opened", o) /\ I("opened", o) \in Codes
    BY <1>1, <1>6, InstructionCodes DEF Codes
  <2>. QED
    BY <2>1, <2>2
<1>10. code \in Codes /\ Typed(m2, code, v2)
  <2>1. SameDying(v2, w) /\ SameLists(v2, w) /\ Plain(w)
    BY <1>4, <1>5 DEF SameDying, SameLists, Plain
  <2>2. Credited(v2, o, w) /\ Ordered(Above(v2, o))
    BY <1>2, <1>4, <1>5 DEF Credited, Ordered, Above
  <2>3. ~(o # System /\ v2.held[System] > 0)
    BY <1>2, <1>5, ObjectFacts
  <2>4. \A q \in w.first : Level(q) > Level(o)
    BY <1>4
  <2>5. /\ v2.held = w.held /\ v2.credit = None /\ v2.first = w.first /\ v2.opens = w.opens
        /\ ~v2.calm /\ w.calm /\ w.dying = None /\ o \in Objects /\ o \notin Streams
    BY <1>1, <1>4, <1>5
  <2>. QED
    BY <1>4, <1>5, <1>7, <1>9, <2>1, <2>2, <2>3, <2>4, <2>5, TypedOpen
<1>. HIDE DEF code
<1>11. GoesOn(t, code)
  BY <1>1 DEF Continue, GoesOn, code
<1>12. /\ v2.held = view[t].held /\ v2.credit = view[t].credit /\ v2.dying = None
       /\ v2.opens # None => v2.opens = view[t].opens \/ <<t, v2.opens>> \notin opened
  BY <1>1, <1>2, <1>5 DEF h
<1>. QED
  BY <1>1, <1>2, <1>5, <1>10, <1>11, <1>12, Quiet

\* A thread calls close().
LEMMA CallCloseStep ==
  ASSUME NEW mine \in Claims, NEW view \in [Threads -> Views], J(mine, view),
         NEW t \in Threads, CallClose(t)
  PROVE  Inv'
<1>1. PICK o \in Objects \ Streams :
        /\ t \in refs[o] /\ <<t, o>> \in opened /\ opened' = opened \ {<<t, o>>}
        /\ todo[t] = <<>> /\ Continue(t, Close(o))
        /\ UNCHANGED <<owner, depth, objVars, refs, tmp>>
  BY DEF CallClose, Call
<1>. DEFINE h == view[t].held
            m2 == Held(t)
            e == Ended(h)
            v2 == [e EXCEPT !.credit = o, !.calm = FALSE]
            code == Close(o)
<1>2. /\ h \in [Objects -> Nat] /\ \A q \in Objects : h[q] = 0
      /\ view[t].credit = None /\ view[t].dying = None /\ tmp[t] = {} /\ Nothing(view[t])
      /\ m2 \in SUBSET Objects /\ Claimed(t, mine, view, m2) /\ \A q \in m2 : q \in live
  BY <1>1, Idle
<1>14. o \in m2 /\ o \in live
  BY <1>1, <1>2 DEF Held
<1>. HIDE DEF h, m2
<1>3. /\ e \in Views /\ Plain(e) /\ Typed(m2, <<>>, e) /\ <<>> \in Codes
      /\ \A q : Ordered(Above(e, q))
      /\ e.held = h /\ e.credit = None /\ e.first = {} /\ e.opens = None /\ e.dying = None
      /\ e.shut = FALSE /\ e.calm = TRUE /\ e.listed = FALSE /\ e.local = FALSE
      /\ e.new = FALSE /\ e.asked = FALSE
  BY <1>2, EndedFacts
<1>. HIDE DEF e
<1>4. /\ v2 \in Views /\ v2.held = h /\ v2.credit = o /\ v2.first = {} /\ v2.opens = None
      /\ v2.dying = None /\ v2.shut = FALSE /\ v2.calm = FALSE /\ v2.listed = FALSE
      /\ v2.local = FALSE /\ v2.new = FALSE /\ v2.asked = FALSE
  BY <1>3 DEF Views
<1>. HIDE DEF v2
<1>5. Near(m2, e, o) /\ Near(m2, v2, o)
  BY <1>14 DEF Near
<1>6. code \in Codes /\ Typed(m2, code, v2)
  <2>1. SameDying(v2, e) /\ SameLists(v2, e) /\ Ordered(Above(e, o))
    BY <1>3, <1>4 DEF SameDying, SameLists
  <2>2. Close(o) \o <<>> \in Codes /\ Typed(m2, Close(o) \o <<>>, v2)
    BY <1>1, <1>3, <1>4, <1>5, <2>1, TypedClose
  <2>3. Close(o) \in Codes
    BY <1>1, InstructionCodes, CodesConcat DEF Close, Ops
  <2>4. Close(o) \o <<>> = Close(o)
    BY <2>3 DEF Codes
  <2>. QED
    BY <2>2, <2>4
<1>. HIDE DEF code
<1>7. GoesOn(t, code)
  BY <1>1 DEF Continue, GoesOn, code
<1>8. UNCHANGED <<owner, depth, live, ilist, weak, refs, tmp>> /\ UNCHANGED nOpen
  BY <1>1 DEF objVars
<1>9. nOpen' \in [Objects -> Nat] /\ nOpen \in [Objects -> Nat] /\ opened \subseteq Threads \X Objects
  BY <1>8, ViewFacts DEF TypeInv
<1>10. /\ opened' \subseteq Threads \X Objects
       /\ \A u \in Threads, q \in Objects :
            u # t \/ q # o => (<<u, q>> \in opened' <=> <<u, q>> \in opened)
  BY <1>1, <1>9
<1>11. FirstKept(t, v2)
  BY <1>4 DEF FirstKept
<1>12. ASSUME NEW q \in Objects \ Streams
       PROVE  Balance(t, view[t], v2, o, q, None)
  <2>1. q # None /\ o # None /\ nOpen'[q] = nOpen[q] /\ nOpen'[o] = nOpen[o] /\ nOpen[q] \in Nat
    BY <1>1, <1>8, <1>9, ObjectFacts
  <2>2. <<t, q>> \in opened' <=> <<t, q>> \in opened /\ q # o
    BY <1>1
  <2>. QED
    BY <1>1, <1>2, <1>4, <2>1, <2>2 DEF Balance, N
<1>13. /\ v2.held = view[t].held /\ v2.dying = view[t].dying /\ v2.dying = None
       /\ v2.opens = None /\ o \notin Streams /\ ~v2.asked /\ ~v2.new /\ tmp[t] = {}
  BY <1>1, <1>2, <1>4 DEF h
<1>. QED
  BY <1>1, <1>2, <1>4, <1>5, <1>6, <1>7, <1>8, <1>9, <1>10, <1>11, <1>12, <1>13, <1>14, Counted

-----------------------------------------------------------------------------
\* The instructions of a method that lists.
LEMMA ListCodes ==
  ASSUME NEW a \in Codes, NEW b \in Codes, NEW c \in Codes, NEW d \in Codes, NEW e \in Codes
  PROVE  Then(Then(Then(Then(a, b), c), d), e) = Then(a, Then(b, Then(c, Then(d, e))))
<1>1. \A p \in Codes, q \in Codes : Then(p, q) \in Codes
  BY CodesConcat DEF Then
<1>2. \A p \in Codes, q \in Codes, r \in Codes : Then(Then(p, q), r) = Then(p, Then(q, r))
  BY Assoc DEF Then
<1>3. /\ Then(a, b) \in Codes /\ Then(Then(a, b), c) \in Codes
      /\ Then(d, e) \in Codes /\ Then(c, Then(d, e)) \in Codes
  BY <1>1
<1>. QED
  BY <1>2, <1>3

\* They lead to the end of the call.
LEMMA TypedList ==
  ASSUME NEW m, NEW e \in Views, Typed(m, <<>>, e), Ordered(Nothing(e)), Nothing(e),
         e.credit = None, e.first = {}, e.opens = None, e.dying = None, e.shut = FALSE,
         e.calm = TRUE, e.listed = FALSE, e.local = FALSE, e.new = FALSE, e.asked = FALSE,
         NEW o \in Objects \ Streams, o \in m
  PROVE  List(o) \in Codes /\ Typed(m, List(o), Loose(e))
<1>. DEFINE kind == IF o = System THEN "interfaces" ELSE "current"
            u == [Within(e, o) EXCEPT !.calm = TRUE]
            r == [u EXCEPT !.local = TRUE]
            n == [r EXCEPT !.listed = (o # System)]
            x == [u EXCEPT !.calm = FALSE]
            y == Loose(e)
            c1 == I("unlock", o)
            c2 == I("release", o) \o c1
            c3 == I("return", o) \o c2
            c4 == I(kind, o) \o c3
            c5 == I("lock", o) \o c4
<1>1. /\ "lock" \in Ops /\ "unlock" \in Ops /\ "release" \in Ops /\ "return" \in Ops
      /\ kind \in Ops /\ o \in Objects /\ (o = System \/ o \in Interfaces \cup Devices)
  BY DEF Ops, Objects
<1>2. /\ Within(e, o) \in Views /\ Within(e, o).new = e.new /\ Within(e, o).asked = FALSE
      /\ Within(e, o).held = [e.held EXCEPT ![o] = @ + 1]
      /\ SameOpens(Within(e, o), e) /\ SameDying(Within(e, o), e) /\ SameLists(Within(e, o), e)
      /\ e.held \in [Objects -> Nat]
      /\ y \in Views /\ y.calm = FALSE /\ y.held = e.held /\ y.new = e.new /\ y.asked = FALSE
      /\ SameOpens(y, e) /\ SameDying(y, e) /\ SameLists(y, e)
  BY <1>1, WithinViews
<1>3. /\ u \in Views /\ u.held = [e.held EXCEPT ![o] = @ + 1] /\ u.credit = None /\ u.first = {}
      /\ u.opens = None /\ u.dying = None /\ u.shut = FALSE /\ u.calm = TRUE
      /\ u.listed = FALSE /\ u.local = FALSE /\ u.new = FALSE /\ u.asked = FALSE
  BY <1>2 DEF Views, SameOpens, SameDying, SameLists
<1>. HIDE DEF u, y, kind
<1>4. /\ r \in Views /\ r.held = u.held /\ r.credit = None /\ r.first = {}
      /\ r.opens = None /\ r.dying = None /\ r.shut = FALSE /\ r.calm = TRUE
      /\ r.listed = FALSE /\ r.local = TRUE /\ r.new = FALSE /\ r.asked = FALSE
  BY <1>3 DEF Views
<1>. HIDE DEF r
<1>5. /\ n \in Views /\ n.held = u.held /\ n.credit = None /\ n.first = {}
      /\ n.opens = None /\ n.dying = None /\ n.shut = FALSE /\ n.calm = TRUE
      /\ n.listed = (o # System) /\ n.local = TRUE /\ n.new = FALSE /\ n.asked = FALSE
  BY <1>4 DEF Views
<1>6. /\ x \in Views /\ x.held = u.held /\ x.credit = None /\ x.first = {}
      /\ x.opens = None /\ x.dying = None /\ x.shut = FALSE /\ x.calm = FALSE
      /\ x.listed = FALSE /\ x.local = FALSE /\ x.new = FALSE /\ x.asked = FALSE
  BY <1>3 DEF Views
<1>. HIDE DEF n, x
<1>7. \A z : Near(m, z, o)
  BY DEF Near
<1>8. /\ u.held[o] > 0 /\ e.held = [u.held EXCEPT ![o] = @ - 1]
      /\ \A q \in Objects : u.held[q] > 0 => q = o
  BY <1>1, <1>2, <1>3 DEF Nothing
<1>9. c1 \in Codes /\ Typed(m, c1, u)
  <2>1. DoesUnlock(u, o, e)
    BY <1>3, <1>8 DEF DoesUnlock, SameOpens, SameDying, SameLists
  <2>2. Does(m, <<"unlock", o>>, u, e)
    BY <1>3, <1>7, <2>1 DEF Does, Calm
  <2>3. I("unlock", o) \o <<>> \in Codes /\ Typed(m, I("unlock", o) \o <<>>, u)
    <3>1. <<>> \in Codes
      BY DEF Codes
    <3>. QED
      BY <1>1, <1>3, <2>2, <3>1, TypedCons
  <2>4. I("unlock", o) \o <<>> = I("unlock", o)
    BY <1>1, InstructionCodes DEF Codes
  <2>. QED
    BY <2>3, <2>4
<1>10. c2 \in Codes /\ Typed(m, c2, r)
  <2>1. DoesRelease(r, u)
    BY <1>3, <1>4 DEF DoesRelease, SameOpens, SameDying
  <2>2. Does(m, <<"release", o>>, r, u)
    BY <1>3, <1>4, <1>7, <2>1 DEF Does, Calm
  <2>. QED
    BY <1>1, <1>4, <1>9, <2>2, TypedCons
<1>11. c3 \in Codes /\ Typed(m, c3, n)
  <2>1. DoesReturn(n, r)
    BY <1>4, <1>5 DEF DoesReturn, SameOpens, SameDying
  <2>2. Does(m, <<"return", o>>, n, r)
    BY <1>4, <1>5, <1>7, <2>1 DEF Does, Calm
  <2>. QED
    BY <1>1, <1>5, <1>10, <2>2, TypedCons
<1>12. c4 \in Codes /\ Typed(m, c4, x)
  <2>1. Does(m, <<kind, o>>, x, n)
    <3>1. CASE o = System
      <4>1. DoesInterfaces(x, o, n)
        BY <1>5, <1>6, <1>8, <3>1 DEF DoesInterfaces, SameOpens, SameDying, Ordered
      <4>. QED
        BY <1>5, <1>6, <1>7, <3>1, <4>1 DEF Does, kind
    <3>2. CASE o # System
      <4>1. DoesList(x, o, n)
        BY <1>1, <1>5, <1>6, <1>8, <3>2 DEF DoesList, SameOpens, SameDying
      <4>. QED
        BY <1>5, <1>6, <1>7, <3>2, <4>1 DEF Does, kind
    <3>. QED
      BY <3>1, <3>2
  <2>. HIDE DEF c3
  <2>. QED
    BY <1>1, <1>6, <1>11, <2>1, TypedCons
<1>13. c5 \in Codes /\ Typed(m, c5, y)
  <2>1. DoesLock(y, o, x)
    <3>1. Ordered(Above(y, o))
      BY <1>2 DEF Ordered, Above, Nothing
    <3>2. x.held = [y.held EXCEPT ![o] = @ + 1]
      BY <1>2, <1>3, <1>6, Zenon
    <3>3. SameOpens(y, x) /\ SameDying(y, x) /\ SameLists(y, x)
      BY <1>2, <1>6 DEF SameOpens, SameDying, SameLists
    <3>. QED
      BY <3>1, <3>2, <3>3 DEF DoesLock
  <2>2. Does(m, <<"lock", o>>, y, x)
    BY <1>2, <1>6, <1>7, <2>1 DEF Does, Views, SameLists
  <2>. QED
    BY <1>1, <1>2, <1>12, <2>2, TypedCons
<1>14. List(o) = c5
  <2>1. I("lock", o) \in Codes /\ I("return", o) \in Codes
    BY <1>1, InstructionCodes
  <2>5. I(kind, o) \in Codes
    BY <1>1, InstructionCodes
  <2>4. I("release", o) \in Codes /\ I("unlock", o) \in Codes
    BY <1>1, InstructionCodes
  <2>. DEFINE i1 == I("lock", o)
              i2 == I(kind, o)
              i3 == I("return", o)
              i4 == I("release", o)
              i5 == I("unlock", o)
  <2>. HIDE DEF i1, i2, i3, i4, i5
  <2>2. i1 \in Codes /\ i2 \in Codes /\ i3 \in Codes /\ i4 \in Codes /\ i5 \in Codes
    BY <2>1, <2>4, <2>5 DEF i1, i2, i3, i4, i5
  <2>3. Then(Then(Then(Then(i1, i2), i3), i4), i5) = Then(i1, Then(i2, Then(i3, Then(i4, i5))))
    BY <2>2, ListCodes
  <2>. QED
    BY <2>3, Zenon DEF List, Then, i1, i2, i3, i4, i5, kind
<1>. QED
  BY <1>13, <1>14 DEF y

\* A thread calls a method that lists.
LEMMA CallListStep ==
  ASSUME NEW mine \in Claims, NEW view \in [Threads -> Views], J(mine, view),
         NEW t \in Threads, CallList(t)
  PROVE  Inv'
<1>1. PICK o \in Objects \ Streams :
        /\ t \in refs[o] /\ todo[t] = <<>> /\ Continue(t, List(o))
        /\ UNCHANGED <<owner, depth, objVars, refs, tmp, opened>>
  BY DEF CallList, Call
<1>. DEFINE h == view[t].held
            m2 == Held(t)
            e == Ended(h)
            v2 == Loose(e)
            code == List(o)
<1>2. /\ h \in [Objects -> Nat] /\ \A q \in Objects : h[q] = 0
      /\ view[t].credit = None /\ view[t].dying = None /\ tmp[t] = {} /\ Nothing(view[t])
      /\ m2 \in SUBSET Objects /\ Claimed(t, mine, view, m2) /\ o \in m2
  BY <1>1, Idle DEF Held
<1>. HIDE DEF h, m2
<1>3. /\ e \in Views /\ Typed(m2, <<>>, e) /\ Ordered(Nothing(e))
      /\ e.held = h /\ e.credit = None /\ e.first = {} /\ e.opens = None /\ e.dying = None
      /\ e.shut = FALSE /\ e.calm = TRUE /\ e.listed = FALSE /\ e.local = FALSE
      /\ e.new = FALSE /\ e.asked = FALSE
  BY <1>2, EndedFacts
<1>. HIDE DEF e
<1>4. Nothing(e)
  BY <1>2, <1>3 DEF Nothing
<1>5. code \in Codes /\ Typed(m2, code, v2)
  BY <1>1, <1>2, <1>3, <1>4, TypedList
<1>6. /\ v2 \in Views /\ v2.held = h /\ v2.credit = None /\ v2.first = {} /\ v2.opens = None
      /\ v2.dying = None /\ v2.new = FALSE /\ v2.asked = FALSE
  BY <1>1, <1>3, WithinViews DEF SameOpens, SameDying
<1>. HIDE DEF v2, code
<1>7. GoesOn(t, code)
  BY <1>1 DEF Continue, GoesOn, code
<1>8. v2.held = view[t].held /\ v2.credit = view[t].credit
  BY <1>2, <1>6 DEF h
<1>. QED
  BY <1>1, <1>2, <1>5, <1>6, <1>7, <1>8, Quiet

\* A thread calls startStreaming().
LEMMA CallStartStep ==
  ASSUME NEW mine \in Claims, NEW view \in [Threads -> Views], J(mine, view),
         NEW t \in Threads, CallStart(t)
  PROVE  Inv'
<1>1. PICK s \in Streams :
        /\ t \in refs[s] /\ todo[t] = <<>> /\ Continue(t, Start(s))
        /\ UNCHANGED <<owner, depth, objVars, refs, tmp, opened>>
  BY DEF CallStart, Call
<1>. DEFINE h == view[t].held
            m2 == Held(t)
            e == Ended(h)
            v2 == Loose(e)
            code == Start(s)
<1>2. /\ h \in [Objects -> Nat] /\ \A q \in Objects : h[q] = 0
      /\ view[t].credit = None /\ view[t].dying = None /\ tmp[t] = {} /\ Nothing(view[t])
      /\ m2 \in SUBSET Objects /\ Claimed(t, mine, view, m2) /\ s \in m2 /\ s \in Objects
  BY <1>1, Idle, ObjectFacts DEF Held
<1>. HIDE DEF h, m2
<1>3. /\ e \in Views /\ Typed(m2, <<>>, e) /\ Ordered(Nothing(e)) /\ <<>> \in Codes
      /\ e.held = h /\ e.credit = None /\ e.first = {} /\ e.opens = None /\ e.dying = None
      /\ Plain(e)
  BY <1>2, EndedFacts
<1>. HIDE DEF e
<1>4. Near(m2, e, s) /\ Near(m2, e, Parent[s])
  BY <1>2 DEF Near
<1>5. "start" \in {"start", "stop"}
  OBVIOUS
<1>. DEFINE c == I("lock", s) \o (NodeMap(Parent[s]) \o (I("start", s)
                    \o (NodeMap(Parent[s]) \o (I("unlock", s) \o <<>>))))
<1>6. c \in Codes /\ Typed(m2, c, v2)
  BY <1>3, <1>4, <1>5, TypedStream
<1>7. code \in Codes /\ code = c
  <2>1. Start(s) \o <<>> = c
    BY <1>3, <1>5, StreamCodes, Zenon DEF Start
  <2>2. /\ I("lock", s) \in Codes /\ I("start", s) \in Codes /\ I("unlock", s) \in Codes
    BY <1>2, InstructionCodes DEF Ops
  <2>3. NodeMap(Parent[s]) \in Codes
    BY <1>2, InstructionCodes, CodesConcat, ObjectFacts DEF Ops, NodeMap
  <2>4. Start(s) \in Codes
    BY <2>2, <2>3, CodesConcat DEF Start
  <2>5. Start(s) \o <<>> = Start(s)
    BY <2>4 DEF Codes
  <2>. QED
    BY <2>1, <2>4, <2>5
<1>8. Typed(m2, code, v2)
  BY <1>6, <1>7
<1>9. /\ v2 \in Views /\ v2.held = h /\ v2.credit = None /\ v2.first = {} /\ v2.opens = None
      /\ v2.dying = None /\ v2.new = FALSE /\ v2.asked = FALSE
  BY <1>2, <1>3, WithinViews DEF SameOpens, SameDying, Plain, Views
<1>. HIDE DEF v2, code, c
<1>10. GoesOn(t, code)
  BY <1>1 DEF Continue, GoesOn, code
<1>11. v2.held = view[t].held /\ v2.credit = view[t].credit
  BY <1>2, <1>9 DEF h
<1>. QED
  BY <1>1, <1>2, <1>7, <1>8, <1>9, <1>10, <1>11, Quiet

\* Nobody owns o any more, and thread t is to destroy it.
LEMMA Orphan ==
  ASSUME NEW mine \in Claims, NEW view \in [Threads -> Views], J(mine, view),
         NEW o \in Objects, o \in live, UNCHANGED live, UNCHANGED ilist,
         ~HasOwner(o, refs', tmp', live), NEW v2, v2.dying = o, v2.shut = FALSE
  PROVE  DyingInv(v2)' /\ o \in Devices \cup Streams
<1>1. /\ o # System /\ o # ilist /\ refs'[o] = {} /\ \A u \in Threads : o \notin tmp'[u]
      /\ Children(o) \cap live = {}
  BY DEF HasOwner
<1>2. o \notin Interfaces
  BY <1>1 DEF J, LiveInv
<1>3. o \in Devices \cup Streams
  BY <1>1, <1>2 DEF Objects
<1>. QED
  BY <1>1, <1>3 DEF DyingInv

\* A thread drops a shared pointer.
LEMMA DropStep ==
  ASSUME NEW mine \in Claims, NEW view \in [Threads -> Views], J(mine, view),
         NEW t \in Threads, Drop(t)
  PROVE  Inv'
<1>1. PICK o \in Objects \ {System} :
        /\ t \in refs[o] /\ refs' = [refs EXCEPT ![o] = @ \ {t}]
        /\ todo[t] = <<>>
        /\ Continue(t, IF HasOwner(o, refs', tmp, live) THEN <<>> ELSE I("destroy", o))
        /\ UNCHANGED <<owner, depth, objVars, tmp, opened>>
  BY DEF Drop, Call
<1>. DEFINE h == view[t].held
<1>2. /\ h \in [Objects -> Nat] /\ \A q \in Objects : h[q] = 0
      /\ view[t].credit = None /\ view[t].dying = None /\ tmp[t] = {}
      /\ Claimed(t, mine, view, Held(t)) /\ \A q \in Held(t) : q \in live
  BY <1>1, Idle
<1>3. /\ TypeInv /\ LiveInv /\ refs \in [Objects -> SUBSET Threads]
  BY ViewFacts DEF TypeInv
<1>4. /\ UNCHANGED owner /\ UNCHANGED depth /\ UNCHANGED nOpen /\ UNCHANGED live
      /\ UNCHANGED ilist /\ UNCHANGED weak /\ UNCHANGED tmp /\ UNCHANGED opened
  BY <1>1 DEF objVars
<1>5. /\ refs' \in [Objects -> SUBSET Threads] /\ refs'[o] = refs[o] \ {t}
      /\ \A q \in Objects \ {o} : refs'[q] = refs[q]
  BY <1>1, <1>3
<1>6. o \in live
  BY <1>1, <1>2 DEF Held
<1>19. PICK m2 \in SUBSET Objects : m2 = {q \in Objects : t \in refs'[q]}
  OBVIOUS
<1>20. m2 \subseteq Held(t)
  BY <1>5, <1>19 DEF Held
<1>. HIDE DEF h
<1>7. PICK e \in Views :
      /\ Typed(m2, <<>>, e) /\ Ordered(Nothing(e)) /\ <<>> \in Codes
      /\ e.held = h /\ e.credit = None /\ e.first = {} /\ e.opens = None /\ e.dying = None
      /\ e.shut = FALSE /\ e.calm = TRUE /\ e.listed = FALSE /\ e.local = FALSE
      /\ e.new = FALSE /\ e.asked = FALSE
  BY <1>2, EndedFacts
<1>8. PICK x \in Views :
      /\ x.held = h /\ x.credit = None /\ x.first = {} /\ x.opens = None
      /\ x.dying = o /\ x.shut = FALSE /\ x.calm = FALSE /\ x.listed = FALSE
      /\ x.local = FALSE /\ x.new = FALSE /\ x.asked = FALSE
  <2>. DEFINE y == [e EXCEPT !.dying = o, !.calm = FALSE]
  <2>1. /\ y \in Views /\ y.held = h /\ y.credit = None /\ y.first = {} /\ y.opens = None
        /\ y.dying = o /\ y.shut = FALSE /\ y.calm = FALSE /\ y.listed = FALSE
        /\ y.local = FALSE /\ y.new = FALSE /\ y.asked = FALSE
    BY <1>7 DEF Views
  <2>. HIDE DEF y
  <2>. QED
    BY <2>1
<1>9. LiveInv'
  <2>1. \A q \in Objects : refs'[q] # {} => refs[q] # {}
    BY <1>5
  <2>. QED
    BY <1>3, <1>4, <2>1 DEF LiveInv
<1>10. HandlesKept(t)
  BY <1>4, <1>5 DEF HandlesKept
<1>11. OthersKept(t, view, m2)
  <2>1. \A u \in Threads \ {t} : view[u].new => ilist \notin m2
    BY <1>2, <1>20 DEF Claimed
  <2>. QED
    BY <1>4, <2>1 DEF OthersKept
<1>12. ASSUME NEW v2 \in Views, v2.held = h, v2.credit = None, v2.first = {}, v2.opens = None
       PROVE  ClaimsKept(t, m2, view[t], v2)
  <2>1. \A i \in Interfaces : ~(v2.held[i] > 0)
    BY <1>2, <1>12, ObjectFacts
  <2>. QED
    BY <1>2, <1>12, <1>19, <2>1 DEF ClaimsKept, h
<1>13. ASSUME NEW code \in Codes, GoesOn(t, code) PROVE TypeInv'
  BY <1>3, <1>4, <1>5, <1>13, TypeKept DEF TypeInv
<1>14. ASSUME NEW v2, v2.asked = FALSE PROVE ListInv(t, v2)'
  BY <1>2, <1>4, <1>14 DEF ListInv
<1>15. ASSUME NEW v2, v2.new = FALSE PROVE NewInv(t, Put(mine, t, m2), v2)'
  BY <1>15 DEF NewInv
<1>16. UNCHANGED <<owner, depth, nOpen, opened>>
  BY <1>4
<1>17. CASE HasOwner(o, refs', tmp, live)
  <2>1. GoesOn(t, <<>>)
    BY <1>1, <1>17 DEF Continue, GoesOn
  <2>2. ClaimsKept(t, m2, view[t], e) /\ TypeInv' /\ ListInv(t, e)' /\ NewInv(t, Put(mine, t, m2), e)'
    BY <1>7, <1>12, <1>13, <1>14, <1>15, <2>1
  <2>3. DyingInv(e)'
    BY <1>7 DEF DyingInv
  <2>4. /\ e \in Views /\ Typed(m2, <<>>, e) /\ <<>> \in Codes /\ m2 \in SUBSET Objects
        /\ e.dying # None => \A u \in Threads \ {t} : view[u].dying # e.dying
        /\ view[t].dying # None => e.dying = view[t].dying
    BY <1>2, <1>6, <1>7
  <2>. QED
    BY <1>9, <1>10, <1>11, <1>16, <2>1, <2>2, <2>3, <2>4, Moved
<1>18. CASE ~HasOwner(o, refs', tmp, live)
  <2>. DEFINE code == I("destroy", o)
  <2>1. GoesOn(t, code)
    BY <1>1, <1>18 DEF Continue, GoesOn
  <2>2. DyingInv(x)' /\ o \in Devices \cup Streams
    BY <1>4, <1>6, <1>8, <1>18, Orphan
  <2>3. "destroy" \in Ops
    BY DEF Ops
  <2>4. Does(m2, <<"destroy", o>>, x, e)
    <3>1. DoesDestroy(x, o, e)
      BY <1>7, <1>8 DEF DoesDestroy, Ordered, Nothing, SameOpens, SameLists
    <3>2. Near(m2, x, o)
      BY <1>8 DEF Near
    <3>. QED
      BY <1>7, <1>8, <2>2, <3>1, <3>2 DEF Does
  <2>5. Typed(m2, code, x) /\ code \in Codes
    <3>1. Typed(m2, code \o <<>>, x)
      BY <1>7, <1>8, <2>3, <2>4, TypedCons
    <3>2. code \in Codes
      BY <2>3, InstructionCodes
    <3>3. code \o <<>> = code
      BY <3>2 DEF Codes
    <3>. QED
      BY <3>1, <3>2, <3>3
  <2>. HIDE DEF code
  <2>6. ClaimsKept(t, m2, view[t], x) /\ TypeInv' /\ ListInv(t, x)' /\ NewInv(t, Put(mine, t, m2), x)'
    BY <1>8, <1>12, <1>13, <1>14, <1>15, <2>1, <2>5
  <2>7. \A u \in Threads \ {t} : view[u].dying # o
    <3>1. \A u \in Threads : DyingInv(view[u]) /\ refs[o] # {}
      BY <1>1, ViewFacts
    <3>. QED
      BY <3>1, ObjectFacts DEF DyingInv
  <2>8. /\ x \in Views /\ m2 \in SUBSET Objects
        /\ x.dying # None => \A u \in Threads \ {t} : view[u].dying # x.dying
        /\ view[t].dying # None => x.dying = view[t].dying
    BY <1>2, <1>6, <1>8, <2>7
  <2>. QED
    BY <1>9, <1>10, <1>11, <1>16, <2>1, <2>2, <2>5, <2>6, <2>8, Moved
<1>. QED
  BY <1>17, <1>18

\* A thread gives another thread a copy of a shared pointer.
LEMMA ShareStep ==
  ASSUME NEW mine \in Claims, NEW view \in [Threads -> Views], J(mine, view),
         NEW t \in Threads, Share(t)
  PROVE  Inv'
<1>1. PICK o \in Objects, s \in Threads :
        /\ t \in refs[o] /\ refs' = [refs EXCEPT ![o] = @ \cup {s}]
        /\ todo[t] = <<>> /\ Continue(t, <<>>)
        /\ UNCHANGED <<owner, depth, objVars, tmp, opened>>
  BY DEF Share, Call
<1>. DEFINE h == view[t].held
<1>2. /\ h \in [Objects -> Nat] /\ \A q \in Objects : h[q] = 0
      /\ view[t].credit = None /\ view[t].dying = None /\ tmp[t] = {}
      /\ Claimed(t, mine, view, Held(t)) /\ Held(t) \in SUBSET Objects
  BY <1>1, Idle
<1>16. PICK m2 \in SUBSET Objects : m2 = Held(t)
  BY <1>2
<1>3. /\ TypeInv /\ LiveInv /\ refs \in [Objects -> SUBSET Threads]
  BY ViewFacts DEF TypeInv
<1>4. /\ UNCHANGED owner /\ UNCHANGED depth /\ UNCHANGED nOpen /\ UNCHANGED live
      /\ UNCHANGED ilist /\ UNCHANGED weak /\ UNCHANGED tmp /\ UNCHANGED opened
  BY <1>1 DEF objVars
<1>5. /\ refs' \in [Objects -> SUBSET Threads] /\ refs'[o] = refs[o] \cup {s}
      /\ \A q \in Objects \ {o} : refs'[q] = refs[q]
  BY <1>1, <1>3
<1>6. \A q \in m2 : t \in refs'[q]
  BY <1>5, <1>16 DEF Held
<1>. HIDE DEF h
<1>7. PICK e \in Views :
      /\ Typed(m2, <<>>, e) /\ <<>> \in Codes
      /\ e.held = h /\ e.credit = None /\ e.first = {} /\ e.opens = None /\ e.dying = None
      /\ e.new = FALSE /\ e.asked = FALSE
  BY <1>2, EndedFacts
<1>8. LiveInv'
  <2>1. \A q \in Objects : refs'[q] # {} => refs[q] # {}
    BY <1>1, <1>5
  <2>. QED
    BY <1>3, <1>4, <2>1 DEF LiveInv
<1>9. HandlesKept(t)
  BY <1>1, <1>4, <1>5 DEF HandlesKept
<1>10. OthersKept(t, view, m2)
  BY <1>2, <1>4, <1>16 DEF OthersKept, Claimed
<1>11. ClaimsKept(t, m2, view[t], e)
  <2>1. \A i \in Interfaces : ~(e.held[i] > 0)
    BY <1>2, <1>7, ObjectFacts
  <2>. QED
    BY <1>2, <1>6, <1>7, <2>1 DEF ClaimsKept, h
<1>12. GoesOn(t, <<>>)
  BY <1>1 DEF Continue, GoesOn
<1>13. TypeInv'
  BY <1>3, <1>4, <1>5, <1>7, <1>12, TypeKept DEF TypeInv
<1>14. ListInv(t, e)' /\ NewInv(t, Put(mine, t, m2), e)' /\ DyingInv(e)'
  BY <1>2, <1>4, <1>7 DEF ListInv, NewInv, DyingInv
<1>15. /\ e \in Views /\ Typed(m2, <<>>, e) /\ <<>> \in Codes /\ m2 \in SUBSET Objects
       /\ e.dying # None => \A u \in Threads \ {t} : view[u].dying # e.dying
       /\ view[t].dying # None => e.dying = view[t].dying
       /\ UNCHANGED <<owner, depth, nOpen, opened>>
  BY <1>2, <1>4, <1>7
<1>. QED
  BY <1>8, <1>9, <1>10, <1>11, <1>12, <1>13, <1>14, <1>15, Moved

-----------------------------------------------------------------------------
\* A method returns a list.
LEMMA ReturnStep ==
  ASSUME NEW mine \in Claims, NEW view \in [Threads -> Views], J(mine, view),
         NEW t \in Threads, Return(t)
  PROVE  Inv'
<1>. DEFINE v == view[t]
<1>1. PICK o \in Objects :
        /\ At(t, "return", o)
        /\ refs' = [c \in Objects |-> IF c \in tmp[t] THEN refs[c] \cup {t} ELSE refs[c]]
        /\ Continue(t, Rest(t))
        /\ UNCHANGED <<owner, depth, calls, objVars, tmp, opened>>
  BY DEF Return
<1>2. "return" \in Ops
  BY DEF Ops
<1>3. /\ Near(mine[t], v, o) /\ Rest(t) \in Codes /\ todo[t] # <<>> /\ todo[t][1] = <<"return", o>>
  BY <1>1, <1>2, StepFacts
<1>4. PICK w \in Views : Does(mine[t], <<"return", o>>, v, w) /\ Typed(mine[t], Rest(t), w)
  BY <1>1, <1>2, StepFacts
<1>. DEFINE code == Rest(t)
<1>. HIDE DEF v, code
<1>5. v = view[t]
  BY DEF v
<1>6. DoesReturn(v, w) /\ ~w.new /\ ~w.asked
  BY <1>4 DEF Does, Views
<1>7. /\ w.held = v.held /\ w.credit = v.credit /\ w.first = v.first /\ w.opens = v.opens
      /\ w.dying = v.dying /\ w.shut = v.shut /\ w.local = v.local
  BY <1>6 DEF DoesReturn, SameOpens, SameDying
<1>8. /\ TypeInv /\ LiveInv /\ ClaimInv(t, mine[t], v) /\ ListInv(t, v) /\ DyingInv(v)
      /\ DyingDiffer(view) /\ mine[t] \in SUBSET Objects /\ refs \in [Objects -> SUBSET Threads]
      /\ tmp[t] \in SUBSET Objects
  BY <1>5, ViewFacts DEF J, TypeInv
<1>9. /\ UNCHANGED owner /\ UNCHANGED depth /\ UNCHANGED nOpen /\ UNCHANGED live
      /\ UNCHANGED ilist /\ UNCHANGED weak /\ UNCHANGED tmp /\ UNCHANGED opened
  BY <1>1 DEF objVars
<1>10. GoesOn(t, code) /\ code \in Codes /\ Typed(mine[t], code, w)
  BY <1>1, <1>3, <1>4 DEF GoesOn, Continue, code
<1>11. /\ refs' \in [Objects -> SUBSET Threads]
       /\ \A c \in Objects : refs'[c] = IF c \in tmp[t] THEN refs[c] \cup {t} ELSE refs[c]
  BY <1>1, <1>8
<1>12. TypeInv'
  BY <1>8, <1>9, <1>10, <1>11, TypeKept DEF TypeInv
<1>13. LiveInv'
  <2>1. \A q \in Objects : refs'[q] # {} => q \in live
    BY <1>8, <1>11 DEF LiveInv
  <2>. QED
    BY <1>8, <1>9, <2>1 DEF LiveInv
<1>14. HandlesKept(t)
  BY <1>9, <1>11 DEF HandlesKept
<1>15. OthersKept(t, view, mine[t])
  BY <1>9, NewIsNotMine DEF OthersKept
<1>16. ClaimsKept(t, mine[t], view[t], w)
  <2>1. \A q \in mine[t] : t \in refs'[q] \/ q = ilist'
    BY <1>8, <1>9, <1>11 DEF ClaimInv
  <2>2. w.credit # None => Near(mine[t], w, w.credit)
    BY <1>7, <1>8, NearSame, ViewFacts DEF ClaimInv
  <2>. QED
    BY <1>5, <1>7, <1>8, <2>1, <2>2 DEF ClaimsKept, ClaimInv
<1>17. ListInv(t, w)'
  <2>1. \A c \in tmp[t] : t \in refs'[c]
    BY <1>8, <1>11
  <2>. QED
    BY <1>6, <1>7, <1>8, <1>9, <2>1 DEF ListInv
<1>18. DyingInv(w)'
  <2>. SUFFICES ASSUME v.dying # None PROVE DyingInv(w)'
    BY <1>7 DEF DyingInv
  <2>1. v.dying \in Objects /\ v.dying \notin tmp[t]
    BY <1>8, ObjectFacts DEF DyingInv
  <2>2. refs'[v.dying] = refs[v.dying]
    BY <1>11, <2>1
  <2>. QED
    BY <1>7, <1>8, <1>9, <2>2 DEF DyingInv
<1>19. NewInv(t, Put(mine, t, mine[t]), w)'
  BY <1>6 DEF NewInv
<1>20. w.dying # None => \A u \in Threads \ {t} : view[u].dying # w.dying
  BY <1>5, <1>7, <1>8 DEF DyingDiffer
<1>. QED
  BY <1>5, <1>7, <1>8, <1>9, <1>10, <1>12, <1>13, <1>14, <1>15, <1>16, <1>17, <1>18, <1>19, <1>20, Moved

\* The system cannot be listed, as it is not open.
LEMMA ListNoInterfacesStep ==
  ASSUME NEW mine \in Claims, NEW view \in [Threads -> Views], J(mine, view),
         NEW t \in Threads, ListNoInterfaces(t)
  PROVE  Inv'
<1>. DEFINE v == view[t]
            code == Unwind(Rest(t))
<1>1. /\ At(t, "interfaces", System) /\ Continue(t, code)
      /\ UNCHANGED <<owner, depth, objVars, refs, tmp, opened>>
  BY DEF ListNoInterfaces, Rest4
<1>2. "interfaces" \in Ops
  BY DEF Ops
<1>3. Rest(t) \in Codes /\ todo[t] # <<>> /\ todo[t][1] = <<"interfaces", System>>
  BY <1>1, <1>2, StepFacts
<1>4. PICK w \in Views : Does(mine[t], <<"interfaces", System>>, v, w) /\ Typed(mine[t], Rest(t), w)
  BY <1>1, <1>2, StepFacts
<1>5. DoesInterfaces(v, System, w)
  BY <1>4 DEF Does
<1>6. /\ w.calm /\ w.held = v.held /\ v.credit = None /\ v.dying = None /\ w.dying = None
      /\ w.local = TRUE
  BY <1>5 DEF DoesInterfaces, SameDying
<1>. DEFINE b == Bare(w)
<1>7. code \in Codes /\ Typed(mine[t], code, b)
  BY <1>3, <1>4, <1>6, TypedUnwind
<1>8. /\ b \in Views /\ b.held = v.held /\ b.credit = None /\ b.first = {} /\ b.opens = None
      /\ b.dying = None /\ b.local = TRUE /\ b.new = FALSE /\ b.asked = FALSE
  BY <1>6 DEF Bare, Views
<1>. HIDE DEF b, code
<1>9. Claimed(t, mine, view, mine[t]) /\ mine[t] \in SUBSET Objects
  BY NewIsNotMine, ViewFacts DEF Claimed
<1>10. GoesOn(t, code) /\ todo[t][1][1] \notin {"return", "enumerate"}
  BY <1>1, <1>3 DEF GoesOn, Continue
<1>. QED
  BY <1>1, <1>3, <1>6, <1>7, <1>8, <1>9, <1>10, Quiet

\* The producer fails to list.
LEMMA EnumerateFailsStep ==
  ASSUME NEW mine \in Claims, NEW view \in [Threads -> Views], J(mine, view),
         NEW t \in Threads, EnumerateFails(t)
  PROVE  Inv'
<1>. DEFINE v == view[t]
            code == Unwind(Rest(t))
<1>1. PICK o \in Interfaces \cup Devices :
        /\ At(t, "enumerate", o) /\ (Vanish = "no" => tmp[t] = {}) /\ Continue(t, code)
        /\ UNCHANGED <<owner, depth, objVars, refs, tmp, opened>>
  BY DEF EnumerateFails, Rest4
<1>2. "enumerate" \in Ops
  BY DEF Ops
<1>3. Rest(t) \in Codes /\ todo[t] # <<>> /\ todo[t][1] = <<"enumerate", o>>
  BY <1>1, <1>2, StepFacts
<1>4. PICK w \in Views : Does(mine[t], <<"enumerate", o>>, v, w) /\ Typed(mine[t], Rest(t), w)
  BY <1>1, <1>2, StepFacts
<1>5. DoesList(v, o, w)
  BY <1>4 DEF Does
<1>6. /\ w.calm /\ w.held = v.held /\ v.credit = None /\ v.dying = None /\ w.dying = None
      /\ w.local = TRUE
  BY <1>5 DEF DoesList, SameDying
<1>. DEFINE b == Bare(w)
<1>7. code \in Codes /\ Typed(mine[t], code, b)
  BY <1>3, <1>4, <1>6, TypedUnwind
<1>8. /\ b \in Views /\ b.held = v.held /\ b.credit = None /\ b.first = {} /\ b.opens = None
      /\ b.dying = None /\ b.local = TRUE /\ b.new = FALSE /\ b.asked = FALSE
  BY <1>6 DEF Bare, Views
<1>. HIDE DEF b, code
<1>9. Claimed(t, mine, view, mine[t]) /\ mine[t] \in SUBSET Objects
  BY NewIsNotMine, ViewFacts DEF Claimed
<1>10. GoesOn(t, code)
  BY <1>1 DEF GoesOn, Continue
<1>. QED
  BY <1>1, <1>3, <1>6, <1>7, <1>8, <1>9, <1>10, Quiet

\* What a thread knows when it lists the children of o.
LEMMA ListFacts ==
  ASSUME NEW mine \in Claims, NEW view \in [Threads -> Views], J(mine, view),
         NEW t \in Threads, NEW o, NEW op \in {"current", "enumerate"}, At(t, op, o)
  PROVE  /\ o \in Interfaces \cup Devices /\ o \in Objects /\ o \in live /\ o # System
         /\ view[t].held[o] > 0 /\ view[t].credit = None /\ view[t].dying = None
         /\ view[t].calm = FALSE /\ view[t].listed = FALSE /\ ~view[t].new
         /\ todo[t] # <<>> /\ todo[t] \in Codes /\ todo[t][1] = <<op, o>> /\ Rest(t) \in Codes
         /\ \A u \in Threads \ {t} : ~view[u].new /\ view[u].dying # o
         /\ op = "current" => ~view[t].local /\ tmp[t] = {} /\ ~view[t].asked
         /\ op = "enumerate" => view[t].asked /\ tmp[t] \subseteq Devices \cup Streams /\ nOpen[o] > 0
<1>1. op \in Ops
  BY DEF Ops
<1>2. /\ todo[t] # <<>> /\ todo[t] \in Codes /\ todo[t][1] = <<op, o>> /\ Rest(t) \in Codes
      /\ o \in Objects /\ Near(mine[t], view[t], o)
  BY <1>1, StepFacts
<1>3. PICK w \in Views : Does(mine[t], <<op, o>>, view[t], w)
  BY <1>1, StepFacts
<1>4. DoesList(view[t], o, w)
  BY <1>3 DEF Does
<1>5. /\ ~view[t].calm /\ ~view[t].listed /\ (op = "current" => ~view[t].local)
      /\ (op = "enumerate" => view[t].asked)
  BY <1>3 DEF Does, Calm
<1>6. o \in Interfaces \cup Devices /\ view[t].held[o] > 0 /\ view[t].credit = None
      /\ view[t].dying = None
  BY <1>4 DEF DoesList
<1>7. o # System /\ o \in live /\ \A u \in Threads \ {t} : ~view[u].new /\ view[u].dying # o
  BY <1>2, <1>6, NearFacts, ObjectFacts
<1>8. view[t] \in Views /\ ListInv(t, view[t]) /\ NewInv(t, mine, view[t])
  BY ViewFacts
<1>9. ~view[t].new
  BY <1>2, <1>8 DEF NewInv, At
<1>10. op = "current" => tmp[t] = {} /\ ~view[t].asked
  BY <1>2, <1>5, <1>8 DEF ListInv, At
<1>11. op = "enumerate" => tmp[t] \subseteq Devices \cup Streams /\ nOpen[o] > 0
  BY <1>2, <1>5, <1>8 DEF ListInv, At
<1>12. view[t].calm = FALSE /\ view[t].listed = FALSE
  BY <1>5, <1>8 DEF Views
<1>. QED
  BY <1>2, <1>5, <1>6, <1>7, <1>9, <1>10, <1>11, <1>12

\* A method that lists finds its object open or not, and copies its list.
LEMMA CurrentStep ==
  ASSUME NEW mine \in Claims, NEW view \in [Threads -> Views], J(mine, view),
         NEW t \in Threads, Current(t)
  PROVE  Inv'
<1>. DEFINE v == view[t]
<1>1. PICK o \in Interfaces \cup Devices :
        /\ At(t, "current", o)
        /\ IF nOpen[o] > 0
           THEN /\ tmp' = [tmp EXCEPT ![t] = {c \in weak[o] : Strong(c)}]
                /\ Continue(t, I("enumerate", o) \o Rest(t))
           ELSE Continue(t, Rest(t)) /\ UNCHANGED tmp
        /\ UNCHANGED <<owner, depth, objVars, refs, opened>>
  BY DEF Current, Rest4
<1>2. "current" \in Ops /\ "current" \in {"current", "enumerate"} /\ "enumerate" \in Ops
  BY DEF Ops
<1>3. PICK w \in Views : Does(mine[t], <<"current", o>>, v, w) /\ Typed(mine[t], Rest(t), w)
  BY <1>1, <1>2, StepFacts
<1>4. /\ o \in Objects /\ o \in live /\ v.held[o] > 0 /\ v.credit = None /\ v.dying = None
      /\ v.calm = FALSE /\ v.listed = FALSE /\ tmp[t] = {} /\ Rest(t) \in Codes
      /\ todo[t] # <<>> /\ todo[t][1] = <<"current", o>>
      /\ \A u \in Threads \ {t} : ~view[u].new
  BY <1>1, <1>2, ListFacts
<1>5. DoesList(v, o, w) /\ ~w.new /\ ~w.asked /\ Near(mine[t], v, o)
  BY <1>3 DEF Does
<1>6. /\ w.calm /\ w.held = v.held /\ w.listed = TRUE /\ w.local = TRUE
      /\ w.credit = None /\ w.first = v.first /\ w.opens = v.opens /\ w.dying = None
      /\ w.shut = v.shut
  BY <1>4, <1>5 DEF DoesList, SameOpens, SameDying
<1>7. Claimed(t, mine, view, mine[t]) /\ mine[t] \in SUBSET Objects
  BY NewIsNotMine, ViewFacts DEF Claimed
<1>. HIDE DEF v
<1>8. v = view[t]
  BY DEF v
<1>9. CASE ~(nOpen[o] > 0)
  <2>. DEFINE code == Rest(t)
  <2>. HIDE DEF code
  <2>1. /\ GoesOn(t, code) /\ code \in Codes /\ Typed(mine[t], code, w)
        /\ UNCHANGED <<owner, depth, objVars, refs, tmp, opened>>
    BY <1>1, <1>3, <1>4, <1>9 DEF GoesOn, Continue, code
  <2>2. /\ w.held = view[t].held /\ w.credit = view[t].credit
        /\ \A q \in w.first : q \in view[t].first
        /\ w.opens # None => w.opens = view[t].opens
        /\ view[t].dying = None /\ w.dying = None
        /\ todo[t] # <<>> /\ todo[t][1][1] \notin {"return", "enumerate"}
    BY <1>4, <1>6, <1>8
  <2>. QED
    BY <1>4, <1>5, <1>7, <2>1, <2>2, Quiet
<1>10. CASE nOpen[o] > 0
  <2>. DEFINE rest == Rest(t)
              code == I("enumerate", o) \o rest
              S == {c \in weak[o] : Strong(c)}
  <2>1. PICK x \in Views :
          /\ x.held = v.held /\ x.credit = None /\ x.first = v.first /\ x.opens = v.opens
          /\ x.dying = None /\ x.shut = v.shut /\ x.calm = FALSE /\ x.listed = FALSE
          /\ x.local = TRUE /\ x.new = FALSE /\ x.asked = TRUE
    <3>. DEFINE y == [v EXCEPT !.local = TRUE, !.new = FALSE, !.asked = TRUE]
    <3>1. v \in Views
      BY <1>8, ViewFacts
    <3>2. /\ y \in Views
          /\ y.held = v.held /\ y.credit = None /\ y.first = v.first /\ y.opens = v.opens
          /\ y.dying = None /\ y.shut = v.shut /\ y.calm = FALSE /\ y.listed = FALSE
          /\ y.local = TRUE /\ y.new = FALSE /\ y.asked = TRUE
      BY <1>4, <3>1 DEF Views
    <3>. HIDE DEF y
    <3>. QED
      BY <3>2
  <2>2. Does(mine[t], <<"enumerate", o>>, x, w)
    <3>1. DoesList(x, o, w)
      BY <1>1, <1>4, <1>6, <2>1 DEF DoesList, SameOpens, SameDying
    <3>2. Near(mine[t], x, o)
      BY <1>4, <1>5, <2>1, NearSame
    <3>. QED
      BY <1>5, <2>1, <3>1, <3>2, ViewFacts DEF Does, Views
  <2>. HIDE DEF rest
  <2>3. rest \in Codes /\ Typed(mine[t], rest, w)
    BY <1>3, <1>4 DEF rest
  <2>4. code \in Codes /\ Typed(mine[t], code, x)
    BY <1>2, <1>4, <2>1, <2>2, <2>3, TypedCons
  <2>5. code # <<>> /\ code[1] = <<"enumerate", o>>
    BY <1>2, <1>4, <2>3, HeadOfConcat
  <2>6. GoesOn(t, code)
    BY <1>1, <1>10 DEF GoesOn, Continue, rest
  <2>. HIDE DEF code
  <2>7. /\ TypeInv /\ LiveInv /\ ClaimInv(t, mine[t], v) /\ weak[o] \subseteq Devices \cup Streams
        /\ tmp \in [Threads -> SUBSET Objects]
    BY <1>4, <1>8, ViewFacts DEF TypeInv
  <2>8. /\ tmp' = [tmp EXCEPT ![t] = S] /\ UNCHANGED owner /\ UNCHANGED depth /\ UNCHANGED nOpen
        /\ UNCHANGED live /\ UNCHANGED ilist /\ UNCHANGED weak /\ UNCHANGED refs
        /\ UNCHANGED opened
    BY <1>1, <1>10 DEF objVars
  <2>9. /\ S \subseteq Devices \cup Streams /\ S \in SUBSET Objects /\ S \subseteq live
        /\ \A c \in S : Strong(c)
    <3>1. ASSUME NEW c \in S PROVE c \in live
      <4>1. c \in Objects /\ c # System /\ c # ilist /\ Strong(c)
        BY <2>7, ObjectFacts DEF TypeInv
      <4>2. CASE Children(c) \cap live # {}
        <5>1. PICK d \in Children(c) : d \in live
          BY <4>2
        <5>. QED
          BY <2>7, <4>1, <5>1, ObjectFacts DEF LiveInv
      <4>. QED
        BY <2>7, <4>1, <4>2 DEF Strong, HasOwner, LiveInv
    <3>. QED
      BY <2>7, <3>1, ObjectFacts
  <2>. HIDE DEF S
  <2>10. tmp'[t] = S /\ \A u \in Threads \ {t} : tmp'[u] = tmp[u]
    BY <2>7, <2>8
  <2>11. TypeInv'
    BY <2>4, <2>6, <2>7, <2>8, <2>9, TypeKept DEF TypeInv
  <2>12. LiveInv'
    <3>1. \A u \in Threads : tmp'[u] \subseteq live
      BY <2>7, <2>9, <2>10 DEF LiveInv
    <3>. QED
      BY <2>7, <2>8, <3>1 DEF LiveInv
  <2>13. HandlesKept(t)
    BY <2>8, <2>10 DEF HandlesKept
  <2>14. OthersKept(t, view, mine[t])
    <3>. SUFFICES ASSUME NEW u \in Threads \ {t}, NEW q \in Objects, q = view[u].dying
                  PROVE  q \notin S
      BY <1>4, <2>8, <2>10 DEF OthersKept
    <3>3. DyingInv(view[u]) /\ q # None
      BY ViewFacts, ObjectFacts
    <3>1. /\ q \in Devices \cup Streams /\ refs[q] = {} /\ Children(q) \cap live = {}
          /\ \A a \in Threads : q \notin tmp[a]
      BY <3>3 DEF DyingInv
    <3>2. ~Strong(q)
      BY <2>7, <3>1, ObjectFacts DEF Strong, HasOwner, TypeInv
    <3>. QED
      BY <2>9, <3>2
  <2>15. ClaimsKept(t, mine[t], view[t], x)
    <3>1. \A q \in mine[t] : t \in refs'[q] \/ q = ilist'
      BY <2>7, <2>8 DEF ClaimInv
    <3>. QED
      BY <1>4, <1>8, <2>1, <2>7, <3>1 DEF ClaimsKept, ClaimInv
  <2>16. ListInv(t, x)'
    <3>1. todo'[t] = code
      BY <2>6, <2>7, TypeKept, <2>4
    <3>2. At(t, "enumerate", o)' /\ nOpen'[o] > 0 /\ todo'[t] # <<>> /\ todo'[t][1][1] = "enumerate"
      BY <1>10, <2>5, <2>8, <3>1 DEF At
    <3>. QED
      BY <1>4, <2>1, <2>9, <2>10, <3>2 DEF ListInv
  <2>17. DyingInv(x)' /\ NewInv(t, Put(mine, t, mine[t]), x)'
    BY <2>1 DEF DyingInv, NewInv
  <2>18. /\ x.dying # None => \A u \in Threads \ {t} : view[u].dying # x.dying
         /\ view[t].dying # None => x.dying = view[t].dying
         /\ UNCHANGED <<owner, depth, nOpen, opened>>
    BY <1>4, <1>8, <2>1, <2>8
  <2>. QED
    BY <1>7, <2>4, <2>6, <2>11, <2>12, <2>13, <2>14, <2>15, <2>16, <2>17, <2>18, Moved
<1>. QED
  BY <1>9, <1>10

\* The producer lists the children, or some of them.
LEMMA EnumerateStep ==
  ASSUME NEW mine \in Claims, NEW view \in [Threads -> Views], J(mine, view),
         NEW t \in Threads, Enumerate(t)
  PROVE  Inv'
<1>. DEFINE v == view[t]
<1>1. PICK o \in Interfaces \cup Devices :
        /\ At(t, "enumerate", o)
        /\ \E c \in (IF tmp[t] # {} THEN tmp[t] ELSE Children(o) \ live) :
              /\ live' = live \cup {c} /\ weak' = [weak EXCEPT ![o] = {c}]
              /\ tmp' = [tmp EXCEPT ![t] = {c}]
        /\ Continue(t, Rest(t))
        /\ UNCHANGED <<owner, depth, refs, calls, nOpen, ilist, opened>>
  BY DEF Enumerate, Rest4
<1>3. "enumerate" \in Ops /\ "enumerate" \in {"current", "enumerate"}
  BY DEF Ops
<1>4. PICK w \in Views : Does(mine[t], <<"enumerate", o>>, v, w) /\ Typed(mine[t], Rest(t), w)
  BY <1>1, <1>3, StepFacts
<1>5. /\ o \in Objects /\ o \in live /\ v.held[o] > 0 /\ v.credit = None /\ v.dying = None
      /\ Rest(t) \in Codes /\ tmp[t] \subseteq Devices \cup Streams
      /\ \A u \in Threads \ {t} : ~view[u].new /\ view[u].dying # o
  <2>1. At(t, "enumerate", o)
    BY <1>1
  <2>2. /\ o \in Objects /\ o \in live /\ view[t].held[o] > 0 /\ view[t].credit = None
        /\ view[t].dying = None /\ Rest(t) \in Codes
    BY <1>3, <2>1, ListFacts
  <2>3. tmp[t] \subseteq Devices \cup Streams
    BY <1>3, <2>1, ListFacts
  <2>4. ASSUME NEW u \in Threads \ {t} PROVE ~view[u].new /\ view[u].dying # o
    <3>1. Near(mine[t], view[t], o)
      BY <1>3, <2>1, StepFacts
    <3>2. view[u].dying # o
      BY <2>2, <3>1, NearFacts
    <3>3. view[u].new => o = System
      BY <2>2, <3>1, NearFacts
    <3>. QED
      BY <2>2, <3>2, <3>3, ObjectFacts
  <2>. QED
    BY <2>2, <2>3, <2>4
<1>2. PICK c \in (IF tmp[t] # {} THEN tmp[t] ELSE Children(o) \ live) :
        /\ live' = live \cup {c} /\ weak' = [weak EXCEPT ![o] = {c}]
        /\ tmp' = [tmp EXCEPT ![t] = {c}]
  BY <1>1
<1>. DEFINE code == Rest(t)
<1>. HIDE DEF v, code
<1>6. v = view[t]
  BY DEF v
<1>7. DoesList(v, o, w) /\ ~w.new /\ ~w.asked
  BY <1>4 DEF Does
<1>8. /\ w.held = v.held /\ w.listed = TRUE /\ w.local = TRUE
      /\ w.credit = None /\ w.first = v.first /\ w.opens = v.opens /\ w.dying = None
  BY <1>5, <1>7 DEF DoesList, SameOpens, SameDying
<1>9. GoesOn(t, code) /\ code \in Codes /\ Typed(mine[t], code, w)
  BY <1>1, <1>4, <1>5 DEF GoesOn, Continue, code
<1>10. code # <<>> /\ code[1][1] = "return"
  <2>1. code # <<>>
    BY <1>8, <1>9, TypedEmpty DEF AtEnd
  <2>2. PICK x \in Views : Does(mine[t], code[1], w, x)
    BY <1>9, <2>1, TypedStep
  <2>. QED
    BY <1>8, <2>1, <2>2 DEF Does
<1>11. /\ TypeInv /\ LiveInv /\ ClaimInv(t, mine[t], v) /\ mine[t] \in SUBSET Objects
       /\ tmp \in [Threads -> SUBSET Objects]
       /\ weak \in [Objects -> SUBSET (Devices \cup Streams)]
  BY <1>6, ViewFacts DEF TypeInv
<1>12. /\ c \in Devices \cup Streams /\ c \in Objects /\ c # System
       /\ c \notin live => Parent[c] = o /\ tmp[t] = {}
       /\ c \in tmp[t] => c \in live
  <2>1. CASE tmp[t] # {}
    BY <1>5, <1>11, <2>1, ObjectFacts DEF LiveInv
  <2>2. CASE tmp[t] = {}
    <3>1. c \in Objects \ {System} /\ Parent[c] = o
      BY <1>5, <2>2, ObjectFacts
    <3>2. c \notin Interfaces
      BY <3>1, <1>1, ObjectFacts
    <3>. QED
      BY <2>2, <3>1, <3>2 DEF Objects
  <2>. QED
    BY <2>1, <2>2
<1>13. /\ UNCHANGED owner /\ UNCHANGED depth /\ UNCHANGED nOpen
       /\ UNCHANGED ilist /\ UNCHANGED refs /\ UNCHANGED opened
  BY <1>1
<1>14. /\ tmp'[t] = {c} /\ \A u \in Threads \ {t} : tmp'[u] = tmp[u]
       /\ tmp' \in [Threads -> SUBSET Objects]
       /\ weak' \in [Objects -> SUBSET (Devices \cup Streams)] /\ live' = live \cup {c}
  BY <1>2, <1>5, <1>11, <1>12
<1>15. TypeInv'
  BY <1>9, <1>11, <1>12, <1>13, <1>14, TypeKept DEF TypeInv
<1>16. LiveInv'
  <2>1. \A i \in Interfaces : i \in live' <=> i = ilist
    BY <1>11, <1>12, <1>14, ObjectFacts DEF LiveInv
  <2>2. \A q \in live' \ {System} : Parent[q] \in live'
    BY <1>5, <1>11, <1>12, <1>14 DEF LiveInv
  <2>3. \A u \in Threads : tmp'[u] \subseteq live'
    BY <1>11, <1>14 DEF LiveInv
  <2>. QED
    BY <1>11, <1>13, <1>14, <2>1, <2>2, <2>3 DEF LiveInv
<1>17. HandlesKept(t)
  BY <1>13, <1>14 DEF HandlesKept
<1>18. OthersKept(t, view, mine[t])
  <2>. SUFFICES ASSUME NEW u \in Threads \ {t}, NEW q \in Objects, q = view[u].dying
                PROVE  /\ q \in live => q \in live'
                       /\ Children(q) \cap live = {} => Children(q) \cap live' = {}
                       /\ q \notin tmp[t] => q \notin tmp'[t]
    BY <1>5 DEF OthersKept
  <2>1. q # o /\ q \in live /\ Children(q) \cap live = {}
    <3>1. DyingInv(view[u]) /\ q # None
      BY ViewFacts, ObjectFacts
    <3>. QED
      BY <1>5, <3>1 DEF DyingInv
  <2>2. c \notin live => c \notin Children(q)
    BY <1>12, <2>1, ObjectFacts
  <2>3. q \notin tmp[t] => q # c
    BY <1>2, <2>1
  <2>. QED
    BY <1>14, <2>1, <2>2, <2>3
<1>19. ClaimsKept(t, mine[t], view[t], w)
  <2>1. \A q \in mine[t] : t \in refs'[q] \/ q = ilist'
    BY <1>11, <1>13 DEF ClaimInv
  <2>. QED
    BY <1>5, <1>6, <1>8, <1>11, <2>1 DEF ClaimsKept, ClaimInv
<1>20. ListInv(t, w)'
  <2>1. todo'[t] = code
    BY <1>9, <1>11, TypeKept
  <2>2. todo'[t] # <<>> /\ todo'[t][1][1] = "return"
    BY <1>10, <2>1
  <2>. QED
    BY <1>7, <1>8, <2>2 DEF ListInv
<1>21. DyingInv(w)' /\ NewInv(t, Put(mine, t, mine[t]), w)'
  BY <1>7, <1>8 DEF DyingInv, NewInv
<1>22. /\ w.dying # None => \A u \in Threads \ {t} : view[u].dying # w.dying
       /\ view[t].dying # None => w.dying = view[t].dying
       /\ UNCHANGED <<owner, depth, nOpen, opened>>
  BY <1>5, <1>6, <1>8, <1>13
<1>. QED
  BY <1>9, <1>11, <1>15, <1>16, <1>17, <1>18, <1>19, <1>20, <1>21, <1>22, Moved

\* The producer finds nothing.
LEMMA EnumerateNoneStep ==
  ASSUME NEW mine \in Claims, NEW view \in [Threads -> Views], J(mine, view),
         NEW t \in Threads, EnumerateNone(t)
  PROVE  Inv'
<1>. DEFINE v == view[t]
<1>1. PICK o \in Interfaces \cup Devices :
        /\ At(t, "enumerate", o) /\ (Vanish = "no" => tmp[t] = {})
        /\ weak' = [weak EXCEPT ![o] = {}]
        /\ Continue(t, Tail(Rest(t)))
        /\ UNCHANGED <<owner, depth, refs, calls, nOpen, live, ilist, tmp, opened>>
  BY DEF EnumerateNone, Rest4
<1>2. "enumerate" \in Ops /\ "enumerate" \in {"current", "enumerate"}
  BY DEF Ops
<1>3. PICK w \in Views : Does(mine[t], <<"enumerate", o>>, v, w) /\ Typed(mine[t], Rest(t), w)
  BY <1>1, <1>2, StepFacts
<1>4. /\ o \in Objects /\ v.credit = None /\ v.dying = None
      /\ Rest(t) \in Codes /\ \A u \in Threads \ {t} : ~view[u].new
  BY <1>1, <1>2, ListFacts
<1>. DEFINE rest == Rest(t)
            code == Tail(rest)
<1>. HIDE DEF v, rest
<1>5. v = view[t]
  BY DEF v
<1>6. DoesList(v, o, w)
  BY <1>3 DEF Does
<1>7. /\ w.held = v.held /\ w.listed = TRUE /\ w.local = TRUE
      /\ w.credit = None /\ w.first = v.first /\ w.opens = v.opens /\ w.dying = None
  BY <1>4, <1>6 DEF DoesList, SameOpens, SameDying
<1>8. rest \in Codes /\ Typed(mine[t], rest, w)
  BY <1>3, <1>4 DEF rest
<1>9. rest # <<>>
  BY <1>7, <1>8, TypedEmpty DEF AtEnd
<1>10. PICK x \in Views : Does(mine[t], rest[1], w, x) /\ Typed(mine[t], code, x)
  BY <1>8, <1>9, TypedStep
<1>11. DoesReturn(w, x) /\ ~x.new /\ ~x.asked
  <2>1. rest[1][1] = "return"
    BY <1>7, <1>10 DEF Does
  <2>. QED
    BY <1>10, <2>1 DEF Does
<1>12. /\ x.held = v.held /\ x.local = TRUE
       /\ x.credit = None /\ x.first = v.first /\ x.opens = v.opens /\ x.dying = None
  BY <1>7, <1>11 DEF DoesReturn, SameOpens, SameDying
<1>13. GoesOn(t, code) /\ code \in Codes
  BY <1>1, <1>8, <1>9 DEF GoesOn, Continue, Codes, rest
<1>. HIDE DEF code
<1>14. /\ TypeInv /\ LiveInv /\ ClaimInv(t, mine[t], v) /\ mine[t] \in SUBSET Objects
       /\ weak \in [Objects -> SUBSET (Devices \cup Streams)] /\ ListInv(t, v)
  BY <1>5, ViewFacts DEF TypeInv
<1>15. /\ UNCHANGED owner /\ UNCHANGED depth /\ UNCHANGED nOpen /\ UNCHANGED live
       /\ UNCHANGED ilist /\ UNCHANGED refs /\ UNCHANGED opened /\ UNCHANGED tmp
       /\ weak' \in [Objects -> SUBSET (Devices \cup Streams)]
  BY <1>1, <1>4, <1>14
<1>16. TypeInv'
  BY <1>13, <1>14, <1>15, TypeKept DEF TypeInv
<1>17. LiveInv'
  BY <1>14, <1>15 DEF LiveInv
<1>18. HandlesKept(t) /\ OthersKept(t, view, mine[t])
  BY <1>4, <1>15 DEF HandlesKept, OthersKept
<1>19. ClaimsKept(t, mine[t], view[t], x)
  <2>1. \A q \in mine[t] : t \in refs'[q] \/ q = ilist'
    BY <1>14, <1>15 DEF ClaimInv
  <2>. QED
    BY <1>4, <1>5, <1>12, <1>14, <2>1 DEF ClaimsKept, ClaimInv
<1>20. ListInv(t, x)'
  BY <1>1, <1>11, <1>12, <1>15 DEF ListInv
<1>21. DyingInv(x)' /\ NewInv(t, Put(mine, t, mine[t]), x)'
  BY <1>11, <1>12 DEF DyingInv, NewInv
<1>22. /\ x.dying # None => \A u \in Threads \ {t} : view[u].dying # x.dying
       /\ view[t].dying # None => x.dying = view[t].dying
       /\ UNCHANGED <<owner, depth, nOpen, opened>>
  BY <1>4, <1>5, <1>12, <1>15
<1>. QED
  BY <1>10, <1>13, <1>14, <1>16, <1>17, <1>18, <1>19, <1>20, <1>21, <1>22, Moved

\* No mutex but that of the system is locked.
OnlySystem(v) == \A q \in Objects : v.held[q] > 0 => q = System

\* What a thread knows when it lists the interfaces.
LEMMA InterfacesFacts ==
  ASSUME NEW mine \in Claims, NEW view \in [Threads -> Views], J(mine, view),
         NEW t \in Threads, At(t, "interfaces", System)
  PROVE  /\ Rest(t) \in Codes /\ owner[System] = t
         /\ \A u \in Threads \ {t} : ~view[u].new
         /\ \E w \in Views :
              /\ Typed(mine[t], Rest(t), w) /\ w.calm = TRUE /\ w.held = view[t].held
              /\ view[t].credit = None /\ w.credit = None /\ w.first = {}
              /\ w.opens = view[t].opens /\ view[t].dying = None /\ w.dying = None
              /\ w.shut = view[t].shut /\ w.listed = FALSE /\ w.local = TRUE
              /\ w.new = FALSE /\ w.asked = FALSE /\ w.held[System] > 0
              /\ Ordered(OnlySystem(w))
<1>1. "interfaces" \in Ops
  BY DEF Ops
<1>2. PICK w \in Views : Does(mine[t], <<"interfaces", System>>, view[t], w) /\ Typed(mine[t], Rest(t), w)
  BY <1>1, StepFacts
<1>3. Rest(t) \in Codes
  BY <1>1, StepFacts
<1>4. DoesInterfaces(view[t], System, w) /\ ~w.new /\ w.asked = FALSE /\ ~view[t].listed
  BY <1>2 DEF Does
<1>5. /\ w.calm = TRUE /\ w.new = FALSE /\ w.listed = FALSE
  <2>1. w.calm /\ w.listed = view[t].listed
    BY <1>4 DEF DoesInterfaces
  <2>. QED
    BY <1>4, <2>1, ViewFacts DEF Views
<1>6. /\ w.held = view[t].held /\ view[t].credit = None /\ w.credit = None
      /\ w.first = {} /\ w.opens = view[t].opens
      /\ view[t].dying = None /\ w.dying = None /\ w.shut = view[t].shut
      /\ w.local = TRUE /\ w.held[System] > 0
      /\ Ordered(OnlySystem(w))
  BY <1>4 DEF DoesInterfaces, SameOpens, SameDying, Ordered, OnlySystem
<1>7. owner[System] = t
  BY <1>6, ViewFacts, ObjectFacts
<1>8. ASSUME NEW u \in Threads \ {t} PROVE ~view[u].new
  <2>1. NewInv(u, mine, view[u])
    BY ViewFacts
  <2>. QED
    BY <1>7, <2>1 DEF NewInv
<1>. QED
  BY <1>2, <1>3, <1>4, <1>5, <1>6, <1>7, <1>8

\* The list of a thread that lists the interfaces becomes {i}.
LEMMA ListedSpares ==
  ASSUME NEW mine \in Claims, NEW view \in [Threads -> Views], J(mine, view),
         NEW t \in Threads, \A u \in Threads \ {t} : ~view[u].new,
         NEW i \in Interfaces, live' = live \cup {i}, tmp' = [tmp EXCEPT ![t] = {i}],
         UNCHANGED refs, ilist = None \/ ilist' = ilist, NEW m2
  PROVE  HandlesKept(t) /\ OthersKept(t, view, m2)
<1>1. tmp'[t] = {i} /\ \A u \in Threads \ {t} : tmp'[u] = tmp[u]
  BY ViewFacts DEF TypeInv
<1>2. HandlesKept(t)
  BY <1>1 DEF HandlesKept
<1>3. OthersKept(t, view, m2)
  <2>. SUFFICES ASSUME NEW u \in Threads \ {t}, NEW q \in Objects, q = view[u].dying
                PROVE  /\ q \in live => q \in live'
                       /\ Children(q) \cap live = {} => Children(q) \cap live' = {}
                       /\ q \notin tmp[t] => q \notin tmp'[t]
    BY DEF OthersKept
  <2>1. DyingInv(view[u]) /\ q # None
    BY ViewFacts, ObjectFacts
  <2>2. q \in Devices \cup Streams
    BY <2>1 DEF DyingInv
  <2>3. q # i /\ i \notin Children(q)
    BY <2>2, ObjectFacts
  <2>. QED
    BY <1>1, <2>3
<1>. QED
  BY <1>2, <1>3

\* The system lists its interfaces: an old one is dropped, a new one is created.
LEMMA ListInterfacesStep ==
  ASSUME NEW mine \in Claims, NEW view \in [Threads -> Views], J(mine, view),
         NEW t \in Threads, ListInterfaces(t)
  PROVE  Inv'
<1>. DEFINE rest == Rest(t)
<1>1. /\ At(t, "interfaces", System)
      /\ IF ilist # None
         THEN /\ tmp' = [tmp EXCEPT ![t] = {ilist}]
              /\ Continue(t, rest) /\ UNCHANGED <<live, ilist>>
         ELSE /\ nOpen[System] > 0
              /\ \E i \in Interfaces \ live :
                    /\ live' = live \cup {i} /\ ilist' = i
                    /\ tmp' = [tmp EXCEPT ![t] = {i}]
                    /\ Continue(t, Open(i) \o rest)
      /\ UNCHANGED <<owner, depth, refs, calls, nOpen, weak, opened>>
  BY DEF ListInterfaces, Rest4
<1>2. PICK w \in Views :
         /\ Typed(mine[t], rest, w) /\ w.calm = TRUE /\ w.held = view[t].held
         /\ view[t].credit = None /\ w.credit = None /\ w.first = {}
         /\ w.opens = view[t].opens /\ view[t].dying = None /\ w.dying = None
         /\ w.shut = view[t].shut /\ w.listed = FALSE /\ w.local = TRUE
         /\ w.new = FALSE /\ w.asked = FALSE /\ w.held[System] > 0
         /\ Ordered(OnlySystem(w))
  <2>1. At(t, "interfaces", System)
    BY <1>1
  <2>. QED
    BY <2>1, InterfacesFacts
<1>3. rest \in Codes /\ owner[System] = t /\ \A u \in Threads \ {t} : ~view[u].new
  BY <1>1, InterfacesFacts
<1>4. /\ TypeInv /\ LiveInv /\ ClaimInv(t, mine[t], view[t]) /\ mine[t] \in SUBSET Objects
      /\ tmp \in [Threads -> SUBSET Objects] /\ ilist \in Interfaces \cup {None}
  BY ViewFacts DEF TypeInv
<1>5. /\ UNCHANGED owner /\ UNCHANGED depth /\ UNCHANGED nOpen /\ UNCHANGED refs
      /\ UNCHANGED weak /\ UNCHANGED opened /\ UNCHANGED <<owner, depth, nOpen, opened>>
  BY <1>1
<1>. HIDE DEF rest
<1>6. CASE ilist # None
  <2>1. /\ tmp' = [tmp EXCEPT ![t] = {ilist}] /\ UNCHANGED live /\ UNCHANGED ilist
        /\ GoesOn(t, rest)
    BY <1>1, <1>6 DEF GoesOn, Continue
  <2>2. /\ ilist \in Interfaces /\ ilist \in live /\ ilist \in Objects
        /\ live' = live \cup {ilist}
    BY <1>4, <1>6, <2>1, ObjectFacts DEF LiveInv
  <2>3. PICK i \in Interfaces : i = ilist
    BY <2>2
  <2>4. /\ tmp'[t] = {ilist} /\ \A u \in Threads \ {t} : tmp'[u] = tmp[u]
        /\ tmp' \in [Threads -> SUBSET Objects]
    BY <1>4, <2>1, <2>2
  <2>5. HandlesKept(t) /\ OthersKept(t, view, mine[t])
    BY <1>3, <1>5, <2>1, <2>2, <2>3, ListedSpares
  <2>6. TypeInv'
    BY <1>3, <1>4, <1>5, <2>1, <2>4, TypeKept DEF TypeInv
  <2>7. LiveInv'
    <3>1. \A u \in Threads : tmp'[u] \subseteq live
      BY <1>4, <2>2, <2>4 DEF LiveInv
    <3>. QED
      BY <1>4, <1>5, <2>1, <3>1 DEF LiveInv
  <2>8. ClaimsKept(t, mine[t], view[t], w)
    <3>1. \A q \in mine[t] : t \in refs'[q] \/ q = ilist'
      BY <1>4, <1>5, <2>1 DEF ClaimInv
    <3>. QED
      BY <1>2, <1>4, <3>1 DEF ClaimsKept, ClaimInv
  <2>9. ListInv(t, w)'
    BY <1>2, <2>1, <2>4 DEF ListInv
  <2>10. DyingInv(w)' /\ NewInv(t, Put(mine, t, mine[t]), w)'
    BY <1>2 DEF DyingInv, NewInv
  <2>11. /\ w.dying # None => \A u \in Threads \ {t} : view[u].dying # w.dying
         /\ view[t].dying # None => w.dying = view[t].dying
    BY <1>2
  <2>. QED
    BY <1>2, <1>3, <1>4, <1>5, <2>1, <2>5, <2>6, <2>7, <2>8, <2>9, <2>10, <2>11, Moved
<1>7. CASE ilist = None
  <2>1. PICK i \in Interfaces \ live :
          /\ live' = live \cup {i} /\ ilist' = i
          /\ tmp' = [tmp EXCEPT ![t] = {i}]
          /\ Continue(t, Open(i) \o rest)
    BY <1>1, <1>7
  <2>2. /\ i \in Interfaces /\ i \notin live /\ i \in Objects /\ i \notin Streams
        /\ i # System /\ i # None /\ Parent[i] = System
    BY ObjectFacts
  <2>3. PICK m2 \in SUBSET Objects : m2 = mine[t] \cup {i}
    BY <1>4, <2>2
  <2>4. PICK x \in Views :
          /\ x.held = w.held /\ x.credit = None /\ x.first = {} /\ x.opens = w.opens
          /\ x.dying = None /\ x.shut = w.shut /\ x.calm = FALSE /\ x.listed = FALSE
          /\ x.local = TRUE /\ x.new = TRUE /\ x.asked = FALSE
    <3>. DEFINE y == [w EXCEPT !.calm = FALSE, !.new = TRUE]
    <3>1. /\ y \in Views /\ y.held = w.held /\ y.credit = None /\ y.first = {}
          /\ y.opens = w.opens /\ y.dying = None /\ y.shut = w.shut /\ y.calm = FALSE
          /\ y.listed = FALSE /\ y.local = TRUE /\ y.new = TRUE /\ y.asked = FALSE
      BY <1>2 DEF Views
    <3>. HIDE DEF y
    <3>. QED
      BY <3>1
  <2>5. Typed(m2, rest, w) /\ Plain(w) /\ Near(m2, w, i)
    BY <1>2, <2>3, TypedMore DEF Plain, Near
  <2>6. /\ x.held = w.held /\ x.credit = None /\ x.first = w.first
        /\ x.opens = w.opens /\ SameDying(x, w) /\ SameLists(x, w) /\ ~x.calm
    BY <1>2, <2>4 DEF SameDying, SameLists
  <2>7. Credited(x, i, w)
    BY <1>2, <2>2, <2>4 DEF Credited
  <2>8. Ordered(Above(x, i))
    BY <1>2, <2>2, <2>4 DEF Ordered, Above, OnlySystem
  <2>9. /\ w.calm /\ w.dying = None /\ \A q \in w.first : Level(q) > Level(i)
        /\ i # System /\ x.held[System] > 0 => x.new
    BY <1>2, <2>4
  <2>26. Open(i) \o rest \in Codes /\ Typed(m2, Open(i) \o rest, x)
    BY <1>3, <2>2, <2>5, <2>6, <2>7, <2>8, <2>9, TypedOpen
  <2>11. "lock" \in Ops /\ "opening" \in Ops /\ "unlock" \in Ops
    BY DEF Ops
  <2>10. Open(i) \o rest = I("lock", i) \o (I("opening", i) \o (I("unlock", i) \o rest))
    BY <1>3, <2>2, <2>11, Bracket DEF Open
  <2>. DEFINE code == Open(i) \o rest
              c1 == I("unlock", i) \o rest
              c2 == I("opening", i) \o c1
  <2>12. c1 \in Codes /\ c2 \in Codes
    BY <1>3, <2>2, <2>11, InstructionCodes, CodesConcat
  <2>13. code = I("lock", i) \o c2
    BY <2>10
  <2>. HIDE DEF c1, code
  <2>14. c2 # <<>> /\ c2[1] = <<"opening", i>>
    BY <2>2, <2>11, <2>12, HeadOfConcat
  <2>. HIDE DEF c2
  <2>15. code # <<>> /\ code[1] = <<"lock", i>> /\ Tail(code) = c2
    BY <2>2, <2>11, <2>12, <2>13, HeadOfConcat
  <2>16. code \in Codes /\ Typed(m2, code, x) /\ GoesOn(t, code)
    BY <2>1, <2>26 DEF GoesOn, Continue, code
  <2>17. /\ tmp'[t] = {i} /\ \A u \in Threads \ {t} : tmp'[u] = tmp[u]
         /\ tmp' \in [Threads -> SUBSET Objects] /\ live' = live \cup {i} /\ ilist' = i
    BY <1>4, <2>1, <2>2
  <2>18. HandlesKept(t) /\ OthersKept(t, view, m2)
    BY <1>3, <1>5, <1>7, <2>1, <2>2, ListedSpares
  <2>19. TypeInv'
    BY <1>4, <1>5, <2>2, <2>16, <2>17, TypeKept DEF TypeInv
  <2>20. LiveInv'
    <3>1. \A j \in Interfaces : j \in live' <=> j = ilist'
      BY <1>4, <1>7, <2>2, <2>17, ObjectFacts DEF LiveInv
    <3>2. \A q \in live' \ {System} : Parent[q] \in live'
      BY <1>4, <2>2, <2>17 DEF LiveInv
    <3>3. \A u \in Threads : tmp'[u] \subseteq live'
      BY <1>4, <2>17 DEF LiveInv
    <3>. QED
      BY <1>4, <1>5, <2>17, <3>1, <3>2, <3>3 DEF LiveInv
  <2>21. ClaimsKept(t, m2, view[t], x)
    <3>1. \A q \in m2 : t \in refs'[q] \/ q = ilist'
      BY <1>4, <1>5, <1>7, <2>3, <2>17, ObjectFacts DEF ClaimInv
    <3>. QED
      BY <1>2, <1>4, <2>3, <2>4, <3>1 DEF ClaimsKept, ClaimInv
  <2>22. ListInv(t, x)'
    BY <2>4, <2>17 DEF ListInv
  <2>23. DyingInv(x)'
    BY <2>4 DEF DyingInv
  <2>24. NewInv(t, Put(mine, t, m2), x)'
    <3>1. nOpen[i] = 0 /\ refs[i] = {}
      BY <1>4, <2>2 DEF LiveInv, TypeInv
    <3>2. Children(i) \cap live' = {}
      <4>1. \A q \in live : q \notin Children(i)
        BY <1>4, <2>2, ObjectFacts DEF LiveInv
      <4>2. i \notin Children(i)
        BY <2>2, ObjectFacts
      <4>. QED
        BY <2>17, <4>1, <4>2
    <3>3. ASSUME NEW u \in Threads PROVE i \notin mine[u] /\ i \notin tmp[u] /\ owner[i] # u
      <4>1. ClaimInv(u, mine[u], view[u]) /\ (view[u].held[i] > 0 <=> owner[i] = u)
        BY <2>2, ViewFacts
      <4>2. i \notin mine[u]
        BY <1>7, <2>2, <3>1, <4>1 DEF ClaimInv
      <4>3. i \notin tmp[u]
        BY <1>4, <2>2 DEF LiveInv
      <4>. QED
        BY <2>2, <4>1, <4>2, <4>3 DEF ClaimInv
    <3>4. owner[i] = None
      BY <1>4, <2>2, <3>3 DEF TypeInv
    <3>5. \A u \in Threads \ {t} : Put(mine, t, m2)[u] = mine[u]
      BY DEF Put, Claims
    <3>6. todo'[t] = code
      BY <1>4, <2>16, TypeKept
    <3>7. /\ At(t, "lock", i)' /\ Rest(t)' # <<>> /\ Rest(t)'[1] = <<"opening", i>>
      BY <2>14, <2>15, <3>6 DEF At, Rest
    <3>. QED
      BY <1>3, <1>5, <2>2, <2>17, <3>1, <3>2, <3>3, <3>4, <3>5, <3>7 DEF NewInv, At, Rest
  <2>25. /\ x.dying # None => \A u \in Threads \ {t} : view[u].dying # x.dying
         /\ view[t].dying # None => x.dying = view[t].dying
    BY <1>2, <2>4
  <2>. QED
    BY <1>5, <2>16, <2>18, <2>19, <2>20, <2>21, <2>22, <2>23, <2>24, <2>25, Moved
<1>. QED
  BY <1>6, <1>7

\* A view before local shared pointers are released.
Released(v) ==
  /\ v.credit = None /\ v.first = {} /\ v.dying = None
  /\ v.local = TRUE /\ v.listed = FALSE /\ v.new = FALSE /\ v.asked = FALSE

\* What a thread knows when it releases its local shared pointers.
LEMMA ReleaseFacts ==
  ASSUME NEW mine \in Claims, NEW view \in [Threads -> Views], J(mine, view),
         NEW t \in Threads, NEW o, At(t, "release", o)
  PROVE  /\ Rest(t) \in Codes /\ todo[t] # <<>> /\ todo[t][1] = <<"release", o>>
         /\ \E w \in Views :
              /\ Released(view[t]) /\ Typed(mine[t], Rest(t), w) /\ w.held = view[t].held
              /\ w.credit = None /\ w.first = {} /\ w.opens = view[t].opens
              /\ w.dying = None /\ w.new = FALSE /\ w.asked = FALSE
         /\ Vanish = "no" => \A c \in tmp[t] : c = ilist \/ t \in refs[c]
<1>1. "release" \in Ops
  BY DEF Ops
<1>2. PICK w \in Views : Does(mine[t], <<"release", o>>, view[t], w) /\ Typed(mine[t], Rest(t), w)
  BY <1>1, StepFacts
<1>3. Rest(t) \in Codes /\ todo[t] # <<>> /\ todo[t][1] = <<"release", o>>
  BY <1>1, StepFacts
<1>4. DoesRelease(view[t], w) /\ w.new = FALSE /\ w.asked = FALSE /\ ~view[t].listed
  BY <1>2 DEF Does
<1>5. view[t] \in Views /\ ListInv(t, view[t]) /\ NewInv(t, mine, view[t])
  BY ViewFacts
<1>6. /\ view[t].credit = None /\ view[t].first = {} /\ view[t].dying = None
      /\ view[t].local = TRUE /\ view[t].listed = FALSE
      /\ w.held = view[t].held /\ w.credit = None
      /\ w.first = {} /\ w.opens = view[t].opens /\ w.dying = None
  BY <1>4, <1>5 DEF DoesRelease, SameOpens, SameDying, Views
<1>7. ~view[t].asked /\ ~view[t].new
  BY <1>3, <1>5 DEF ListInv, NewInv, At
<1>8. view[t].asked = FALSE /\ view[t].new = FALSE
  BY <1>5, <1>7 DEF Views
<1>9. Vanish = "no" => \A c \in tmp[t] : c = ilist \/ t \in refs[c]
  BY <1>3, <1>5 DEF ListInv
<1>. QED
  BY <1>2, <1>3, <1>4, <1>6, <1>8, <1>9 DEF Released

\* Local shared pointers are released, and the last one destroys its object.
LEMMA ReleaseStep ==
  ASSUME NEW mine \in Claims, NEW view \in [Threads -> Views], J(mine, view),
         NEW t \in Threads, Release(t)
  PROVE  Inv'
<1>. DEFINE v == view[t]
            rest == Rest(t)
<1>1. PICK o \in Objects :
        /\ At(t, "release", o)
        /\ IF tmp[t] = {} THEN Continue(t, rest) /\ UNCHANGED tmp
           ELSE \E c \in tmp[t] :
                  LET ts == [tmp EXCEPT ![t] = @ \ {c}]
                  IN  /\ tmp' = ts
                      /\ Continue(t, IF HasOwner(c, refs, ts, live) THEN todo[t]
                                     ELSE I("destroy", c) \o todo[t])
        /\ UNCHANGED <<owner, depth, refs, calls, objVars, opened>>
  BY DEF Release, Rest4
<1>21. At(t, "release", o)
  BY <1>1
<1>2. /\ rest \in Codes /\ todo[t] # <<>> /\ todo[t][1] = <<"release", o>>
      /\ Vanish = "no" => \A c \in tmp[t] : c = ilist \/ t \in refs[c]
  BY <1>21, ReleaseFacts
<1>3. PICK w \in Views :
        /\ Released(v) /\ Typed(mine[t], rest, w) /\ w.held = v.held
        /\ w.credit = None /\ w.first = {} /\ w.opens = v.opens
        /\ w.dying = None /\ w.new = FALSE /\ w.asked = FALSE
  BY <1>21, ReleaseFacts
<1>. HIDE DEF v, rest
<1>20. /\ v.credit = None /\ v.first = {} /\ v.dying = None
       /\ v.local = TRUE /\ v.listed = FALSE /\ v.new = FALSE /\ v.asked = FALSE
  BY <1>3 DEF Released
<1>4. v = view[t] /\ v \in Views
  BY ViewFacts DEF v
<1>5. /\ TypeInv /\ LiveInv /\ CodeInv(t, mine[t], v) /\ ClaimInv(t, mine[t], v)
      /\ ListInv(t, v) /\ mine[t] \in SUBSET Objects
      /\ tmp \in [Threads -> SUBSET Objects] /\ todo[t] \in Codes
  BY <1>4, ViewFacts DEF TypeInv
<1>6. /\ UNCHANGED owner /\ UNCHANGED depth /\ UNCHANGED nOpen /\ UNCHANGED live
      /\ UNCHANGED ilist /\ UNCHANGED weak /\ UNCHANGED refs /\ UNCHANGED opened
      /\ UNCHANGED <<owner, depth, nOpen, opened>>
  BY <1>1 DEF objVars
<1>7. CASE tmp[t] = {}
  <2>1. Claimed(t, mine, view, mine[t])
    BY NewIsNotMine DEF Claimed
  <2>2. /\ GoesOn(t, rest) /\ UNCHANGED <<owner, depth, objVars, refs, tmp, opened>>
    BY <1>1, <1>7 DEF GoesOn, Continue
  <2>3. /\ w.held = view[t].held /\ w.credit = view[t].credit
        /\ \A q \in w.first : q \in view[t].first
        /\ w.opens # None => w.opens = view[t].opens
        /\ view[t].dying = None /\ w.dying = None
        /\ todo[t] # <<>> /\ todo[t][1][1] \notin {"return", "enumerate"}
    BY <1>2, <1>20, <1>3, <1>4
  <2>. QED
    BY <1>2, <1>20, <1>3, <1>5, <1>7, <2>1, <2>2, <2>3, Quiet
<1>8. CASE tmp[t] # {}
  <2>1. PICK c \in tmp[t] :
          /\ tmp' = [tmp EXCEPT ![t] = @ \ {c}]
          /\ Continue(t, IF HasOwner(c, refs, [tmp EXCEPT ![t] = @ \ {c}], live) THEN todo[t]
                         ELSE I("destroy", c) \o todo[t])
    BY <1>1, <1>8
  <2>2. c \in Objects /\ c \in live
    BY <1>5 DEF LiveInv
  <2>3. /\ tmp'[t] = tmp[t] \ {c} /\ \A u \in Threads \ {t} : tmp'[u] = tmp[u]
        /\ tmp' \in [Threads -> SUBSET Objects]
    BY <1>5, <2>1
  <2>4. HandlesKept(t)
    BY <1>6, <2>3 DEF HandlesKept
  <2>5. OthersKept(t, view, mine[t])
    BY <1>6, <2>3, NewIsNotMine DEF OthersKept
  <2>6. LiveInv'
    <3>1. \A u \in Threads : tmp'[u] \subseteq live
      BY <1>5, <2>3 DEF LiveInv
    <3>. QED
      BY <1>5, <1>6, <3>1 DEF LiveInv
  <2>7. ASSUME NEW code \in Codes, GoesOn(t, code) PROVE TypeInv'
    BY <1>5, <1>6, <2>3, <2>7, TypeKept DEF TypeInv
  <2>8. ASSUME NEW v2 \in Views, v2.held = v.held, v2.credit = None, v2.first = {},
               v2.opens = v.opens
        PROVE  ClaimsKept(t, mine[t], view[t], v2)
    <3>1. \A q \in mine[t] : t \in refs'[q] \/ q = ilist'
      BY <1>5, <1>6 DEF ClaimInv
    <3>. QED
      BY <1>2, <1>20, <1>4, <1>5, <2>8, <3>1 DEF ClaimsKept, ClaimInv
  <2>9. ASSUME NEW v2, v2.asked = FALSE, v2.local = TRUE PROVE ListInv(t, v2)'
    BY <1>2, <1>20, <1>6, <2>3, <2>9 DEF ListInv
  <2>10. ASSUME NEW v2, v2.new = FALSE PROVE NewInv(t, Put(mine, t, mine[t]), v2)'
    BY <2>10 DEF NewInv
  <2>11. CASE HasOwner(c, refs, [tmp EXCEPT ![t] = @ \ {c}], live)
    <3>1. PICK code \in Codes : code = todo[t]
      BY <1>5
    <3>2. GoesOn(t, code) /\ Typed(mine[t], code, v)
      BY <1>5, <2>1, <2>11, <3>1 DEF GoesOn, Continue, CodeInv
    <3>3. PICK x \in Views : x = v
      BY <1>4
    <3>4. /\ Typed(mine[t], code, x) /\ TypeInv' /\ ClaimsKept(t, mine[t], view[t], x)
          /\ ListInv(t, x)' /\ NewInv(t, Put(mine, t, mine[t]), x)'
      <4>1. x.credit = None /\ x.first = {} /\ x.asked = FALSE /\ x.local = TRUE /\ x.new = FALSE
            /\ x.held = v.held /\ x.opens = v.opens
        BY <1>2, <1>20, <3>3
      <4>2. ClaimsKept(t, mine[t], view[t], x)
        BY <4>1, <2>8
      <4>3. ListInv(t, x)'
        BY <4>1, <2>9
      <4>4. NewInv(t, Put(mine, t, mine[t]), x)'
        BY <4>1, <2>10
      <4>5. TypeInv'
        BY <3>2, <2>7
      <4>. QED
        BY <3>2, <3>3, <4>2, <4>3, <4>4, <4>5
    <3>5. DyingInv(x)'
      BY <1>2, <1>20, <3>3 DEF DyingInv
    <3>6. /\ x.dying # None => \A u \in Threads \ {t} : view[u].dying # x.dying
          /\ view[t].dying # None => x.dying = view[t].dying
      BY <1>2, <1>20, <1>4, <3>3
    <3>. QED
      BY <1>5, <1>6, <2>4, <2>5, <2>6, <3>2, <3>4, <3>5, <3>6, Moved
  <2>12. CASE ~HasOwner(c, refs, [tmp EXCEPT ![t] = @ \ {c}], live)
    <3>. DEFINE code == I("destroy", c) \o todo[t]
    <3>1. GoesOn(t, code)
      BY <2>1, <2>12 DEF GoesOn, Continue
    <3>2. PICK x \in Views :
            /\ x.held = v.held /\ x.credit = None /\ x.first = {} /\ x.opens = v.opens
            /\ x.dying = c /\ x.shut = FALSE /\ x.calm = FALSE /\ x.listed = FALSE
            /\ x.local = TRUE /\ x.new = FALSE /\ x.asked = FALSE
      <4>. DEFINE y == [v EXCEPT !.dying = c, !.shut = FALSE, !.calm = FALSE]
      <4>1. /\ y \in Views /\ y.held = v.held /\ y.credit = None /\ y.first = {}
            /\ y.opens = v.opens /\ y.dying = c /\ y.shut = FALSE /\ y.calm = FALSE
            /\ y.listed = FALSE /\ y.local = TRUE /\ y.new = FALSE /\ y.asked = FALSE
        BY <1>2, <1>20, <1>4, <2>2 DEF Views
      <4>. HIDE DEF y
      <4>. QED
        BY <4>1
    <3>3. DyingInv(x)' /\ c \in Devices \cup Streams
      <4>1. ~HasOwner(c, refs', tmp', live)
        BY <1>6, <2>1, <2>12
      <4>. QED
        BY <1>6, <2>2, <3>2, <4>1, Orphan
    <3>4. Vanish # "no"
      <4>1. c # ilist /\ refs[c] = {}
        BY <2>12 DEF HasOwner
      <4>. QED
        BY <1>2, <1>20, <4>1
    <3>5. Does(mine[t], <<"destroy", c>>, x, v)
      <4>1. DoesDestroy(x, c, v)
        BY <1>2, <1>20, <3>2, <3>4 DEF DoesDestroy, Ordered, SameOpens, SameLists
      <4>2. Near(mine[t], x, c)
        BY <3>2 DEF Near
      <4>. QED
        BY <1>2, <1>20, <3>2, <3>3, <4>1, <4>2 DEF Does
    <3>6. code \in Codes /\ Typed(mine[t], code, x)
      <4>1. Typed(mine[t], todo[t], v)
        BY <1>5 DEF CodeInv
      <4>2. "destroy" \in Ops
        BY DEF Ops
      <4>. QED
        BY <1>4, <1>5, <2>2, <3>2, <3>5, <4>1, <4>2, TypedCons
    <3>. HIDE DEF code
    <3>7. ClaimsKept(t, mine[t], view[t], x)
      BY <2>8, <3>2
    <3>8. ListInv(t, x)' /\ NewInv(t, Put(mine, t, mine[t]), x)' /\ TypeInv'
      BY <2>7, <2>9, <2>10, <3>1, <3>2, <3>6
    <3>9. \A u \in Threads \ {t} : view[u].dying # c
      <4>1. \A u \in Threads : DyingInv(view[u])
        BY ViewFacts
      <4>. QED
        BY <2>2, <4>1, ObjectFacts DEF DyingInv
    <3>10. /\ x.dying # None => \A u \in Threads \ {t} : view[u].dying # x.dying
           /\ view[t].dying # None => x.dying = view[t].dying
      BY <1>2, <1>20, <1>4, <3>2, <3>9
    <3>. QED
      BY <1>5, <1>6, <2>4, <2>5, <2>6, <3>1, <3>3, <3>6, <3>7, <3>8, <3>10, Moved
  <2>. QED
    BY <2>11, <2>12
<1>. QED
  BY <1>7, <1>8

\* The object o is gone, and thread t continues with the view v2.
LEMMA Gone ==
  ASSUME NEW mine \in Claims, NEW view \in [Threads -> Views], J(mine, view),
         NEW t \in Threads, NEW o \in Devices \cup Streams, At(t, "free", o),
         view[t].dying = o, view[t].credit = None, view[t].shut \/ o \in Streams,
         NEW code \in Codes, GoesOn(t, code), NEW v2 \in Views, Typed(mine[t], code, v2),
         live' = live \ {o}, weak' = [weak EXCEPT ![o] = {}],
         opened' = {p \in opened : p[2] # o},
         UNCHANGED <<owner, depth, refs, nOpen, ilist, tmp>>,
         v2.held = view[t].held, v2.credit = None, v2.first = {},
         v2.opens = view[t].opens, v2.local = view[t].local, v2.new = FALSE, v2.asked = FALSE,
         DyingInv(v2)',
         v2.dying # None => \A u \in Threads \ {t} : view[u].dying # v2.dying
  PROVE  Inv'
<1>. DEFINE v == view[t]
<1>1. /\ TypeInv /\ LiveInv /\ CodeInv(t, mine[t], v) /\ ClaimInv(t, mine[t], v)
      /\ ListInv(t, v) /\ DyingInv(v) /\ DyingDiffer(view) /\ mine[t] \in SUBSET Objects
      /\ weak \in [Objects -> SUBSET (Devices \cup Streams)]
      /\ opened \subseteq Threads \X Objects /\ nOpen \in [Objects -> Nat]
  BY ViewFacts DEF J, TypeInv
<1>2. /\ UNCHANGED owner /\ UNCHANGED depth /\ UNCHANGED nOpen /\ UNCHANGED refs
      /\ UNCHANGED ilist /\ UNCHANGED tmp
  OBVIOUS
<1>3. /\ o \in Objects /\ o # None /\ o # System /\ o \notin Interfaces
      /\ o \in live /\ refs[o] = {} /\ Children(o) \cap live = {}
      /\ \A u \in Threads : o \notin tmp[u]
      /\ o \notin Streams => nOpen[o] = 0
  BY <1>1, ObjectFacts DEF DyingInv
<1>4. /\ todo' \in [Threads -> Codes] /\ todo'[t] = code
      /\ \A u \in Threads \ {t} : todo'[u] = todo[u]
  BY <1>1, TypeKept
<1>5. /\ weak' \in [Objects -> SUBSET (Devices \cup Streams)]
      /\ opened' \subseteq Threads \X Objects /\ live' \subseteq Objects
      /\ opened' \subseteq opened
      /\ \A u \in Threads, q \in Objects \ {o} : <<u, q>> \in opened' <=> <<u, q>> \in opened
      /\ \A u \in Threads : <<u, o>> \notin opened'
  BY <1>1, <1>3 DEF TypeInv
<1>6. TypeInv'
  BY <1>1, <1>2, <1>4, <1>5 DEF TypeInv
<1>7. LiveInv'
  <2>1. System \in live' /\ \A i \in Interfaces : i \in live' <=> i = ilist
    BY <1>1, <1>3, ObjectFacts DEF LiveInv
  <2>2. \A q \in live' \ {System} : Parent[q] \in live'
    <3>. SUFFICES ASSUME NEW q \in live, q # System, q # o PROVE Parent[q] \in live /\ Parent[q] # o
      OBVIOUS
    <3>1. q \in Objects \ {System} /\ Parent[q] \in live
      BY <1>1 DEF LiveInv, TypeInv
    <3>2. q \in Children(Parent[q])
      BY <3>1, ObjectFacts
    <3>. QED
      BY <1>3, <3>1, <3>2
  <2>3. \A q \in Objects : refs[q] # {} => q \in live'
    BY <1>1, <1>3 DEF LiveInv
  <2>4. \A u \in Threads : tmp[u] \subseteq live'
    BY <1>1, <1>3 DEF LiveInv
  <2>5. \A q \in Objects \ Streams : q \notin live' =>
           nOpen[q] = 0 /\ \A u \in Threads : <<u, q>> \notin opened'
    BY <1>1, <1>3, <1>5 DEF LiveInv
  <2>. QED
    BY <1>2, <2>1, <2>2, <2>3, <2>4, <2>5 DEF LiveInv
<1>8. CodeInv(t, mine[t], v2)'
  BY <1>1, <1>2, <1>4 DEF CodeInv
<1>9. ClaimInv(t, mine[t], v2)'
  <2>1. v2.opens # None => <<t, v2.opens>> \notin opened'
    BY <1>1, <1>5 DEF ClaimInv
  <2>. QED
    BY <1>1, <1>2, <2>1 DEF ClaimInv
<1>10. ListInv(t, v2)'
  <2>1. Vanish = "no" => \A c \in tmp[t] : c = ilist \/ t \in refs[c]
    BY <1>1 DEF ListInv, At
  <2>. QED
    BY <1>1, <1>2, <2>1 DEF ListInv
<1>11. NewInv(t, Put(mine, t, mine[t]), v2)'
  BY DEF NewInv
<1>12. ASSUME NEW u \in Threads \ {t} PROVE Spares(u, t, view, mine[t])
  <2>1. view[u].new => ilist \notin mine[t]
    BY NewIsNotMine
  <2>2. view[u].dying # o
    BY <1>1, <1>3 DEF DyingDiffer
  <2>3. view[u].new => ilist # o
    BY <1>1, <1>3 DEF TypeInv
  <2>4. \A q \in Objects : q = view[u].dying \/ (view[u].new /\ q = ilist) =>
        /\ q \in live => q \in live'
        /\ Children(q) \cap live = {} => Children(q) \cap live' = {}
        /\ q \notin tmp[t] => q \notin tmp'[t]
    BY <1>2, <2>2, <2>3
  <2>5. \A q \in Objects : <<u, q>> \in opened' => <<u, q>> \in opened
    BY <1>5
  <2>. QED
    BY <1>2, <1>4, <2>1, <2>4, <2>5 DEF Spares, At
<1>13. Accounts(Put(view, t, v2))'
  <2>. DEFINE view2 == Put(view, t, v2)
  <2>1. /\ view2[t] = v2 /\ \A u \in Threads \ {t} : view2[u] = view[u]
    BY DEF Put
  <2>2. SUFFICES ASSUME NEW q \in Objects \ Streams, \A u \in Threads : view2[u].dying # q
                 PROVE  Account(view2, q)'
    BY DEF Accounts
  <2>3. Creditors(view2, q) = Creditors(view, q)
    BY <2>1 DEF Creditors
  <2>4. OpenChildren(q)' = OpenChildren(q)
    BY <1>2 DEF OpenChildren, Children
  <2>. HIDE DEF view2
  <2>5. CASE q # o
    <3>1. \A u \in Threads : view[u].dying # q
      BY <2>1, <2>2, <2>5
    <3>2. Account(view, q)
      BY <2>2, <3>1 DEF J, Accounts
    <3>3. Openers(q)' = Openers(q)
      BY <1>5, <2>2, <2>5 DEF Openers
    <3>. QED
      BY <1>2, <2>3, <2>4, <3>2, <3>3 DEF Account
  <2>6. CASE q = o
    <3>1. nOpen[q] = 0 /\ o \in Devices
      BY <1>3, <2>2, <2>6
    <3>2. Openers(q)' = {}
      BY <1>5, <2>6 DEF Openers
    <3>3. OpenChildren(q) = {}
      <4>1. \A c \in Children(q) \ Streams : c \in Objects /\ c \notin live
        BY <1>3, <2>6, ObjectFacts
      <4>2. \A c \in Children(q) \ Streams : nOpen[c] = 0
        BY <1>1, <4>1 DEF LiveInv
      <4>. QED
        BY <4>2 DEF OpenChildren
    <3>4. Creditors(view, q) = {}
      <4>1. ASSUME NEW u \in Threads, view[u].credit = o PROVE FALSE
        <5>1. u # t
          BY <1>3, <4>1
        <5>2. Near(mine[u], view[u], o)
          <6>1. ClaimInv(u, mine[u], view[u])
            BY ViewFacts
          <6>. QED
            BY <1>3, <4>1, <6>1 DEF ClaimInv
        <5>3. view[t].dying # o
          BY <1>3, <5>1, <5>2, NearFacts
        <5>. QED
          BY <5>3
      <4>. QED
        BY <2>6, <4>1 DEF Creditors
    <3>5. Cardinality(Openers(q)') = 0 /\ Cardinality(OpenChildren(q)') = 0
          /\ Cardinality(Creditors(view2, q)) = 0
      BY <2>3, <2>4, <3>2, <3>3, <3>4, FS_EmptySet
    <3>. QED
      BY <1>2, <3>1, <3>5 DEF Account
  <2>. QED
    BY <2>5, <2>6
<1>. QED
  BY <1>1, <1>6, <1>7, <1>8, <1>9, <1>10, <1>11, <1>12, <1>13, Assemble

\* An object is gone, and its parent may be the next.
LEMMA FreeStep ==
  ASSUME NEW mine \in Claims, NEW view \in [Threads -> Views], J(mine, view),
         NEW t \in Threads, Free(t)
  PROVE  Inv'
<1>. DEFINE v == view[t]
            rest == Rest(t)
<1>1. PICK o \in Objects \ {System} :
        /\ At(t, "free", o)
        /\ live' = live \ {o} /\ weak' = [weak EXCEPT ![o] = {}]
        /\ opened' = {p \in opened : p[2] # o}
        /\ Continue(t, (IF HasOwner(Parent[o], refs, tmp, live \ {o}) THEN <<>>
                        ELSE I("destroy", Parent[o])) \o rest)
        /\ UNCHANGED <<owner, depth, refs, calls, nOpen, ilist, tmp>>
  BY DEF Free, Rest4
<1>2. At(t, "free", o) /\ "free" \in Ops
  BY <1>1 DEF Ops
<1>3. PICK w \in Views : Does(mine[t], <<"free", o>>, v, w) /\ Typed(mine[t], rest, w)
  BY <1>2, StepFacts
<1>4. rest \in Codes
  BY <1>2, StepFacts
<1>5. DoesDestroy(v, o, w) /\ w.new = FALSE /\ w.asked = FALSE /\ ~v.listed
      /\ (o \notin Streams => v.shut)
  BY <1>3 DEF Does
<1>. HIDE DEF v, rest
<1>6. v = view[t] /\ v \in Views /\ DyingInv(v) /\ TypeInv /\ LiveInv
  BY ViewFacts DEF v
<1>7. /\ v.dying = o /\ v.credit = None /\ v.first = {} /\ Ordered(Nothing(v))
      /\ w.dying = None /\ w.credit = None /\ w.first = {} /\ w.opens = v.opens
      /\ w.listed = v.listed /\ w.local = v.local /\ w.held = v.held
  BY <1>5 DEF DoesDestroy, SameOpens, SameLists
<1>8. /\ o \in Devices \cup Streams /\ o \in live /\ o # None
  BY <1>1, <1>6, <1>7, ObjectFacts DEF DyingInv
<1>9. /\ UNCHANGED <<owner, depth, refs, nOpen, ilist, tmp>>
      /\ UNCHANGED refs /\ UNCHANGED tmp /\ UNCHANGED ilist /\ UNCHANGED nOpen
  BY <1>1
<1>10. CASE HasOwner(Parent[o], refs, tmp, live \ {o})
  <2>1. GoesOn(t, rest)
    BY <1>1, <1>4, <1>10 DEF GoesOn, Continue, Codes
  <2>2. DyingInv(w)' /\ (w.dying # None => \A u \in Threads \ {t} : view[u].dying # w.dying)
    BY <1>7 DEF DyingInv
  <2>3. /\ view[t].dying = o /\ view[t].credit = None /\ (view[t].shut \/ o \in Streams)
        /\ w.held = view[t].held /\ w.opens = view[t].opens /\ w.local = view[t].local
    BY <1>5, <1>6, <1>7
  <2>. QED
    BY <1>1, <1>3, <1>4, <1>5, <1>7, <1>8, <1>9, <2>1, <2>2, <2>3, Gone
<1>11. CASE ~HasOwner(Parent[o], refs, tmp, live \ {o})
  <2>. DEFINE p == Parent[o]
              code == I("destroy", p) \o rest
  <2>1. GoesOn(t, code)
    BY <1>1, <1>11 DEF GoesOn, Continue
  <2>2. /\ p # System /\ p # ilist /\ refs[p] = {} /\ \A u \in Threads : p \notin tmp[u]
        /\ Children(p) \cap (live \ {o}) = {}
    BY <1>11 DEF HasOwner
  <2>3. /\ p \in live /\ p \in Objects /\ p \notin Interfaces /\ p # o /\ p # None
    BY <1>6, <1>8, <2>2, ObjectFacts DEF LiveInv
  <2>4. p \in Devices /\ o \in Children(p)
    BY <1>1, <1>8, <2>3, ObjectFacts
  <2>. HIDE DEF p
  <2>5. PICK x \in Views :
          /\ x.held = w.held /\ x.credit = None /\ x.first = {} /\ x.opens = w.opens
          /\ x.dying = p /\ x.shut = FALSE /\ x.calm = FALSE /\ x.listed = w.listed
          /\ x.local = w.local /\ x.new = FALSE /\ x.asked = FALSE
    <3>. DEFINE y == [w EXCEPT !.dying = p, !.shut = FALSE, !.calm = FALSE]
    <3>1. /\ y \in Views /\ y.held = w.held /\ y.credit = None /\ y.first = {}
          /\ y.opens = w.opens /\ y.dying = p /\ y.shut = FALSE /\ y.calm = FALSE
          /\ y.listed = w.listed /\ y.local = w.local /\ y.new = FALSE /\ y.asked = FALSE
      BY <1>5, <1>7, <2>3 DEF Views
    <3>. HIDE DEF y
    <3>. QED
      BY <3>1
  <2>6. Does(mine[t], <<"destroy", p>>, x, w)
    <3>1. DoesDestroy(x, p, w)
      BY <1>7, <2>5 DEF DoesDestroy, Ordered, Nothing, SameOpens, SameLists
    <3>2. Near(mine[t], x, p)
      BY <2>5 DEF Near
    <3>. QED
      BY <1>5, <1>7, <2>4, <2>5, <3>1, <3>2 DEF Does
  <2>7. code \in Codes /\ Typed(mine[t], code, x)
    <3>1. "destroy" \in Ops
      BY DEF Ops
    <3>. QED
      BY <1>3, <1>4, <2>3, <2>5, <2>6, <3>1, TypedCons
  <2>. HIDE DEF code
  <2>8. DyingInv(x)'
    BY <1>1, <1>9, <2>2, <2>3, <2>4, <2>5 DEF DyingInv
  <2>9. x.dying # None => \A u \in Threads \ {t} : view[u].dying # x.dying
    <3>1. \A u \in Threads : DyingInv(view[u])
      BY ViewFacts
    <3>. QED
      BY <1>8, <2>3, <2>4, <2>5, <3>1 DEF DyingInv
  <2>10. /\ view[t].dying = o /\ view[t].credit = None /\ (view[t].shut \/ o \in Streams)
         /\ x.held = view[t].held /\ x.opens = view[t].opens /\ x.local = view[t].local
    BY <1>5, <1>6, <1>7, <2>5
  <2>. QED
    BY <1>1, <1>8, <1>9, <2>1, <2>5, <2>7, <2>8, <2>9, <2>10, Gone
<1>. QED
  BY <1>10, <1>11

\* At the start, no thread is in a call.
LEMMA CommonInv ==
  ASSUME Common, TypeInv, LiveInv, NEW mine \in Claims, NEW view \in [Threads -> Views],
         \A t \in Threads : mine[t] = {} /\ view[t] = Ended([o \in Objects |-> 0]),
         Accounts(view)
  PROVE  J(mine, view)
<1>1. PICK h \in [Objects -> Nat] : h = [o \in Objects |-> 0]
  OBVIOUS
<1>2. \A q \in Objects : h[q] = 0
  BY <1>1
<1>3. ASSUME NEW t \in Threads PROVE ThreadInv(t, mine, view)
  <2>1. view[t] = Ended(h) /\ mine[t] = {}
    BY <1>1
  <2>2. PICK v \in Views : v = view[t]
    OBVIOUS
  <2>3. /\ Typed({}, <<>>, v) /\ v.held = h /\ v.credit = None /\ v.first = {}
        /\ v.opens = None /\ v.dying = None /\ v.local = FALSE /\ v.new = FALSE /\ v.asked = FALSE
    BY <1>2, <2>1, <2>2, EndedFacts
  <2>4. /\ todo[t] = <<>> /\ tmp[t] = {} /\ \A o \in Objects : owner[o] # t
    BY ObjectFacts DEF Common
  <2>5. CodeInv(t, {}, v)
    BY <1>2, <2>3, <2>4 DEF CodeInv
  <2>6. ClaimInv(t, {}, v)
    BY <1>2, <2>3, ObjectFacts DEF ClaimInv
  <2>7. ListInv(t, v) /\ DyingInv(v) /\ NewInv(t, mine, v)
    BY <2>3, <2>4 DEF ListInv, DyingInv, NewInv
  <2>. QED
    BY <2>1, <2>2, <2>5, <2>6, <2>7 DEF ThreadInv
<1>4. DyingDiffer(view)
  <2>1. \A t \in Threads : view[t].dying = None
    BY <1>1, <1>2, EndedFacts
  <2>. QED
    BY <2>1 DEF DyingDiffer
<1>. QED
  BY <1>3, <1>4 DEF J

\* At the start, the state has its type.
LEMMA CommonType ==
  ASSUME Common
  PROVE  /\ owner \in [Objects -> Threads \cup {None}] /\ depth \in [Objects -> Nat]
         /\ \A o \in Objects : owner[o] = None <=> depth[o] = 0
         /\ tmp \in [Threads -> SUBSET Objects] /\ todo \in [Threads -> Codes]
         /\ \A t \in Threads : tmp[t] = {}
<1>1. /\ owner = [o \in Objects |-> None] /\ depth = [o \in Objects |-> 0]
      /\ tmp = [t \in Threads |-> {}] /\ todo = [t \in Threads |-> <<>>]
  BY DEF Common
<1>2. <<>> \in Codes
  BY DEF Codes
<1>. QED
  BY <1>1, <1>2

\* At the start, there is no credit.
LEMMA Uncredited ==
  ASSUME NEW view, \A t \in Threads : view[t].credit = None, NEW o \in Objects
  PROVE  Cardinality(Creditors(view, o)) = 0
<1>1. Creditors(view, o) = {}
  BY ObjectFacts DEF Creditors
<1>. QED
  BY <1>1, FS_EmptySet

\* The invariant holds at the start.
LEMMA InitInv == Init => Inv
<1>1. PICK h \in [Objects -> Nat] : h = [o \in Objects |-> 0]
  OBVIOUS
<1>2. PICK mine \in Claims : mine = [t \in Threads |-> {}]
  BY DEF Claims
<1>3. PICK view \in [Threads -> Views] : view = [t \in Threads |-> Ended([o \in Objects |-> 0])]
  <2>1. Ended(h) \in Views
    BY <1>1, EndedFacts
  <2>. QED
    BY <1>1, <2>1
<1>4. \A t \in Threads : mine[t] = {} /\ view[t] = Ended([o \in Objects |-> 0])
  BY <1>2, <1>3
<1>5. \A t \in Threads : view[t].credit = None
  <2>1. Ended(h).credit = None
    BY DEF Ended
  <2>. QED
    BY <1>1, <1>4, <2>1
<1>6. ASSUME InitNew PROVE J(mine, view)
  <2>1. /\ Common /\ nOpen = [o \in Objects |-> 0] /\ live = {System} /\ ilist = None
        /\ refs = [o \in Objects |-> IF o = System THEN Threads ELSE {}]
        /\ weak = [o \in Objects |-> {}] /\ opened = {}
    BY <1>6 DEF InitNew
  <2>2. TypeInv
    <3>1. refs \in [Objects -> SUBSET Threads] /\ weak \in [Objects -> SUBSET (Devices \cup Streams)]
          /\ nOpen \in [Objects -> Nat] /\ opened \subseteq Threads \X Objects
      BY <2>1
    <3>. QED
      BY <2>1, <3>1, CommonType, ObjectFacts DEF TypeInv
  <2>3. LiveInv
    BY <2>1, CommonType, ObjectFacts DEF LiveInv
  <2>4. Accounts(view)
    <3>. SUFFICES ASSUME NEW o \in Objects \ Streams PROVE Account(view, o)
      BY DEF Accounts
    <3>1. Openers(o) = {} /\ OpenChildren(o) = {}
      BY <2>1, ObjectFacts DEF Openers, OpenChildren
    <3>2. Cardinality(Openers(o)) = 0 /\ Cardinality(OpenChildren(o)) = 0
      BY <3>1, FS_EmptySet
    <3>3. nOpen[o] = 0
      BY <2>1
    <3>. QED
      BY <1>5, <3>2, <3>3, Uncredited DEF Account
  <2>. QED
    BY <1>4, <2>1, <2>2, <2>3, <2>4, CommonInv
<1>7. ASSUME InitFound PROVE J(mine, view)
  <2>1. PICK t \in Threads, i \in Interfaces : \E d \in Children(i) :
        /\ Common
        /\ nOpen = [o \in Objects |-> CASE o = System -> 2 [] o = i -> 1 [] OTHER -> 0]
        /\ live = {System, i, d} /\ ilist = i
        /\ refs = [o \in Objects |-> CASE o = System -> Threads
                                        [] o \in {i, d} -> {t}
                                        [] OTHER -> {}]
        /\ weak = [o \in Objects |-> IF o = i THEN {d} ELSE {}]
        /\ opened = {<<t, System>>}
    BY <1>7 DEF InitFound
  <2>8. PICK d \in Children(i) :
        /\ Common
        /\ nOpen = [o \in Objects |-> CASE o = System -> 2 [] o = i -> 1 [] OTHER -> 0]
        /\ live = {System, i, d} /\ ilist = i
        /\ refs = [o \in Objects |-> CASE o = System -> Threads
                                        [] o \in {i, d} -> {t}
                                        [] OTHER -> {}]
        /\ weak = [o \in Objects |-> IF o = i THEN {d} ELSE {}]
        /\ opened = {<<t, System>>}
    BY <2>1
  <2>2. /\ i \in Objects /\ i # System /\ i # None /\ i \notin Streams /\ Parent[i] = System
        /\ d # System /\ Parent[d] = i /\ d \in Devices /\ d # i
    <3>1. i \in Objects /\ i # System /\ i # None /\ i \notin Streams /\ Parent[i] = System
          /\ d # System /\ Parent[d] = i
      BY <2>8, ObjectFacts
    <3>2. d \in Devices
      BY <3>1, ObjectFacts DEF Objects
    <3>. QED
      BY <3>1, <3>2, ObjectFacts
  <2>3. \A o \in Objects : nOpen[o] = IF o = System THEN 2 ELSE IF o = i THEN 1 ELSE 0
    BY <2>8, <2>2
  <2>4. \A o \in Objects : /\ refs[o] \subseteq Threads
                           /\ refs[o] # {} => o \in live
    BY <2>8, <2>2
  <2>5. TypeInv
    <3>1. refs \in [Objects -> SUBSET Threads]
      BY <2>8, <2>2
    <3>2. weak \in [Objects -> SUBSET (Devices \cup Streams)]
      BY <2>8, <2>2
    <3>3. nOpen \in [Objects -> Nat]
      BY <2>8, <2>2
    <3>4. opened \subseteq Threads \X Objects /\ live \subseteq Objects
      BY <2>8, <2>2, ObjectFacts
    <3>. QED
      BY <2>8, <3>1, <3>2, <3>3, <3>4, CommonType DEF TypeInv
  <2>6. LiveInv
    <3>1. System \in live /\ \A j \in Interfaces : j \in live <=> j = ilist
      BY <2>8, <2>2, ObjectFacts
    <3>2. \A o \in live \ {System} : Parent[o] \in live
      BY <2>8, <2>2
    <3>3. \A o \in Objects \ Streams : o \notin live =>
             nOpen[o] = 0 /\ \A u \in Threads : <<u, o>> \notin opened
      BY <2>8, <2>3
    <3>. QED
      BY <2>8, <2>4, <3>1, <3>2, <3>3, CommonType DEF LiveInv
  <2>7. Accounts(view)
    <3>. SUFFICES ASSUME NEW o \in Objects \ Streams PROVE Account(view, o)
      BY DEF Accounts
    <3>1. Cardinality(Openers(o)) = IF o = System THEN 1 ELSE 0
      <4>1. Openers(o) = IF o = System THEN {t} ELSE {}
        BY <2>8 DEF Openers
      <4>. QED
        BY <4>1, FS_EmptySet, FS_Singleton
    <3>2. Cardinality(OpenChildren(o)) = IF o = System THEN 1 ELSE 0
      <4>1. OpenChildren(o) = IF o = System THEN {i} ELSE {}
        <5>1. \A c \in Children(o) : c \in Objects /\ c # System /\ Parent[c] = o
          BY ObjectFacts
        <5>2. i \in Children(System)
          BY <2>2, ObjectFacts
        <5>. QED
          BY <2>2, <2>3, <5>1, <5>2 DEF OpenChildren
      <4>. QED
        BY <4>1, FS_EmptySet, FS_Singleton
    <3>3. Cardinality(Creditors(view, o)) = 0
      BY <1>5, Uncredited
    <3>4. CASE o = i
      BY <2>8, <2>2, <2>3, <3>1, <3>2, <3>3, <3>4 DEF Account
    <3>5. CASE o # i
      BY <2>3, <3>1, <3>2, <3>3, <3>5 DEF Account
    <3>. QED
      BY <3>4, <3>5
  <2>. QED
    BY <1>4, <2>8, <2>5, <2>6, <2>7, CommonInv
<1>. QED
  BY <1>6, <1>7 DEF Init, Inv

\* A step that changes nothing keeps the invariant.
LEMMA StutterInv == Inv /\ UNCHANGED vars => Inv'
<1>. SUFFICES ASSUME NEW mine \in Claims, NEW view \in [Threads -> Views], J(mine, view),
                     UNCHANGED vars
              PROVE  J(mine, view)'
  BY DEF Inv
<1>1. /\ UNCHANGED owner /\ UNCHANGED depth /\ UNCHANGED nOpen /\ UNCHANGED live
      /\ UNCHANGED refs /\ UNCHANGED tmp /\ UNCHANGED ilist /\ UNCHANGED weak
      /\ UNCHANGED opened /\ UNCHANGED todo
  BY DEF vars
<1>2. TypeInv' /\ LiveInv'
  BY <1>1 DEF J, TypeInv, LiveInv
<1>3. ASSUME NEW t \in Threads PROVE ThreadInv(t, mine, view)'
  <2>1. CodeInv(t, mine[t], view[t]) /\ ClaimInv(t, mine[t], view[t])
        /\ ListInv(t, view[t]) /\ DyingInv(view[t]) /\ NewInv(t, mine, view[t])
    BY ViewFacts
  <2>2. CodeInv(t, mine[t], view[t])' /\ ClaimInv(t, mine[t], view[t])' /\ DyingInv(view[t])'
    BY <1>1, <2>1 DEF CodeInv, ClaimInv, DyingInv
  <2>3. ListInv(t, view[t])'
    BY <1>1, <2>1 DEF ListInv, At
  <2>4. NewInv(t, mine, view[t])'
    BY <1>1, <2>1 DEF NewInv, At, Rest
  <2>. QED
    BY <2>2, <2>3, <2>4 DEF ThreadInv
<1>4. Accounts(view)'
  BY <1>1 DEF J, Accounts, Account, Openers, OpenChildren, Children, Creditors
<1>. QED
  BY <1>2, <1>3, <1>4 DEF J, DyingDiffer

\* Every action keeps the invariant.
LEMMA NextInv == Inv /\ Next => Inv'
<1>. SUFFICES ASSUME NEW mine \in Claims, NEW view \in [Threads -> Views], J(mine, view),
                     NEW t \in Threads, Begin(t) \/ Step(t)
              PROVE  Inv'
  BY DEF Inv, Next
<1>1. CASE Begin(t)
  BY <1>1, CallOpenStep, CallCloseStep, CallListStep, CallStartStep, DropStep, ShareStep
     DEF Begin
<1>2. CASE Lock(t) \/ Unlock(t) \/ Opening(t) \/ Attach(t) \/ AttachFails(t) \/ Opened(t)
  BY <1>2, LockStep, UnlockStep, OpeningStep, AttachStep, AttachFailsStep, OpenedStep
<1>3. CASE Closing(t) \/ ListInterfaces(t) \/ ListNoInterfaces(t) \/ Current(t) \/ Enumerate(t)
  BY <1>3, ClosingStep, ListInterfacesStep, ListNoInterfacesStep, CurrentStep, EnumerateStep
<1>4. CASE EnumerateNone(t) \/ EnumerateFails(t) \/ Return(t) \/ Release(t)
  BY <1>4, EnumerateNoneStep, EnumerateFailsStep, ReturnStep, ReleaseStep
<1>5. CASE Destruct(t) \/ Free(t) \/ StartStop(t)
  BY <1>5, DestructStep, FreeStep, StartStopStep
<1>. QED
  BY <1>1, <1>2, <1>3, <1>4, <1>5 DEF Step

\* Whatever the threads do, the instructions that are left of every call lead
\* from what its thread has locked, opened and destroys to the end of the call:
\* mutexes are unlocked as often as they were locked, open() and close() of the
\* parents match, also when an exception ends a call (system.cc:300-434,
\* interface.cc:78-229, device.cc:87-173, stream.cc:172-335).
THEOREM CodeIsTyped == Spec => []Inv
<1>1. Inv /\ [Next]_vars => Inv'
  BY NextInv, StutterInv
<1>. QED
  BY <1>1, InitInv, PTL DEF Spec

\* A thread that waits for a mutex has only locked objects below it.
LEMMA Waits ==
  ASSUME NEW mine \in Claims, NEW view \in [Threads -> Views], J(mine, view),
         Vanish = "no", NEW t \in Threads, NEW o \in Objects, At(t, "lock", o),
         NEW q \in Objects, owner[q] = t
  PROVE  Level(q) > Level(o) \/ CanLock(t, o)
<1>1. "lock" \in Ops
  BY DEF Ops
<1>2. PICK w \in Views : Does(mine[t], <<"lock", o>>, view[t], w)
  BY <1>1, StepFacts
<1>3. DoesLock(view[t], o, w)
  BY <1>2 DEF Does
<1>4. view[t].held[q] > 0
  BY ViewFacts
<1>5. Level(q) > Level(o) \/ (q = System /\ (o = System \/ (o \in Interfaces /\ view[t].new)))
  BY <1>3, <1>4 DEF DoesLock, Ordered, Above
<1>6. CASE q = System /\ o = System
  BY <1>6 DEF CanLock
<1>7. CASE view[t].new
  <2>1. NewInv(t, mine, view[t])
    BY ViewFacts
  <2>2. o = ilist /\ owner[ilist] = None
    BY <1>7, <2>1 DEF NewInv, At
  <2>. QED
    BY <2>2 DEF CanLock
<1>. QED
  BY <1>5, <1>6, <1>7

\* Threads that wait in a circle: the mutex highest in the tree that one of them
\* waits for is locked by one of them, which waits for a mutex higher up.
LEMMA InvNoDeadlock == Inv /\ Vanish = "no" => NoDeadlock
<1>. SUFFICES ASSUME NEW mine \in Claims, NEW view \in [Threads -> Views], J(mine, view),
                     Vanish = "no", NEW ts \in (SUBSET Threads) \ {{}},
                     \A t \in ts : \E o \in Objects :
                        At(t, "lock", o) /\ ~CanLock(t, o) /\ owner[o] \in ts
              PROVE  FALSE
  BY DEF Inv, NoDeadlock
<1>. DEFINE Waiting(t, o) == At(t, "lock", o) /\ ~CanLock(t, o) /\ owner[o] \in ts
            L == {n \in 0..3 : \E t \in ts, o \in Objects : Waiting(t, o) /\ Level(o) = n}
<1>1. L # {}
  <2>1. PICK t \in ts : TRUE
    OBVIOUS
  <2>2. PICK o \in Objects : Waiting(t, o)
    BY <2>1
  <2>3. Level(o) \in 0..3
    BY LevelFacts
  <2>. QED
    BY <2>1, <2>2, <2>3
<1>2. PICK n \in L : \A k \in L : n <= k
  <2>1. L \subseteq Nat
    OBVIOUS
  <2>. HIDE DEF L
  <2>. QED
    BY <1>1, <2>1, LeastNumber
<1>3. PICK t \in ts, o \in Objects : Waiting(t, o) /\ Level(o) = n
  BY <1>2
<1>4. PICK u \in ts : u = owner[o]
  BY <1>3
<1>5. PICK q \in Objects : Waiting(u, q)
  BY <1>4
<1>6. Level(q) \in L
  <2>1. Level(q) \in 0..3
    BY LevelFacts
  <2>. QED
    BY <1>5, <2>1
<1>7. Level(o) > Level(q)
  BY <1>4, <1>5, Waits
<1>8. Level(o) <= Level(q) /\ Level(o) \in 0..3 /\ Level(q) \in 0..3
  BY <1>2, <1>3, <1>6, LevelFacts
<1>. QED
  BY <1>7, <1>8

\* An open object has an open parent in the accounts.
LEMMA InvCheckedHandle == Inv => CheckedHandleIsOpen
<1>. SUFFICES ASSUME NEW mine \in Claims, NEW view \in [Threads -> Views], J(mine, view),
                     NEW t \in Threads, NEW o \in Objects
              PROVE  /\ At(t, "enumerate", o) => nOpen[o] > 0
                     /\ At(t, "attach", o) /\ o # System => nOpen[Parent[o]] > 0
  BY DEF Inv, CheckedHandleIsOpen
<1>1. ASSUME At(t, "enumerate", o) PROVE nOpen[o] > 0
  <2>1. "enumerate" \in {"current", "enumerate"}
    OBVIOUS
  <2>. QED
    BY <1>1, <2>1, ListFacts
<1>2. ASSUME At(t, "attach", o), o # System PROVE nOpen[Parent[o]] > 0
  <2>. DEFINE p == Parent[o]
  <2>1. "attach" \in Ops
    BY DEF Ops
  <2>2. PICK w \in Views : Does(mine[t], <<"attach", o>>, view[t], w)
    BY <1>2, <2>1, StepFacts
  <2>3. DoesAttach(view[t], o, w)
    BY <2>2 DEF Does
  <2>4. view[t].credit = p /\ view[t].dying = None /\ o \notin Streams
    BY <1>2, <2>3 DEF DoesAttach
  <2>5. p \in Objects \ Streams /\ p # None
    BY <1>2, <2>4, ObjectFacts DEF Objects
  <2>6. Near(mine[t], view[t], p)
    <3>1. ClaimInv(t, mine[t], view[t])
      BY ViewFacts
    <3>. QED
      BY <2>4, <2>5, <3>1 DEF ClaimInv
  <2>. HIDE DEF p
  <2>7. \A u \in Threads : view[u].dying # p
    BY <2>4, <2>5, <2>6, NearFacts
  <2>8. Account(view, p) /\ nOpen[p] \in Nat
    BY <2>5, <2>7 DEF J, Accounts, TypeInv
  <2>9. Cardinality(Creditors(view, p)) # 0
    <3>1. t \in Creditors(view, p) /\ IsFiniteSet(Creditors(view, p))
      BY <2>4, FiniteCounts DEF Creditors
    <3>. QED
      BY <3>1, FS_EmptySet
  <2>10. /\ Cardinality(Openers(p)) \in Nat /\ Cardinality(OpenChildren(p)) \in Nat
         /\ Cardinality(Creditors(view, p)) \in Nat
    BY FiniteCounts
  <2>11. nOpen[p] > 0
    BY <2>8, <2>9, <2>10 DEF Account
  <2>. QED
    BY <2>11 DEF p
<1>. QED
  BY <1>1, <1>2

\* Without calls there are no credits.
LEMMA InvOpensAddUp == Inv => OpensAddUp
<1>. SUFFICES ASSUME NEW mine \in Claims, NEW view \in [Threads -> Views], J(mine, view),
                     \A t \in Threads : todo[t] = <<>>, NEW o \in live \ Streams
              PROVE  LET n == Cardinality(Openers(o)) + Cardinality(OpenChildren(o))
                     IN  nOpen[o] \in n..(n + IF o = ilist THEN 1 ELSE 0)
  BY DEF Inv, OpensAddUp, Openers, OpenChildren
<1>1. o \in Objects \ Streams /\ nOpen \in [Objects -> Nat]
  BY DEF J, TypeInv
<1>2. \A t \in Threads : view[t].credit = None /\ view[t].dying = None
  BY Idle
<1>3. Account(view, o)
  BY <1>1, <1>2, ObjectFacts DEF J, Accounts
<1>4. Cardinality(Creditors(view, o)) = 0
  BY <1>1, <1>2, Uncredited
<1>5. Cardinality(Openers(o)) \in Nat /\ Cardinality(OpenChildren(o)) \in Nat
  BY FiniteCounts
<1>. QED
  BY <1>3, <1>4, <1>5 DEF Account

\* Threads that list, open, start, drop and close the same objects never all
\* wait for mutexes of each other, as methods lock from an object upwards and
\* the lists keep what is in use; for a producer that leaves out an object in use
\* the destructor of one under the mutex of its parent breaks the order, and
\* nothing is claimed.
THEOREM NoDeadlockHolds == Vanish = "no" => (Spec => []NoDeadlock)
<1>. SUFFICES ASSUME Vanish = "no" PROVE Spec => []NoDeadlock
  OBVIOUS
<1>1. Inv => NoDeadlock
  BY InvNoDeadlock
<1>. QED
  BY <1>1, CodeIsTyped, PTL

\* The producer is never asked with a handle that was closed since it was checked:
\* the object that is listed is open still, and the parent of one that is opened,
\* whatever the other threads close in between (interface.cc:139-229,
\* device.cc:87-140).
THEOREM CheckedHandleIsOpenHolds == Spec => []CheckedHandleIsOpen
BY CodeIsTyped, InvCheckedHandle, PTL

\* Between calls, n_open of every object is the number of threads that opened it
\* and of open children, no open() of a parent is lost or doubled, also after
\* exceptions and in races of open() with close() (device.cc:87-173).
THEOREM OpensAddUpHolds == Spec => []OpensAddUp
BY CodeIsTyped, InvOpensAddUp, PTL
=============================================================================
