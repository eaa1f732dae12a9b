------------------------------- MODULE Locks -------------------------------
(***************************************************************************)
(* The mutexes of rcg::System, Interface, Device and Stream, when several  *)
(* threads discover, open, close, list and drop the same objects.          *)
(*                                                                         *)
(* A thread has a list of instructions left, which is empty between calls. *)
(* Everything one object does under its mutex between two calls of another *)
(* object or of the producer is one instruction, and calling a method      *)
(* prepends the method's instructions.  An exception skips instructions,   *)
(* but not those of destructors of local variables.                        *)
(*                                                                         *)
(* Every thread has its own shared pointers and gives another thread a     *)
(* copy.  System::clearSystems() is not called while threads run.          *)
(***************************************************************************)
EXTENDS Naturals, Sequences, FiniteSets

CONSTANTS
  Threads,
  System, Interfaces, Devices, Streams,  \* objects, i.e. addresses
  Parent,    \* parent: the object above an interface, device or stream
  None,      \* no thread, no object
  Vanish,    \* "yes" if what is in use can be missing in a listing
  MaxCalls   \* bound on the number of calls

Objects == {System} \cup Interfaces \cup Devices \cup Streams
Children(o) == {c \in Objects \ {System} : Parent[c] = o}

ASSUME ObjectsAssumption ==
  /\ IsFiniteSet(Threads) /\ IsFiniteSet(Objects)
  /\ System \notin Interfaces \cup Devices \cup Streams
  /\ Interfaces \cap Devices = {} /\ Streams \cap (Interfaces \cup Devices) = {}
ASSUME ParentAssumption ==
  /\ Parent \in [Objects \ {System} -> Objects]
  /\ \A i \in Interfaces : Parent[i] = System
  /\ \A d \in Devices : Parent[d] \in Interfaces
  /\ \A s \in Streams : Parent[s] \in Devices
ASSUME OtherAssumption ==
  Vanish \in {"yes", "no"} /\ MaxCalls \in Nat /\ None \notin Threads \cup Objects

VARIABLES
  owner, depth,  \* mtx: the thread that has locked it, and how often
  nOpen,   \* n_open; of a stream: 1 while bn > 0
  live,    \* objects that exist
  refs,    \* threads that have a shared pointer outside of calls
  tmp,     \* shared pointers in local variables of calls, per thread
  ilist,   \* ilist of the system: None, or the interface
  weak,    \* dlist of an interface, slist of a device
  opened,  \* <<t, o>> if thread t has opened o and not closed it
  todo,    \* instructions left in the call of a thread
  calls    \* number of calls

objVars == <<nOpen, live, ilist, weak>>
vars == <<owner, depth, nOpen, live, refs, tmp, ilist, weak, opened, todo, calls>>

-----------------------------------------------------------------------------
(* Instructions of methods. *)

I(op, o) == <<<<op, o>>>>

\* The instructions with the given operations; left[k]: those from the k-th on.
Only(ops, code) ==
  LET left[k \in 1..(Len(code) + 1)] ==
        IF k > Len(code) THEN <<>>
        ELSE IF code[k][1] \in ops THEN <<code[k]>> \o left[k + 1]
        ELSE left[k + 1]
  IN  left[1]

\* The mutex stays locked.
Unwind_ForgetsUnlock(code) == Only({"release"}, code)

\* Instructions of destructors of local variables.
Unwind(code) == Only({"unlock", "release"}, code)

\* The mutex is not locked.
Open_Unlocked(o) == I("opening", o)

Open(o) == I("lock", o) \o I("opening", o) \o I("unlock", o)

Close(o) == I("lock", o) \o I("closing", o) \o I("unlock", o)

\* The mutex is not locked.
List_Unlocked(o) ==
  I(IF o = System THEN "interfaces" ELSE "current", o)
    \o I("return", o) \o I("release", o)

\* System::getInterfaces, Interface::getDevices, Device::getStreams
List(o) ==
  I("lock", o) \o I(IF o = System THEN "interfaces" ELSE "current", o)
    \o I("return", o) \o I("release", o) \o I("unlock", o)

\* Device::getRemoteNodeMap
NodeMap(d) == I("lock", d) \o I("unlock", d)

\* Stream::startStreaming, of a stream that is open
Start(s) ==
  I("lock", s) \o NodeMap(Parent[s]) \o I("start", s) \o NodeMap(Parent[s])
    \o I("unlock", s)

\* Stream::stopStreaming, as called by the destructor
Stop(s) ==
  I("lock", s)
    \o (IF nOpen[s] = 0 THEN <<>>
        ELSE NodeMap(Parent[s]) \o I("stop", s) \o NodeMap(Parent[s]))
    \o I("unlock", s)

-----------------------------------------------------------------------------
\* The object is kept by a shared pointer, of children or of its parent too.
HasOwner(o, rs, ts, lv) ==
  \/ o = System \/ o = ilist
  \/ rs[o] # {}
  \/ \E t \in Threads : o \in ts[t]
  \/ Children(o) \cap lv # {}

Strong(o) == HasOwner(o, refs, tmp, live)

Common ==
  /\ owner = [o \in Objects |-> None] /\ depth = [o \in Objects |-> 0]
  /\ tmp = [t \in Threads |-> {}]
  /\ todo = [t \in Threads |-> <<>>] /\ calls = 0

\* At the start of the program.
InitNew ==
  /\ Common
  /\ nOpen = [o \in Objects |-> 0]
  /\ live = {System} /\ ilist = None
  /\ refs = [o \in Objects |-> IF o = System THEN Threads ELSE {}]
  /\ weak = [o \in Objects |-> {}] /\ opened = {}

\* After a thread has opened the system and found a device.
InitFound ==
  /\ Common
  /\ \E t \in Threads, i \in Interfaces : \E d \in Children(i) :
        /\ nOpen = [o \in Objects |-> CASE o = System -> 2 [] o = i -> 1 [] OTHER -> 0]
        /\ live = {System, i, d} /\ ilist = i
        /\ refs = [o \in Objects |-> CASE o = System -> Threads
                                        [] o \in {i, d} -> {t}
                                        [] OTHER -> {}]
        /\ weak = [o \in Objects |-> IF o = i THEN {d} ELSE {}]
        /\ opened = {<<t, System>>}

Init == InitNew \/ InitFound

\* Thread t continues with the given instructions.
Continue(t, code) == todo' = [todo EXCEPT ![t] = code]

Call(t, code) ==
  /\ todo[t] = <<>> /\ calls < MaxCalls /\ calls' = calls + 1
  /\ Continue(t, code)
  /\ UNCHANGED <<owner, depth, objVars, tmp>>

CallOpen(t) ==
  \E o \in {p \in Objects \ Streams : t \in refs[p]} :
     /\ <<t, o>> \notin opened
     /\ Call(t, Open(o) \o I("opened", o))
     /\ UNCHANGED <<refs, opened>>

CallClose(t) ==
  \E o \in {p \in Objects \ Streams : t \in refs[p]} :
     /\ <<t, o>> \in opened
     /\ opened' = opened \ {<<t, o>>}
     /\ Call(t, Close(o)) /\ UNCHANGED refs

CallList(t) ==
  \E o \in {p \in Objects \ Streams : t \in refs[p]} :
     Call(t, List(o)) /\ UNCHANGED <<refs, opened>>

\* A stream is started while its device is open, and not twice.
CallStart(t) ==
  \E s \in {p \in Streams : t \in refs[p] /\ nOpen[p] = 0} :
     /\ <<t, Parent[s]>> \in opened
     /\ Call(t, Start(s)) /\ UNCHANGED <<refs, opened>>

\* A thread gives up a shared pointer; the last one destroys the object.
Drop(t) ==
  \E o \in {p \in Objects \ {System} : t \in refs[p]} :
     LET rs == [refs EXCEPT ![o] = @ \ {t}]
     IN  /\ refs' = rs /\ UNCHANGED opened
         /\ Call(t, IF HasOwner(o, rs, tmp, live) THEN <<>> ELSE I("destroy", o))

Share(t) ==
  \E o \in {p \in Objects : t \in refs[p]}, u \in Threads :
     /\ u \notin refs[o]
     /\ refs' = [refs EXCEPT ![o] = @ \cup {u}] /\ UNCHANGED opened
     /\ Call(t, <<>>)

-----------------------------------------------------------------------------
(* Steps of a call.  At(t, op, o): the next instruction of thread t. *)

At(t, op, o) == todo[t] # <<>> /\ todo[t][1] = <<op, o>>
Rest(t) == Tail(todo[t])

CanLock_Plain(t, o) == owner[o] = None

CanLock(t, o) ==
  owner[o] = None \/ (owner[o] = t /\ o \in {System} \cup Streams)

Lock(t) ==
  \E o \in Objects :
     /\ At(t, "lock", o) /\ CanLock(t, o)
     /\ owner' = [owner EXCEPT ![o] = t] /\ depth' = [depth EXCEPT ![o] = @ + 1]
     /\ Continue(t, Rest(t))
     /\ UNCHANGED <<objVars, refs, tmp, opened, calls>>

Unlock(t) ==
  \E o \in Objects :
     /\ At(t, "unlock", o)
     /\ depth' = [depth EXCEPT ![o] = @ - 1]
     /\ owner' = [owner EXCEPT ![o] = IF depth[o] = 1 THEN None ELSE @]
     /\ Continue(t, Rest(t))
     /\ UNCHANGED <<objVars, refs, tmp, opened, calls>>

Rest4 == <<owner, depth, refs, calls>>

\* The first open() opens the parent; then the producer is asked.
Opening(t) ==
  \E o \in Objects :
     /\ At(t, "opening", o)
     /\ IF nOpen[o] > 0
        THEN nOpen' = [nOpen EXCEPT ![o] = @ + 1] /\ Continue(t, Rest(t))
        ELSE /\ Continue(t, (IF o = System THEN <<>> ELSE Open(Parent[o]))
                              \o I("attach", o) \o Rest(t))
             /\ UNCHANGED nOpen
     /\ UNCHANGED <<Rest4, live, ilist, weak, tmp, opened>>

Attach(t) ==
  \E o \in Objects :
     /\ At(t, "attach", o)
     /\ nOpen' = [nOpen EXCEPT ![o] = @ + 1] /\ Continue(t, Rest(t))
     /\ UNCHANGED <<Rest4, live, ilist, weak, tmp, opened>>

AttachFails(t) ==
  \E o \in Objects :
     /\ At(t, "attach", o)
     /\ Continue(t, (IF o = System THEN <<>> ELSE Close(Parent[o])) \o Unwind(Rest(t)))
     /\ UNCHANGED <<Rest4, objVars, tmp, opened>>

Opened(t) ==
  \E o \in Objects :
     /\ At(t, "opened", o)
     /\ opened' = opened \cup {<<t, o>>} /\ Continue(t, Rest(t))
     /\ UNCHANGED <<Rest4, objVars, tmp>>

\* The last close() closes the parent.
Closing(t) ==
  \E o \in Objects :
     /\ At(t, "closing", o)
     /\ nOpen' = [nOpen EXCEPT ![o] = IF @ > 0 THEN @ - 1 ELSE 0]
     /\ Continue(t, (IF nOpen[o] = 1 /\ o # System THEN Close(Parent[o]) ELSE <<>>)
                      \o Rest(t))
     /\ UNCHANGED <<Rest4, live, ilist, weak, tmp, opened>>

\* System::getInterfaces: the interface is opened while the system is locked.
ListInterfaces(t) ==
  /\ At(t, "interfaces", System)
  /\ IF ilist # None
     THEN /\ tmp' = [tmp EXCEPT ![t] = {ilist}]
          /\ Continue(t, Rest(t)) /\ UNCHANGED <<live, ilist>>
     ELSE /\ nOpen[System] > 0
          /\ \E i \in Interfaces \ live :
                /\ live' = live \cup {i} /\ ilist' = i
                /\ tmp' = [tmp EXCEPT ![t] = {i}]
                /\ Continue(t, Open(i) \o Rest(t))
  /\ UNCHANGED <<Rest4, nOpen, weak, opened>>

\* The system is not open, or the producer lists nothing or fails.
ListNoInterfaces(t) ==
  /\ At(t, "interfaces", System) /\ ilist = None
  /\ Continue(t, Unwind(Rest(t)))
  /\ UNCHANGED <<Rest4, objVars, tmp, opened>>

\* getDevices, getStreams: the objects of the last list that are in use.
Current(t) ==
  \E o \in Interfaces \cup Devices :
     /\ At(t, "current", o)
     /\ IF nOpen[o] > 0
        THEN /\ tmp' = [tmp EXCEPT ![t] = {c \in weak[o] : Strong(c)}]
             /\ Continue(t, I("enumerate", o) \o Rest(t))
        ELSE Continue(t, Rest(t)) /\ UNCHANGED tmp
     /\ UNCHANGED <<Rest4, objVars, opened>>

\* The producer lists one child: an object in use is used again.
Enumerate(t) ==
  \E o \in Interfaces \cup Devices :
     /\ At(t, "enumerate", o)
     /\ \E c \in (IF tmp[t] # {} THEN tmp[t] ELSE Children(o) \ live) :
           /\ live' = live \cup {c} /\ weak' = [weak EXCEPT ![o] = {c}]
           /\ tmp' = [tmp EXCEPT ![t] = {c}]
     /\ Continue(t, Rest(t))
     /\ UNCHANGED <<Rest4, nOpen, ilist, opened>>

\* It lists none; what is in current is not returned.
EnumerateNone(t) ==
  \E o \in Interfaces \cup Devices :
     /\ At(t, "enumerate", o) /\ (Vanish = "no" => tmp[t] = {})
     /\ weak' = [weak EXCEPT ![o] = {}]
     /\ Continue(t, Tail(Rest(t)))
     /\ UNCHANGED <<Rest4, nOpen, live, ilist, tmp, opened>>

EnumerateFails(t) ==
  \E o \in Interfaces \cup Devices :
     /\ At(t, "enumerate", o) /\ (Vanish = "no" => tmp[t] = {})
     /\ Continue(t, Unwind(Rest(t)))
     /\ UNCHANGED <<Rest4, objVars, tmp, opened>>

\* The listed objects become the caller's.
Return(t) ==
  \E o \in Objects :
     /\ At(t, "return", o)
     /\ refs' = [c \in Objects |-> IF c \in tmp[t] THEN refs[c] \cup {t} ELSE refs[c]]
     /\ Continue(t, Rest(t))
     /\ UNCHANGED <<owner, depth, calls, objVars, tmp, opened>>

\* Local shared pointers are released before the mutex.
Release(t) ==
  \E o \in Objects :
     /\ At(t, "release", o)
     /\ IF tmp[t] = {} THEN Continue(t, Rest(t)) /\ UNCHANGED tmp
        ELSE \E c \in tmp[t] :
               LET ts == [tmp EXCEPT ![t] = @ \ {c}]
               IN  /\ tmp' = ts
                   /\ Continue(t, IF HasOwner(c, refs, ts, live) THEN todo[t]
                                  ELSE I("destroy", c) \o todo[t])
     /\ UNCHANGED <<Rest4, objVars, opened>>

\* A destructor: what is open is closed, and in the parent too.
Destruct(t) ==
  \E o \in Objects \ {System} :
     /\ At(t, "destroy", o)
     /\ Continue(t, (IF o \in Streams THEN Stop(o)
                     ELSE IF nOpen[o] > 0 THEN Close(Parent[o]) ELSE <<>>)
                      \o I("free", o) \o Rest(t))
     /\ nOpen' = IF o \in Streams THEN nOpen ELSE [nOpen EXCEPT ![o] = 0]
     /\ UNCHANGED <<Rest4, live, ilist, weak, tmp, opened>>

\* The members are released, the pointer to the parent too.
Free(t) ==
  \E o \in Objects \ {System} :
     /\ At(t, "free", o)
     /\ live' = live \ {o} /\ weak' = [weak EXCEPT ![o] = {}]
     /\ opened' = {p \in opened : p[2] # o}
     /\ Continue(t, (IF HasOwner(Parent[o], refs, tmp, live \ {o}) THEN <<>>
                     ELSE I("destroy", Parent[o])) \o Rest(t))
     /\ UNCHANGED <<Rest4, nOpen, ilist, tmp>>

StartStop(t) ==
  \E s \in Streams :
     /\ todo[t] # <<>> /\ todo[t][1] \in {<<"start", s>>, <<"stop", s>>}
     /\ nOpen' = [nOpen EXCEPT ![s] = IF At(t, "start", s) THEN 1 ELSE 0]
     /\ Continue(t, Rest(t))
     /\ UNCHANGED <<Rest4, live, ilist, weak, tmp, opened>>

Begin(t) ==
  CallOpen(t) \/ CallClose(t) \/ CallList(t) \/ CallStart(t) \/ Drop(t) \/ Share(t)

Step(t) ==
  \/ Lock(t) \/ Unlock(t) \/ Opening(t) \/ Attach(t) \/ AttachFails(t) \/ Opened(t)
  \/ Closing(t) \/ ListInterfaces(t) \/ ListNoInterfaces(t)
  \/ Current(t) \/ Enumerate(t)
  \/ EnumerateNone(t) \/ EnumerateFails(t) \/ Return(t) \/ Release(t) \/ Destruct(t)
  \/ Free(t) \/ StartStop(t)

Next == \E t \in Threads : Begin(t) \/ Step(t)

Spec == Init /\ [][Next]_vars

\* Threads that can go on do so.
FairSpec == Spec /\ \A t \in Threads : WF_vars(Step(t))

-----------------------------------------------------------------------------
(* Properties. *)

\* No threads wait for each other, and none for itself: every set of threads
\* has one that does not wait for a mutex that the set has locked.
NoDeadlock ==
  \A ts \in (SUBSET Threads) \ {{}} : \E t \in ts : \A o \in Objects :
     At(t, "lock", o) => CanLock(t, o) \/ owner[o] \notin ts

\* A handle that a thread has checked is still open when it is used: nobody
\* closes an object while it is listed, or the parent of one that is opened.
CheckedHandleIsOpen ==
  \A t \in Threads, o \in Objects :
     /\ At(t, "enumerate", o) => nOpen[o] > 0
     /\ At(t, "attach", o) /\ o # System => nOpen[Parent[o]] > 0

\* Between calls, opens add up: those of the threads, one for every open child,
\* and the one of the list of interfaces, if it has succeeded.
OpensAddUp ==
  (\A t \in Threads : todo[t] = <<>>) =>
     \A o \in live \ Streams :
        LET n == Cardinality({t \in Threads : <<t, o>> \in opened})
                   + Cardinality({c \in Children(o) \ Streams : nOpen[c] > 0})
        IN  nOpen[o] \in n..(n + IF o = ilist THEN 1 ELSE 0)

\* Every call returns.
CallsReturn == \A t \in Threads : todo[t] # <<>> ~> todo[t] = <<>>
=============================================================================
