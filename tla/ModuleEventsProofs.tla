------------------------- MODULE ModuleEventsProofs -------------------------
(***************************************************************************)
(* Module events for any number of threads, events and registrations.      *)
(***************************************************************************)
EXTENDS ModuleEvents, TLAPS

Marks == {"close", "abort", "thread"}
Points == {"idle", "checked", "waiting", "received", "timeout", "aborted", "failed"}

\* The types of what the invariant speaks about.
Types ==
  /\ event \in Nat /\ lastReg \in Nat
  /\ queue \in Seq(Nat \X Nat) /\ buffer \in Nat \X Nat
  /\ pc \in [Waiters -> Points]
  /\ waitsOn \in [Waiters -> Nat]
  /\ got \in [Waiters -> Nat \X Nat]
  /\ ret \in [Waiters -> Int]
  /\ met \in [Waiters -> SUBSET Marks]

\* Only an open device has a registration and a node map, and the queue holds
\* nothing of an earlier registration.
DeviceInv ==
  /\ event # 0 \/ nodemap = "allocated" => dev = "open"
  /\ event = 0 => queue = <<>>
  /\ \A k \in 1..Len(queue) : queue[k][2] = event

\* Threads that are inside together know of each other.
Company == \A v, w \in Inside : v # w => "thread" \in met[w]

\* The shared buffer holds what a thread without company has received.
OwnBuffer ==
  \A w \in Waiters : pc[w] = "received" /\ "thread" \notin met[w] => buffer = got[w]

Inv == Types /\ DeviceInv /\ OwnRegistration /\ Company /\ OwnBuffer

LEMMA InvInit == Init => Inv
<1>. SUFFICES ASSUME Init PROVE Inv
  OBVIOUS
<1>1. Types
  <2>1. queue \in Seq(Nat \X Nat) /\ event \in Nat /\ lastReg \in Nat
    BY DEF Init
  <2>5. buffer \in Nat \X Nat
    BY DEF Init, Cleared
  <2>2. pc \in [Waiters -> Points]
    BY DEF Init, Points
  <2>6. waitsOn \in [Waiters -> Nat]
    BY DEF Init
  <2>7. ret \in [Waiters -> Int]
    BY DEF Init
  <2>3. got \in [Waiters -> Nat \X Nat]
    <3>1. got = [w \in Waiters |-> Cleared] /\ Cleared \in Nat \X Nat
      BY DEF Init, Cleared
    <3>. QED
      BY <3>1
  <2>4. met \in [Waiters -> SUBSET Marks]
    BY DEF Init
  <2>. QED
    BY <2>1, <2>2, <2>3, <2>4, <2>5, <2>6, <2>7 DEF Types
<1>2. Inside = {}
  BY DEF Init, Inside
<1>3. DeviceInv /\ OwnBuffer
  BY DEF Init, DeviceInv, OwnBuffer
<1>. QED
  BY <1>1, <1>2, <1>3 DEF Inv, OwnRegistration, Company

-----------------------------------------------------------------------------
(* The main thread and the producer. *)

LEMMA OpenKeeps == ASSUME Inv, Open PROVE Inv'
<1>1. Types' /\ DeviceInv' /\ Inside' = Inside
  BY DEF Inv, Types, DeviceInv, Open, prodVars, callVars, Inside
<1>. QED
  BY <1>1 DEF Inv, OwnRegistration, Company, OwnBuffer, Open, prodVars, callVars, DeviceInv, Inside

LEMMA EnableKeeps == ASSUME Inv, EnableModuleEvents PROVE Inv'
<1>1. Types' /\ Inside' = Inside /\ met' = met
  BY DEF Inv, Types, EnableModuleEvents, prodVars, callVars, Inside
<1>2. DeviceInv'
  BY DEF Inv, Types, DeviceInv, EnableModuleEvents, prodVars
<1>3. \A w \in Inside : "close" \in met[w]
  BY DEF Inv, OwnRegistration, EnableModuleEvents
<1>4. Company' /\ OwnBuffer'
  BY <1>1 DEF Inv, Company, OwnBuffer, EnableModuleEvents, callVars
<1>. QED
  BY <1>1, <1>2, <1>3, <1>4 DEF Inv, OwnRegistration

LEMMA Telling ==
  ASSUME Types, NEW m \in Marks, Tell(Inside, m), UNCHANGED <<pc, got, buffer, waitsOn, ret>>
  PROVE  /\ met' \in [Waiters -> SUBSET Marks]
         /\ Inside' = Inside
         /\ \A w \in Inside : met'[w] = met[w] \cup {m}
         /\ \A w \in Waiters : met[w] \subseteq met'[w]
         /\ Company => Company'
         /\ OwnBuffer => OwnBuffer'
<1>1. met' \in [Waiters -> SUBSET Marks]
  BY DEF Types, Tell
<1>2. Inside' = Inside /\ Inside \subseteq Waiters
  BY DEF Inside
<1>3. \A w \in Inside : met'[w] = met[w] \cup {m}
  BY <1>2 DEF Tell
<1>4. \A w \in Waiters : met[w] \subseteq met'[w]
  BY DEF Tell
<1>5. Company => Company'
  BY <1>2, <1>4 DEF Company
<1>6. OwnBuffer => OwnBuffer'
  BY <1>4 DEF OwnBuffer
<1>. QED
  BY <1>1, <1>2, <1>3, <1>4, <1>5, <1>6

LEMMA CloseKeeps == ASSUME Inv, Close PROVE Inv'
<1>1. Types
  BY DEF Inv
<1>2. Tell(Inside, "close") /\ UNCHANGED <<pc, got, buffer, waitsOn, ret>>
  BY DEF Close
<1>3. /\ met' \in [Waiters -> SUBSET Marks] /\ Inside' = Inside
      /\ \A w \in Inside : met'[w] = met[w] \cup {"close"}
      /\ (Company => Company') /\ (OwnBuffer => OwnBuffer')
  BY <1>1, <1>2, Telling DEF Marks
<1>4. Types'
  BY <1>1, <1>3 DEF Types, Close
<1>5. DeviceInv'
  BY DEF DeviceInv, Close
<1>6. OwnRegistration'
  BY <1>3 DEF OwnRegistration
<1>. QED
  BY <1>3, <1>4, <1>5, <1>6 DEF Inv

LEMMA AbortKeeps == ASSUME Inv, AbortWaitingForModuleEvents PROVE Inv'
<1>1. Types
  BY DEF Inv
<1>2. Tell(Inside, "abort") /\ UNCHANGED <<pc, got, buffer, waitsOn, ret>>
  BY DEF AbortWaitingForModuleEvents
<1>3. /\ met' \in [Waiters -> SUBSET Marks] /\ Inside' = Inside
      /\ \A w \in Inside : met'[w] = met[w] \cup {"abort"}
      /\ (Company => Company') /\ (OwnBuffer => OwnBuffer')
  BY <1>1, <1>2, Telling DEF Marks
<1>4. Types'
  BY <1>1, <1>3 DEF Types, AbortWaitingForModuleEvents, devVars
<1>5. DeviceInv'
  BY DEF Inv, DeviceInv, AbortWaitingForModuleEvents, devVars
<1>6. OwnRegistration'
  BY <1>3 DEF Inv, OwnRegistration, AbortWaitingForModuleEvents, devVars
<1>. QED
  BY <1>3, <1>4, <1>5, <1>6 DEF Inv

LEMMA FireKeeps == ASSUME Inv, Fire PROVE Inv'
<1>. PICK e \in Events : queue' = Append(queue, <<e, event>>)
  BY DEF Fire
<1>1. <<e, event>> \in Nat \X Nat
  BY EventsAssumption DEF Inv, Types
<1>2. Types'
  BY <1>1 DEF Inv, Types, Fire, devVars, callVars
<1>3. \A k \in 1..Len(queue') : queue'[k][2] = event
  BY <1>1 DEF Inv, Types, DeviceInv
<1>4. DeviceInv'
  BY <1>3 DEF Inv, DeviceInv, Fire, devVars
<1>. QED
  BY <1>2, <1>4 DEF Inv, OwnRegistration, Company, OwnBuffer, Inside, Fire, devVars, callVars

-----------------------------------------------------------------------------
(* getModuleEvent(). *)

LEMMA CheckKeeps == ASSUME Inv, NEW w \in Waiters, Check(w) PROVE Inv'
<1>1. /\ pc' = [pc EXCEPT ![w] = "checked"] /\ event # 0
      /\ UNCHANGED <<dev, event, lastReg, nodemap, queue, waitsOn, got>>
      /\ buffer' = Cleared /\ w \notin Inside
      /\ ret' = [ret EXCEPT ![w] = 0]
  BY DEF Check, devVars, prodVars, Inside
<1>2. met' = [v \in Waiters |->
              IF v = w THEN (IF Inside = {} THEN {} ELSE {"thread"})
              ELSE IF v \in Inside THEN met[v] \cup {"thread"} ELSE met[v]]
  BY DEF Check
<1>3. Inside' = Inside \cup {w}
  BY <1>1 DEF Inv, Types, Inside
<1>4. /\ met' \in [Waiters -> SUBSET Marks]
      /\ \A v \in Inside : met'[v] = met[v] \cup {"thread"}
      /\ Inside # {} => met'[w] = {"thread"}
  BY <1>1, <1>2 DEF Inv, Types, Marks, Inside
<1>5. Types'
  <2>1. buffer' \in Nat \X Nat
    BY <1>1 DEF Cleared
  <2>2. pc' \in [Waiters -> Points]
    BY <1>1 DEF Inv, Types, Points
  <2>3. ret' \in [Waiters -> Int]
    BY <1>1 DEF Inv, Types
  <2>4. met' \in [Waiters -> SUBSET Marks]
    BY <1>4
  <2>5. UNCHANGED <<event, lastReg, queue, waitsOn, got>>
    BY <1>1
  <2>. QED
    BY <2>1, <2>2, <2>3, <2>4, <2>5 DEF Inv, Types
<1>6. DeviceInv'
  BY <1>1 DEF Inv, DeviceInv
<1>7. OwnRegistration'
  BY <1>1, <1>3, <1>4 DEF Inv, Types, OwnRegistration, Inside
<1>8. Company'
  BY <1>3, <1>4 DEF Company
<1>9. OwnBuffer'
  BY <1>1, <1>4 DEF Inv, Types, OwnBuffer, Inside
<1>. QED
  BY <1>5, <1>6, <1>7, <1>8, <1>9 DEF Inv

\* A thread that stays inside and receives nothing.
LEMMA MovingKeeps ==
  ASSUME Inv, NEW w \in Inside, NEW p, p \in {"waiting", "timeout", "aborted", "failed"},
         pc' = [pc EXCEPT ![w] = p], "close" \notin met[w] => waitsOn'[w] = event,
         waitsOn' \in [Waiters -> Nat], \A v \in Waiters \ {w} : waitsOn'[v] = waitsOn[v],
         UNCHANGED <<dev, event, lastReg, nodemap, queue, buffer, got, ret, met>>
  PROVE  Inv'
<1>1. w \in Waiters /\ Inside' = Inside
  BY DEF Inv, Types, Inside
<1>2. Types' /\ DeviceInv' /\ Company' /\ OwnBuffer'
  BY <1>1 DEF Inv, Types, Points, DeviceInv, Company, OwnBuffer
<1>3. OwnRegistration'
  BY <1>1 DEF Inv, Types, OwnRegistration, Inside
<1>. QED
  BY <1>2, <1>3 DEF Inv

LEMMA WaitKeeps == ASSUME Inv, NEW w \in Waiters, Wait(w) PROVE Inv'
<1>1. /\ w \in Inside /\ pc' = [pc EXCEPT ![w] = "waiting"]
      /\ waitsOn' = [waitsOn EXCEPT ![w] = event]
      /\ UNCHANGED <<dev, event, lastReg, nodemap, queue, buffer, got, ret, met>>
  BY DEF Wait, devVars, prodVars, Inside
<1>2. waitsOn' \in [Waiters -> Nat] /\ waitsOn'[w] = event
  BY <1>1 DEF Inv, Types
<1>3. \A v \in Waiters \ {w} : waitsOn'[v] = waitsOn[v]
  BY <1>1 DEF Inv, Types
<1>. QED
  BY <1>1, <1>2, <1>3, MovingKeeps

LEMMA EndKeeps ==
  ASSUME Inv, NEW w \in Waiters, Timeout(w) \/ Killed(w) \/ Unregistered(w) \/ WaitFails(w)
  PROVE  Inv'
<1>1. /\ pc[w] = "waiting"
      /\ UNCHANGED <<dev, event, lastReg, nodemap, queue, buffer, got, ret, met, waitsOn>>
  BY DEF Timeout, Killed, Unregistered, WaitFails, devVars, prodVars
<1>2. PICK p \in {"waiting", "timeout", "aborted", "failed"} : pc' = [pc EXCEPT ![w] = p]
  BY DEF Timeout, Killed, Unregistered, WaitFails
<1>3. w \in Inside /\ ("close" \notin met[w] => waitsOn[w] = event)
  BY <1>1 DEF Inv, OwnRegistration, Inside
<1>4. waitsOn' \in [Waiters -> Nat]
  BY <1>1 DEF Inv, Types
<1>. QED
  BY <1>1, <1>2, <1>3, <1>4, MovingKeeps

LEMMA ReceiveKeeps == ASSUME Inv, NEW w \in Waiters, Receive(w) PROVE Inv'
<1>1. /\ pc[w] = "waiting" /\ waitsOn[w] = event /\ event # 0 /\ queue # <<>>
      /\ buffer' = Head(queue) /\ queue' = Tail(queue)
      /\ got' = [got EXCEPT ![w] = Head(queue)]
      /\ pc' = [pc EXCEPT ![w] = "received"]
      /\ UNCHANGED <<dev, event, lastReg, nodemap, waitsOn, ret, met>>
  BY DEF Receive, Registered, devVars
<1>2. Head(queue) \in Nat \X Nat /\ Head(queue)[2] = event
  BY <1>1 DEF Inv, Types, DeviceInv
<1>3. queue' \in Seq(Nat \X Nat) /\ \A k \in 1..Len(queue') : queue'[k][2] = event
  BY <1>1 DEF Inv, Types, DeviceInv
<1>4. w \in Inside /\ Inside' = Inside
  BY <1>1 DEF Inv, Types, Inside
<1>5. Types'
  BY <1>1, <1>2, <1>3 DEF Inv, Types, Points
<1>6. DeviceInv'
  BY <1>1, <1>3 DEF Inv, DeviceInv
<1>7. OwnRegistration'
  BY <1>1, <1>2, <1>4 DEF Inv, Types, OwnRegistration, Inside
<1>8. Company'
  BY <1>1, <1>4 DEF Inv, Company
<1>9. OwnBuffer'
  BY <1>1, <1>4 DEF Inv, Types, OwnBuffer, Company, Inside
<1>. QED
  BY <1>5, <1>6, <1>7, <1>8, <1>9 DEF Inv

LEMMA FinishKeeps ==
  ASSUME Inv, NEW w \in Waiters, NEW r \in Int, Finish(w, r),
         nodemap' = nodemap \/ event # 0
  PROVE  Inv'
<1>1. /\ pc' = [pc EXCEPT ![w] = "idle"]
      /\ ret' = [ret EXCEPT ![w] = r]
      /\ waitsOn' = [waitsOn EXCEPT ![w] = 0]
      /\ got' = [got EXCEPT ![w] = Cleared]
      /\ met' = [met EXCEPT ![w] = {}]
      /\ UNCHANGED <<dev, event, lastReg, queue, buffer>>
  BY DEF Finish, prodVars
<1>2. Inside' = Inside \ {w}
  BY <1>1 DEF Inv, Types, Inside
<1>3. \A v \in Waiters \ {w} : /\ pc'[v] = pc[v] /\ waitsOn'[v] = waitsOn[v]
                             /\ got'[v] = got[v] /\ met'[v] = met[v]
  BY <1>1 DEF Inv, Types
<1>4. Types'
  <2>1. Cleared \in Nat \X Nat
    BY DEF Cleared
  <2>. HIDE DEF Cleared
  <2>. QED
    BY <1>1, <2>1 DEF Inv, Types, Points
<1>5. DeviceInv'
  BY <1>1 DEF Inv, DeviceInv
<1>6. OwnRegistration' /\ Company'
  BY <1>1, <1>2, <1>3 DEF Inv, OwnRegistration, Company, Inside
<1>7. OwnBuffer'
  BY <1>1, <1>3 DEF Inv, Types, OwnBuffer
<1>. QED
  BY <1>4, <1>5, <1>6, <1>7 DEF Inv

LEMMA ReturnsKeeps == ASSUME Inv, NEW w \in Waiters, Returns(w) PROVE Inv'
<1>1. PICK r \in Int : Finish(w, r) /\ (nodemap' = nodemap \/ event # 0)
  <2>1. buffer[1] \in Int
    BY DEF Inv, Types
  <2>. QED
    BY <2>1 DEF Returns, ReturnNothing, ReturnEvent, TimedOut, Aborted, Throws
<1>. QED
  BY <1>1, FinishKeeps

LEMMA NotEnabledKeeps == ASSUME Inv, NEW w \in Waiters, NotEnabled(w) PROVE Inv'
<1>1. UNCHANGED <<dev, event, lastReg, nodemap, queue, buffer, pc, waitsOn, got, met>>
  BY DEF NotEnabled, devVars, prodVars
<1>2. Types'
  BY <1>1 DEF Inv, Types, NotEnabled, Disabled
<1>. QED
  BY <1>1, <1>2 DEF Inv, DeviceInv, OwnRegistration, Company, OwnBuffer, Inside

LEMMA InvStep == Inv /\ [Next]_vars => Inv'
<1>1. ASSUME Inv, Next PROVE Inv'
  <2>1. CASE Open \/ EnableModuleEvents \/ Close \/ AbortWaitingForModuleEvents \/ Fire
    BY <1>1, <2>1, OpenKeeps, EnableKeeps, CloseKeeps, AbortKeeps, FireKeeps
  <2>2. ASSUME NEW w \in Waiters,
               \/ NotEnabled(w) \/ Check(w) \/ Wait(w) \/ Receive(w) \/ Timeout(w)
               \/ Killed(w) \/ Unregistered(w) \/ WaitFails(w) \/ Returns(w)
        PROVE  Inv'
    BY <1>1, <2>2, NotEnabledKeeps, CheckKeeps, WaitKeeps, ReceiveKeeps, EndKeeps, ReturnsKeeps
  <2>. QED
    BY <1>1, <2>1, <2>2 DEF Next
<1>2. ASSUME Inv, UNCHANGED vars PROVE Inv'
  BY <1>2 DEF Inv, Types, DeviceInv, OwnRegistration, Company, OwnBuffer, Inside,
             vars, devVars, prodVars, callVars
<1>. QED
  BY <1>1, <1>2

LEMMA InvHolds == Spec => []Inv
  BY InvInit, InvStep, PTL DEF Spec

-----------------------------------------------------------------------------
(* The results. *)

\* No thread brings the local node map of a closed device back
\* (Device::getModuleEvent after Device::close).
THEOREM NodemapNeedsDeviceHolds == Spec => []NodemapNeedsDevice
<1>1. Inv => NodemapNeedsDevice
  BY DEF Inv, DeviceInv, NodemapNeedsDevice
<1>. QED
  BY <1>1, InvHolds, PTL

\* The handle that getModuleEvent() reads without the mutex is the one it has
\* checked, unless the device is closed during the call.
THEOREM OwnRegistrationHolds == Spec => []OwnRegistration
<1>1. Inv => OwnRegistration
  BY DEF Inv
<1>. QED
  BY <1>1, InvHolds, PTL

\* A wait is aborted by abortWaitingForModuleEvents() or close() only, and a
\* thread without company returns the event it was given.
THEOREM EndsForItsOwnReasonHolds == Spec => EndsForItsOwnReason
<1>. DEFINE Ends(w) ==
        /\ pc[w] = "waiting" /\ pc'[w] = "aborted"
             => kill = "pending" \/ "close" \in met[w]
        /\ pc[w] = "received" /\ pc'[w] = "idle" /\ "thread" \notin met[w]
             => ret'[w] \in {got[w][1], Throws}
<1>1. ASSUME Inv, Next, NEW w \in Waiters PROVE Ends(w)
  <2>1. CASE pc' = pc
    BY <2>1
  <2>2. CASE \E v \in Waiters \ {w}, p \in Points : pc' = [pc EXCEPT ![v] = p]
    BY <1>1, <2>2 DEF Inv, Types
  <2>3. CASE Check(w) \/ Wait(w) \/ Receive(w) \/ Timeout(w) \/ WaitFails(w)
    BY <1>1, <2>3 DEF Inv, Types, Check, Wait, Receive, Timeout, WaitFails
  <2>4. CASE Killed(w)
    BY <1>1, <2>4 DEF Inv, Types, Killed
  <2>5. CASE Unregistered(w)
    BY <1>1, <2>5 DEF Inv, Types, Unregistered, Registered, OwnRegistration, Inside
  <2>6. CASE ReturnNothing(w)
    BY <1>1, <2>6 DEF Inv, Types, ReturnNothing
  <2>7. CASE ReturnEvent(w)
    <3>1. \E r \in {buffer[1], Throws} : ret' = [ret EXCEPT ![w] = r]
      BY <2>7 DEF ReturnEvent, Finish
    <3>2. "thread" \notin met[w] => buffer = got[w]
      BY <1>1, <2>7 DEF Inv, OwnBuffer, ReturnEvent
    <3>3. pc[w] = "received"
      BY <2>7 DEF ReturnEvent
    <3>. QED
      BY <1>1, <3>1, <3>2, <3>3 DEF Inv, Types
  <2>8. ASSUME NEW v \in Waiters,
               \/ NotEnabled(v) \/ Check(v) \/ Wait(v) \/ Receive(v) \/ Timeout(v)
               \/ Killed(v) \/ Unregistered(v) \/ WaitFails(v) \/ Returns(v)
        PROVE  pc' = pc \/ \E p \in Points : pc' = [pc EXCEPT ![v] = p]
    BY <2>8 DEF NotEnabled, Check, Wait, Receive, Timeout, Killed, Unregistered,
                WaitFails, Returns, ReturnNothing, ReturnEvent, Finish, Points
  <2>9. CASE Open \/ EnableModuleEvents \/ Close \/ AbortWaitingForModuleEvents \/ Fire
    <3>1. pc' = pc
      BY <2>9 DEF Open, EnableModuleEvents, Close, AbortWaitingForModuleEvents, Fire, callVars
    <3>. QED
      BY <2>1, <3>1
  <2>10. CASE NotEnabled(w)
    BY <2>1, <2>10 DEF NotEnabled
  <2>. HIDE DEF Ends
  <2>11. ASSUME NEW v \in Waiters,
               \/ NotEnabled(v) \/ Check(v) \/ Wait(v) \/ Receive(v) \/ Timeout(v)
               \/ Killed(v) \/ Unregistered(v) \/ WaitFails(v) \/ Returns(v)
        PROVE  Ends(w)
    BY <2>1, <2>2, <2>3, <2>4, <2>5, <2>6, <2>7, <2>8, <2>10, <2>11 DEF Returns
  <2>. QED
    BY <1>1, <2>9, <2>11 DEF Next
<1>2. Inv /\ [Next]_vars => [\A w \in Waiters : Ends(w)]_vars
  BY <1>1
<1>. QED
  BY <1>2, InvHolds, PTL DEF Spec, EndsForItsOwnReason
=============================================================================
