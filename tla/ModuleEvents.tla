---------------------------- MODULE ModuleEvents ----------------------------
(***************************************************************************)
(* Module events of a local device: Device::getModuleEvent() in threads of *)
(* its own against open(), close(), enableModuleEvents() and               *)
(* abortWaitingForModuleEvents() in the main thread.                       *)
(*                                                                         *)
(* The other calls are atomic under Device::mtx.  getModuleEvent() is two  *)
(* critical sections around a call of EventGetData that runs without the   *)
(* mutex, reads Device::event without it, and writes Device::event_buffer, *)
(* which all threads share.                                                *)
(***************************************************************************)
EXTENDS Integers, Sequences

CONSTANTS
  Waiters,   \* threads that call getModuleEvent()
  Events,    \* ids of the producer's events
  MaxReg,    \* bound on calls of GCRegisterEvent
  MaxQueue   \* bound on the events in the producer's queue

ASSUME EventsAssumption == Events \subseteq Nat \ {0}
ASSUME BoundsAssumption == MaxReg \in Nat \ {0} /\ MaxQueue \in Nat \ {0}

VARIABLES
  dev,        \* Device::dev: "open" or "closed"
  event,      \* Device::event: the number of the registration, or 0
  lastReg,    \* registrations so far
  nodemap,    \* the local node map: "allocated" or "none"
  buffer,     \* Device::event_buffer: an event, or Cleared
  queue,      \* producer: events of the current registration
  kill,       \* producer: "pending" if EventKill has not met a wait yet
  pc,         \* where a thread is in getModuleEvent()
  limit,      \* its timeout: "finite" or "infinite"
  waitsOn,    \* the registration it has passed to EventGetData
  got,        \* the event EventGetData has written for it
  ret,        \* what its last call has returned
  met         \* what has happened in the device since its call began

devVars == <<dev, event, lastReg, nodemap>>
prodVars == <<queue, kill>>
callVars == <<pc, limit, waitsOn, got, ret, met>>
vars == <<devVars, prodVars, buffer, callVars>>

\* An event is an id and the registration it was queued for.
Items == Events \X (1..MaxReg)
Cleared == <<0, 0>>

Init ==
  /\ dev = "closed" /\ event = 0 /\ lastReg = 0 /\ nodemap = "none"
  /\ buffer = Cleared
  /\ queue = <<>> /\ kill = "none"
  /\ pc = [w \in Waiters |-> "idle"]
  /\ limit = [w \in Waiters |-> "finite"]
  /\ waitsOn = [w \in Waiters |-> 0]
  /\ got = [w \in Waiters |-> Cleared]
  /\ ret = [w \in Waiters |-> 0]
  /\ met = [w \in Waiters |-> {}]

\* Results that are no event id; the last one stands for an exception.  A name
\* with a suffix is a variant of the definition that follows it, with a mistake
\* some property has to notice.
TimedOut == -1
Aborted == -2
Disabled == -3
Throws == -4

Inside == {w \in Waiters : pc[w] # "idle"}

\* Tells the threads in ws that m has happened.
Tell(ws, m) ==
  met' = [w \in Waiters |-> IF w \in ws THEN met[w] \cup {m} ELSE met[w]]

-----------------------------------------------------------------------------
(* The main thread. *)

Open ==
  /\ dev = "closed"
  /\ dev' = "open" /\ event' = 0
  /\ UNCHANGED <<lastReg, nodemap, buffer, prodVars, callVars>>

\* Registers again although events are enabled.
EnableModuleEvents_Again ==
  /\ dev = "open" /\ lastReg < MaxReg
  /\ lastReg' = lastReg + 1 /\ event' = lastReg'
  /\ UNCHANGED <<dev, nodemap, buffer, prodVars, callVars>>

EnableModuleEvents ==
  /\ dev = "open" /\ event = 0 /\ lastReg < MaxReg
  /\ lastReg' = lastReg + 1 /\ event' = lastReg'
  /\ UNCHANGED <<dev, nodemap, buffer, prodVars, callVars>>

Close ==
  /\ dev = "open"
  /\ dev' = "closed" /\ event' = 0 /\ nodemap' = "none"
  /\ queue' = <<>> /\ kill' = "none"
  /\ Tell(Inside, "close")
  /\ UNCHANGED <<lastReg, buffer, pc, limit, waitsOn, got, ret>>

\* EventKill ends one wait, the next one if nobody waits.
AbortWaitingForModuleEvents ==
  /\ event # 0
  /\ kill' = "pending"
  /\ Tell(Inside, "abort")
  /\ UNCHANGED <<devVars, queue, buffer, pc, limit, waitsOn, got, ret>>

-----------------------------------------------------------------------------
(* getModuleEvent(). *)

NotEnabled(w) ==
  /\ pc[w] = "idle" /\ event = 0
  /\ ret' = [ret EXCEPT ![w] = Disabled]
  /\ UNCHANGED <<devVars, prodVars, buffer, pc, limit, waitsOn, got, met>>

\* First critical section: the shared buffer is cleared.
Check(w) ==
  /\ pc[w] = "idle" /\ event # 0
  /\ buffer' = Cleared
  /\ pc' = [pc EXCEPT ![w] = "checked"]
  /\ \E l \in {"finite", "infinite"} : limit' = [limit EXCEPT ![w] = l]
  /\ ret' = [ret EXCEPT ![w] = 0]
  /\ met' = [v \in Waiters |->
              IF v = w THEN (IF Inside = {} THEN {} ELSE {"thread"})
              ELSE IF v \in Inside THEN met[v] \cup {"thread"} ELSE met[v]]
  /\ UNCHANGED <<devVars, prodVars, waitsOn, got>>

\* The event is flushed before the wait, a kill included.
Wait_Flushes(w) ==
  /\ pc[w] = "checked"
  /\ pc' = [pc EXCEPT ![w] = "waiting"]
  /\ waitsOn' = [waitsOn EXCEPT ![w] = event]
  /\ queue' = <<>> /\ kill' = "none"
  /\ UNCHANGED <<devVars, buffer, limit, got, ret, met>>

\* Without the mutex: event is read and passed to EventGetData.
Wait(w) ==
  /\ pc[w] = "checked"
  /\ pc' = [pc EXCEPT ![w] = "waiting"]
  /\ waitsOn' = [waitsOn EXCEPT ![w] = event]
  /\ UNCHANGED <<devVars, prodVars, buffer, limit, got, ret, met>>

Registered(w) == waitsOn[w] = event /\ event # 0

Receive(w) ==
  /\ pc[w] = "waiting" /\ Registered(w) /\ queue # <<>>
  /\ buffer' = Head(queue) /\ queue' = Tail(queue)
  /\ got' = [got EXCEPT ![w] = Head(queue)]
  /\ pc' = [pc EXCEPT ![w] = "received"]
  /\ UNCHANGED <<devVars, kill, limit, waitsOn, ret, met>>

Timeout(w) ==
  /\ pc[w] = "waiting" /\ Registered(w) /\ limit[w] = "finite"
  /\ pc' = [pc EXCEPT ![w] = "timeout"]
  /\ UNCHANGED <<devVars, prodVars, buffer, limit, waitsOn, got, ret, met>>

Killed(w) ==
  /\ pc[w] = "waiting" /\ Registered(w) /\ kill = "pending"
  /\ kill' = "none"
  /\ pc' = [pc EXCEPT ![w] = "aborted"]
  /\ UNCHANGED <<devVars, queue, buffer, limit, waitsOn, got, ret, met>>

\* The registration has ended while the thread waits.
Unregistered(w) ==
  /\ pc[w] = "waiting" /\ ~Registered(w)
  /\ pc' = [pc EXCEPT ![w] = "aborted"]
  /\ UNCHANGED <<devVars, prodVars, buffer, limit, waitsOn, got, ret, met>>

\* Any other error, the one for a null or unregistered handle included.
WaitFails(w) ==
  /\ pc[w] = "waiting"
  /\ pc' = [pc EXCEPT ![w] = "failed"]
  /\ UNCHANGED <<devVars, prodVars, buffer, limit, waitsOn, got, ret, met>>

\* Second critical section.
Finish(w, result) ==
  /\ pc' = [pc EXCEPT ![w] = "idle"]
  /\ ret' = [ret EXCEPT ![w] = result]
  /\ limit' = [limit EXCEPT ![w] = "finite"]
  /\ waitsOn' = [waitsOn EXCEPT ![w] = 0]
  /\ got' = [got EXCEPT ![w] = Cleared]
  /\ met' = [met EXCEPT ![w] = {}]
  /\ UNCHANGED <<dev, event, lastReg, prodVars, buffer>>

ReturnNothing(w) ==
  /\ \/ pc[w] = "timeout" /\ Finish(w, TimedOut)
     \/ pc[w] = "aborted" /\ Finish(w, Aborted)
     \/ pc[w] = "failed" /\ Finish(w, Throws)
  /\ UNCHANGED nodemap

\* The failure of EventGetDataInfo is not looked at.
ReturnEvent_Unchecked(w) ==
  /\ pc[w] = "received"
  /\ nodemap' = "allocated"
  /\ Finish(w, buffer[1])

\* The buffer is cleared after the wait, not before it.
ReturnEvent_Cleared(w) ==
  /\ pc[w] = "received"
  /\ \/ event # 0 /\ nodemap' = "allocated" /\ Finish(w, Cleared[1])
     \/ Finish(w, Throws) /\ UNCHANGED nodemap

\* EventGetDataInfo takes the event apart; it needs a registered event and the
\* data of one, and may fail by itself.
ReturnEvent(w) ==
  /\ pc[w] = "received"
  /\ \/ event # 0 /\ nodemap' = "allocated" /\ Finish(w, buffer[1])
     \/ Finish(w, Throws) /\ UNCHANGED nodemap

Fire ==
  /\ event # 0 /\ Len(queue) < MaxQueue
  /\ \E e \in Events : queue' = Append(queue, <<e, event>>)
  /\ UNCHANGED <<devVars, kill, buffer, callVars>>

Returns(w) == ReturnNothing(w) \/ ReturnEvent(w)

Next ==
  \/ Open \/ EnableModuleEvents \/ Close \/ AbortWaitingForModuleEvents \/ Fire
  \/ \E w \in Waiters :
        \/ NotEnabled(w) \/ Check(w) \/ Wait(w) \/ Receive(w) \/ Timeout(w)
        \/ Killed(w) \/ Unregistered(w) \/ WaitFails(w) \/ Returns(w)

Spec == Init /\ [][Next]_vars

\* A thread runs on; EventGetData answers a kill, an unregistered event and
\* a timeout.
Fairness ==
  \A w \in Waiters :
     /\ WF_vars(Wait(w)) /\ WF_vars(Returns(w))
     /\ WF_vars(Timeout(w)) /\ WF_vars(Killed(w)) /\ WF_vars(Unregistered(w))

FairSpec == Spec /\ Fairness

-----------------------------------------------------------------------------
(* Properties. *)

\* A thread that comes back after the device has been closed does not bring
\* the local node map back: it never refers to a closed device.
NodemapNeedsDevice == nodemap = "allocated" => dev = "open"

\* The handle that is read without the mutex is the one that was checked, and
\* the event is taken from its queue, if the device is not closed meanwhile.
OwnRegistration ==
  \A w \in Inside : "close" \notin met[w] =>
    /\ event # 0
    /\ pc[w] # "checked" => waitsOn[w] = event
    /\ pc[w] = "received" => got[w][2] = event

\* A wait ends with -2 only if somebody has called abort, or close during the
\* call: the handle waited on is never replaced by another registration.  Two
\* threads share event_buffer, but one that is alone in getModuleEvent() returns
\* the event that EventGetData gave it, or throws.
EndsForItsOwnReason ==
  [][\A w \in Waiters :
        /\ pc[w] = "waiting" /\ pc'[w] = "aborted"
             => kill = "pending" \/ "close" \in met[w]
        /\ pc[w] = "received" /\ pc'[w] = "idle" /\ "thread" \notin met[w]
             => ret'[w] \in {got[w][1], Throws}]_vars

\* A thread that is alone in getModuleEvent() when abort is called returns,
\* also when it has not begun to wait yet.
AbortReturns ==
  \A w \in Waiters :
    "abort" \in met[w] /\ pc[w] # "idle"
      ~> pc[w] = "idle" \/ "thread" \in met[w] \/ "close" \in met[w]
=============================================================================
