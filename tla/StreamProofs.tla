---------------------------- MODULE StreamProofs ----------------------------
(***************************************************************************)
(* Proofs about Stream, for any set of buffers, any buffer counts and any  *)
(* nesting of open() calls, and about the tool gc_stream (GrabLoop) on top *)
(* of it, for any number of rounds and retries.                            *)
(***************************************************************************)
EXTENDS GrabLoop, FiniteSetTheorems, TLAPS

-----------------------------------------------------------------------------
(* The inductive invariant. *)

\* A registered event belongs to an open stream of an open device, with
\* exactly bn announced buffers; without one nothing is announced.
EventInv ==
  /\ event = "live" => /\ stream = "live" /\ dev = "open"
                       /\ bn > 0 /\ Cardinality(announced) = bn
  /\ event # "live" => announced = {} /\ engine = "idle"
  /\ bn = 0 => event = "null"

\* While grab() waits, no buffer is lent.
WaitInv ==
  waiting # "no" => /\ held = None /\ bn > 0 /\ event # "null"
                    /\ Disciplined => told = "started"

\* A closed device has no locked parameters.
DeviceInv == dev = "closed" => params = "free"

\* After a stop that returned no buffer is counted, whatever the application
\* does; a start that returned has a registered event until an application
\* without discipline closes the device, and only after it a buffer is lent.
ToldInv ==
  /\ told = "stopped" => bn = 0
  /\ Disciplined /\ told = "started" => event = "live"
  /\ Disciplined /\ held # None => told = "started"

\* What is known of an application that meets the null node map.
CrashInv == Disciplined /\ ret[2] = "crash" => CrashOnlyAfterError

StreamInv ==
  /\ EventInv /\ WaitInv /\ DeviceInv /\ ToldInv
  /\ Ownership /\ HeldIsValid /\ ChunksOfHeldBuffer
  /\ FailedStartIsClean /\ LockedWhileStreaming /\ CrashInv

-----------------------------------------------------------------------------
(* Type correctness. *)

LEMMA StopDoneType ==
  ASSUME TypeOK, StopDone
  PROVE  /\ held' \in Buffers \cup {None} /\ attachedTo' \in Buffers \cup {None}
         /\ bn' \in Nat /\ event' \in Handles
         /\ link' \in {"up", "faulty"} /\ params' \in {"free", "locked"}
         /\ announced' \in SUBSET Buffers /\ pool' \in SUBSET Buffers
         /\ filled' \in SUBSET Buffers /\ engine' \in {"idle", "running", "limited"}
  BY DEF TypeOK, StopDone, StopProducer, RevokeBuffers, Detach, Handles, dsVars

LEMMA StopThrowsType ==
  ASSUME TypeOK, StopThrowsEarly \/ StopThrowsLate
  PROVE  /\ held' \in Buffers \cup {None} /\ attachedTo' \in Buffers \cup {None}
         /\ bn' \in Nat /\ event' \in Handles
         /\ link' \in {"up", "faulty"} /\ params' \in {"free", "locked"}
         /\ announced' \in SUBSET Buffers /\ pool' \in SUBSET Buffers
         /\ filled' \in SUBSET Buffers /\ engine' \in {"idle", "running", "limited"}
  BY DEF TypeOK, StopThrowsEarly, StopThrowsLate, StopProducer, RevokeBuffers,
         Detach, Handles, dsVars

\* Every call keeps the variables in their types.
LEMMA TypeStep == TypeOK /\ [Next]_vars => TypeOK'
<1> SUFFICES ASSUME TypeOK, [Next]_vars PROVE TypeOK'
  OBVIOUS
<1> USE DEF Return, Crash, Calls, Results, Handles, Detach, ProducerClosed,
            objVars, bufVars, devVars, dsVars, parent
<1>1. CASE Open
  BY <1>1, MaxOpenAssumption DEF TypeOK, Open, OpenFirst, OpenAgain
<1>2. CASE Close
  <2>1. CASE CloseNested
    BY <2>1, MaxOpenAssumption DEF TypeOK, CloseNested
  <2>2. CASE CloseLast
    BY <2>2, StopDoneType, MaxOpenAssumption DEF TypeOK, CloseLast
  <2>3. CASE CloseThrows
    BY <2>3, MaxOpenAssumption DEF TypeOK, CloseThrows
  <2>4. CASE CloseCrashes
    BY <2>4 DEF TypeOK, CloseCrashes
  <2>. QED
    BY <1>2, <2>1, <2>2, <2>3, <2>4 DEF Close
<1>3. ASSUME NEW enable \in BOOLEAN, AttachBuffers(enable) PROVE TypeOK'
  BY <1>3 DEF TypeOK, AttachBuffers
<1>4. CASE StartStreaming
  <2>1. CASE StartNotOpen
    BY <2>1 DEF TypeOK, StartNotOpen
  <2>2. CASE StartCrashes
    BY <2>2 DEF TypeOK, StartCrashes
  <2>3. CASE StartStopThrows
    BY <2>3, StopThrowsType DEF TypeOK, StartStopThrows
  <2>4. CASE StartLockThrows
    BY <2>4 DEF TypeOK, StartLockThrows, StopProducer, RevokeBuffers
  <2>5. ASSUME NEW n \in BufferCounts, StartProducerFails(n) PROVE TypeOK'
    BY <2>5, CountsAssumption DEF TypeOK, StartProducerFails
  <2>6. ASSUME NEW n \in BufferCounts, NEW ok \in BOOLEAN, StartAcquires(n, ok)
        PROVE  TypeOK'
    BY <2>6, CountsAssumption DEF TypeOK, StartAcquires
  <2>. QED
    BY <1>4, <2>1, <2>2, <2>3, <2>4, <2>5, <2>6 DEF StartStreaming
<1>5. CASE StopStreaming
  <2>1. CASE StopDone
    BY <1>5, <2>1, StopDoneType DEF TypeOK, StopStreaming
  <2>2. CASE StopThrowsEarly \/ StopThrowsLate
    BY <1>5, <2>2, StopThrowsType DEF TypeOK, StopStreaming
  <2>3. CASE StopCrashes /\ Crash("stop")
    BY <2>3 DEF TypeOK
  <2>. QED
    BY <1>5, <2>1, <2>2, <2>3 DEF StopStreaming
<1>6. CASE Grab
  BY <1>6 DEF TypeOK, Grab, GrabNotStarted, GrabRequeueFails, GrabWait
<1>7. CASE GrabReturn
  BY <1>7 DEF TypeOK, GrabReturn, GrabDeliver, GrabTimeout, GrabError, Attach
<1>8. CASE Destroy
  BY <1>8, MaxOpenAssumption DEF TypeOK, Destroy, DestroyReleases
<1>9. CASE DeviceOpen
  BY <1>9 DEF TypeOK, DeviceOpen
<1>10. CASE DeviceClose
  BY <1>10 DEF TypeOK, DeviceClose
<1>11. CASE Fill
  BY <1>11 DEF TypeOK, Fill
<1>12. CASE AcquisitionEnds
  BY <1>12 DEF TypeOK, AcquisitionEnds
<1>13. CASE UNCHANGED vars
  BY <1>13 DEF TypeOK, vars
<1>. QED
  BY <1>1, <1>2, <1>3, <1>4, <1>5, <1>6, <1>7, <1>8, <1>9, <1>10, <1>11, <1>12,
     <1>13
     DEF Next

\* Every variable keeps its type, whatever the application calls.
THEOREM TypeCorrect == Spec => []TypeOK
<1>1. Init => TypeOK
  BY MaxOpenAssumption DEF Init, TypeOK, Handles, Calls, Results
<1>2. TypeOK /\ [Next]_vars => TypeOK'
  BY TypeStep
<1>. QED
  BY <1>1, <1>2, PTL DEF Spec

-----------------------------------------------------------------------------
(* The invariant is inductive. *)

\* stopStreaming() revokes every announced buffer, not only some of them.
LEMMA RevokesAll ==
  ASSUME TypeOK, EventInv, RevokeBuffers PROVE announced' = {}
<1>1. PICK R \in SUBSET announced :
         /\ Cardinality(R) = IF bn < Cardinality(announced)
                             THEN bn ELSE Cardinality(announced)
         /\ announced' = announced \ R
  BY DEF RevokeBuffers
<1>2. CASE event = "live"
  <2>1. IsFiniteSet(announced)
    BY FS_Subset, BuffersAssumption DEF TypeOK
  <2>2. Cardinality(R) = Cardinality(announced)
    BY <1>1, <1>2 DEF EventInv, TypeOK
  <2>3. R = announced
    BY <2>1, <2>2, FS_Subset
  <2>. QED
    BY <1>1, <2>3
<1>3. CASE event # "live"
  BY <1>1, <1>3 DEF EventInv
<1>. QED
  BY <1>2, <1>3

\* What stopStreaming() has done when it returns.
LEMMA StopDoneEffect ==
  ASSUME TypeOK, EventInv, StopDone
  PROVE  /\ bn = 0 => UNCHANGED <<held, attachedTo, bn, event, link, params,
                                  announced, pool, filled, engine>>
         /\ bn # 0 => /\ held' = None /\ attachedTo' = None
                      /\ bn' = 0 /\ event' = "null"
                      /\ announced' = {} /\ pool' = {} /\ filled' = {}
                      /\ engine' = "idle" /\ params' = "free" /\ link' = link
                      /\ dev = "open"
  BY RevokesAll DEF StopDone, StopProducer, Detach, dsVars

\* What stopStreaming() has done when it throws.
LEMMA StopThrowsEffect ==
  ASSUME TypeOK, EventInv, StopThrowsEarly \/ StopThrowsLate
  PROVE  /\ bn > 0 /\ dev = "open"
         /\ held' = None /\ attachedTo' = None /\ link' = "faulty"
         /\ params' = params
         /\ \/ UNCHANGED <<bn, event, announced, pool, filled, engine>>
            \/ /\ bn' = 0 /\ event' = "null"
               /\ announced' = {} /\ pool' = {} /\ filled' = {}
               /\ engine' = "idle"
  BY RevokesAll DEF StopThrowsEarly, StopThrowsLate, StopProducer, Detach,
                    dsVars

LEMMA InvInit == Init => StreamInv
<1> SUFFICES ASSUME Init PROVE StreamInv
  OBVIOUS
<1>1. EventInv /\ WaitInv
  BY DEF Init, EventInv, WaitInv
<1>2. DeviceInv /\ ToldInv /\ Ownership /\ HeldIsValid /\ ChunksOfHeldBuffer
  BY BuffersAssumption
     DEF Init, DeviceInv, ToldInv, Ownership, HeldIsValid, ChunksOfHeldBuffer
<1>3. FailedStartIsClean /\ LockedWhileStreaming /\ CrashInv
  BY DEF Init, FailedStartIsClean, LockedWhileStreaming, CrashInv
<1>. QED
  BY <1>1, <1>2, <1>3 DEF StreamInv

\* Every call and every step of the producer keeps the invariant.
LEMMA InvStep == TypeOK /\ StreamInv /\ [Next]_vars => StreamInv'
<1> SUFFICES ASSUME TypeOK, StreamInv, [Next]_vars PROVE StreamInv'
  OBVIOUS
<1> USE BuffersAssumption
    DEF parent, Disciplined, StreamInv, EventInv, WaitInv, DeviceInv, ToldInv,
        Ownership, HeldIsValid, ChunksOfHeldBuffer, FailedStartIsClean,
        LockedWhileStreaming, CrashInv, CrashOnlyAfterError
<1>1. CASE Open
  BY <1>1 DEF TypeOK, Open, OpenFirst, OpenAgain, Return, Ready, Handles,
              bufVars, devVars, dsVars
<1>2. CASE Close
  <2>1. CASE CloseNested
    BY <1>2, <2>1 DEF Close, CloseNested, Return, Ready, bufVars, devVars,
                      dsVars
  <2>2. CASE CloseLast
    BY <1>2, <2>2, StopDoneEffect DEF TypeOK, Close, CloseLast, Return, Ready
  <2>3. CASE CloseThrows
    BY <1>2, <2>3, FS_EmptySet
       DEF TypeOK, Close, CloseThrows, Return, Ready, Detach, ProducerClosed
  <2>4. CASE CloseCrashes
    BY <1>2, <2>4 DEF TypeOK, Close, CloseCrashes, StopCrashes, Crash, Return,
                      Ready, objVars, bufVars, devVars, dsVars
  <2>. QED
    BY <1>2, <2>1, <2>2, <2>3, <2>4 DEF Close
<1>3. ASSUME NEW enable \in BOOLEAN, AttachBuffers(enable) PROVE StreamInv'
  BY <1>3 DEF TypeOK, AttachBuffers, Return, Ready, objVars, devVars, dsVars
<1>4. CASE StartStreaming
  <2>0. Ready /\ (Disciplined => dev = "open")
    BY <1>4 DEF StartStreaming
  <2>1. CASE StartNotOpen
    BY <2>0, <2>1 DEF TypeOK, StartNotOpen, Return, Ready, Detach, objVars,
                      devVars, dsVars
  <2>2. CASE StartCrashes
    BY <2>0, <2>2 DEF TypeOK, StartCrashes, Crash, Return, Ready, objVars,
                      bufVars, devVars, dsVars
  <2>3. CASE StartStopThrows
    BY <2>0, <2>3, StopThrowsEffect DEF TypeOK, StartStopThrows, Return, Ready
  <2>4. CASE StartLockThrows
    BY <2>0, <2>4, RevokesAll
       DEF TypeOK, StartLockThrows, StopProducer, Return, Ready, Detach, dsVars
  <2>5. ASSUME NEW n \in BufferCounts, StartProducerFails(n) PROVE StreamInv'
    BY <2>0, <2>5, CountsAssumption
       DEF TypeOK, StartProducerFails, Return, Ready, Detach, ProducerClosed
  <2>6. ASSUME NEW n \in BufferCounts, NEW ok \in BOOLEAN, StartAcquires(n, ok)
        PROVE  StreamInv'
    BY <2>0, <2>6, CountsAssumption
       DEF TypeOK, StartAcquires, Return, Ready, Detach
  <2>. QED
    BY <1>4, <2>1, <2>2, <2>3, <2>4, <2>5, <2>6 DEF StartStreaming
<1>5. CASE StopStreaming
  <2>1. CASE /\ StopDone /\ Return("stop", "ok") /\ told' = "stopped"
             /\ UNCHANGED <<nOpen, stream, adapter, parent, waiting>>
    <3>1. bn = 0 => StreamInv'
      BY <1>5, <2>1, StopDoneEffect DEF TypeOK, StopStreaming, Ready, Return
    <3>2. bn # 0 => StreamInv'
      BY <1>5, <2>1, StopDoneEffect DEF TypeOK, StopStreaming, Ready, Return
    <3>. QED
      BY <3>1, <3>2
  <2>2. CASE /\ StopThrowsEarly \/ StopThrowsLate
             /\ Return("stop", "throw") /\ told' = "stopThrew"
             /\ UNCHANGED <<nOpen, stream, adapter, parent, waiting>>
    BY <1>5, <2>2, StopThrowsEffect DEF TypeOK, StopStreaming, Ready, Return
  <2>3. CASE StopCrashes /\ Crash("stop")
    BY <1>5, <2>3 DEF TypeOK, StopStreaming, StopCrashes, Crash, Return, Ready,
       objVars, bufVars, devVars, dsVars
  <2>. QED
    BY <1>5, <2>1, <2>2, <2>3 DEF StopStreaming
<1>6. CASE Grab
  <2>1. CASE GrabNotStarted
    BY <2>1 DEF TypeOK, GrabNotStarted, Return, Ready, objVars, bufVars,
                devVars, dsVars
  <2>2. CASE GrabRequeueFails
    BY <2>2 DEF TypeOK, GrabRequeueFails, Return, Ready, Detach, objVars,
                devVars, dsVars
  <2>3. CASE GrabWait
    BY <1>6, <2>3 DEF TypeOK, Grab, GrabWait, Ready, Detach, objVars, devVars
  <2>. QED
    BY <1>6, <2>1, <2>2, <2>3 DEF Grab
<1>7. CASE GrabReturn
  <2>1. CASE GrabDeliver
    BY <2>1 DEF TypeOK, GrabDeliver, Attach, Return, objVars, devVars
  <2>2. CASE GrabTimeout
    BY <2>2 DEF TypeOK, GrabTimeout, Return, objVars, bufVars, devVars, dsVars
  <2>3. CASE GrabError
    BY <2>3 DEF TypeOK, GrabError, Return, objVars, bufVars, devVars, dsVars
  <2>. QED
    BY <1>7, <2>1, <2>2, <2>3 DEF GrabReturn
<1>8. CASE Destroy
  BY <1>8, FS_EmptySet
     DEF TypeOK, Destroy, DestroyReleases, StopCrashes, Crash, Return, Ready,
         ProducerClosed, objVars, bufVars, devVars, dsVars
<1>9. CASE DeviceOpen
  BY <1>9 DEF TypeOK, DeviceOpen, Return, Ready, objVars, bufVars, dsVars
<1>10. CASE DeviceClose
  BY <1>10 DEF TypeOK, DeviceClose, Return, Ready, ProducerClosed, bufVars
<1>11. CASE Fill
  BY <1>11 DEF TypeOK, Fill, objVars, bufVars, devVars
<1>12. CASE AcquisitionEnds
  BY <1>12 DEF TypeOK, AcquisitionEnds, objVars, bufVars, devVars
<1>13. CASE UNCHANGED vars
  BY <1>13 DEF vars, objVars, bufVars, devVars, dsVars
<1>. QED
  BY <1>1, <1>2, <1>3, <1>4, <1>5, <1>6, <1>7, <1>8, <1>9, <1>10, <1>11, <1>12,
     <1>13
     DEF Next

\* TypeOK and StreamInv together are an inductive invariant.
LEMMA Invariance == Spec => [](TypeOK /\ StreamInv)
  BY TypeCorrect, InvInit, InvStep, PTL DEF Spec

-----------------------------------------------------------------------------
(* The properties. *)

\* The producer never fills a buffer the application is reading, the buffer of
\* a disciplined application stays announced while it is lent, and chunks are
\* read from that buffer only.
THEOREM LentBufferHolds == Spec => []LentBuffer
<1>1. StreamInv => LentBuffer
  BY DEF StreamInv, LentBuffer
<1>. QED
  BY <1>1, Invariance, PTL

\* Announced buffers and a running acquisition exist only under a registered
\* event of an open stream, and bn counts the buffers.
THEOREM NothingLeaksHolds == Spec => []NothingLeaks
<1>1. TypeOK /\ StreamInv => NothingLeaks
  BY DEF StreamInv, EventInv, NothingLeaks, TypeOK
<1>. QED
  BY <1>1, Invariance, PTL

\* A failed start leaves nothing behind and parameters are locked exactly while
\* streaming, as long as every access to the device succeeds.
THEOREM CleanWithoutFaults == Spec => []CleanWhileLinkIsUp
<1>1. StreamInv => CleanWhileLinkIsUp
  BY DEF StreamInv, CleanWhileLinkIsUp
<1>. QED
  BY <1>1, Invariance, PTL

\* A disciplined application meets the null node map or a stale event only if
\* its last start or stop threw; what one that returned told it is true.
THEOREM DisciplineSuffices == Spec => []SafeWhenDisciplined
<1>1. TypeOK /\ StreamInv => SafeWhenDisciplined
  <2> SUFFICES ASSUME TypeOK, StreamInv, Disciplined
               PROVE  /\ CrashOnlyAfterError /\ StaleEventOnlyAfterError
                      /\ ToldIsTrue
    BY DEF SafeWhenDisciplined
  <2>1. EventInv /\ ToldInv /\ CrashInv
    BY DEF StreamInv
  <2>2. ToldIsTrue
    BY <2>1 DEF EventInv, ToldInv, ToldIsTrue
  <2>3. CrashOnlyAfterError
    BY <2>1 DEF CrashInv, CrashOnlyAfterError
  <2>4. StaleEventOnlyAfterError
    BY <2>1, <2>2 DEF EventInv, ToldIsTrue, StaleEventOnlyAfterError, TypeOK
  <2>. QED
    BY <2>2, <2>3, <2>4
<1>. QED
  BY <1>1, Invariance, PTL

-----------------------------------------------------------------------------
(* A buffer leaves circulation only in a call that throws. *)

LEMMA LossStep ==
  ASSUME TypeOK, StreamInv, [Next]_vars,
         NEW b \in announced \cap announced', b \in Circulating,
         b \notin Circulating'
  PROVE  ret'[2] = "throw"
<1> USE DEF StreamInv, EventInv, WaitInv, Ownership, Circulating
<1>1. CASE Open
  BY <1>1 DEF Open, OpenFirst, OpenAgain, bufVars, dsVars
<1>2. CASE Close
  <2>1. CASE CloseNested \/ CloseCrashes
    BY <2>1 DEF CloseNested, CloseCrashes, Crash, bufVars, dsVars
  <2>2. CASE CloseLast
    BY <2>2, StopDoneEffect DEF TypeOK, CloseLast
  <2>3. CASE CloseThrows
    BY <2>3 DEF CloseThrows, ProducerClosed
  <2>. QED
    BY <1>2, <2>1, <2>2, <2>3 DEF Close
<1>3. ASSUME NEW enable \in BOOLEAN, AttachBuffers(enable) PROVE FALSE
  BY <1>3 DEF AttachBuffers, dsVars
<1>4. CASE StartStreaming
  <2>1. CASE StartNotOpen \/ StartStopThrows \/ StartLockThrows
    BY <2>1 DEF StartNotOpen, StartStopThrows, StartLockThrows, Return
  <2>2. CASE StartCrashes
    BY <2>2 DEF StartCrashes, Crash, bufVars, dsVars
  <2>3. ASSUME NEW n \in BufferCounts, StartProducerFails(n)
        PROVE  ret'[2] = "throw"
    BY <2>3 DEF StartProducerFails, Return
  <2>4. ASSUME NEW n \in BufferCounts, NEW ok \in BOOLEAN, StartAcquires(n, ok)
        PROVE  FALSE
    BY <2>4 DEF StartAcquires
  <2>. QED
    BY <1>4, <2>1, <2>2, <2>3, <2>4 DEF StartStreaming
<1>5. CASE StopStreaming
  <2>1. CASE StopDone
    BY <2>1, StopDoneEffect DEF TypeOK
  <2>2. CASE (StopThrowsEarly \/ StopThrowsLate) /\ Return("stop", "throw")
    BY <2>2 DEF Return
  <2>3. CASE Crash("stop")
    BY <2>3 DEF Crash, bufVars, dsVars
  <2>. QED
    BY <1>5, <2>1, <2>2, <2>3 DEF StopStreaming
<1>6. CASE Grab
  BY <1>6 DEF TypeOK, Grab, GrabNotStarted, GrabRequeueFails, GrabWait, Return,
              bufVars, dsVars, Detach
<1>7. CASE GrabReturn
  BY <1>7, BuffersAssumption
     DEF TypeOK, GrabReturn, GrabDeliver, GrabTimeout, GrabError, Attach,
         bufVars, dsVars
<1>8. CASE Destroy
  BY <1>8 DEF Destroy, DestroyReleases, ProducerClosed, Crash, bufVars, dsVars
<1>9. CASE DeviceOpen \/ DeviceClose
  BY <1>9 DEF DeviceOpen, DeviceClose, ProducerClosed, bufVars, dsVars
<1>10. CASE Fill \/ AcquisitionEnds
  BY <1>10 DEF Fill, AcquisitionEnds, bufVars
<1>11. CASE UNCHANGED vars
  BY <1>11 DEF vars, bufVars, dsVars
<1>. QED
  BY <1>1, <1>2, <1>3, <1>4, <1>5, <1>6, <1>7, <1>8, <1>9, <1>10, <1>11
     DEF Next

\* No buffer drops out of circulation unless the call throws.
THEOREM LossIsReportedHolds == Spec => LossIsReported
<1>1. TypeOK /\ StreamInv /\ [Next]_vars =>
        [\A b \in (announced \cap announced') \cap Circulating :
           b \notin Circulating' => ret'[2] = "throw"]_vars
  BY LossStep
<1>. QED
  BY <1>1, Invariance, PTL DEF Spec, LossIsReported

-----------------------------------------------------------------------------
(* Stream implements BufferLoan. *)

owners == [b \in Buffers |-> OwnerOf(b)]

\* The owners depend on the producer's sets and the lent buffer only.
LEMMA SameOwners ==
  ASSUME UNCHANGED <<announced, pool, filled, held>>
  PROVE  owners' = owners
  BY DEF owners, OwnerOf

\* Revoking all buffers, and announcing and queueing those of S.
LEMMA RestartOwners ==
  ASSUME announced' = pool', filled' = {} PROVE Loan!Restart(announced')
  BY DEF Loan!Restart, OwnerOf

\* Resetting the buffer's handle loses the lent buffer, if there is one.
LEMMA DropOwners ==
  ASSUME Ownership, TypeOK, held' = None, UNCHANGED <<announced, pool, filled>>
  PROVE  owners' = owners \/ \E b \in Buffers : Loan!Lose(b)
<1>1. CASE held \in announced
  <2>1. held \in Buffers /\ OwnerOf(held) = "application"
    BY <1>1 DEF Ownership, OwnerOf, TypeOK
  <2>2. \A b \in Buffers : OwnerOf(b)' = IF b = held THEN "lost" ELSE OwnerOf(b)
    BY <1>1, BuffersAssumption DEF OwnerOf, Ownership, TypeOK
  <2>3. Loan!Lose(held)
    BY <2>1, <2>2 DEF Loan!Lose, Loan!Move
  <2>. QED
    BY <2>1, <2>3
<1>2. CASE held \notin announced
  <2>1. \A b \in Buffers : OwnerOf(b)' = OwnerOf(b)
    BY <1>2, BuffersAssumption DEF OwnerOf
  <2>. QED
    BY <2>1 DEF owners
<1>. QED
  BY <1>1, <1>2

LoanStep == owners' = owners \/ Loan!Next

LEMMA DropStep ==
  ASSUME Ownership, TypeOK, held' = None, UNCHANGED <<announced, pool, filled>>
  PROVE  LoanStep
  BY DropOwners DEF LoanStep, Loan!Next

LEMMA SameStep ==
  ASSUME UNCHANGED <<announced, pool, filled, held>> PROVE LoanStep
  BY SameOwners DEF LoanStep

LEMMA RestartStep ==
  ASSUME announced' = pool', filled' = {}, announced' \in SUBSET Buffers
  PROVE  LoanStep
  BY RestartOwners DEF LoanStep, Loan!Next

LEMMA StopStep ==
  ASSUME TypeOK, StreamInv, StopDone \/ StopThrowsEarly \/ StopThrowsLate
  PROVE  LoanStep
<1> USE DEF StreamInv
<1>1. CASE StopDone /\ bn = 0
  BY <1>1, StopDoneEffect, SameStep
<1>2. CASE StopDone /\ bn # 0
  BY <1>2, StopDoneEffect, RestartStep
<1>3. CASE StopThrowsEarly \/ StopThrowsLate
  BY <1>3, StopThrowsEffect, DropStep, RestartStep
<1>. QED
  BY <1>1, <1>2, <1>3

\* Each call and each step of the producer moves buffers between owners as
\* BufferLoan allows.
LEMMA LoanSimulation == TypeOK /\ StreamInv /\ [Next]_vars => LoanStep
<1> SUFFICES ASSUME TypeOK, StreamInv, [Next]_vars PROVE LoanStep
  OBVIOUS
<1>0. Ownership /\ EventInv /\ WaitInv
  BY DEF StreamInv
<1>1. CASE Open
  BY <1>1, SameStep DEF Open, OpenFirst, OpenAgain, bufVars, dsVars
<1>2. CASE Close
  <2>1. CASE CloseNested \/ CloseCrashes
    BY <2>1, SameStep DEF CloseNested, CloseCrashes, Crash, bufVars, dsVars
  <2>2. CASE CloseLast
    BY <2>2, StopStep DEF CloseLast
  <2>3. CASE CloseThrows
    BY <2>3, RestartStep DEF CloseThrows, ProducerClosed
  <2>. QED
    BY <1>2, <2>1, <2>2, <2>3 DEF Close
<1>3. ASSUME NEW enable \in BOOLEAN, AttachBuffers(enable) PROVE LoanStep
  BY <1>3, SameStep DEF AttachBuffers, dsVars
<1>4. CASE StartStreaming
  <2>1. CASE StartNotOpen
    BY <2>1, <1>0, DropStep DEF StartNotOpen, Detach, dsVars
  <2>2. CASE StartCrashes
    BY <2>2, SameStep DEF StartCrashes, Crash, bufVars, dsVars
  <2>3. CASE StartStopThrows
    BY <2>3, StopStep DEF StartStopThrows
  <2>4. CASE StartLockThrows
    <3>1. CASE bn > 0
      BY <2>4, <3>1, <1>0, RevokesAll, RestartStep
         DEF StartLockThrows, StopProducer
    <3>2. CASE ~(bn > 0)
      BY <2>4, <3>2, <1>0, DropStep DEF StartLockThrows, Detach, dsVars
    <3>. QED
      BY <3>1, <3>2
  <2>5. ASSUME NEW n \in BufferCounts, StartProducerFails(n) PROVE LoanStep
    BY <2>5, RestartStep DEF StartProducerFails, ProducerClosed
  <2>6. ASSUME NEW n \in BufferCounts, NEW ok \in BOOLEAN, StartAcquires(n, ok)
        PROVE  LoanStep
    BY <2>6, RestartStep DEF StartAcquires
  <2>. QED
    BY <1>4, <2>1, <2>2, <2>3, <2>4, <2>5, <2>6 DEF StartStreaming
<1>5. CASE StopStreaming
  BY <1>5, StopStep, SameStep DEF StopStreaming, Crash, bufVars, dsVars
<1>6. CASE Grab
  <2>1. CASE GrabNotStarted
    BY <2>1, SameStep DEF GrabNotStarted, bufVars, dsVars
  <2>2. CASE GrabRequeueFails
    BY <2>2, <1>0, DropStep DEF GrabRequeueFails, Detach, dsVars
  <2>3. CASE GrabWait /\ held = None
    BY <2>3, SameStep DEF GrabWait
  <2>4. CASE GrabWait /\ held # None
    <3>1. held \in Buffers /\ OwnerOf(held) = "application"
      BY <2>4, <1>0 DEF GrabWait, Ownership, OwnerOf, TypeOK
    <3>2. \A b \in Buffers :
             OwnerOf(b)' = IF b = held THEN "pool" ELSE OwnerOf(b)
      BY <2>4, <1>0, BuffersAssumption
         DEF GrabWait, Detach, OwnerOf, Ownership, TypeOK
    <3>3. Loan!GiveBack(held)
      BY <3>1, <3>2 DEF Loan!GiveBack, Loan!Move
    <3>. QED
      BY <3>1, <3>3 DEF LoanStep, Loan!Next
  <2>. QED
    BY <1>6, <2>1, <2>2, <2>3, <2>4 DEF Grab
<1>7. CASE GrabReturn
  <2>1. CASE GrabDeliver
    <3>1. PICK b \in filled, complete \in BOOLEAN :
             filled' = filled \ {b} /\ Attach(b, complete)
      BY <2>1 DEF GrabDeliver
    <3>2. b \in Buffers /\ b \in announced /\ b \notin pool /\ held = None
      BY <2>1, <3>1, <1>0 DEF GrabDeliver, Ownership, WaitInv, TypeOK
    <3>3. \A c \in Buffers : OwnerOf(c) # "application"
      BY <3>2, BuffersAssumption DEF OwnerOf
    <3>4. OwnerOf(b) = "filled"
      BY <3>1, <3>2 DEF OwnerOf
    <3>5. \A c \in Buffers :
             OwnerOf(c)' = IF c = b THEN "application" ELSE OwnerOf(c)
      BY <2>1, <3>1, <3>2, BuffersAssumption DEF GrabDeliver, Attach, OwnerOf
    <3>6. Loan!Lend(b)
      BY <3>2, <3>3, <3>4, <3>5 DEF Loan!Lend, Loan!Move
    <3>. QED
      BY <3>2, <3>6 DEF LoanStep, Loan!Next
  <2>2. CASE GrabTimeout \/ GrabError
    BY <2>2, SameStep DEF GrabTimeout, GrabError, bufVars, dsVars
  <2>. QED
    BY <1>7, <2>1, <2>2 DEF GrabReturn
<1>8. CASE Destroy
  BY <1>8, SameStep, RestartStep
     DEF Destroy, DestroyReleases, ProducerClosed, Crash, bufVars, dsVars
<1>9. CASE DeviceOpen
  BY <1>9, SameStep DEF DeviceOpen, bufVars, dsVars
<1>10. CASE DeviceClose
  BY <1>10, RestartStep DEF DeviceClose, ProducerClosed
<1>11. CASE Fill
  <2>1. PICK b \in pool : pool' = pool \ {b} /\ filled' = filled \cup {b}
    BY <1>11 DEF Fill
  <2>2. b \in Buffers /\ OwnerOf(b) = "pool"
    BY <1>0, <2>1 DEF Ownership, OwnerOf, TypeOK
  <2>3. \A c \in Buffers : OwnerOf(c)' = IF c = b THEN "filled" ELSE OwnerOf(c)
    BY <1>11, <1>0, <2>1 DEF Fill, OwnerOf, Ownership, bufVars
  <2>4. Loan!Fill(b)
    BY <2>2, <2>3 DEF Loan!Fill, Loan!Move
  <2>. QED
    BY <2>2, <2>4 DEF LoanStep, Loan!Next
<1>12. CASE AcquisitionEnds
  BY <1>12, SameStep DEF AcquisitionEnds, bufVars
<1>13. CASE UNCHANGED vars
  BY <1>13, SameStep DEF vars, bufVars, dsVars
<1>. QED
  BY <1>1, <1>2, <1>3, <1>4, <1>5, <1>6, <1>7, <1>8, <1>9, <1>10, <1>11, <1>12,
     <1>13
     DEF Next

\* A data stream keeps the promise of BufferLoan, for every set of buffers and
\* for applications with and without discipline.
THEOREM ImplementsLoan == Spec => LoanKept
<1>1. Init => Loan!Init
  BY DEF Init, Loan!Init, OwnerOf
<1>2. TypeOK /\ StreamInv /\ [Next]_vars
        => [Loan!Next]_[b \in Buffers |-> OwnerOf(b)]
  BY LoanSimulation DEF LoanStep, owners
<1>. QED
  BY <1>1, <1>2, Invariance, PTL DEF Spec, LoanKept, Loan!Spec
-----------------------------------------------------------------------------
(* The tool gc_stream uses the stream as Stream describes it. *)

\* Where main() is before it has tried to start the stream's loop, inside of
\* it, and on the way out.
Preparing == {"args", "config", "streams", "attach", "start", "trigger"}
Looping   == {"round", "try", "grabbing", "store"}
Ending    == {"stop", "close", "report"}
Leaving   == {"join", "free", "devClose", "exit"}

LoopTypes ==
  /\ at \in Preparing \cup Looping \cup Ending \cup Leaving
  /\ k \in Nat /\ retry \in Int
  /\ received \in Nat /\ incomplete \in Nat /\ stored \in Nat
  /\ thread \in {"none", "poll", "command"} /\ running \in {"no", "yes"}
  /\ code \in {0, 1, 2}

\* The device is open from its lookup until it is closed, which is after the
\* stream is gone if an exception has been thrown and before it otherwise; and
\* grab() waits at one place only.
UseInv ==
  /\ app = "careless" /\ ret[2] # "crash"
  /\ dev = "open" <=> ~(at \in {"args", "exit"} \/ (at = "free" /\ code # 2))
  /\ waiting # "no" <=> at = "grabbing"

\* Where stop and close have returned, or nothing has been started: the stream
\* is not open, and has nothing left to be stopped.
StoppedInv ==
  /\ at \in {"args", "config", "streams", "exit"} => nOpen = 0
  /\ at \in {"args", "config", "streams", "attach", "start", "close", "report"}
       => told = "stopped"
  /\ at = "report" => nOpen = 0
  /\ at \in {"join", "free", "devClose"} /\ code # 2
       => nOpen = 0 /\ told = "stopped"
  /\ at = "devClose" /\ code = 2 => nOpen = 0
  /\ at \in Preparing \cup Looping \cup {"stop", "close"} => nOpen <= 1

\* The trigger thread lives from the loop to the place where it is joined.
ThreadInv == thread # "none" => at \in Looping \cup Ending \cup {"join"}

\* What is being stored is lent and has been counted as complete.
StoreInv ==
  at = "store" => held \in announced \ (pool \cup filled) /\ incomplete < received

\* A round that has stored an image has no retry left, and images have come in
\* complete buffers.
CountInv ==
  /\ incomplete <= received
  /\ stored > 0 => incomplete < received
  /\ at \in Preparing => k = 0 /\ stored = 0
  /\ at \in Looping => stored <= k \/ (at = "try" /\ stored = k + 1 /\ retry <= 0)

\* Until it is reported or an exception leaves, the exit code is 0.
CodeInv ==
  /\ at \notin Leaving => code = 0
  /\ at \in Leaving => /\ code = 1 => stored = 0
                       /\ code = 0 /\ k > 0 => incomplete < received

LoopInv ==
  /\ LoopTypes /\ UseInv /\ StoppedInv /\ ThreadInv /\ StoreInv
  /\ CountInv /\ CodeInv

\* On an open device a call of the stream returns or throws, and changes
\* neither the device nor whether grab() waits.
LEMMA CallReturns ==
  ASSUME TypeOK, dev = "open",
         \/ Open \/ Close \/ AttachBuffers(TRUE)
         \/ StartStreaming \/ StopStreaming \/ Destroy
  PROVE  /\ dev' = dev /\ app' = app /\ waiting' = waiting
         /\ ret' \in Calls \X {"ok", "throw"}
<1> USE DEF Return, Calls, objVars, bufVars, devVars, dsVars, parent
<1>1. CASE Open
  BY <1>1 DEF Open, OpenFirst, OpenAgain
<1>2. CASE Close
  BY <1>2 DEF Close, CloseNested, CloseLast, CloseThrows, CloseCrashes,
              StopCrashes, StopDone
<1>3. CASE AttachBuffers(TRUE)
  BY <1>3 DEF AttachBuffers
<1>4. CASE StartStreaming
  BY <1>4 DEF StartStreaming, StartNotOpen, StartCrashes, StartStopThrows,
              StartLockThrows, StartProducerFails, StartAcquires
<1>5. CASE StopStreaming
  BY <1>5 DEF StopStreaming, StopCrashes
<1>6. CASE Destroy
  BY <1>6 DEF Destroy, DestroyReleases, StopCrashes
<1>. QED
  BY <1>1, <1>2, <1>3, <1>4, <1>5, <1>6

\* What the calls of an open device do to the nesting of open() and to what
\* the application was told.
LEMMA CallNesting ==
  ASSUME TypeOK, dev = "open"
  PROVE  /\ Open /\ nOpen = 0 => nOpen' <= 1 /\ told' = told
         /\ AttachBuffers(TRUE) \/ StartStreaming \/ StopStreaming => nOpen' = nOpen
         /\ AttachBuffers(TRUE) => told' = told
         /\ StopStreaming /\ ret'[2] = "ok" => told' = "stopped"
         /\ Close /\ nOpen <= 1 => nOpen' = 0
         /\ Close /\ nOpen <= 1 /\ ret'[2] = "ok" => told' = "stopped"
         /\ Destroy => nOpen' = 0 /\ told' = "stopped"
<1> USE DEF Return, objVars, bufVars, devVars, dsVars, parent
<1>1. Open /\ nOpen = 0 => nOpen' <= 1 /\ told' = told
  BY DEF Open, OpenFirst, OpenAgain
<1>2. AttachBuffers(TRUE) => nOpen' = nOpen /\ told' = told
  BY DEF AttachBuffers
<1>3. StartStreaming => nOpen' = nOpen
  BY DEF StartStreaming, StartNotOpen, StartCrashes, Crash, StartStopThrows,
         StartLockThrows, StartProducerFails, StartAcquires
<1>4. StopStreaming => /\ nOpen' = nOpen
                       /\ ret'[2] = "ok" => told' = "stopped"
  BY DEF StopStreaming, StopCrashes, Crash
<1>5. Close /\ nOpen <= 1 => /\ nOpen' = 0
                             /\ ret'[2] = "ok" => told' = "stopped"
  BY DEF Close, CloseNested, CloseLast, CloseThrows, CloseCrashes, StopCrashes,
         Crash, TypeOK
<1>6. Destroy => nOpen' = 0 /\ told' = "stopped"
  BY DEF Destroy, DestroyReleases, StopCrashes
<1>. QED
  BY <1>1, <1>2, <1>3, <1>4, <1>5, <1>6

\* Every step of the tool is a call of an application without discipline, or a
\* step of the producer.
LEMMA ToolStep == app = "careless" /\ [LoopNext]_allVars => [Next]_vars
<1> SUFFICES ASSUME app = "careless", [LoopNext]_allVars PROVE [Next]_vars
  OBVIOUS
<1>1. CASE Alone
  BY <1>1
     DEF Alone, Refused, DeviceFound, Configure, NoStreams, OpenStream,
         AttachStream, StartStream, BeginRound, EndLoop, CallGrab, EndRound,
         GetComplete, GetIncomplete, GetNothing, GrabThrows, Stores,
         StoresNothing, StoreThrows, StopStream, CloseStream, Report,
         FreeStream, CloseDevice, Next, Grab, GrabReturn, Disciplined
<1>2. CASE AskTrigger \/ TellTrigger \/ JoinTrigger
  BY <1>2 DEF AskTrigger, TellTrigger, JoinTrigger
<1>3. CASE Thread \/ Interrupt \/ FillBuffer \/ Ended \/ UNCHANGED allVars
  BY <1>3 DEF Thread, Interrupt, FillBuffer, Ended, allVars, Next
<1>. QED
  BY <1>1, <1>2, <1>3 DEF LoopNext, Main

\* An application does not change its ways.
LEMMA SameApplication == [Next]_vars => app' = app
<1> SUFFICES ASSUME [Next]_vars PROVE app' = app
  OBVIOUS
<1> USE DEF Crash, objVars, bufVars, devVars, dsVars, parent
<1>1. CASE Open \/ Close \/ (\E enable \in BOOLEAN : AttachBuffers(enable))
  BY <1>1 DEF Open, OpenFirst, OpenAgain, Close, CloseNested, CloseLast,
              CloseThrows, CloseCrashes, AttachBuffers
<1>2. CASE StartStreaming \/ StopStreaming
  BY <1>2 DEF StartStreaming, StartNotOpen, StartCrashes, StartStopThrows,
              StartLockThrows, StartProducerFails, StartAcquires, StopStreaming
<1>3. CASE Grab \/ GrabReturn
  BY <1>3 DEF Grab, GrabNotStarted, GrabRequeueFails, GrabWait, GrabReturn,
              GrabDeliver, GrabTimeout, GrabError
<1>4. CASE Destroy \/ DeviceOpen \/ DeviceClose
  BY <1>4 DEF Destroy, DestroyReleases, DeviceOpen, DeviceClose
<1>5. CASE Fill \/ AcquisitionEnds \/ UNCHANGED vars
  BY <1>5 DEF Fill, AcquisitionEnds, vars
<1>. QED
  BY <1>1, <1>2, <1>3, <1>4, <1>5 DEF Next

\* The tool is one of the applications that Stream is about, so what is proved
\* of Stream holds for the tool.
THEOREM ToolUsesStream == LoopSpec => Spec
<1>1. LoopInit => Init /\ app = "careless"
  BY DEF LoopInit
<1>2. app = "careless" /\ [LoopNext]_allVars => (app = "careless")'
  BY ToolStep, SameApplication
<1>3. LoopSpec => [](app = "careless")
  BY <1>1, <1>2, PTL DEF LoopSpec
<1>. QED
  BY <1>1, <1>3, ToolStep, PTL DEF LoopSpec, Spec

LEMMA LoopInvInit == LoopInit => LoopInv
  BY DEF LoopInit, Init, LoopInv, LoopTypes, UseInv, StoppedInv, ThreadInv, StoreInv,
         CountInv, CodeInv, Preparing, Looping, Ending, Leaving

LEMMA PreparingKeeps ==
  ASSUME TypeOK, LoopInv, UNCHANGED <<interrupt, threadVars>>,
         \/ Refused \/ DeviceFound \/ Configure \/ NoStreams \/ OpenStream
         \/ AttachStream \/ StartStream
  PROVE  LoopInv'
<1> USE DEF LoopInv, LoopTypes, UseInv, StoppedInv, ThreadInv, StoreInv, CountInv, CodeInv,
            Preparing, Looping, Ending, Leaving, Goto, Unwind, loopVars, mainVars,
            threadVars
<1>1. CASE Refused
  BY <1>1 DEF Refused, vars, objVars, devVars, bufVars, dsVars
<1>2. CASE DeviceFound
  BY <1>2 DEF DeviceFound, DeviceOpen, Return, objVars
<1>3. CASE Configure \/ NoStreams
  BY <1>3 DEF Configure, NoStreams, vars, objVars, devVars, bufVars, dsVars
<1>4. CASE OpenStream
  <2>1. at = "streams" /\ dev = "open" /\ Open
    BY <1>4 DEF OpenStream
  <2>2. /\ dev' = dev /\ app' = app /\ waiting' = waiting
        /\ ret' \in Calls \X {"ok", "throw"} /\ nOpen' <= 1 /\ told' = told
    BY <2>1, CallReturns, CallNesting
  <2>. QED
    BY <1>4, <2>1, <2>2 DEF OpenStream, After, Calls
<1>5. CASE AttachStream
  <2>1. at = "attach" /\ dev = "open" /\ AttachBuffers(TRUE)
    BY <1>5 DEF AttachStream
  <2>2. /\ dev' = dev /\ app' = app /\ waiting' = waiting
        /\ ret' \in Calls \X {"ok", "throw"} /\ nOpen' = nOpen /\ told' = told
    BY <2>1, CallReturns, CallNesting
  <2>. QED
    BY <1>5, <2>1, <2>2 DEF AttachStream, After, Calls
<1>6. CASE StartStream
  <2>1. at = "start" /\ dev = "open" /\ StartStreaming
    BY <1>6 DEF StartStream
  <2>2. /\ dev' = dev /\ app' = app /\ waiting' = waiting
        /\ ret' \in Calls \X {"ok", "throw"} /\ nOpen' = nOpen
    BY <2>1, CallReturns, CallNesting
  <2>. QED
    BY <1>6, <2>1, <2>2 DEF StartStream, After, Calls
<1>. QED
  BY <1>1, <1>2, <1>3, <1>4, <1>5, <1>6

LEMMA LoopingKeeps ==
  ASSUME TypeOK, StreamInv, LoopInv, UNCHANGED <<interrupt, threadVars>>,
         \/ BeginRound \/ EndLoop \/ CallGrab \/ EndRound
         \/ GetComplete \/ GetIncomplete \/ GetNothing \/ GrabThrows
         \/ Stores \/ StoresNothing \/ StoreThrows
  PROVE  LoopInv'
<1> USE DEF LoopInv, LoopTypes, UseInv, StoppedInv, ThreadInv, StoreInv, CountInv, CodeInv,
            Preparing, Looping, Ending, Leaving, Goto, Unwind, loopVars, mainVars,
            threadVars, CountDown
<1>1. CASE BeginRound \/ EndLoop \/ EndRound
  BY <1>1, RetriesAssumption
     DEF BeginRound, EndLoop, EndRound, Try, vars, objVars, devVars
<1>2. CASE CallGrab
  BY <1>2 DEF CallGrab, Try, GrabWait, GrabNotStarted, GrabRequeueFails, Return,
              objVars, devVars, Ready
<1>3. CASE GetComplete
  <2>1. held' \in announced' \ (pool' \cup filled')
    BY <1>3 DEF GetComplete, GrabDeliver, Attach, StreamInv, Ownership
  <2>. QED
    BY <1>3, <2>1 DEF GetComplete, GrabDeliver, Return, objVars, devVars
<1>4. CASE GetIncomplete
  BY <1>4 DEF GetIncomplete, GrabDeliver, Return, objVars, devVars
<1>5. CASE GetNothing \/ GrabThrows
  BY <1>5 DEF GetNothing, GrabThrows, GrabTimeout, GrabError, Return, objVars,
              devVars
<1>6. CASE Stores \/ StoresNothing \/ StoreThrows
  BY <1>6 DEF Stores, StoresNothing, StoreThrows, vars, objVars, devVars
<1>. QED
  BY <1>1, <1>2, <1>3, <1>4, <1>5, <1>6

LEMMA EndingKeeps ==
  ASSUME TypeOK, ToldInv, LoopInv, UNCHANGED <<interrupt, threadVars>>,
         StopStream \/ CloseStream \/ Report \/ FreeStream \/ CloseDevice
  PROVE  LoopInv'
<1> USE DEF LoopInv, LoopTypes, UseInv, StoppedInv, ThreadInv, StoreInv, CountInv, CodeInv,
            Preparing, Looping, Ending, Leaving, Goto, Unwind, loopVars, mainVars,
            threadVars
<1>1. CASE StopStream
  BY <1>1, CallReturns, CallNesting DEF StopStream, After, Calls
<1>5. CASE CloseStream
  <2>1. nOpen <= 1 /\ dev = "open" /\ at = "close"
    BY <1>5 DEF CloseStream
  <2>. QED
    BY <1>5, <2>1, CallReturns, CallNesting DEF CloseStream, After, Calls
<1>2. CASE Report
  BY <1>2 DEF Report, vars, objVars, devVars
<1>3. CASE FreeStream
  <2>1. dev' = dev /\ app' = app /\ waiting' = waiting /\ ret'[2] # "crash"
        /\ nOpen' = 0 /\ told' = "stopped"
    BY <1>3 DEF FreeStream, Destroy, DestroyReleases, StopCrashes, Return, ToldInv,
                parent, TypeOK
  <2>. QED
    BY <1>3, <2>1 DEF FreeStream
<1>4. CASE CloseDevice
  BY <1>4 DEF CloseDevice, DeviceClose, Return
<1>. QED
  BY <1>1, <1>2, <1>3, <1>4, <1>5

\* The steps of the trigger thread, of the user and of the device.
LEMMA OthersKeep ==
  ASSUME TypeOK, StreamInv, LoopInv,
         \/ Thread \/ Interrupt \/ FillBuffer \/ Ended \/ UNCHANGED allVars
         \/ (AskTrigger \/ TellTrigger \/ JoinTrigger) /\ UNCHANGED interrupt
  PROVE  LoopInv'
<1> USE DEF LoopInv, LoopTypes, UseInv, StoppedInv, ThreadInv, StoreInv, CountInv, CodeInv,
            Preparing, Looping, Ending, Leaving, Goto, loopVars, mainVars,
            threadVars
<1>1. CASE Thread
  BY <1>1 DEF Thread, ThreadPolls, ThreadCommands, ThreadEnds, vars, objVars,
              devVars, bufVars, dsVars
<1>2. CASE Interrupt \/ Ended \/ UNCHANGED allVars
  BY <1>2 DEF Interrupt, Ended, allVars, vars, objVars, devVars, bufVars, dsVars
<1>3. CASE FillBuffer
  <2>1. at = "store" => held' \in announced' \ (pool' \cup filled')
    BY <1>3 DEF FillBuffer, Fill, bufVars
  <2>. QED
    BY <1>3, <2>1 DEF FillBuffer, Fill, objVars, devVars
<1>4. CASE AskTrigger \/ TellTrigger \/ JoinTrigger
  BY <1>4 DEF AskTrigger, TellTrigger, JoinTrigger, Leave, vars, objVars, devVars
<1>. QED
  BY <1>1, <1>2, <1>3, <1>4

LEMMA LoopInvStep == TypeOK /\ StreamInv /\ LoopInv /\ [LoopNext]_allVars => LoopInv'
  BY PreparingKeeps, LoopingKeeps, EndingKeeps, OthersKeep
     DEF LoopNext, Main, Alone, StreamInv

LEMMA LoopInvariance == LoopSpec => [](TypeOK /\ StreamInv /\ LoopInv)
  BY ToolUsesStream, Invariance, LoopInvInit, LoopInvStep, PTL DEF LoopSpec

\* Whatever fails, the destructors take everything down in order: no null node
\* map is met, the trigger thread ends before the device is closed, and at the
\* end nothing is left.
THEOREM LeavesInOrderHolds == LoopSpec => []LeavesInOrder
<1>1. TypeOK /\ StreamInv /\ LoopInv => LeavesInOrder
  BY DEF StreamInv, EventInv, DeviceInv, ToldInv, LoopInv, LoopTypes, UseInv,
         StoppedInv, ThreadInv, LeavesInOrder, Preparing, Looping, Ending,
         Leaving, TypeOK
<1>. QED
  BY <1>1, LoopInvariance, PTL

\* The tool stores an image only from a buffer that is lent to it, and no
\* round stores two.
THEOREM StoresLentBufferHolds == LoopSpec => []StoresLentBuffer
<1>1. LoopInv => StoresLentBuffer
  BY DEF LoopInv, LoopTypes, StoreInv, CountInv, StoresLentBuffer, Looping
<1>. QED
  BY <1>1, LoopInvariance, PTL

\* The exit code tells whether a complete buffer has been received, for any
\* number of rounds and retries.
THEOREM ExitTellsReceivedHolds == LoopSpec => []ExitTellsReceived
<1>1. LoopInv => ExitTellsReceived
  BY DEF LoopInv, LoopTypes, CodeInv, ExitTellsReceived, Leaving
<1>. QED
  BY <1>1, LoopInvariance, PTL
=============================================================================
