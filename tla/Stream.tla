------------------------------- MODULE Stream -------------------------------
(***************************************************************************)
(* A data stream of a device: the object rcg::Stream with its one          *)
(* rcg::Buffer, the part of the parent rcg::Device it depends on (open     *)
(* handle, remote node map) and the GenTL producer's side of the stream    *)
(* (announced buffers, input pool, output queue, new-buffer event).        *)
(*                                                                         *)
(* One application thread calls the object; every call is one step, except *)
(* grab(), which is split where it waits for the new-buffer event, so that *)
(* the producer fills buffers while a grab waits.  Any access to a remote  *)
(* node may fail, and so may any call of the producer whose result the     *)
(* code looks at.                                                          *)
(***************************************************************************)
EXTENDS Naturals, FiniteSets

CONSTANTS
  Buffers,       \* buffer handles the producer can hand out
  None,          \* the null handle
  BufferCounts,  \* the values max(min_buffers, getBufAnnounceMin()) can take
  MaxOpen        \* bound on nested open() calls

ASSUME BuffersAssumption == IsFiniteSet(Buffers) /\ None \notin Buffers
ASSUME CountsAssumption == BufferCounts \subseteq Nat \ {0}
ASSUME MaxOpenAssumption == MaxOpen \in Nat \ {0}

VARIABLES
  nOpen,       \* Stream::n_open
  stream,      \* Stream::stream: null, valid, or freed by the producer
  bn,          \* Stream::bn
  event,       \* Stream::event: null, registered, or no longer registered
  held,        \* Buffer::buffer, the buffer lent to the application
  adapter,     \* Buffer::chunkadapter: "created" or "none"
  attachedTo,  \* the buffer whose chunks are attached to the node map
  dev,         \* the parent device: "open" with a remote node map, or "closed"
  link,        \* "faulty" once an access to the remote device has failed
  params,      \* "locked" if the device's TLParamsLocked is 1, else "free"
  announced,   \* producer: buffers announced to the data stream
  pool,        \* producer: buffers queued for filling
  filled,      \* producer: buffers in the output queue
  engine,      \* producer: acquisition engine "idle", "running" without end or
               \* "limited" to the number of buffers that start asked for
  waiting,     \* grab() waits in EventGetData, with a timeout or without
  app,         \* the application is "careful", see Disciplined, or "careless"
  told,        \* what the application knows: it has never started or has
               \* "stopped", "started", or "startThrew", "stopThrew"
  ret          \* the last call that returned and how

objVars == <<nOpen, stream, bn, event>>
bufVars == <<held, adapter, attachedTo>>
devVars == <<dev, link, params, app, told>>
parent  == <<dev, app>>
dsVars  == <<announced, pool, filled, engine>>
vars == <<objVars, bufVars, devVars, dsVars, waiting, ret>>

\* The application starts streaming only on an open device, grabs only after a
\* start that has returned, and calls stop or close after it before it closes
\* the device.  It acts on what the calls told it: a start that has thrown need
\* not be stopped, and a stop that has thrown need not be repeated.
Disciplined == app = "careful"

Handles == {"null", "live", "stale"}
Calls   == {"none", "open", "close", "attach", "start", "stop", "grab",
            "destroy", "devOpen", "devClose"}
Results == {"ok", "throw", "empty", "badEvent", "crash"}

Init ==
  /\ nOpen = 0 /\ stream = "null" /\ bn = 0 /\ event = "null"
  /\ held = None /\ adapter = "none" /\ attachedTo = None
  /\ dev = "closed" /\ link = "up" /\ params = "free"
  /\ announced = {} /\ pool = {} /\ filled = {} /\ engine = "idle"
  /\ waiting = "no" /\ ret = <<"none", "ok">>
  /\ app \in {"careful", "careless"} /\ told = "stopped"

Return(call, result) == ret' = <<call, result>>

\* The application can make the next call: no grab() is waiting, and no null
\* pointer has been dereferenced.
Ready == waiting = "no" /\ ret[2] # "crash"

Crash(call) ==
  /\ Return(call, "crash")
  /\ UNCHANGED <<objVars, bufVars, devVars, dsVars, waiting>>

-----------------------------------------------------------------------------
(* Steps that the handlers share. *)

\* A name with a suffix, as in StopDone_KeepsHandle, is a variant of the
\* definition that follows it, with a mistake some property has to notice.

\* Buffer::setHandle(0)
Detach == held' = None /\ attachedTo' = None

\* Buffer::setHandle(b): chunks are attached only if the buffer is complete.
Attach(b, complete) ==
  /\ held' = b
  /\ attachedTo' = IF adapter = "created" /\ complete THEN b ELSE attachedTo

\* DSClose, or DevClose of the parent: the data stream and what belongs to it
\* is gone.
ProducerClosed ==
  announced' = {} /\ pool' = {} /\ filled' = {} /\ engine' = "idle"

\* The loop ends one buffer early.
RevokeBuffers_OneLess ==
  \E R \in SUBSET announced :
     /\ Cardinality(R) = IF bn <= Cardinality(announced)
                         THEN bn - 1 ELSE Cardinality(announced)
     /\ announced' = announced \ R

\* Revokes the first announced buffer, bn times.
RevokeBuffers ==
  \E R \in SUBSET announced :
     /\ Cardinality(R) = IF bn < Cardinality(announced)
                         THEN bn ELSE Cardinality(announced)
     /\ announced' = announced \ R

\* event is not reset.
StopProducer_KeepsEvent ==
  /\ engine' = "idle" /\ pool' = {} /\ filled' = {}
  /\ RevokeBuffers
  /\ event' = IF event = "live" THEN "stale" ELSE event
  /\ bn' = 0

\* stopStreaming() after AcquisitionStop has been executed.
StopProducer ==
  /\ engine' = "idle" /\ pool' = {} /\ filled' = {}
  /\ RevokeBuffers
  /\ event' = "null" /\ bn' = 0

\* The three ways through stopStreaming() on an open device; without one, the
\* null node map is dereferenced if bn > 0.
StopCrashes == bn > 0 /\ dev = "closed"

\* The handle of the lent buffer is not reset.
StopDone_KeepsHandle ==
  IF bn = 0
  THEN UNCHANGED <<held, attachedTo, bn, event, link, params, dsVars>>
  ELSE /\ dev = "open"
       /\ StopProducer
       /\ params' = "free"
       /\ UNCHANGED <<held, attachedTo, link>>

StopDone ==
  IF bn = 0
  THEN UNCHANGED <<held, attachedTo, bn, event, link, params, dsVars>>
  ELSE /\ dev = "open"
       /\ Detach
       /\ StopProducer
       /\ params' = "free"
       /\ UNCHANGED link

\* AcquisitionStop throws.
StopThrowsEarly ==
  /\ bn > 0 /\ dev = "open"
  /\ Detach
  /\ link' = "faulty"
  /\ UNCHANGED <<bn, event, params, dsVars>>

\* Unlocking the parameters throws.
StopThrowsLate ==
  /\ bn > 0 /\ dev = "open"
  /\ Detach
  /\ StopProducer
  /\ link' = "faulty"
  /\ UNCHANGED params

-----------------------------------------------------------------------------
(* The application's calls. *)

\* Stream::open.  A producer opens a data stream once: a second
\* DevOpenDataStream of the same stream answers RESOURCE_IN_USE.
OpenFirst(ok) ==
  /\ nOpen = 0
  /\ IF ok
     THEN /\ dev = "open" /\ stream # "live"
          /\ stream' = "live"
          /\ nOpen' = 1
          /\ Return("open", "ok")
     ELSE /\ UNCHANGED <<stream, nOpen>>
          /\ Return("open", "throw")
  /\ UNCHANGED <<bn, event, bufVars, devVars, dsVars, waiting>>

OpenAgain ==
  /\ nOpen \in 1..(MaxOpen - 1)
  /\ nOpen' = nOpen + 1
  /\ Return("open", "ok")
  /\ UNCHANGED <<stream, bn, event, bufVars, devVars, dsVars, waiting>>

Open == Ready /\ ((\E ok \in BOOLEAN : OpenFirst(ok)) \/ OpenAgain)

\* Stream::close.  Only the handler of an exception of stopStreaming() closes
\* the producer's data stream.
\* The test of n_open is missing.
CloseNested_NoTest ==
  /\ nOpen # 1
  /\ nOpen' = nOpen - 1
  /\ Return("close", "ok")
  /\ UNCHANGED <<stream, bn, event, bufVars, devVars, dsVars, waiting>>

CloseNested ==
  /\ nOpen > 1
  /\ nOpen' = nOpen - 1
  /\ Return("close", "ok")
  /\ UNCHANGED <<stream, bn, event, bufVars, devVars, dsVars, waiting>>

CloseLast ==
  /\ nOpen = 1
  /\ StopDone
  /\ nOpen' = 0 /\ told' = "stopped"
  /\ Return("close", "ok")
  /\ UNCHANGED <<stream, adapter, parent, waiting>>

\* bn and event keep the values that the failed stopStreaming() left.
CloseThrows ==
  /\ nOpen = 1 /\ bn > 0 /\ dev = "open"
  /\ \/ /\ bn' = bn
        /\ event' = IF event = "live" THEN "stale" ELSE event
     \/ bn' = 0 /\ event' = "null"
  /\ nOpen' = 0 /\ stream' = "null"
  /\ Detach /\ adapter' = "none"
  /\ ProducerClosed
  /\ link' = "faulty" /\ told' = "stopThrew"
  /\ Return("close", "throw")
  /\ UNCHANGED <<parent, params, waiting>>

CloseCrashes == nOpen = 1 /\ StopCrashes /\ Crash("close")

Close == Ready /\ (CloseNested \/ CloseLast \/ CloseThrows \/ CloseCrashes)

\* Stream::attachBuffers and Buffer::setNodemap: the adapter is dropped, and a
\* new one is created if the device has chunk mode switched on.  Enabling is
\* ignored while the device is closed.
AttachBuffers(enable) ==
  /\ Ready
  /\ IF enable /\ dev = "closed"
     THEN UNCHANGED <<adapter, attachedTo>>
     ELSE /\ adapter' \in {"none", IF enable THEN "created" ELSE "none"}
          /\ attachedTo' = None
  /\ Return("attach", "ok")
  /\ UNCHANGED <<objVars, held, devVars, dsVars, waiting>>

\* Stream::startStreaming, in the order of its exits.
StartNotOpen ==
  /\ stream = "null"
  /\ Detach
  /\ Return("start", "throw") /\ told' = "startThrew"
  /\ UNCHANGED <<objVars, adapter, parent, link, params, dsVars, waiting>>

StartCrashes == stream # "null" /\ dev = "closed" /\ Crash("start")

StartStopThrows ==
  /\ stream # "null"
  /\ StopThrowsEarly \/ StopThrowsLate
  /\ Return("start", "throw") /\ told' = "startThrew"
  /\ UNCHANGED <<nOpen, stream, adapter, parent, waiting>>

\* Locking the parameters throws, or reading the payload size after that.
StartLockThrows ==
  /\ stream # "null" /\ dev = "open"
  /\ Detach
  /\ IF bn > 0 THEN StopProducer ELSE UNCHANGED <<bn, event, dsVars>>
  /\ params' \in {"locked", IF bn = 0 THEN params ELSE "free"}
  /\ link' = "faulty"
  /\ Return("start", "throw") /\ told' = "startThrew"
  /\ UNCHANGED <<nOpen, stream, adapter, parent, waiting>>

\* The parameters are not unlocked.
StartProducerFails_KeepsLock(n) ==
  /\ stream # "null" /\ dev = "open"
  /\ Detach
  /\ bn' = n
  /\ event' \in IF stream = "live" THEN {"null", "stale"} ELSE {"null"}
  /\ ProducerClosed
  /\ params' = "locked" /\ UNCHANGED link
  /\ Return("start", "throw") /\ told' = "startThrew"
  /\ UNCHANGED <<nOpen, stream, adapter, parent, waiting>>

\* A producer call fails: announcing, queueing, registering the event or
\* (then event keeps the unregistered handle) starting the acquisition.  The
\* buffers are revoked, bn keeps its value and the parameters are unlocked
\* unless that access throws too.
StartProducerFails(n) ==
  /\ stream # "null" /\ dev = "open"
  /\ Detach
  /\ bn' = n
  /\ event' \in IF stream = "live" THEN {"null", "stale"} ELSE {"null"}
  /\ ProducerClosed
  /\ \/ params' = "free" /\ UNCHANGED link
     \/ params' = "locked" /\ link' = "faulty"
  /\ Return("start", "throw") /\ told' = "startThrew"
  /\ UNCHANGED <<nOpen, stream, adapter, parent, waiting>>

\* The buffers are announced, but not queued.
StartAcquires_QueuesNone(n, ok) ==
  /\ stream = "live" /\ dev = "open"
  /\ Detach
  /\ bn' = n
  /\ event' = "live"
  /\ \E S \in SUBSET Buffers : Cardinality(S) = n /\ announced' = S
  /\ pool' = {} /\ filled' = {} /\ engine' \in {"running", "limited"}
  /\ params' = "locked"
  /\ IF ok THEN UNCHANGED link ELSE link' = "faulty"
  /\ Return("start", IF ok THEN "ok" ELSE "throw")
  /\ told' = IF ok THEN "started" ELSE "startThrew"
  /\ UNCHANGED <<nOpen, stream, adapter, parent, waiting>>

\* All producer calls succeed; AcquisitionStart succeeds or throws.
StartAcquires(n, ok) ==
  /\ stream = "live" /\ dev = "open"
  /\ Detach
  /\ bn' = n
  /\ event' = "live"
  /\ \E S \in SUBSET Buffers :
        Cardinality(S) = n /\ announced' = S /\ pool' = S
  /\ filled' = {} /\ engine' \in {"running", "limited"}
  /\ params' = "locked"
  /\ IF ok THEN UNCHANGED link ELSE link' = "faulty"
  /\ Return("start", IF ok THEN "ok" ELSE "throw")
  /\ told' = IF ok THEN "started" ELSE "startThrew"
  /\ UNCHANGED <<nOpen, stream, adapter, parent, waiting>>

StartStreaming ==
  /\ Ready
  /\ Disciplined => dev = "open"
  /\ \/ StartNotOpen \/ StartCrashes \/ StartStopThrows \/ StartLockThrows
     \/ \E n \in BufferCounts :
           StartProducerFails(n) \/ \E ok \in BOOLEAN : StartAcquires(n, ok)

\* Stream::stopStreaming called by the application.
StopStreaming ==
  /\ Ready
  /\ \/ /\ StopDone
        /\ Return("stop", "ok") /\ told' = "stopped"
        /\ UNCHANGED <<nOpen, stream, adapter, parent, waiting>>
     \/ /\ StopThrowsEarly \/ StopThrowsLate
        /\ Return("stop", "throw") /\ told' = "stopThrew"
        /\ UNCHANGED <<nOpen, stream, adapter, parent, waiting>>
     \/ StopCrashes /\ Crash("stop")

\* Stream::grab up to the wait.
GrabNotStarted ==
  /\ Ready
  /\ bn = 0 \/ event = "null"
  /\ Return("grab", "throw")
  /\ UNCHANGED <<objVars, bufVars, devVars, dsVars, waiting>>

GrabRequeueFails ==
  /\ Ready
  /\ bn > 0 /\ event # "null" /\ held # None
  /\ Detach
  /\ Return("grab", "throw")
  /\ UNCHANGED <<objVars, adapter, devVars, dsVars, waiting>>

\* The previous buffer is dropped, not queued.
GrabWait_NoRequeue ==
  /\ Ready
  /\ bn > 0 /\ event # "null"
  /\ Detach
  /\ waiting' \in {"finite", "infinite"}
  /\ UNCHANGED <<objVars, adapter, devVars, dsVars, ret>>

\* The previous buffer is neither queued nor reset.
GrabWait_KeepsBuffer ==
  /\ Ready
  /\ bn > 0 /\ event # "null"
  /\ waiting' \in {"finite", "infinite"}
  /\ UNCHANGED <<objVars, bufVars, devVars, dsVars, ret>>

GrabWait ==
  /\ Ready
  /\ bn > 0 /\ event # "null"
  /\ IF held = None
     THEN UNCHANGED <<held, attachedTo, pool>>
     ELSE /\ stream = "live" /\ held \in announced
          /\ pool' = pool \cup {held}
          /\ Detach
  /\ waiting' \in {"finite", "infinite"}
  /\ UNCHANGED <<objVars, adapter, devVars, announced, filled, engine, ret>>

\* Stream::grab from the return of EventGetData on.
GrabDeliver ==
  /\ waiting # "no" /\ event = "live"
  /\ \E b \in filled, complete \in BOOLEAN :
        filled' = filled \ {b} /\ Attach(b, complete)
  /\ waiting' = "no"
  /\ Return("grab", "ok")
  /\ UNCHANGED <<objVars, adapter, devVars, announced, pool, engine>>

GrabTimeout ==
  /\ waiting = "finite" /\ event = "live"
  /\ waiting' = "no"
  /\ Return("grab", "empty")
  /\ UNCHANGED <<objVars, bufVars, devVars, dsVars>>

\* EventGetData answers an error: the producer's own or, if the event is not
\* registered (any more), that the handle is not valid.
GrabError ==
  /\ waiting # "no"
  /\ waiting' = "no"
  /\ Return("grab", IF event = "live" THEN "throw" ELSE "badEvent")
  /\ UNCHANGED <<objVars, bufVars, devVars, dsVars>>

Grab ==
  /\ Disciplined => told = "started"
  /\ GrabNotStarted \/ GrabRequeueFails \/ GrabWait

GrabReturn == GrabDeliver \/ GrabTimeout \/ GrabError

\* Stream::~Stream; Device::getStreams creates a fresh object afterwards.
DestroyReleases ==
  /\ ~StopCrashes
  /\ nOpen' = 0 /\ stream' = "null" /\ bn' = 0 /\ event' = "null"
  /\ held' = None /\ adapter' = "none" /\ attachedTo' = None
  /\ ProducerClosed
  /\ \/ params' = (IF bn = 0 THEN params ELSE "free") /\ UNCHANGED link
     \/ bn > 0 /\ UNCHANGED params /\ link' = "faulty"
  /\ Return("destroy", "ok") /\ told' = "stopped"
  /\ UNCHANGED <<parent, waiting>>

Destroy == Ready /\ (DestroyReleases \/ (StopCrashes /\ Crash("destroy")))

-----------------------------------------------------------------------------
(* The parent device and the producer. *)

\* Device::open, as far as the stream sees it.
DeviceOpen ==
  /\ Ready /\ dev = "closed"
  /\ dev' = "open" /\ link' = "up" /\ params' = "free"
  /\ Return("devOpen", "ok")
  /\ UNCHANGED <<objVars, bufVars, dsVars, app, told, waiting>>

\* Device::close: DevClose frees the data streams of the device, the object
\* keeps its handles.
DeviceClose ==
  /\ Ready /\ dev = "open"
  /\ Disciplined => told # "started"
  /\ dev' = "closed" /\ params' = "free"
  /\ stream' = IF stream = "live" THEN "stale" ELSE stream
  /\ event' = IF event = "live" THEN "stale" ELSE event
  /\ ProducerClosed
  /\ Return("devClose", "ok")
  /\ UNCHANGED <<nOpen, bn, bufVars, link, app, told, waiting>>

\* The acquisition engine fills a queued buffer.
Fill ==
  /\ engine # "idle"
  /\ ret[2] # "crash"
  /\ \E b \in pool : pool' = pool \ {b} /\ filled' = filled \cup {b}
  /\ UNCHANGED <<objVars, bufVars, devVars, announced, engine, waiting, ret>>

\* The number of buffers that start asked for has been acquired.
AcquisitionEnds ==
  /\ engine = "limited" /\ engine' = "idle"
  /\ ret[2] # "crash"
  /\ UNCHANGED <<objVars, bufVars, devVars, announced, pool, filled, waiting, ret>>

Next ==
  \/ Open \/ Close \/ (\E enable \in BOOLEAN : AttachBuffers(enable))
  \/ StartStreaming \/ StopStreaming
  \/ Grab \/ GrabReturn \/ Destroy
  \/ DeviceOpen \/ DeviceClose \/ Fill \/ AcquisitionEnds

Spec == Init /\ [][Next]_vars

\* The device delivers data as long as a buffer is queued, and EventGetData
\* returns when there is an event or when its timeout has passed.
Fairness == WF_vars(Fill) /\ WF_vars(GrabDeliver) /\ WF_vars(GrabTimeout)

FairSpec == Spec /\ Fairness

-----------------------------------------------------------------------------
(* Properties. *)

TypeOK ==
  /\ nOpen \in 0..MaxOpen /\ stream \in Handles
  /\ bn \in Nat /\ event \in Handles
  /\ held \in Buffers \cup {None} /\ adapter \in {"none", "created"}
  /\ attachedTo \in Buffers \cup {None}
  /\ dev \in {"closed", "open"} /\ link \in {"up", "faulty"}
  /\ params \in {"free", "locked"}
  /\ announced \in SUBSET Buffers /\ pool \in SUBSET Buffers
  /\ filled \in SUBSET Buffers /\ engine \in {"idle", "running", "limited"}
  /\ waiting \in {"no", "finite", "infinite"}
  /\ app \in {"careful", "careless"}
  /\ told \in {"stopped", "started", "startThrew", "stopThrew"}
  /\ ret \in Calls \X Results

\* The memory that the application reads through the buffer grab() returned is
\* never written at the same time: the producer has neither queued nor filled
\* that buffer, and no buffer is in both of its queues.
Ownership ==
  /\ pool \cap filled = {}
  /\ held \notin pool \cup filled
  /\ pool \cup filled \subseteq announced

\* The handles that stopStreaming(), an error of startStreaming() and the
\* exception handler of close() forget are released by then: announced buffers
\* and a running acquisition exist only together with a registered event and
\* exactly bn buffers of an open data stream.
NothingLeaks ==
  /\ announced # {} \/ engine # "idle"
       => stream = "live" /\ event = "live" /\ Cardinality(announced) = bn
  /\ event = "live" => bn > 0

\* A buffer grab() returned stays announced, so its memory stays valid, until
\* the next grab, start, stop or close, if the application follows the
\* discipline.
HeldIsValid == Disciplined /\ held # None => held \in announced

\* Chunk parameters are read from the buffer that is lent to the application
\* and from no other: chunks of a returned or revoked buffer are detached.
ChunksOfHeldBuffer ==
  attachedTo # None => attachedTo = held /\ adapter = "created"

\* If no access to the device has failed, then an exception of
\* startStreaming() leaves no announced buffer, no running acquisition and no
\* locked parameters behind.
FailedStartIsClean ==
  ret = <<"start", "throw">> /\ link = "up" =>
    announced = {} /\ engine = "idle" /\ params = "free"

\* If no access to the device has failed, the parameters of an open device are
\* locked exactly while buffers are announced for streaming.
LockedWhileStreaming ==
  dev = "open" /\ link = "up" => (params = "locked" <=> event = "live")

\* A null node map is met, in stop, close or the destructor, only after a start
\* or stop that threw was the last the application was told: the calls leave bn
\* as it is, and nobody stopped again before the device was closed.
CrashOnlyAfterError ==
  ret[2] = "crash" => told \in {"startThrew", "stopThrew"}

\* The same holds of an event that is not registered but waited for; the
\* producer has then neither buffers nor a running acquisition.
StaleEventOnlyAfterError ==
  event = "stale" => /\ told \in {"startThrew", "stopThrew"}
                     /\ bn > 0 /\ announced = {} /\ engine = "idle"

\* What a call told is true: after a start that returned the event is
\* registered on an open device, and after a stop or close that returned
\* nothing is left to be stopped, whatever threw before it.
ToldIsTrue ==
  /\ told = "started" => event = "live" /\ dev = "open"
  /\ told = "stopped" => bn = 0 /\ event = "null" /\ announced = {}

\* What an application may rely on when it reads the buffer grab() returned:
\* nobody writes it, it stays announced, and its chunks are its own.
LentBuffer == Ownership /\ HeldIsValid /\ ChunksOfHeldBuffer

\* While every access to the device succeeds, no call leaves locked parameters
\* or half of a stream behind.
CleanWhileLinkIsUp == FailedStartIsClean /\ LockedWhileStreaming

\* An application that follows the discipline and whose last start or stop has
\* returned is safe: what it was told is true, and it meets neither the null
\* node map nor an event that is gone.  After one that threw it may meet both.
SafeWhenDisciplined ==
  Disciplined => CrashOnlyAfterError /\ StaleEventOnlyAfterError /\ ToldIsTrue

Circulating == pool \cup filled \cup {held}

\* A buffer drops out of circulation, announced but neither queued, filled nor
\* lent, only in a call that throws.
LossIsReported ==
  [][\A b \in (announced \cap announced') \cap Circulating :
        b \notin Circulating' => ret'[2] = "throw"]_vars

\* While no call has thrown and the acquisition is not limited to a number of
\* buffers, a grab() of a disciplined application returns without a timeout: a
\* buffer is always left for the device to fill.
InfiniteGrabReturns ==
  [](Disciplined /\ ret[2] # "throw" /\ engine # "limited")
    => (waiting = "infinite" ~> waiting = "no")

\* The owner of a buffer as BufferLoan sees it.
OwnerOf(b) ==
  IF b \notin announced THEN "nobody"
  ELSE IF b \in pool THEN "pool"
  ELSE IF b \in filled THEN "filled"
  ELSE IF b = held THEN "application"
  ELSE "lost"

Loan == INSTANCE BufferLoan WITH owner <- [b \in Buffers |-> OwnerOf(b)]

\* The stream keeps the promise of BufferLoan, for applications that close the
\* device at any time too.
LoanKept == Loan!Spec
-----------------------------------------------------------------------------
(* What the change log says and the code does not do. *)

\* CHANGELOG 2.7.0: no crash "when stream and device is closed after loosing
\* connection".  Here close() has thrown and has closed the data stream.
NoCrashAfterClose ==
  ~(ret = <<"destroy", "crash">> /\ nOpen = 0 /\ stream = "null")
=============================================================================
