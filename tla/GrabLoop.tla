------------------------------ MODULE GrabLoop ------------------------------
(***************************************************************************)
(* The tool gc_stream: main() configures a device, grabs n images through  *)
(* the stream of module Stream and stores them, with retries, with or      *)
(* without a trigger, until the user interrupts it.  In software trigger   *)
(* mode a second thread executes TriggerSoftware when a key is pressed.    *)
(*                                                                         *)
(* Every call of the stream or the device is the step of Stream for that   *)
(* call.  The tool is not assumed to be careful: that it is follows.       *)
(***************************************************************************)
EXTENDS Stream, Integers

CONSTANTS
  Rounds,       \* the number of images asked for, n
  Retries,      \* -r, nretry
  MaxReceived   \* bound on the buffers that arrive

ASSUME RoundsAssumption == Rounds \in Nat \ {0}
ASSUME RetriesAssumption == Retries \in Int
ASSUME MaxReceivedAssumption == MaxReceived \in Nat

VARIABLES
  at,          \* where main() is
  k,           \* rounds that are over
  retry,       \* attempts left in this round
  received,    \* buffers_received
  incomplete,  \* buffers_incomplete
  stored,      \* rounds in which an image has been stored, or its time printed
  triggered,   \* "no", "hardware" or "software"
  interrupt,   \* user_interrupt, "no" or "yes"
  thread,      \* thread of SoftwareTrigger: "none", "poll" or "command"
  running,     \* SoftwareTrigger::running
  code         \* exit code

loopVars   == <<k, retry, received, incomplete, stored>>
threadVars == <<thread, running>>
mainVars   == <<loopVars, triggered, code>>
allVars    == <<vars, at, mainVars, interrupt, threadVars>>

LoopInit ==
  /\ Init /\ app = "careless"
  /\ at = "args" /\ k = 0 /\ retry = 0
  /\ received = 0 /\ incomplete = 0 /\ stored = 0
  /\ triggered = "no" /\ interrupt = "no"
  /\ thread = "none" /\ running = "no" /\ code = 0

Goto(place) == at' = place

\* An exception leaves the block of the stream or, before there is one, the
\* block of the device: the destructors run on the way to exit code 2.
Unwind(place) == at' = place /\ code' = 2

\* The next place after a call of the stream.
After(place) ==
  IF ret'[2] = "ok" THEN Goto(place) /\ UNCHANGED code ELSE Unwind("join")

-----------------------------------------------------------------------------
(* Before the loop. *)

\* Help, a wrong argument, or a device that is not found or cannot be opened.
Refused ==
  /\ at = "args"
  /\ at' = "exit" /\ code' \in {0, 1, 2}
  /\ UNCHANGED <<vars, loopVars, triggered>>

DeviceFound ==
  /\ at = "args"
  /\ DeviceOpen
  /\ Goto("config")
  /\ UNCHANGED mainVars

\* Parameters are set in the order of the command line; one that cannot be set
\* ends the tool unless it is a chunk parameter.
Configure ==
  /\ at = "config"
  /\ (Goto("streams") /\ UNCHANGED code) \/ Unwind("devClose")
  /\ UNCHANGED <<vars, loopVars, triggered>>

NoStreams ==
  /\ at = "streams"
  /\ Goto("devClose") /\ code' = 1
  /\ UNCHANGED <<vars, loopVars, triggered>>

OpenStream ==
  /\ at = "streams" /\ Open /\ After("attach")
  /\ UNCHANGED <<loopVars, triggered>>

AttachStream ==
  /\ at = "attach" /\ AttachBuffers(TRUE) /\ After("start")
  /\ UNCHANGED <<loopVars, triggered>>

StartStream ==
  /\ at = "start" /\ StartStreaming /\ engine' # "limited" /\ After("trigger")
  /\ UNCHANGED <<loopVars, triggered>>

\* The trigger mode decides how the loop retries; its source whether there is a
\* second thread.
AskTrigger ==
  /\ at = "trigger"
  /\ triggered' \in {"no", "hardware", "software"}
  /\ IF triggered' = "software"
     THEN thread' = "poll" /\ running' = "yes"
     ELSE UNCHANGED threadVars
  /\ Goto("round")
  /\ UNCHANGED <<vars, loopVars, code>>

-----------------------------------------------------------------------------
(* The loop. *)

BeginRound ==
  /\ at = "round" /\ k < Rounds /\ interrupt = "no"
  /\ retry' = Retries
  /\ Goto("try")
  /\ UNCHANGED <<vars, k, received, incomplete, stored, triggered, code>>

EndLoop ==
  /\ at = "round" /\ ~(k < Rounds /\ interrupt = "no")
  /\ Goto("stop")
  /\ UNCHANGED <<vars, mainVars>>

\* The interruption is looked at between rounds only.
Try_IgnoresInterrupt == at = "try" /\ retry > 0

Try == at = "try" /\ retry > 0 /\ interrupt = "no"

CallGrab ==
  /\ Try
  /\ \/ GrabWait /\ waiting' = "finite" /\ Goto("grabbing") /\ UNCHANGED code
     \/ (GrabNotStarted \/ GrabRequeueFails) /\ Unwind("join")
  /\ UNCHANGED <<loopVars, triggered>>

EndRound ==
  /\ at = "try" /\ ~Try
  /\ k' = k + 1
  /\ Goto("round")
  /\ UNCHANGED <<vars, retry, received, incomplete, stored, triggered, code>>

\* A triggered stream is not counted down.
CountDown(r) == retry' = IF triggered = "no" THEN r - 1 ELSE r

GetComplete ==
  /\ at = "grabbing" /\ received < MaxReceived
  /\ GrabDeliver
  /\ adapter = "created" => attachedTo' = held'
  /\ received' = received + 1
  /\ Goto("store")
  /\ UNCHANGED <<k, retry, incomplete, stored, triggered, code>>

GetIncomplete ==
  /\ at = "grabbing" /\ received < MaxReceived
  /\ GrabDeliver
  /\ attachedTo' # held'
  /\ received' = received + 1 /\ incomplete' = incomplete + 1
  /\ CountDown(retry)
  /\ Goto("try")
  /\ UNCHANGED <<k, stored, triggered, code>>

\* Without a trigger, a timeout ends the round.
GetNothing ==
  /\ at = "grabbing" /\ GrabTimeout
  /\ IF triggered = "no" THEN Goto("round") /\ k' = k + 1
                         ELSE Goto("try") /\ UNCHANGED k
  /\ UNCHANGED <<retry, received, incomplete, stored, triggered, code>>

GrabThrows ==
  /\ at = "grabbing" /\ GrabError /\ Unwind("join")
  /\ UNCHANGED <<loopVars, triggered>>

\* The retries are not used up by an image that has been stored.
Stores_KeepsRetry ==
  /\ at = "store"
  /\ stored' = stored + 1
  /\ CountDown(retry)
  /\ Goto("try")
  /\ UNCHANGED <<vars, k, received, incomplete, triggered, code>>

\* At least one part of the buffer is stored, or, with -t, its time printed.
Stores ==
  /\ at = "store"
  /\ stored' = stored + 1
  /\ CountDown(0)
  /\ Goto("try")
  /\ UNCHANGED <<vars, k, received, incomplete, triggered, code>>

\* No part has an image that can be stored.
StoresNothing ==
  /\ at = "store"
  /\ CountDown(retry)
  /\ Goto("try")
  /\ UNCHANGED <<vars, k, received, incomplete, stored, triggered, code>>

\* Reading or storing the buffer throws, or a chunk parameter cannot be set.
StoreThrows ==
  /\ at = "store"
  /\ stored' \in {stored, stored + 1}
  /\ Unwind("join")
  /\ UNCHANGED <<vars, k, retry, received, incomplete, triggered>>

-----------------------------------------------------------------------------
(* After the loop, and the destructors. *)

StopStream ==
  /\ at = "stop" /\ StopStreaming /\ After("close")
  /\ UNCHANGED <<loopVars, triggered>>

CloseStream ==
  /\ at = "close" /\ Close /\ After("report")
  /\ UNCHANGED <<loopVars, triggered>>

\* Incomplete buffers count as images.
Report_CountsAll ==
  /\ at = "report"
  /\ code' = IF received = 0 THEN 1 ELSE 0
  /\ Goto("join")
  /\ UNCHANGED <<vars, loopVars, triggered>>

Report ==
  /\ at = "report"
  /\ code' = IF incomplete = received THEN 1 ELSE 0
  /\ Goto("join")
  /\ UNCHANGED <<vars, loopVars, triggered>>

\* Once its block is left, the stream lives in a list that is destroyed after
\* the device has been closed, unless an exception leaves the list's block too.
Leave ==
  Goto(IF code = 2 THEN "free" ELSE "devClose")

\* The trigger thread is told to end, but not waited for.
JoinTrigger_NoJoin ==
  /\ at = "join" /\ running' = "no"
  /\ Leave
  /\ UNCHANGED <<vars, mainVars, thread>>

\* ~SoftwareTrigger tells the thread to end and waits for it.
TellTrigger ==
  /\ at = "join" /\ running = "yes" /\ running' = "no"
  /\ UNCHANGED <<vars, at, mainVars, thread>>

JoinTrigger ==
  /\ at = "join" /\ running = "no" /\ thread = "none"
  /\ Leave
  /\ UNCHANGED <<vars, mainVars, threadVars>>

\* The list of streams is destroyed; a stream that has been opened is closed
\* with the handle it still has, which after Device::close is a stale one.
FreeStream ==
  /\ at = "free" /\ Destroy
  /\ Goto(IF code = 2 THEN "devClose" ELSE "exit")
  /\ UNCHANGED mainVars

\* Device::close or, after an exception, ~Device.
CloseDevice ==
  /\ at = "devClose" /\ DeviceClose
  /\ Goto(IF code = 2 THEN "exit" ELSE "free")
  /\ UNCHANGED mainVars

-----------------------------------------------------------------------------
(* The trigger thread, the user and the device. *)

\* A command is executed if its key is pressed within 100 ms.
ThreadPolls ==
  /\ thread = "poll" /\ running = "yes"
  /\ thread' = "command"
  /\ UNCHANGED running

ThreadCommands == thread = "command" /\ thread' = "poll" /\ UNCHANGED running

ThreadEnds ==
  /\ thread = "poll" /\ running = "no"
  /\ thread' = "none"
  /\ UNCHANGED running

Thread ==
  /\ ThreadPolls \/ ThreadCommands \/ ThreadEnds
  /\ UNCHANGED <<vars, at, mainVars, interrupt>>

Interrupt ==
  /\ interrupt = "no" /\ at # "exit"
  /\ interrupt' = "yes"
  /\ UNCHANGED <<vars, at, mainVars, threadVars>>

FillBuffer == Fill /\ UNCHANGED <<at, mainVars, interrupt, threadVars>>

Alone ==
  \/ Refused \/ DeviceFound \/ Configure \/ NoStreams \/ OpenStream
  \/ AttachStream \/ StartStream
  \/ BeginRound \/ EndLoop \/ CallGrab \/ EndRound
  \/ GetComplete \/ GetIncomplete \/ GetNothing \/ GrabThrows
  \/ Stores \/ StoresNothing \/ StoreThrows
  \/ StopStream \/ CloseStream \/ Report \/ FreeStream \/ CloseDevice

Main ==
  \/ Alone /\ UNCHANGED <<interrupt, threadVars>>
  \/ (AskTrigger \/ TellTrigger \/ JoinTrigger) /\ UNCHANGED interrupt

Ended == at = "exit" /\ UNCHANGED allVars

LoopNext == Main \/ Thread \/ Interrupt \/ FillBuffer \/ Ended

LoopSpec == LoopInit /\ [][LoopNext]_allVars

\* grab() waits at most three seconds and select() 100 ms, so both threads go
\* on; neither a key nor data nor an interruption has to come.
LoopFairSpec ==
  LoopSpec /\ WF_allVars(Main) /\ WF_allVars(Thread)

-----------------------------------------------------------------------------
(* Properties. *)

\* Whatever fails, the stream never reaches the null node map of a closed
\* device: it outlives the device's handle only where stop and close have
\* returned, and then it has nothing left to be stopped.  The trigger thread has
\* an open device, and at the end the thread, the acquisition and the device are
\* gone.
LeavesInOrder ==
  /\ ret[2] # "crash"
  /\ thread # "none" => dev = "open"
  /\ at = "free" /\ dev = "closed" =>
       bn = 0 /\ nOpen = 0 /\ event = "null" /\ params = "free"
  /\ at = "exit" =>
       /\ dev = "closed" /\ thread = "none"
       /\ announced = {} /\ engine = "idle" /\ nOpen = 0

\* A buffer is stored while it is lent: announced, and neither queued nor
\* being filled; and every round stores one at most.
StoresLentBuffer ==
  at = "store" => /\ held \in announced \ (pool \cup filled)
                  /\ stored <= k

\* Exit code 1 without an exception: nothing has been stored.  Exit code 0
\* after a round: a complete buffer has been received.
ExitTellsReceived ==
  at = "exit" =>
    /\ code = 1 => stored = 0
    /\ code = 0 /\ k > 0 => received > incomplete

\* Without a trigger the tool ends by itself; with one it ends when the user
\* interrupts it, also while it waits for a trigger that never comes.
ToolEnds ==
  (interrupt = "yes" \/ (at = "round" /\ triggered = "no")) ~> at = "exit"
=============================================================================
