-------------------------- MODULE FileAccessProofs --------------------------
(***************************************************************************)
(* Proofs about FileAccess, for every block size, every int and every      *)
(* bound on the size of a file.                                            *)
(***************************************************************************)
EXTENDS FileAccess, TLAPS

-----------------------------------------------------------------------------
(* Type correctness. *)

\* A block that arrives keeps the types of what it changes.
LEMMA ArriveType ==
  ASSUME TypeOK, NEW k \in Nat, Arrive(k)
  PROVE  /\ length' \in Int /\ off' \in Nat /\ n' \in Nat
         /\ dst' \in Seq(Nat)
<1>1. Bytes(off, k) \in Seq(Nat)
  BY DEF TypeOK, Bytes
<1>. QED
  BY <1>1 DEF TypeOK, Arrive

LEMMA BeginType ==
  ASSUME TypeOK, NEW o \in {"load", "save"}, NEW f \in {"on", "off"},
         Begin(o, f)
  PROVE  /\ pc' \in {"idle", "read", "again", "write"}
         /\ op' \in {"load", "save"} /\ flag' \in {"on", "off"}
         /\ size' \in 0..MaxSize /\ blocks' \in {"strict", "short"}
         /\ length' \in Int /\ off' \in Nat /\ n' \in Nat /\ dst' \in Seq(Nat)
         /\ file' \in {"open", "closed"} /\ fault' \in {"no", "yes"}
         /\ result' \in Results
<1>1. PICK s \in 0..MaxSize : Call(o, f, s) /\ (Opens(o) \/ OpenFails(o, f))
  BY DEF Begin
<1>2. ToInt(size') \in Int
  BY <1>1, IntMaxAssumption, MaxSizeAssumption DEF ToInt, Call
<1>. QED
  BY <1>1, <1>2, BlockAssumption, IntMaxAssumption
     DEF TypeOK, Call, Opens, OpenFails, Results

LEMMA TypeStep == TypeOK /\ [Next]_vars => TypeOK'
<1> SUFFICES ASSUME TypeOK, [Next]_vars PROVE TypeOK'
  OBVIOUS
<1> USE BlockAssumption, MaxSizeAssumption
    DEF callVars, moveVars, mainVars, Results
<1>1. CASE ReadBlock
  <2>1. PICK k \in 1..Smaller(Wanted, Rest(size, off)) : Arrive(k)
    BY <1>1 DEF ReadBlock
  <2>2. k \in Nat
    BY <2>1 DEF TypeOK, Wanted, Smaller, Rest
  <2>. QED
    BY <1>1, <2>1, <2>2, ArriveType DEF TypeOK, ReadBlock
<1>2. CASE ReadNothing
  BY <1>2, MaxReportAssumption DEF TypeOK, ReadNothing, Reading, Rest
<1>3. CASE ReadAgain
  <2>1. PICK k \in 0..Smaller(n, Smaller(Block, Rest(size, off))) : Arrive(k)
    BY <1>3 DEF ReadAgain
  <2>2. k \in Nat
    BY <2>1 DEF TypeOK, Smaller, Rest
  <2>. QED
    BY <1>3, <2>1, <2>2, ArriveType DEF TypeOK, ReadAgain
<1>4. CASE LoadEnds \/ SaveEnds \/ Throws \/ Overrun
  BY <1>4 DEF TypeOK, LoadEnds, SaveEnds, Throws, Overrun, CloseFile
<1>5. CASE WriteBlock
  <2>1. PICK k \in 0..Smaller(Block, size - off) :
          dst' = dst \o Bytes(off, k) /\ off' = off + k /\ n' = k
    BY <1>5 DEF WriteBlock
  <2>2. k \in Nat
    BY <2>1 DEF TypeOK, Smaller
  <2>3. Bytes(off, k) \in Seq(Nat)
    BY <2>2 DEF TypeOK, Bytes
  <2>. QED
    BY <1>5, <2>1, <2>2, <2>3 DEF TypeOK, WriteBlock
<1>6. CASE MainFails \/ MainOpens \/ MainWithoutTransfer \/ MainReturns
  BY <1>6 DEF TypeOK, MainFails, MainOpens, MainWithoutTransfer, MainReturns,
              Exits, Quiet
<1>7. CASE MainTransfers
  BY <1>7, BeginType DEF TypeOK, MainTransfers
<1>8. CASE AppCalls
  BY <1>8, BeginType DEF TypeOK, AppCalls
<1>9. CASE UNCHANGED vars
  BY <1>9 DEF TypeOK, vars
<1>. QED
  BY <1>1, <1>2, <1>3, <1>4, <1>5, <1>6, <1>7, <1>8, <1>9 DEF Next, Step, Ended

\* Every variable keeps its type, whatever the device and the caller do.
THEOREM TypeCorrect == Spec => []TypeOK
<1>1. Init => TypeOK
  BY MaxSizeAssumption DEF Init, TypeOK, Results
<1>. QED
  BY <1>1, TypeStep, PTL DEF Spec

-----------------------------------------------------------------------------
(* The bytes that have been moved. *)

\* The destination holds the bytes before the offset.
MovedInv == dst = Bytes(0, off) /\ off <= size

\* The next bytes of the source extend the bytes before them.
LEMMA NextBytes ==
  ASSUME NEW a \in Nat, NEW k \in Nat
  PROVE  Bytes(0, a) \o Bytes(a, k) = Bytes(0, a + k)
<1>1. Len(Bytes(0, a)) = a /\ Len(Bytes(a, k)) = k
  BY DEF Bytes
<1>. QED
  BY <1>1 DEF Bytes

LEMMA NoBytes == Bytes(0, 0) = <<>>
  BY DEF Bytes

\* What a step does to the bytes: nothing, or it moves the k next ones.
Moves(k) ==
  /\ dst' = dst \o Bytes(off, k) /\ off' = off + k /\ n' = k
  /\ k <= size - off
  /\ {pc, pc'} \cap {"idle", "overrun"} = {}
  /\ UNCHANGED <<mainVars, callVars, file, result>>

\* The three steps that move bytes.
LEMMA MovingStep ==
  ASSUME TypeOK, MovedInv, ReadBlock \/ ReadAgain \/ WriteBlock
  PROVE  \E k \in Nat : Moves(k)
<1> USE DEF Moves, callVars
<1>1. CASE ReadBlock
  <2>1. PICK k \in 1..Smaller(Wanted, Rest(size, off)) : Arrive(k)
    BY <1>1 DEF ReadBlock
  <2>2. k \in Nat /\ k <= size - off
    BY <2>1, BlockAssumption, MaxSizeAssumption
       DEF TypeOK, MovedInv, Wanted, Smaller, Rest
  <2>3. Moves(k)
    BY <1>1, <2>1, <2>2 DEF ReadBlock, Reading, Arrive
  <2>. QED
    BY <2>2, <2>3
<1>2. CASE ReadAgain
  <2>1. PICK k \in 0..Smaller(n, Smaller(Block, Rest(size, off))) : Arrive(k)
    BY <1>2 DEF ReadAgain
  <2>2. k \in Nat /\ k <= size - off
    BY <2>1, BlockAssumption, MaxSizeAssumption
       DEF TypeOK, MovedInv, Smaller, Rest
  <2>3. Moves(k)
    BY <1>2, <2>1, <2>2 DEF ReadAgain, Arrive
  <2>. QED
    BY <2>2, <2>3
<1>3. CASE WriteBlock
  <2>1. PICK k \in 0..Smaller(Block, size - off) :
          dst' = dst \o Bytes(off, k) /\ off' = off + k /\ n' = k
    BY <1>3 DEF WriteBlock
  <2>2. k \in Nat /\ k <= size - off
    BY <2>1, BlockAssumption, MaxSizeAssumption
       DEF TypeOK, MovedInv, Smaller
  <2>3. Moves(k)
    BY <1>3, <2>1, <2>2 DEF WriteBlock
  <2>. QED
    BY <2>2, <2>3
<1>. QED
  BY <1>1, <1>2, <1>3

LEMMA MovedStep == TypeOK /\ MovedInv /\ [Next]_vars => MovedInv'
<1> SUFFICES ASSUME TypeOK, MovedInv, [Next]_vars PROVE MovedInv'
  OBVIOUS
<1> USE DEF callVars, moveVars, mainVars
<1>1. CASE ReadBlock \/ ReadAgain \/ WriteBlock
  <2>1. PICK k \in Nat : Moves(k)
    BY <1>1, MovingStep
  <2>2. dst' = Bytes(0, off')
    BY <2>1, NextBytes DEF TypeOK, MovedInv, Moves
  <2>3. off' <= size'
    BY <2>1, MaxSizeAssumption DEF TypeOK, Moves
  <2>. QED
    BY <2>2, <2>3 DEF MovedInv
<1>2. CASE ReadNothing \/ Overrun
  BY <1>2 DEF MovedInv, ReadNothing, Overrun, Bytes
<1>3. CASE LoadEnds \/ SaveEnds \/ Throws
  BY <1>3 DEF MovedInv, LoadEnds, SaveEnds, Throws, Bytes
<1>4. CASE MainFails \/ MainOpens \/ MainWithoutTransfer \/ MainReturns
  BY <1>4 DEF MovedInv, MainFails, MainOpens, MainWithoutTransfer, MainReturns,
              Exits, Quiet, Bytes
<1>5. ASSUME NEW o \in {"load", "save"}, NEW f \in {"on", "off"}, Begin(o, f)
      PROVE  MovedInv'
  <2>1. off' = 0 /\ dst' = <<>> /\ size' \in 0..MaxSize
    BY <1>5 DEF Begin, Call
  <2>. QED
    BY <2>1, NoBytes, MaxSizeAssumption DEF MovedInv, Bytes
<1>6. CASE MainTransfers \/ AppCalls
  BY <1>5, <1>6 DEF MainTransfers, AppCalls
<1>7. CASE UNCHANGED vars
  BY <1>7 DEF MovedInv, vars, Bytes
<1>. QED
  BY <1>1, <1>2, <1>3, <1>4, <1>6, <1>7 DEF Next, Step, Ended

LEMMA Moved == Spec => [](TypeOK /\ MovedInv)
<1>1. Init => MovedInv
  BY NoBytes DEF Init, MovedInv, Bytes
<1>. QED
  BY <1>1, TypeCorrect, MovedStep, PTL DEF Spec

-----------------------------------------------------------------------------
(* A device that does not fail. *)

\* While nothing has failed, a read loop that ends has reached the end of the
\* file: what is left to read covers what is left of the file, and a block of
\* no bytes comes only at the end.  What is read again fits into the buffer.
CalmInv ==
  fault = "no" =>
    /\ pc # "overrun" /\ (pc = "again" => n = Rest(size, off) /\ n <= Block)
    /\ pc = "idle" <=> file = "closed"
    /\ pc \in {"read", "again"} => op = "load"
    /\ pc = "write" => op = "save" /\ (n = 0 => off = size)
    /\ size <= IntMax =>
         /\ pc = "read" => length >= size - off /\ (n = 0 => off = size)
         /\ pc = "again" => length >= size - off
         /\ pc = "idle" /\ result # "none" =>
              off = size /\ result \in {"loaded", "true"}

\* A size that is an int is not changed by the cast.
LEMMA CastKeeps ==
  ASSUME NEW v \in 0..IntMax PROVE ToInt(v) = v
  BY IntMaxAssumption DEF ToInt

LEMMA CalmStep == TypeOK /\ MovedInv /\ CalmInv /\ [Next]_vars => CalmInv'
<1> SUFFICES ASSUME TypeOK, MovedInv, CalmInv, [Next]_vars, fault' = "no"
             PROVE  CalmInv'
  BY DEF CalmInv
<1> USE BlockAssumption, MaxSizeAssumption, IntMaxAssumption
    DEF callVars, moveVars, mainVars
<1>1. CASE ReadBlock
  <2> DEFINE want == Smaller(Wanted, Rest(size, off))
  <2>1. PICK k \in 1..want :
          Arrive(k) /\ fault' = IF k < want THEN "yes" ELSE fault
    BY <1>1 DEF ReadBlock
  <2>3. want \in Int
    BY DEF TypeOK, Wanted, Smaller, Rest
  <2>2. fault = "no" /\ pc = "read" /\ length > 0 /\ k = want
    BY <1>1, <2>1, <2>3 DEF ReadBlock, Reading
  <2>. QED
    BY <1>1, <2>1, <2>2
       DEF TypeOK, MovedInv, CalmInv, ReadBlock, Reading, Wanted, Smaller,
           Rest, Arrive
<1>2. CASE ReadNothing
  BY <1>2 DEF TypeOK, MovedInv, CalmInv, ReadNothing, Reading, Wanted,
              Smaller, Rest
<1>3. CASE ReadAgain
  <2>1. PICK k \in 0..Smaller(n, Smaller(Block, Rest(size, off))) :
          Arrive(k) /\ fault' = IF k < n THEN "yes" ELSE fault
    BY <1>3 DEF ReadAgain
  <2>2. pc = "again" /\ pc' = "read" /\ fault = "no" /\ k = n
    BY <1>3, <2>1 DEF TypeOK, ReadAgain, Smaller, Rest
  <2>. QED
    BY <1>3, <2>1, <2>2 DEF TypeOK, MovedInv, CalmInv, ReadAgain, Arrive, Rest
<1>12. CASE Overrun
  BY <1>12 DEF TypeOK, CalmInv, Overrun
<1>4. CASE LoadEnds
  BY <1>4 DEF TypeOK, MovedInv, CalmInv, LoadEnds, Reading, CloseFile
<1>5. CASE WriteBlock
  BY <1>5 DEF TypeOK, MovedInv, CalmInv, WriteBlock, Smaller
<1>6. CASE SaveEnds
  BY <1>6 DEF TypeOK, MovedInv, CalmInv, SaveEnds, CloseFile
<1>7. CASE Throws
  BY <1>7 DEF Throws
<1>8. CASE MainFails \/ MainOpens \/ MainWithoutTransfer \/ MainReturns
  BY <1>8 DEF CalmInv, MainFails, MainOpens, MainWithoutTransfer, MainReturns,
              Exits, Quiet, Rest
<1>9. ASSUME NEW o \in {"load", "save"}, NEW f \in {"on", "off"}, Begin(o, f)
      PROVE  CalmInv'
  <2>1. PICK s \in 0..MaxSize : Call(o, f, s) /\ Opens(o)
    BY <1>9 DEF Begin, OpenFails
  <2>2. size' <= IntMax => length' >= size' - off'
    BY <2>1, CastKeeps DEF Call, Opens
  <2>. QED
    BY <2>1, <2>2 DEF CalmInv, Call, Opens
<1>10. CASE MainTransfers \/ AppCalls
  BY <1>9, <1>10 DEF MainTransfers, AppCalls
<1>11. CASE UNCHANGED vars
  BY <1>11 DEF CalmInv, vars, Rest
<1>. QED
  BY <1>1, <1>2, <1>3, <1>4, <1>5, <1>6, <1>7, <1>8, <1>10, <1>11, <1>12
     DEF Next, Step, Ended

\* Without a fault a transfer moves the whole file and closes it, for every
\* block size and with both kinds of devices, and never overruns the buffer.
THEOREM WholeWithoutFaultsHolds == Spec => []WholeWithoutFaults
<1>1. Init => CalmInv
  BY DEF Init, CalmInv
<1>2. MovedInv /\ CalmInv => WholeWithoutFaults
  BY DEF MovedInv, CalmInv, WholeWithoutFaults
<1>. QED
  BY <1>1, <1>2, CalmStep, Moved, PTL DEF Spec

-----------------------------------------------------------------------------
(* The exit code of gc_file. *)

\* gc_file begins one transfer, with exceptions; a file it has written without
\* an exception is complete.
ToolInv ==
  /\ main \in {"args", "ready"} => pc = "idle" /\ op = "load"
  /\ main = "call" => flag = "on"
  /\ main = "call" /\ pc = "idle" /\ op = "save" =>
       result \in {"invalid", "generic"} \/ (result = "true" /\ off = size)
  /\ pc \in {"read", "again"} => op = "load"
  /\ pc # "idle" => main \in {"call", "app"}
  /\ main = "exit" /\ exit = 0 /\ op = "save" => off = size

LEMMA ToolStep == TypeOK /\ ToolInv /\ [Next]_vars => ToolInv'
<1> SUFFICES ASSUME TypeOK, ToolInv, [Next]_vars PROVE ToolInv'
  OBVIOUS
<1> USE DEF ToolInv, callVars, moveVars, mainVars
<1>1. CASE ReadBlock \/ ReadNothing \/ ReadAgain \/ Overrun
  BY <1>1 DEF ReadBlock, ReadNothing, ReadAgain, Overrun, Reading, Arrive
<1>2. CASE LoadEnds \/ SaveEnds \/ Throws
  BY <1>2 DEF LoadEnds, SaveEnds, Throws
<1>3. CASE WriteBlock
  BY <1>3 DEF WriteBlock
<1>4. CASE MainFails \/ MainOpens \/ MainWithoutTransfer
  BY <1>4 DEF MainFails, MainOpens, MainWithoutTransfer, Exits, Quiet
<1>5. CASE MainReturns
  BY <1>5 DEF MainReturns, Exits, Quiet
<1>6. CASE MainTransfers
  <2>1. PICK o \in {"load", "save"} : Begin(o, "on")
    BY <1>6 DEF MainTransfers
  <2>2. main' = "call" /\ flag' = "on" /\ op' = o
    BY <1>6, <2>1 DEF MainTransfers, Begin, Call
  <2>3. \/ pc' = IF o = "load" THEN "read" ELSE "write"
        \/ pc' = "idle" /\ result' \in {"generic", "invalid"}
    BY <2>1 DEF Begin, Call, Opens, OpenFails
  <2>. QED
    BY <2>2, <2>3
<1>7. CASE AppCalls
  BY <1>7 DEF AppCalls, Begin, Call, Opens, OpenFails
<1>8. CASE UNCHANGED vars
  BY <1>8 DEF vars
<1>. QED
  BY <1>1, <1>2, <1>3, <1>4, <1>5, <1>6, <1>7, <1>8 DEF Next, Step, Ended

\* gc_file -w ends with exit code 0 only if the device has been given the whole
\* file.
THEOREM ExitTellsSavedHolds == Spec => []ExitTellsSaved
<1>1. Init => ToolInv
  BY DEF Init, ToolInv
<1>2. MovedInv /\ ToolInv => ExitTellsSaved
  BY DEF MovedInv, ToolInv, ExitTellsSaved
<1>. QED
  BY <1>1, <1>2, ToolStep, Moved, PTL DEF Spec

-----------------------------------------------------------------------------
(* FileAccess implements FileTransfer. *)

\* A call that reports success has moved everything.
ReportInv == pc = "idle" /\ result = "true" => off = size

LEMMA ReportStep == TypeOK /\ ReportInv /\ [Next]_vars => ReportInv'
  BY DEF TypeOK, ReportInv, Next, Step, ReadBlock, Reading, ReadNothing,
         ReadAgain, Overrun, LoadEnds, WriteBlock, SaveEnds, Throws, MainFails,
         MainOpens, MainWithoutTransfer, MainReturns, MainTransfers, AppCalls,
         Begin, Call, Opens, OpenFails, Exits, Quiet, Ended, callVars,
         moveVars, mainVars, vars

AbstractStep ==
  Transfer!Next \/ UNCHANGED <<size, dst, Outcome>>

LEMMA Simulation ==
  TypeOK /\ MovedInv /\ ReportInv /\ [Next]_vars => AbstractStep
<1> SUFFICES ASSUME TypeOK, MovedInv, ReportInv, [Next]_vars PROVE AbstractStep
  OBVIOUS
<1> USE DEF AbstractStep, callVars, moveVars, mainVars, Results
<1>1. CASE ReadBlock \/ ReadAgain \/ WriteBlock
  <2>1. PICK k \in Nat : Moves(k)
    BY <1>1, MovingStep
  <2>2. Len(dst) = off
    BY DEF TypeOK, MovedInv, Bytes
  <2>3. k \in 0..(size - Len(dst))
    BY <2>1, <2>2, MaxSizeAssumption DEF TypeOK, Moves
  <2>4. Outcome = "busy" /\ Outcome' = "busy"
    BY <2>1 DEF Moves, Outcome
  <2>5. Transfer!Move(k)
    BY <2>1, <2>2, <2>4
       DEF Transfer!Move, Transfer!Bytes, Moves, Bytes
  <2>. QED
    BY <2>3, <2>5 DEF Transfer!Next
<1>2. CASE ReadNothing
  BY <1>2 DEF ReadNothing, Reading, Outcome
<1>8. CASE Overrun
  <2>1. Outcome = "busy" /\ Outcome' = "undefined" /\ UNCHANGED <<size, dst>>
    BY <1>8 DEF Overrun, Outcome
  <2>. QED
    BY <2>1 DEF Transfer!Spoil, Transfer!Next
<1>3. CASE LoadEnds \/ SaveEnds \/ Throws
  <2>1. Outcome = "busy" /\ UNCHANGED <<size, dst>>
    BY <1>3 DEF LoadEnds, SaveEnds, Throws, Reading, Outcome
  <2>2. Outcome' \in Transfer!Outcomes \ {"none"}
    BY <1>3 DEF LoadEnds, SaveEnds, Throws, Outcome, Transfer!Outcomes
  <2>3. Outcome' = "complete" => off = size
    BY <1>3 DEF LoadEnds, SaveEnds, Throws, Outcome
  <2>4. Outcome' = "complete" => dst = Transfer!Bytes(0, size)
    BY <2>3 DEF MovedInv, Bytes, Transfer!Bytes
  <2>5. Transfer!End(Outcome')
    BY <2>1, <2>4 DEF Transfer!End
  <2>. QED
    BY <2>2, <2>5 DEF Transfer!Next
<1>4. CASE MainFails \/ MainOpens \/ MainWithoutTransfer \/ MainReturns
  BY <1>4 DEF MainFails, MainOpens, MainWithoutTransfer, MainReturns, Exits,
              Quiet, Outcome
<1>5. ASSUME NEW o \in {"load", "save"}, NEW f \in {"on", "off"}, Begin(o, f)
      PROVE  AbstractStep
  <2>1. PICK s \in 0..MaxSize : Call(o, f, s) /\ (Opens(o) \/ OpenFails(o, f))
    BY <1>5 DEF Begin
  <2>2. Outcome \in Transfer!Outcomes /\ size' \in Nat /\ dst' = <<>>
    BY <2>1, MaxSizeAssumption DEF Call, Outcome, Transfer!Outcomes
  <2>3. CASE Opens(o)
    <3>1. Outcome' = "busy"
      BY <2>3 DEF Opens, Outcome
    <3>. QED
      BY <2>2, <3>1 DEF Transfer!Begin, Transfer!Next
  <2>4. CASE OpenFails(o, f)
    <3>1. Outcome' \in {"failed", "unknown"}
      BY <2>1, <2>4 DEF Call, OpenFails, Outcome
    <3>. QED
      BY <2>2, <3>1 DEF Transfer!Refuse, Transfer!Next
  <2>. QED
    BY <2>1, <2>3, <2>4
<1>6. CASE MainTransfers \/ AppCalls
  BY <1>5, <1>6 DEF MainTransfers, AppCalls
<1>7. CASE UNCHANGED vars
  BY <1>7 DEF vars, Outcome
<1>. QED
  BY <1>1, <1>2, <1>3, <1>4, <1>6, <1>7, <1>8 DEF Next, Step, Ended

\* loadFile() and saveFile() move the bytes of the source in order, and report
\* a complete transfer only when all of them have been moved, whatever the
\* device does, up to the point where its answer makes loadFile() read behind
\* the end of its buffer.
THEOREM ImplementsTransfer == Spec => TransferKept
<1>1. Init => Transfer!Init /\ ReportInv
  BY DEF Init, Transfer!Init, Outcome, ReportInv
<1>2. TypeOK /\ MovedInv /\ ReportInv /\ [Next]_vars
        => [Transfer!Next]_<<size, dst, Outcome>>
  BY Simulation DEF AbstractStep
<1>. QED
  BY <1>1, <1>2, ReportStep, Moved, PTL
     DEF Spec, TransferKept, Transfer!Spec, Transfer!vars
=============================================================================
