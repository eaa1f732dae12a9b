----------------------------- MODULE FileAccess -----------------------------
(***************************************************************************)
(* Files of a device: rcg::loadFile() and rcg::saveFile(), which transfer  *)
(* a file in blocks through the file access features of the node map, and  *)
(* their callers, the tool gc_file or an application that calls the two    *)
(* functions as it likes.                                                  *)
(*                                                                         *)
(* One call of GenApi::FileProtocolAdapter is one step.  The device may    *)
(* refuse to open the file, move fewer bytes than asked for, report any    *)
(* number of bytes, or not answer at all, which makes the adapter throw a  *)
(* GenericException.                                                       *)
(***************************************************************************)
EXTENDS Integers, Sequences

CONSTANTS
  Block,    \* bytes per block, 512 in the code
  IntMax,   \* largest int
  MaxSize,  \* bound on the size of a file
  MaxReport \* bound on the FileOperationResult of a device that has failed

ASSUME BlockAssumption == Block \in Nat \ {0}
ASSUME IntMaxAssumption == IntMax \in Nat \ {0}
ASSUME MaxSizeAssumption == MaxSize \in Nat
ASSUME MaxReportAssumption == MaxReport \in Nat

VARIABLES
  main,    \* gc_file's main(): "args", "ready", "call" or "exit"; or "app"
  exit,    \* gc_file's exit code
  dev,     \* the device, "open" or "closed"
  pc,      \* where the transfer stands: "idle", "read", "again", "write", or
           \* "overrun" when it has written behind its buffer
  op,      \* "load" or "save"
  flag,    \* the parameter exception, "on" or "off"
  size,    \* number of bytes in the source
  length,  \* bytes still to be read
  off,     \* offset in the file
  n,       \* bytes moved by the last block
  dst,     \* bytes of the returned string, or of the file on the device
  blocks,  \* a device that refuses a block beyond the end: "strict", or "short"
  file,    \* the file on the device is "open" or "closed"
  fault,   \* "yes" once the device has failed in this call, else "no"
  result   \* how the last call ended

callVars == <<op, flag, size, blocks>>
moveVars == <<length, off, n, dst>>
mainVars == <<main, exit, dev>>
vars == <<mainVars, pc, callVars, moveVars, file, fault, result>>

Results == {"none", "loaded", "true", "false", "invalid", "generic"}

\* static_cast<int>(v)
ToInt(v) == ((v + IntMax + 1) % (2 * (IntMax + 1))) - (IntMax + 1)

\* The number of bytes of a source of s bytes at offset o.
Rest(s, o) == IF o < s THEN s - o ELSE 0

Smaller(a, b) == IF a < b THEN a ELSE b

\* The k bytes of the source behind offset o.
Bytes(o, k) == [i \in 1..k |-> o + i]

Init ==
  /\ main \in {"args", "app"} /\ exit = 0
  /\ dev = IF main = "app" THEN "open" ELSE "closed"
  /\ pc = "idle" /\ op = "load" /\ flag = "on" /\ size = 0 /\ blocks = "short"
  /\ length = 0 /\ off = 0 /\ n = 0 /\ dst = <<>>
  /\ file = "closed" /\ fault = "no" /\ result = "none"

-----------------------------------------------------------------------------
(* The beginning of a call: openFile(), and the size of the file. *)

Call(o, f, s) ==
  /\ pc = "idle"
  /\ op' = o /\ flag' = f /\ size' = s /\ blocks' \in {"strict", "short"}
  /\ off' = 0 /\ n' = Block /\ dst' = <<>>

\* The file is opened.  A feature FileSize that cannot be read leaves the
\* largest int.
Opens(o) ==
  /\ pc' = IF o = "load" THEN "read" ELSE "write"
  /\ length' \in {ToInt(size'), IntMax}
  /\ file' = "open" /\ fault' = "no" /\ result' = "none"

\* openFile() answers false or throws.
OpenFails(o, f) ==
  /\ result' \in {"generic", IF f = "on" THEN "invalid"
                             ELSE IF o = "load" THEN "loaded" ELSE "false"}
  /\ fault' = "yes"
  /\ UNCHANGED <<pc, length, file>>

Begin(o, f) ==
  \E s \in 0..MaxSize : Call(o, f, s) /\ (Opens(o) \/ OpenFails(o, f))

-----------------------------------------------------------------------------
(* loadFile() *)

\* A read that moves nothing is repeated.
Reading_Repeats == pc = "read" /\ length > 0

Reading == pc = "read" /\ n > 0 /\ length > 0

Wanted == Smaller(length, Block)

\* k bytes arrive and are appended.
Arrive(k) ==
  /\ dst' = dst \o Bytes(off, k)
  /\ off' = off + k /\ length' = length - k /\ n' = k

\* The next block arrives, or the beginning of it.
ReadBlock ==
  /\ Reading
  /\ Wanted <= size - off \/ (blocks = "short" /\ off < size)
  /\ LET want == Smaller(Wanted, Rest(size, off)) IN
     \E k \in 1..want :
        /\ Arrive(k)
        /\ fault' = IF k < want THEN "yes" ELSE fault
  /\ UNCHANGED <<mainVars, pc, callVars, file, result>>

\* The read moves nothing; FileOperationResult is asked for how many bytes the
\* device has.  Without a fault that is the rest of the file; a device that
\* has failed may answer with any number.
ReadNothing ==
  /\ Reading
  /\ \/ /\ Wanted > size - off /\ (blocks = "strict" \/ off >= size)
        /\ n' = Rest(size, off) /\ UNCHANGED fault
     \/ n' \in 0..MaxReport /\ fault' = "yes"
  /\ pc' = "again"
  /\ UNCHANGED <<mainVars, callVars, length, off, dst, file, result>>

\* The result of the failed read is not asked for.
ReadAgain_NoWorkaround ==
  /\ pc = "again" /\ pc' = "read"
  /\ Arrive(0)
  /\ UNCHANGED <<mainVars, callVars, file, fault, result>>

\* The second read asks for these bytes; it may come back with fewer.
ReadAgain ==
  /\ pc = "again" /\ pc' = "read"
  /\ \E k \in 0..Smaller(n, Smaller(Block, Rest(size, off))) :
        /\ Arrive(k)
        /\ fault' = IF k < n THEN "yes" ELSE fault
  /\ UNCHANGED <<mainVars, callVars, file, result>>

\* It asks for more than the buffer holds and gets it.  What happens then is
\* undefined, and nothing more is said of it.
Overrun ==
  /\ pc = "again" /\ n > Block /\ Rest(size, off) > Block
  /\ pc' = "overrun"
  /\ UNCHANGED <<mainVars, callVars, moveVars, file, fault, result>>

\* closeFile(), whose answer is ignored.
CloseFile ==
  \/ file' = "closed" /\ UNCHANGED fault
  \/ UNCHANGED file /\ fault' = "yes"

LoadEnds ==
  /\ pc = "read" /\ ~Reading
  /\ pc' = "idle" /\ result' = "loaded" /\ CloseFile
  /\ UNCHANGED <<mainVars, callVars, moveVars>>

-----------------------------------------------------------------------------
(* saveFile() *)

\* The offset moves on by what has been asked for.
WriteBlock_IgnoresShort ==
  /\ pc = "write" /\ n > 0
  /\ LET want == Smaller(Block, size - off) IN
       /\ \E k \in 0..want :
             /\ dst' = dst \o Bytes(off, k)
             /\ fault' = IF k < want THEN "yes" ELSE fault
       /\ off' = off + want /\ n' = want
  /\ UNCHANGED <<mainVars, pc, callVars, length, file, result>>

\* The loop goes on behind a short write and ends with one of no bytes.
WriteBlock ==
  /\ pc = "write" /\ n > 0
  /\ LET want == Smaller(Block, size - off) IN
     \E k \in 0..want :
        /\ dst' = dst \o Bytes(off, k)
        /\ off' = off + k /\ n' = k
        /\ fault' = IF k < want THEN "yes" ELSE fault
  /\ UNCHANGED <<mainVars, pc, callVars, length, file, result>>

SaveEnds ==
  /\ pc = "write" /\ n = 0
  /\ pc' = "idle" /\ CloseFile
  /\ result' = IF off = size THEN "true"
               ELSE IF flag = "on" THEN "invalid" ELSE "false"
  /\ UNCHANGED <<mainVars, callVars, moveVars>>

\* A call of the adapter throws and leaves the function: the file is not
\* closed.
Throws ==
  /\ pc \in {"read", "again", "write"} /\ pc' = "idle"
  /\ fault' = "yes" /\ result' = "generic"
  /\ UNCHANGED <<mainVars, callVars, moveVars, file>>

Step ==
  \/ ReadBlock \/ ReadNothing \/ ReadAgain \/ Overrun \/ LoadEnds
  \/ WriteBlock \/ SaveEnds \/ Throws

-----------------------------------------------------------------------------
(* gc_file, and any other application. *)

Exits(code) == main' = "exit" /\ exit' = code

Quiet == UNCHANGED <<pc, callVars, moveVars, file, fault, result>>

\* The arguments are incomplete, the device is not found, or opening it throws.
MainFails ==
  /\ main = "args"
  /\ \E code \in {1, 2} : Exits(code)
  /\ UNCHANGED dev /\ Quiet

MainOpens ==
  /\ main = "args"
  /\ main' = "ready" /\ dev' = "open"
  /\ UNCHANGED exit /\ Quiet

\* -f lists the files, which may throw; another word is an error; so is a local
\* file that does not exist.  The device's destructor closes it if close() is
\* not reached.
MainWithoutTransfer ==
  /\ main = "ready"
  /\ \E code \in {0, 1, 2} : Exits(code)
  /\ dev' = "closed"
  /\ Quiet

MainTransfers ==
  /\ main = "ready"
  /\ main' = "call"
  /\ \E o \in {"load", "save"} : Begin(o, "on")
  /\ UNCHANGED <<exit, dev>>

\* An exception is not reported.
MainReturns_Silent ==
  /\ main = "call" /\ pc = "idle"
  /\ Exits(0)
  /\ dev' = "closed"
  /\ Quiet

MainReturns ==
  /\ main = "call" /\ pc = "idle"
  /\ Exits(IF result \in {"invalid", "generic"} THEN 2 ELSE 0)
  /\ dev' = "closed"
  /\ Quiet

AppCalls ==
  /\ main = "app"
  /\ \E o \in {"load", "save"}, f \in {"on", "off"} : Begin(o, f)
  /\ UNCHANGED mainVars

\* The tool has ended, or nothing is said of it any more.
Ended == (main = "exit" \/ pc = "overrun") /\ UNCHANGED vars

Next ==
  \/ Step
  \/ MainFails \/ MainOpens \/ MainWithoutTransfer \/ MainTransfers
  \/ MainReturns \/ AppCalls \/ Ended

Spec == Init /\ [][Next]_vars

\* The loops run, and the adapter answers or throws.
FairSpec == Spec /\ WF_vars(Step)

-----------------------------------------------------------------------------
(* Properties. *)

TypeOK ==
  /\ main \in {"args", "ready", "call", "exit", "app"} /\ exit \in 0..2
  /\ dev \in {"open", "closed"}
  /\ pc \in {"idle", "read", "again", "write", "overrun"}
  /\ op \in {"load", "save"} /\ flag \in {"on", "off"}
  /\ size \in 0..MaxSize /\ blocks \in {"strict", "short"}
  /\ length \in Int /\ off \in Nat /\ n \in Nat /\ dst \in Seq(Nat)
  /\ file \in {"open", "closed"} /\ fault \in {"no", "yes"}
  /\ result \in Results

\* A device that does not fail gets and gives the whole file, whether it knows
\* its size or not and whether it refuses a block beyond the end or shortens
\* it, as long as the size is an int; the call does not report an error, the
\* file is closed again, and the buffer is never too short.
WholeWithoutFaults ==
  fault = "no" =>
    /\ pc # "overrun"
    /\ pc = "idle" => file = "closed"
    /\ pc = "idle" /\ result # "none" /\ size <= IntMax =>
         dst = Bytes(0, size) /\ result \in {"loaded", "true"}

\* Exit code 0 after writing a file: all of it is on the device.  That the
\* device has closed the file there does not follow: the answer of closeFile()
\* is ignored.
ExitTellsSaved ==
  main = "exit" /\ exit = 0 /\ op = "save" => dst = Bytes(0, size)

\* The loops end, at the end of the file or when the device moves nothing, if
\* the buffer has not been overrun.
TransferEnds == pc # "idle" ~> pc \in {"idle", "overrun"}

\* The file is loaded in pieces of one block, as the comment at the beginning
\* of loadFile() says: no read asks for more than the buffer holds.
LoadedInPieces == pc = "again" => n <= Block

Outcome ==
  IF pc = "overrun" THEN "undefined"
  ELSE IF pc # "idle" THEN "busy"
  ELSE IF result = "none" THEN "none"
  ELSE IF result = "true" THEN "complete"
  ELSE IF result = "loaded" THEN "unknown"
  ELSE "failed"

Transfer == INSTANCE FileTransfer WITH outcome <- Outcome

\* loadFile() and saveFile() keep the promise of FileTransfer, whatever the
\* device does, until an answer of the device has overrun the buffer.
TransferKept == Transfer!Spec
=============================================================================
