--------------------------- MODULE PointcloudSync ---------------------------
(***************************************************************************)
(* The loop of the tool gc_pointcloud that waits for a left image, a       *)
(* disparity image and its confidence and error images which belong        *)
(* together, and stores the point cloud of the first such set.             *)
(*                                                                         *)
(* The device sends every component in the order of its time stamps; a     *)
(* buffer has one part or several of the same time stamp, in any order, or *)
(* arrives incomplete.  Every part is a step.                              *)
(***************************************************************************)
EXTENDS ImageList, FiniteSets

CONSTANTS
  LeftSize, DispSize,  \* sizes of left_list and of the other lists
  MaxAsync,   \* maxasync: buffers without a set before giving up
  Tolerances, \* values of tol: 0, and 50 ms in the exposure alternate mode
  MaxTime     \* bound on time stamps

ASSUME SizesAssumption ==
  LeftSize \in Nat \ {0} /\ DispSize \in Nat \ {0} /\ MaxAsync \in Nat \ {0}
ASSUME TimesAssumption ==
  Tolerances \subseteq Nat /\ MaxTime \in Nat \ {0} /\ None \notin 0..MaxTime

Components == {"Intensity", "Disparity", "Confidence", "Error"}

VARIABLES
  tol,     \* tol
  lists,   \* left_list, disp_list, conf_list, error_list
  async,   \* async
  run,     \* run: "on", or "off" once a set has been stored
  time,    \* time stamp of the buffer in work
  parts,   \* its parts that have not been looked at
  stored,  \* the sets that have been stored
  result,  \* "none" while the loop runs, "broken" after its break, then what
           \* the tool reports
  newest,  \* device: time stamp of the last image of a component
  smooth   \* "no" once an image is lost or comes too late for the lists

vars == <<tol, lists, async, run, time, parts, stored, result, newest, smooth>>

Size(c) == IF c = "Intensity" THEN LeftSize ELSE DispSize

Init ==
  /\ tol \in Tolerances
  /\ lists = [c \in Components |-> <<>>]
  /\ async = 0 /\ run = "on" /\ time = 0 /\ parts = {}
  /\ stored = <<>> /\ result = "none"
  /\ newest = [c \in Components |-> 0] /\ smooth = "yes"

Looping == result = "none" /\ parts = {}

\* The images of ps sent with time stamp ts come in time for the lists.
InTime(ps, ts) ==
  /\ \A c \in ps : ts = newest[c] + 1
  /\ \A c \in ps, d \in Components \ ps : ts - newest[d] <= Size(c)

\* grab() returns a buffer.
Grab ==
  /\ Looping /\ run = "on" /\ async < MaxAsync
  /\ async' = async + 1
  /\ \E ps \in SUBSET Components \ {{}}, ts \in 1..MaxTime, complete \in BOOLEAN :
        /\ \A c \in ps : ts > newest[c]
        /\ newest' = [c \in Components |-> IF c \in ps THEN ts ELSE newest[c]]
        /\ time' = ts
        /\ parts' = IF complete THEN ps ELSE {}
        /\ smooth' = IF complete /\ InTime(ps, ts) THEN smooth ELSE "no"
  /\ UNCHANGED <<tol, lists, run, stored, result>>

\* grab() has timed out: break.
GrabNothing ==
  /\ Looping /\ run = "on" /\ async < MaxAsync
  /\ async' = async + 1
  /\ result' = "broken"
  /\ UNCHANGED <<tol, lists, run, time, parts, stored, newest, smooth>>

MatchOf_AnyConfidence(c, ls) ==
  LET left == FindClose(ls["Intensity"], time, IF c = "Intensity" THEN 0 ELSE tol)
      disp == FindClose(ls["Disparity"], time, IF c = "Intensity" THEN tol ELSE 0)
      of(d) == IF disp = None THEN None ELSE FindClose(ls[d], disp, tol)
  IN  [left |-> left, disp |-> disp, conf |-> of("Confidence"), error |-> of("Error")]

\* The lists are searched before the new image is added.
MatchOf_BeforeAdd(c, ls) ==
  LET left == FindClose(lists["Intensity"], time, IF c = "Intensity" THEN 0 ELSE tol)
      disp == FindClose(lists["Disparity"], time, IF c = "Intensity" THEN tol ELSE 0)
      of(d) == IF disp = None THEN None ELSE Find(lists[d], disp)
  IN  [left |-> left, disp |-> disp, conf |-> of("Confidence"), error |-> of("Error")]

\* The images that belong to a part of component c.
MatchOf(c, ls) ==
  LET left == FindClose(ls["Intensity"], time, IF c = "Intensity" THEN 0 ELSE tol)
      disp == FindClose(ls["Disparity"], time, IF c = "Intensity" THEN tol ELSE 0)
      of(d) == IF disp = None THEN None ELSE Find(ls[d], disp)
  IN  [left |-> left, disp |-> disp, conf |-> of("Confidence"), error |-> of("Error")]

IsSet(m) == None \notin {m.left, m.disp, m.conf, m.error}

\* Everything of the current time stamp or older is removed.
After(ls) == [c \in Components |-> RemoveOld(ls[c], time)]

\* One part: its image is added to its list, and the set it may complete is
\* stored and removed, with everything older.
Part ==
  \E c \in parts :
     LET ls == [lists EXCEPT ![c] = Add(@, Size(c), time)]
         m == MatchOf(c, ls)
     IN  /\ parts' = parts \ {c}
         /\ IF IsSet(m)
            THEN /\ stored' = Append(stored, m) /\ async' = 0 /\ run' = "off"
                 /\ lists' = After(ls)
            ELSE lists' = ls /\ UNCHANGED <<stored, async, run>>
         /\ UNCHANGED <<tol, time, result, newest, smooth>>

LoopIsOver ==
  \/ result = "broken"
  \/ Looping /\ (run = "off" \/ async >= MaxAsync)

Finish_OneMore ==
  /\ LoopIsOver
  /\ result' = IF async > MaxAsync /\ run = "on" THEN "not synchronized"
               ELSE IF result = "broken" THEN "no images" ELSE "done"
  /\ UNCHANGED <<tol, lists, async, run, time, parts, stored, newest, smooth>>

\* What is reported after the loop, however it was left; only the missing
\* synchronisation changes the exit code.
Finish ==
  /\ LoopIsOver
  /\ result' = IF async >= MaxAsync /\ run = "on" THEN "not synchronized"
               ELSE IF result = "broken" THEN "no images" ELSE "done"
  /\ UNCHANGED <<tol, lists, async, run, time, parts, stored, newest, smooth>>

Next == Grab \/ GrabNothing \/ Part \/ Finish

Spec == Init /\ [][Next]_vars

-----------------------------------------------------------------------------
(* Properties. *)

\* The point cloud is computed from images that belong together: disparity,
\* confidence and error have one time stamp, and the left image has it too, or
\* is closer than the tolerance.
StoredIsSynchronous ==
  \A k \in 1..Len(stored) : LET m == stored[k] IN
    /\ IsSet(m)
    /\ m.conf = m.disp /\ m.error = m.disp
    /\ IF tol = 0 THEN m.left = m.disp ELSE AbsDiff(m.left, m.disp) < tol

\* A set that is complete is stored with the buffer that completes it, whatever
\* the order of the images: no four images of one time stamp wait in the lists.
NothingMissed ==
  Looping /\ run = "on" =>
    \A ts \in 1..MaxTime : \E c \in Components : ts \notin Images(lists[c])

\* The lists are long enough: if no image is lost and no component is further
\* behind another one than that one's list is long, the first set is stored as
\* soon as it has arrived.
WindowSuffices ==
  smooth = "yes" /\ parts = {} /\ (\A c \in Components : newest[c] > 0)
    => stored # <<>>

\* The exit code is 1 only if no set has been stored, also if the last buffer
\* before giving up completes one.  It is 0 without a set only if a grab() has
\* timed out while there were tries left.
ResultIsRight ==
  /\ result = "done" => stored # <<>>
  /\ result = "not synchronized" => stored = <<>> /\ async = MaxAsync
  /\ result = "no images" => stored = <<>> /\ async < MaxAsync
=============================================================================
