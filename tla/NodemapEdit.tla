---------------------------- MODULE NodemapEdit ----------------------------
(***************************************************************************)
(* The node map editor: a list of features on a screen that may change its *)
(* size, with one loop for moving the focus and one loop for each way of   *)
(* editing a feature.  Every change is recorded as an argument of a        *)
(* command line.                                                           *)
(*                                                                         *)
(* The device has a selector, a feature that is selected by it, a command, *)
(* which also resets the selected feature, and one feature of any kind     *)
(* that is edited as text.                                                 *)
(***************************************************************************)
EXTENDS Parameters

CONSTANTS
  Names,       \* sequence of the features in the list
  Screens,     \* heights of the screen
  Columns,     \* width of the area for editing
  Visible,     \* bytes of a register on the screen
  Chars,       \* printable characters, apart from those special to a shell
               \* other than a blank
  MaxChanges   \* bound on the recorded changes

ASSUME NamesAssumption == Len(Names) \in Nat \ {0}
ASSUME ScreensAssumption == Screens \subseteq Nat \ {0}
ASSUME ColumnsAssumption == Columns \in Nat /\ Visible \in Nat \ {0}
ASSUME MaxChangesAssumption == MaxChanges \in Nat

VARIABLES
  phase,     \* the loop that waits for a key
  rows,      \* height of the screen
  top,       \* top_row
  focus,     \* focus_row
  row,       \* line of the edited text, set once
  resized,   \* "yes" after the screen has changed while editing
  text,      \* text that is edited
  cpos,      \* position of the cursor in it
  current,   \* option that is shown
  dev,       \* the device
  changed    \* recorded changes

place == <<rows, top, focus>>
edit  == <<row, resized, text, cpos, current>>
editVars == <<phase, place, edit, dev, changed>>

Feature(d, name) ==
  CASE name = "ComponentSelector" ->
         [kind |-> "enumeration", access |-> "RW", entries |-> d.entries,
          value |-> <<d.selector>>]
    [] name = "ComponentEnable" ->
         [kind |-> "boolean", access |-> "RW", value |-> d.enabled[d.selector]]
    [] name = "Command" ->
         [kind |-> "command", access |-> "WO", value |-> d.runs]
    [] name = "Feature" ->
         [kind |-> d.kind, access |-> d.access, value |-> d.value]
    [] OTHER -> [kind |-> "category", access |-> "RO", value |-> <<>>]

Store(d, name, value) ==
  CASE name = "ComponentSelector" -> [d EXCEPT !.selector = value[1]]
    [] name = "ComponentEnable"   -> [d EXCEPT !.enabled[d.selector] = value]
    [] name = "Command"           -> [d EXCEPT !.runs = value,
                                        !.enabled = [c \in d.entries |-> <<1>>]]
    [] name = "Feature"           -> [d EXCEPT !.value = value]

Name    == Names[focus + 1]
Focused == Feature(dev, Name)

\* What the editor shows for a feature; one that cannot be read is empty.
Shown(feature) == IF Readable(feature) THEN Text(feature, Visible) ELSE <<>>

Options(feature) ==
  IF ~Readable(feature) THEN <<>>
  ELSE CASE feature.kind = "boolean"     -> <<<<0>>, <<1>>>>
         [] feature.kind = "enumeration" -> SetToSeq({<<e>> : e \in feature.entries})
         [] OTHER                        -> <<>>

\* The last line of the screen is for messages; the focus is made visible.
Redrawn(t, f, r) ==
  IF r = 1 THEN t
  ELSE IF f < t THEN f
  ELSE IF f > t + r - 2 THEN f - r + 2
  ELSE t

-----------------------------------------------------------------------------
(* The loop for navigation. *)

Move(t, f) ==
  /\ phase = "navigate"
  /\ focus' = f /\ top' = Redrawn(t, f, rows)
  /\ UNCHANGED <<phase, rows, edit, dev, changed>>

PageUp ==
  /\ focus > 0
  /\ IF rows > 1 THEN Move(Max({0, top - rows + 1}), Max({0, focus - rows + 1}))
                 ELSE Move(top, focus)

\* The focus moves by the height of the screen instead of its lines.
PageDown_WholeScreen ==
  /\ focus + 1 < Len(Names)
  /\ IF rows > 1
     THEN Move(Min({top + rows - 1, Max({0, Len(Names) - rows + 1})}), focus + rows)
     ELSE Move(top, focus)

PageDown ==
  /\ focus + 1 < Len(Names)
  /\ IF rows > 1
     THEN Move(Min({top + rows - 1, Max({0, Len(Names) - rows + 1})}),
               Min({focus + rows - 1, Len(Names) - 1}))
     ELSE Move(top, focus)

Up   == focus > 0 /\ Move(top, focus - 1)
Down == focus + 1 < Len(Names) /\ Move(top, focus + 1)

Enter(loop) ==
  /\ phase = "navigate" /\ Writable(Focused)
  /\ phase' = loop
  /\ UNCHANGED <<place, resized, dev, changed>>

EnterExecute ==
  /\ Focused.kind = "command" /\ Enter("execute")
  /\ UNCHANGED <<row, text, cpos, current>>

EnterOption ==
  /\ Focused.kind # "command" /\ Options(Focused) # <<>>
  /\ Enter("option")
  /\ current' = CHOOSE i \in 1..Len(Options(Focused)) : Options(Focused)[i] = Focused.value
  /\ UNCHANGED <<row, text, cpos>>

EnterString ==
  /\ Focused.kind # "command" /\ Options(Focused) = <<>>
  /\ Enter("string")
  /\ text' = Shown(Focused) /\ cpos' = Len(text')
  /\ row' = focus - top
  /\ UNCHANGED current

-----------------------------------------------------------------------------
(* The loops for editing. *)

Editing == phase \in {"execute", "option", "string"}

\* Every loop redraws when the size of the screen changes.
Resize ==
  /\ phase = "navigate" \/ Editing
  /\ rows' \in Screens /\ top' = Redrawn(top, focus, rows')
  /\ resized' = IF Editing THEN "yes" ELSE resized
  /\ UNCHANGED <<phase, focus, row, text, cpos, current, dev, changed>>

\* The variables of the loop are gone.
Leave ==
  /\ phase' = "navigate" /\ top' = Redrawn(top, focus, rows)
  /\ row' = 0 /\ resized' = "no" /\ text' = <<>> /\ cpos' = 0 /\ current' = 1
  /\ UNCHANGED <<rows, focus>>

Cancel == Editing /\ Leave /\ UNCHANGED <<dev, changed>>

Record(entry) ==
  /\ Len(changed) < MaxChanges
  /\ changed' = Append(changed, [name |-> Name, text |-> entry])

Execute ==
  /\ phase = "execute"
  /\ LET outcome == CallCommand(Focused, FALSE, FALSE)
     IN dev' = Store(dev, Name, outcome.value) /\ Record(<<>>)
  /\ Leave

\* A command that fails is not recorded.
ExecuteFails == phase = "execute" /\ Leave /\ UNCHANGED <<dev, changed>>

OptionUp ==
  /\ phase = "option" /\ current > 1
  /\ current' = current - 1
  /\ UNCHANGED <<phase, place, row, resized, text, cpos, dev, changed>>

OptionDown ==
  /\ phase = "option" /\ current < Len(Options(Focused))
  /\ current' = current + 1
  /\ UNCHANGED <<phase, place, row, resized, text, cpos, dev, changed>>

\* The value that the feature had before is recorded.
SetValue_RecordsOld(value) ==
  /\ dev' = Store(dev, Name, value)
  /\ Record(Shown(Focused))

\* NodeParam::setValue, and the value it leaves is recorded.
SetValue(value) ==
  /\ dev' = Store(dev, Name, value)
  /\ Record(Shown(Feature(dev', Name)))

\* The change is recorded even if the device refuses it.
TakeOption ==
  /\ phase = "option"
  /\ \E value \in {Options(Focused)[current], Focused.value} : SetValue(value)
  /\ Leave

Type(t, c) ==
  /\ phase = "string"
  /\ text' = t /\ cpos' = c
  /\ UNCHANGED <<phase, place, row, resized, current, dev, changed>>

Left == cpos > 0 /\ Type(text, cpos - 1)
\* The cursor is stopped by the columns only.
Right_ToTheEdge == cpos + 1 < Columns /\ Type(text, cpos + 1)

Right == cpos < Len(text) /\ cpos + 1 < Columns /\ Type(text, cpos + 1)

Backspace == cpos > 0 /\ Type(RemoveAt(text, cpos), cpos - 1)
Delete    == cpos < Len(text) /\ Type(RemoveAt(text, cpos + 1), cpos)

\* An element of an address is a byte, with whatever sign it has been typed, and
\* a float is typed as one element.
Allowed ==
  CASE dev.kind = "string"                      -> Chars
    [] dev.kind \in {"integer", "hex", "float"} -> -1..(Base - 1)
    [] OTHER                                    -> 0..(Base - 1)

Insert ==
  /\ Len(text) < Columns
  /\ \E c \in Allowed : Type(InsertAt(text, cpos + 1, c), cpos + 1)

\* What a device may store instead of a number: it rounds, and cuts at limits.  A
\* number that it has stored once is left alone.
Instead(feature, given) ==
  IF feature.kind \in {"integer", "hex"} /\ given \notin {{}, {feature.value}}
  THEN Representable ELSE {}

\* A text that is not converted, or not accepted, leaves the value as it is.
TakeString ==
  /\ phase = "string"
  /\ LET given == Parse(Focused, text, FALSE)
     IN \E value \in given \cup Instead(Focused, given) \cup {Focused.value} :
           SetValue(value)
  /\ Leave

Edit ==
  \/ PageUp \/ PageDown \/ Up \/ Down
  \/ EnterExecute \/ EnterOption \/ EnterString
  \/ Resize \/ Cancel
  \/ Execute \/ ExecuteFails
  \/ OptionUp \/ OptionDown \/ TakeOption
  \/ Left \/ Right \/ Backspace \/ Delete \/ Insert \/ TakeString
=============================================================================
