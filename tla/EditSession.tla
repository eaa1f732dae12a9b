---------------------------- MODULE EditSession ----------------------------
(***************************************************************************)
(* gc_stream -e: the tool prepares the components of the device, lets the  *)
(* user edit the node map, and prints a command line with the arguments of *)
(* this call and all changes.  The module then calls the tool again with   *)
(* that command line, on a device in the same state as the first time.     *)
(***************************************************************************)
EXTENDS NodemapEdit

CONSTANTS
  Devices,  \* states in which the device may be at the first call
  Blank     \* the character that separates the arguments of a command line

\* The values of a feature that is edited as text.
Values(kind) ==
  CASE kind = "string"             -> Seq(Chars)
    [] kind \in {"integer", "hex"} -> Representable
    [] kind = "float"              -> Int \X Int
    [] kind = "ipv4"               -> [1..4 -> 0..(Base - 1)]
    [] kind = "mac"                -> [1..6 -> 0..(Base - 1)]
    [] kind = "register"           -> [1..Length -> 0..(Base - 1)]

\* The states of devices with these components and a feature of this kind.
DevicesOf(components, kind) ==
  [entries : {components}, selector : components, runs : Nat,
   enabled : [components -> {<<0>>, <<1>>}],
   kind : {kind}, access : {"RW", "RO", "WO"}, value : Values(kind)]

ASSUME DevicesAssumption == \A d \in Devices :
  /\ d.kind \in {"string", "integer", "hex", "float", "ipv4", "mac", "register"}
  /\ IsFiniteSet(d.entries) /\ d \in DevicesOf(d.entries, d.kind)

VARIABLES
  start,    \* the device at the first call
  edited,   \* the device when the first call begins to stream
  todo      \* what the second call has not processed yet of the printed line

sessionVars == <<editVars, start, edited, todo>>

\* The component that a device has besides Intensity when it combines images.
Combined == "IntensityCombined"

Init ==
  /\ dev \in Devices
  /\ phase = "prepare"
  /\ rows \in Screens /\ top = 0 /\ focus = 0
  /\ row = 0 /\ resized = "no" /\ text = <<>> /\ cpos = 0 /\ current = 1
  /\ changed = <<>>
  /\ start = dev /\ edited = dev /\ todo = <<>>

Select(d, component) ==
  LET outcome == SetEnum(Feature(d, "ComponentSelector"), <<component>>, FALSE)
  IN Done(Store(d, "ComponentSelector", outcome.value), outcome.result)

Enabled(d) == GetBoolean(Feature(d, "ComponentEnable")) = <<1>>

\* Component Intensity is disabled if IntensityCombined is enabled.  The
\* selector is left where it has been set.
Prepared(d) ==
  LET combined  == Select(d, Combined)
      intensity == Select(combined.value, "Intensity")
  IN IF ~(combined.result = "true" /\ Enabled(combined.value)) THEN combined.value
     ELSE IF ~(intensity.result = "true" /\ Enabled(intensity.value))
     THEN intensity.value
     ELSE Store(intensity.value, "ComponentEnable",
                SetBoolean(Feature(intensity.value, "ComponentEnable"), <<0>>, TRUE).value)

Prepare(next) ==
  /\ dev' = Prepared(dev)
  /\ phase' = next
  /\ UNCHANGED <<place, edit, changed, start, edited, todo>>

FirstCall  == phase = "prepare" /\ Prepare("navigate")
SecondCall == phase = "replay" /\ todo = <<>> /\ Prepare("done")

EditStep == Edit /\ UNCHANGED <<start, edited, todo>>

\* The user leaves the editor, and calls the tool again with the printed line,
\* in which the changes are separated by blanks and not quoted.
Quit ==
  /\ phase = "navigate"
  /\ top' = 0 /\ focus' = 0
  /\ edited' = dev /\ dev' = start /\ todo' = changed
  /\ phase' = "replay"
  /\ UNCHANGED <<rows, edit, changed, start>>

\* Reading a feature throws while the list is drawn or a value is edited.
EditorThrows ==
  /\ phase = "navigate" \/ Editing
  /\ phase' = "ended"
  /\ UNCHANGED <<place, edit, dev, changed, start, edited, todo>>

\* An argument without a value is a command.
Argument(d, entry) ==
  IF entry.text # <<>> THEN SetString(Feature(d, entry.name), entry.text, TRUE)
                       ELSE CallCommand(Feature(d, entry.name), TRUE, FALSE)

Blanks(t) == {i \in 1..Len(t) : t[i] = Blank}

\* The argument ends at the first blank of the text.
FirstWord(entry) ==
  [name |-> entry.name,
   text |-> IF Blanks(entry.text) = {} THEN entry.text
            ELSE SubSeq(entry.text, 1, Min(Blanks(entry.text)) - 1)]

\* The words behind it are arguments without a value, of which the first already
\* fails: it is not the name of a feature.
Word == [name |-> "word", text |-> <<>>]

OtherWords(entry) ==
  IF \E i \in Blanks(entry.text) : \E j \in i..Len(entry.text) : entry.text[j] # Blank
  THEN <<Word>> ELSE <<>>

\* The next argument of the line.
Replay ==
  /\ phase = "replay" /\ todo # <<>>
  /\ LET argument == FirstWord(Head(todo))
         outcome  == Argument(dev, argument)
     IN IF outcome.result = "throws"
        THEN phase' = "failed" /\ UNCHANGED dev
        ELSE dev' = Store(dev, argument.name, outcome.value) /\ UNCHANGED phase
  /\ todo' = OtherWords(Head(todo)) \o Tail(todo)
  /\ UNCHANGED <<place, edit, changed, start, edited>>

Over == phase \in {"done", "failed", "ended"} /\ UNCHANGED sessionVars

Next == FirstCall \/ EditStep \/ Quit \/ EditorThrows \/ Replay \/ SecondCall \/ Over

Spec == Init /\ [][Next]_sessionVars

-----------------------------------------------------------------------------
(* Properties. *)

\* The focus is in the list and on the screen above the last line, whatever
\* keys and sizes of the screen come.  The edited text is in the line of its
\* feature as long as the screen keeps its size; after that the code goes on
\* with the line it began with.
FocusVisible ==
  /\ focus \in 0..(Len(Names) - 1) /\ top >= 0
  /\ rows > 1 => top <= focus /\ focus <= top + rows - 2
  /\ phase = "string" /\ resized = "no" => row = focus - top

\* The cursor never leaves the text, so that erasing and inserting are defined.
CursorInText == cpos \in 0..Len(text)

\* The printed texts tell all values and are read back.  Not so a MAC address, of
\* which four bytes are parsed; a negative hexadecimal number, which is printed
\* as one that is too large; a float of more digits than are printed; a register
\* that is wider than the screen; an empty value, which makes a command of its
\* argument.
Convertible ==
  /\ dev.kind # "mac"
  /\ dev.kind = "float" => start.value[2] = 0
  /\ dev.kind = "register" => Visible >= Length
  /\ \A i \in 1..Len(changed) :
       changed[i].name = "Feature" =>
         /\ changed[i].text # <<>>
         /\ dev.kind = "hex" => ParseNumber(changed[i].text) # {}

\* And no text has a blank, which would end its argument.
Told ==
  Convertible /\ \A i \in 1..Len(changed) : Blanks(changed[i].text) = {}

\* The printed command line gives an equal device the parameters of the session,
\* in spite of changes that the device has refused or replaced, and of a selector
\* and a command that make the order matter, if the changes can be told and the
\* device does not combine images.
ReplayRestores ==
  Told /\ Combined \notin dev.entries =>
    /\ phase # "failed"
    /\ phase = "done" => dev = edited

\* ENTER on a text that has not been edited does not change the value of its
\* feature, except that a MAC address loses two bytes, a float what is not
\* printed, and that nothing is shown of a feature that cannot be read.
ConfirmKeeps ==
  [][phase = "string" /\ phase' # "string" /\ text = Shown(Focused)
       => dev' = dev \/ dev.kind \in {"mac", "float"} \/ ~Readable(Focused)]_sessionVars

\* gc_stream.cc:675: "show complete command line, including edited options".
\* The second call of the tool streams what the first one did.
CommandLineComplete ==
  Told /\ phase = "done" => dev.enabled = edited.enabled

\* config.h:161-163: "The given value will be converted depending on the datatype
\* and representation of the feature, which can be hex, ip4v or mac".  The text
\* of a MAC address gives the second call the address that the first one had.
MacReplayed ==
  dev.kind = "mac" /\ phase = "done" => dev.value = edited.value

\* gc_stream.cc:675, as above.  The second call accepts every argument of the
\* line, if its values can be converted.
CommandLineAccepted ==
  Convertible /\ Combined \notin dev.entries => phase # "failed"
=============================================================================
