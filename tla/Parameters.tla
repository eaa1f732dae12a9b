----------------------------- MODULE Parameters -----------------------------
(***************************************************************************)
(* Access to the features of a GenICam node map, as config.cc and the node *)
(* map editor offer it: setting and getting by type, and conversion from   *)
(* and to text.                                                            *)
(*                                                                         *)
(* A feature is a record of its kind, which stands for the interface of    *)
(* the node and the representation of an integer, its access mode and its  *)
(* value.  Values and texts are sequences of elements: digits of a number, *)
(* bytes of an address or a register, characters of a string, or the one   *)
(* symbolic name of an enumeration, whose entries are in its record.       *)
(***************************************************************************)
EXTENDS Integers, Sequences, FiniteSetsExt, SequencesExt

CONSTANTS
  Bits,      \* width of an integer feature, 64 in the code
  Base,      \* 10 or 16 for digits, 256 for bytes
  Length     \* bytes of a register

ASSUME WidthAssumption == Bits \in Nat \ {0, 1} /\ Base \in Nat \ {0, 1}
ASSUME RegisterAssumption == Length \in Nat \ {0}

Readable(feature) == feature.access \in {"RW", "RO"}
Writable(feature) == feature.access \in {"RW", "WO"}

-----------------------------------------------------------------------------
(* Numbers.  std::hex prints the two's complement of a negative value, and  *)
(* std::stoll does not accept a number beyond the largest positive one.     *)

Digits(n) ==
  LET digits[m \in 0..n] ==
        IF m < Base THEN <<m>> ELSE Append(digits[m \div Base], m % Base)
  IN digits[n]

Number(text) ==
  LET upto[k \in 0..Len(text)] == IF k = 0 THEN 0 ELSE upto[k - 1] * Base + text[k]
  IN upto[Len(text)]

Representable == -(2^(Bits - 1))..(2^(Bits - 1) - 1)

Unsigned(n) == n % 2^Bits

PrintNumber(n) == IF n < 0 THEN <<-1>> \o Digits(-n) ELSE Digits(n)

\* std::stoll stops at what is not a digit, here another minus sign.
Leading(text) ==
  LET signs == {i \in 1..Len(text) : text[i] = -1}
  IN IF signs = {} THEN text ELSE SubSeq(text, 1, Min(signs) - 1)

\* The numbers a text stands for: one, or none when std::stoll throws.
ParseNumber(text) ==
  LET negative == text # <<>> /\ text[1] = -1
      digits   == Leading(IF negative THEN Tail(text) ELSE text)
      n        == IF negative THEN -Number(digits) ELSE Number(digits)
  IN IF digits # <<>> /\ n \in Representable THEN {n} ELSE {}

\* Four elements of an address.  When the text ends early, std::getline leaves
\* the last element in its place.
FourElements(text) ==
  IF text = <<>> THEN {}
  ELSE {[i \in 1..4 |-> text[Min({i, Len(text)})] % Base]}

-----------------------------------------------------------------------------
(* The text of a value, and the values of a text. *)

\* getString() prints up to 32 bytes of a register, the editor what fits on the
\* screen.
Text(feature, bytes) ==
  CASE feature.kind = "integer"  -> PrintNumber(feature.value)
    [] feature.kind = "hex"      -> Digits(Unsigned(feature.value))
    [] feature.kind = "float"    -> <<feature.value[1]>>
    [] feature.kind = "register" -> SubSeq(feature.value, 1, Min({Length, bytes}))
    [] OTHER                     -> feature.value

\* A MAC address is parsed from its first four elements.
FirstFour(text) == {<<0, 0>> \o four : four \in FourElements(text)}

\* The rest of the register is cleared.
Bytes_ClearsRest(feature, text, cut) ==
  IF text = <<>> \/ (~cut /\ Len(text) > Length) THEN {}
  ELSE {[i \in 1..Length |-> IF i <= Len(text) THEN text[i] ELSE 0]}

\* A text that is longer than the register is cut by setString(), and refused
\* by the device when it comes from the editor.
Bytes(feature, text, cut) ==
  IF text = <<>> \/ (~cut /\ Len(text) > Length) THEN {}
  ELSE {[i \in 1..Length |-> IF i <= Len(text) THEN text[i] ELSE feature.value[i]]}

\* The values that setString() writes: one, or none when the text cannot be
\* converted.  A float is read with single precision.
Parse(feature, text, cut) ==
  CASE feature.kind \in {"integer", "hex"} -> ParseNumber(text)
    [] feature.kind = "ipv4"     -> FourElements(text)
    [] feature.kind = "mac"      -> FirstFour(text)
    [] feature.kind = "float"    -> IF text = <<>> THEN {} ELSE {<<text[1], 0>>}
    [] feature.kind = "boolean"  -> {<<IF t = 0 THEN 0 ELSE 1>> : t \in {text[i] : i \in 1..Min({1, Len(text)})}}
    [] feature.kind = "register" -> Bytes(feature, text, cut)
    [] OTHER                     -> {text}

-----------------------------------------------------------------------------
(* Calls: the value of the feature after the call, and its result.          *)

Done(value, result) == [value |-> value, result |-> result]

Failed(feature, exception) ==
  Done(feature.value, IF exception THEN "throws" ELSE "false")

\* A setter needs a feature of its kind that can be written, and a device that
\* takes the value.
Assign(feature, kind, value, exception, refused) ==
  IF feature.kind = kind /\ Writable(feature) /\ ~refused
  THEN Done(value, "true")
  ELSE Failed(feature, exception)

SetBoolean(feature, value, exception) ==
  Assign(feature, "boolean", value, exception, FALSE)

SetEnum(feature, value, exception) ==
  Assign(feature, "enumeration", value, exception, value[1] \notin feature.entries)

\* The device counts the executions of its command.
CallCommand(feature, exception, refused) ==
  Assign(feature, "command", feature.value + 1, exception, refused)

Unknown(feature, text) ==
  feature.kind = "enumeration" /\ text[1] \notin feature.entries

\* A text that cannot be converted throws, whatever the flag says, and success
\* is not told from failure by the result.
SetString(feature, text, exception) ==
  IF ~Writable(feature) \/ feature.kind = "command" \/ Unknown(feature, text)
  THEN Failed(feature, exception)
  ELSE LET parsed == Parse(feature, text, TRUE)
       IN IF parsed = {} THEN Done(feature.value, "throws")
          ELSE Done(CHOOSE value \in parsed : TRUE, "false")

GetBoolean(feature) ==
  IF feature.kind = "boolean" /\ Readable(feature) THEN feature.value ELSE <<0>>
=============================================================================
