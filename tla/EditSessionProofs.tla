------------------------- MODULE EditSessionProofs -------------------------
(***************************************************************************)
(* Proofs about EditSession, for every list of features, every sequence of *)
(* screen sizes, every width and base of numbers and every device: the     *)
(* focus is visible; what is printed of a value is parsed to it; keys keep *)
(* the cursor in the text; and the changes of a session can be repeated.   *)
(***************************************************************************)
EXTENDS EditSession, FiniteSetTheorems, SequenceTheorems, WellFoundedInduction, TLAPS

\* The larger of a number and zero, and the smaller of two numbers.
LEMMA MaxZero ==
  ASSUME NEW n \in Int
  PROVE  /\ Max({0, n}) \in Nat
         /\ Max({0, n}) >= n
         /\ Max({0, n}) = 0 \/ Max({0, n}) = n
<1>. DEFINE m == IF n > 0 THEN n ELSE 0
<1>1. m \in {0, n} /\ \A y \in {0, n} : m >= y
  OBVIOUS
<1>2. Max({0, n}) \in {0, n} /\ \A y \in {0, n} : Max({0, n}) >= y
  BY <1>1 DEF Max
<1>. QED
  BY <1>2

\* The smaller of two numbers.
LEMMA MinOfTwo ==
  ASSUME NEW a \in Int, NEW b \in Int
  PROVE  /\ Min({a, b}) \in Int
         /\ Min({a, b}) <= a /\ Min({a, b}) <= b
         /\ Min({a, b}) = a \/ Min({a, b}) = b
<1>. DEFINE m == IF a < b THEN a ELSE b
<1>1. m \in {a, b} /\ \A y \in {a, b} : m =< y
  OBVIOUS
<1>2. Min({a, b}) \in {a, b} /\ \A y \in {a, b} : Min({a, b}) =< y
  BY <1>1 DEF Min
<1>. QED
  BY <1>2

-----------------------------------------------------------------------------
(* The focus stays on the screen. *)

FocusInv == rows \in Nat \ {0} /\ top \in Nat /\ FocusVisible

\* What is drawn contains the focus.
LEMMA RedrawnShows ==
  ASSUME NEW t \in Nat, NEW f \in Nat, NEW r \in Nat \ {0}
  PROVE  /\ Redrawn(t, f, r) \in Nat
         /\ r > 1 => /\ Redrawn(t, f, r) <= f
                    /\ f <= Redrawn(t, f, r) + r - 2
  BY DEF Redrawn

\* Every key of the navigation loop ends in a Move.
LEMMA MoveShows ==
  ASSUME FocusInv, NEW t \in Nat, NEW f \in 0..(Len(Names) - 1), Move(t, f)
  PROVE  FocusInv'
<1>1. /\ focus' = f /\ top' = Redrawn(t, f, rows) /\ rows' = rows
      /\ phase' = "navigate"
  BY DEF Move, edit
<1>2. f \in Nat /\ rows \in Nat \ {0}
  BY NamesAssumption DEF FocusInv
<1>. QED
  BY <1>1, <1>2, RedrawnShows DEF FocusInv, FocusVisible

\* A page up.
LEMMA PageUpShows == FocusInv /\ PageUp => FocusInv'
<1> SUFFICES ASSUME FocusInv, PageUp PROVE FocusInv'
  OBVIOUS
<1>1. rows \in Nat \ {0} /\ top \in Nat /\ focus \in 0..(Len(Names) - 1)
      /\ Len(Names) \in Nat \ {0}
  BY NamesAssumption DEF FocusInv, FocusVisible
<1>2. CASE rows > 1
  <2>1. Max({0, top - rows + 1}) \in Nat
    BY <1>1, MaxZero
  <2>2. Max({0, focus - rows + 1}) \in 0..(Len(Names) - 1)
    <3>1. focus - rows + 1 \in Int
      BY <1>1
    <3>. QED
      BY <1>1, <1>2, <3>1, MaxZero
  <2>3. Move(Max({0, top - rows + 1}), Max({0, focus - rows + 1}))
    BY <1>2 DEF PageUp
  <2>. QED
    BY <2>1, <2>2, <2>3, MoveShows
<1>3. CASE ~(rows > 1)
  BY <1>1, <1>3, MoveShows DEF PageUp
<1>. QED
  BY <1>2, <1>3

\* A page down.
LEMMA PageDownShows == FocusInv /\ PageDown => FocusInv'
<1> SUFFICES ASSUME FocusInv, PageDown PROVE FocusInv'
  OBVIOUS
<1>1. rows \in Nat \ {0} /\ top \in Nat /\ focus \in 0..(Len(Names) - 1)
      /\ Len(Names) \in Nat \ {0}
  BY NamesAssumption DEF FocusInv, FocusVisible
<1>2. CASE rows > 1
  <2> DEFINE bottom == Max({0, Len(Names) - rows + 1})
             below  == top + rows - 1
             next   == focus + rows - 1
             last   == Len(Names) - 1
             t == Min({below, bottom})
             f == Min({next, last})
  <2>1. bottom \in Nat
    BY <1>1, MaxZero
  <2>2. below \in Nat /\ next \in Nat /\ last \in Nat
    BY <1>1
  <2>3. t \in Nat /\ f \in Nat /\ f <= last
    <3> HIDE DEF below, bottom, next, last
    <3>. QED
      BY <2>1, <2>2, MinOfTwo
  <2>4. Move(t, f)
    BY <1>2 DEF PageDown
  <2>5. f \in 0..(Len(Names) - 1)
    BY <2>2, <2>3
  <2>. QED
    BY <2>3, <2>4, <2>5, MoveShows
<1>3. CASE ~(rows > 1)
  BY <1>1, <1>3, MoveShows DEF PageDown
<1>. QED
  BY <1>2, <1>3

\* Resizing and leaving a loop redraw the list around the same focus.
LEMMA RedrawShows ==
  ASSUME FocusInv, rows' \in Nat \ {0}, focus' = focus,
         top' = Redrawn(top, focus, rows'),
         phase' = "string" /\ resized' = "no" => FALSE
  PROVE  FocusInv'
<1>1. focus \in Nat /\ top \in Nat
  BY NamesAssumption DEF FocusInv, FocusVisible
<1>2. /\ top' \in Nat
      /\ rows' > 1 => top' <= focus /\ focus <= top' + rows' - 2
  BY <1>1, RedrawnShows
<1>. QED
  BY <1>1, <1>2 DEF FocusInv, FocusVisible

\* Leaving a loop.
LEMMA LeaveShows == FocusInv /\ Leave => FocusInv'
  BY RedrawShows DEF FocusInv, Leave

\* Every key.
LEMMA EditShows == FocusInv /\ Edit => FocusInv'
<1> SUFFICES ASSUME FocusInv, Edit PROVE FocusInv'
  OBVIOUS
<1>1. focus \in 0..(Len(Names) - 1) /\ top \in Nat /\ Len(Names) \in Nat \ {0}
  BY NamesAssumption DEF FocusInv, FocusVisible
<1>2. CASE PageUp
  BY <1>2, PageUpShows
<1>3. CASE PageDown
  BY <1>3, PageDownShows
<1>4. CASE Up
  BY <1>1, <1>4, MoveShows DEF Up
<1>5. CASE Down
  BY <1>1, <1>5, MoveShows DEF Down
<1>6. CASE EnterExecute \/ EnterOption
  BY <1>6 DEF FocusInv, FocusVisible, EnterExecute, EnterOption, Enter, place
<1>7. CASE EnterString
  BY <1>7 DEF FocusInv, FocusVisible, EnterString, Enter, place
<1>8. CASE Resize
  BY <1>8, ScreensAssumption, RedrawShows DEF FocusInv, Resize, Editing
<1>9. CASE Cancel \/ Execute \/ ExecuteFails \/ TakeOption \/ TakeString
  BY <1>9, LeaveShows DEF Cancel, Execute, ExecuteFails, TakeOption, TakeString
<1>10. CASE OptionUp \/ OptionDown
  BY <1>10 DEF FocusInv, FocusVisible, OptionUp, OptionDown, place
<1>11. CASE Left \/ Right \/ Backspace \/ Delete \/ Insert
  <2>1. PICK t, c : Type(t, c)
    BY <1>11 DEF Left, Right, Backspace, Delete, Insert
  <2>. QED
    BY <2>1 DEF FocusInv, FocusVisible, Type, place
<1>. QED
  BY <1>2, <1>3, <1>4, <1>5, <1>6, <1>7, <1>8, <1>9, <1>10, <1>11 DEF Edit

\* Every step.
LEMMA FocusStep == FocusInv /\ [Next]_sessionVars => FocusInv'
<1> SUFFICES ASSUME FocusInv, [Next]_sessionVars PROVE FocusInv'
  OBVIOUS
<1>1. CASE FirstCall \/ SecondCall
  BY <1>1 DEF FocusInv, FocusVisible, FirstCall, SecondCall, Prepare, place
<1>2. CASE EditStep
  BY <1>2, EditShows DEF EditStep
<1>3. CASE Quit
  BY <1>3, NamesAssumption DEF FocusInv, FocusVisible, Quit
<1>4. CASE EditorThrows
  BY <1>4 DEF FocusInv, FocusVisible, EditorThrows, place
<1>5. CASE Replay
  BY <1>5 DEF FocusInv, FocusVisible, Replay, place
<1>6. CASE Over \/ UNCHANGED sessionVars
  BY <1>6 DEF FocusInv, FocusVisible, Over, sessionVars, editVars, place, edit
<1>. QED
  BY <1>1, <1>2, <1>3, <1>4, <1>5, <1>6 DEF Next

\* Whatever keys and sizes of the screen come, the focus is in the list and on
\* the screen, and the edited text in its line until the screen changes.
THEOREM FocusVisibleHolds == Spec => []FocusVisible
<1>1. Init => FocusInv
  BY NamesAssumption, ScreensAssumption DEF Init, FocusInv, FocusVisible
<1>2. FocusInv => FocusVisible
  BY DEF FocusInv
<1>. QED
  BY <1>1, <1>2, FocusStep, PTL DEF Spec

-----------------------------------------------------------------------------
(* Numbers. *)

(***************************************************************************)
(* A set of natural numbers has a least element: the order of the numbers  *)
(* is well-founded, and a well-founded relation has minimal elements.      *)
(***************************************************************************)
LEMMA MinimalIsLeast ==
  ASSUME NEW R, IsWellFoundedOn(R, Nat),
         \A x \in Nat, y \in Nat : y < x => <<y, x>> \in R,
         NEW T, T \subseteq Nat, T # {}
  PROVE  \E x \in T : \A y \in T : x <= y
<1>1. PICK x \in T : \A y \in T : <<y, x>> \notin R
  BY WFMin, Zenon
<1>2. \A y \in T : ~(y < x)
  BY <1>1
<1>. QED
  BY <1>2

\* The order of the numbers, as a relation.
LEMMA SmallerIsRelated ==
  \A x \in Nat, y \in Nat : y < x => <<y, x>> \in OpToRel(<, Nat)
  BY Zenon DEF OpToRel

\* A set of numbers has a least one.
LEMMA LeastNumber ==
  ASSUME NEW T, T \subseteq Nat, T # {}
  PROVE  \E x \in T : \A y \in T : x <= y
  BY MinimalIsLeast, SmallerIsRelated, NatLessThanWellFounded, Zenon

\* Powers of two, from the number of subsets.
LEMMA TwoToThe ==
  ASSUME NEW b \in Nat
  PROVE  2^b \in Nat \ {0} /\ IsFiniteSet(1..b) /\ Cardinality(1..b) = b
         /\ IsFiniteSet(SUBSET (1..b)) /\ Cardinality(SUBSET (1..b)) = 2^b
<1>1. IsFiniteSet(1..b) /\ Cardinality(1..b) = b
  BY FS_Interval
<1>2. IsFiniteSet(SUBSET (1..b)) /\ Cardinality(SUBSET (1..b)) = 2^b
  BY <1>1, FS_SUBSET
<1>3. 2^b \in Nat
  BY <1>2, FS_CardinalityType
<1>4. SUBSET (1..b) # {}
  OBVIOUS
<1>5. 2^b # 0
  BY <1>2, <1>4, FS_EmptySet
<1>. QED
  BY <1>1, <1>2, <1>3, <1>5

\* Half of the subsets contain b.
LEMMA TwoToTheNext ==
  ASSUME NEW b \in Nat \ {0}
  PROVE  2^b = 2 * 2^(b - 1) /\ 2^(b - 1) \in Nat \ {0}
<1>. DEFINE S == SUBSET (1..(b - 1))
            T == {s \cup {b} : s \in S}
            f == [s \in S |-> s \cup {b}]
<1>1. b - 1 \in Nat
  OBVIOUS
<1>2. IsFiniteSet(S) /\ Cardinality(S) = 2^(b - 1) /\ 2^(b - 1) \in Nat \ {0}
  BY <1>1, TwoToThe
<1>3. Cardinality(SUBSET (1..b)) = 2^b
  BY TwoToThe
<1>4. \A s \in S : b \notin s
  OBVIOUS
<1>5. f \in Bijection(S, T)
  <2>1. f \in [S -> T]
    OBVIOUS
  <2>2. \A r, s \in S : f[r] = f[s] => r = s
    BY <1>4
  <2>3. \A x \in T : \E s \in S : f[s] = x
    OBVIOUS
  <2>. QED
    BY <2>1, <2>2, <2>3 DEF Bijection, Injection, Surjection, IsInjective
<1>6. IsFiniteSet(T) /\ Cardinality(T) = Cardinality(S)
  BY <1>2, <1>5, FS_Bijection DEF ExistsBijection
<1>7. S \cap T = {}
  BY <1>4
<1>8. S \cup T = SUBSET (1..b)
  <2>1. ASSUME NEW x \in SUBSET (1..b) PROVE x \in S \cup T
    <3>1. x \ {b} \in S
      OBVIOUS
    <3>2. b \in x => x = (x \ {b}) \cup {b}
      OBVIOUS
    <3>3. b \notin x => x = x \ {b}
      OBVIOUS
    <3>. QED
      BY <3>1, <3>2, <3>3
  <2>2. ASSUME NEW x \in S \cup T PROVE x \in SUBSET (1..b)
    OBVIOUS
  <2>. QED
    BY <2>1, <2>2
<1>. HIDE DEF S, T
<1>9. Cardinality(S \cap T) = 0
  BY <1>7, FS_EmptySet
<1>10. Cardinality(S \cup T) = 2 * Cardinality(S)
  <2>1. Cardinality(S \cup T) = Cardinality(S) + Cardinality(T) - Cardinality(S \cap T)
    BY <1>2, <1>6, FS_Union
  <2>. QED
    BY <1>2, <1>6, <1>9, <2>1
<1>. QED
  BY <1>2, <1>3, <1>8, <1>10

\* A number is larger than the number without its last digit.
LEMMA Shorter ==
  ASSUME NEW n \in Nat, n >= Base
  PROVE  /\ n \div Base \in Nat /\ n \div Base <= n - 1
         /\ n % Base \in 0..(Base - 1) /\ n = (n \div Base) * Base + (n % Base)
<1>. DEFINE q == n \div Base
            r == n % Base
<1>0. Base \in Nat /\ Base >= 2
  BY WidthAssumption
<1>1. q \in Int /\ r \in 0..(Base - 1) /\ n = q * Base + r
  BY <1>0
<1>2. q \in Nat
  BY <1>0
<1>. HIDE DEF q, r
<1>3. q * Base >= q + q
  BY <1>0, <1>2
<1>4. q = 0 => n = r
  BY <1>1, <1>0
<1>5. q # 0
  BY <1>0, <1>1, <1>4
<1>6. q <= n - 1
  <2>1. ASSUME NEW p \in Int, p >= q + q, n = p + r PROVE q <= n - 1
    BY <1>1, <1>2, <1>5, <2>1
  <2>2. q * Base \in Int
    BY <1>0, <1>2
  <2>. QED
    BY <1>1, <1>3, <2>1, <2>2
<1>. QED
  BY <1>1, <1>2, <1>6 DEF q, r

\* The function in Digits.
IsDigits(n, f) ==
  f = [m \in 0..n |-> IF m < Base THEN <<m>> ELSE Append(f[m \div Base], m % Base)]

\* It exists for every number.
LEMMA DigitsExist == \A n \in Nat : \E f : IsDigits(n, f)
<1>. DEFINE T == {n \in Nat : ~\E f : IsDigits(n, f)}
<1>1. SUFFICES ASSUME T # {} PROVE FALSE
  OBVIOUS
<1>0. Base \in Nat /\ Base >= 2
  BY WidthAssumption
<1>2. PICK n \in T : \A m \in T : n <= m
  <2>1. \E x \in T : \A y \in T : x <= y
    BY <1>1, LeastNumber
  <2>. QED
    BY <2>1
<1>3. n \in Nat /\ ~\E f : IsDigits(n, f)
  BY <1>2
<1>4. CASE n = 0
  <2>. DEFINE f == [m \in 0..0 |-> <<m>>]
  <2>1. f = [m \in 0..0 |-> IF m < Base THEN <<m>> ELSE Append(f[m \div Base], m % Base)]
    BY <1>0
  <2>. HIDE DEF f
  <2>2. IsDigits(n, f)
    BY <1>4, <2>1 DEF IsDigits
  <2>. QED
    BY <1>3, <2>2
<1>5. CASE n > 0
  <2>1. n - 1 \in Nat /\ n - 1 \notin T
    BY <1>2, <1>3, <1>5
  <2>2. PICK f : IsDigits(n - 1, f)
    BY <2>1
  <2>. DEFINE g == [m \in 0..n |-> IF m < n THEN f[m]
                                  ELSE IF m < Base THEN <<m>>
                                  ELSE Append(f[m \div Base], m % Base)]
  <2>3. ASSUME NEW m \in 0..n
        PROVE  g[m] = IF m < Base THEN <<m>> ELSE Append(g[m \div Base], m % Base)
    <3>1. m >= Base => m \div Base \in Nat /\ m \div Base <= m - 1
      BY <1>3, Shorter
    <3>2. m >= Base => g[m \div Base] = f[m \div Base]
      BY <1>3, <3>1
    <3>3. CASE m < n
      <4>1. m \in 0..(n - 1)
        BY <1>3, <3>3
      <4>2. f[m] = IF m < Base THEN <<m>> ELSE Append(f[m \div Base], m % Base)
        BY <2>2, <4>1 DEF IsDigits
      <4>3. g[m] = f[m]
        BY <3>3
      <4>. HIDE DEF g
      <4>. QED
        BY <1>0, <1>3, <3>2, <4>2, <4>3
    <3>4. CASE m = n
      <4>1. g[m] = IF m < Base THEN <<m>> ELSE Append(f[m \div Base], m % Base)
        BY <1>3, <3>4
      <4>. HIDE DEF g
      <4>. QED
        BY <1>0, <1>3, <3>2, <4>1
    <3>. QED
      BY <1>3, <3>3, <3>4
  <2>4. g = [m \in 0..n |-> g[m]]
    OBVIOUS
  <2>. HIDE DEF g
  <2>5. IsDigits(n, g)
    BY <2>3, <2>4 DEF IsDigits
  <2>. QED
    BY <1>3, <2>5
<1>. QED
  BY <1>3, <1>4, <1>5

\* The function in Number.
IsNumber(s, f) ==
  f = [k \in 0..Len(s) |-> IF k = 0 THEN 0 ELSE f[k - 1] * Base + s[k]]

\* It exists for every text.
LEMMA NumberExists ==
  ASSUME NEW s \in Seq(Int)
  PROVE  \E f : IsNumber(s, f)
<1>. DEFINE Upto(n, f) == f = [k \in 0..n |-> IF k = 0 THEN 0 ELSE f[k - 1] * Base + s[k]]
            T == {n \in Nat : ~\E f : Upto(n, f)}
<1>1. SUFFICES ASSUME T # {} PROVE FALSE
  <2>1. Len(s) \in Nat
    OBVIOUS
  <2>. QED
    BY <2>1 DEF IsNumber
<1>. HIDE DEF Upto
<1>2. PICK n \in T : \A m \in T : n <= m
  <2>1. \E x \in T : \A y \in T : x <= y
    BY <1>1, LeastNumber
  <2>. QED
    BY <2>1
<1>3. n \in Nat /\ ~\E f : Upto(n, f)
  BY <1>2
<1>4. CASE n = 0
  <2>. DEFINE f == [k \in 0..0 |-> 0]
  <2>1. f = [k \in 0..0 |-> IF k = 0 THEN 0 ELSE f[k - 1] * Base + s[k]]
    OBVIOUS
  <2>. HIDE DEF f
  <2>2. Upto(n, f)
    BY <1>4, <2>1 DEF Upto
  <2>. QED
    BY <1>3, <2>2
<1>5. CASE n > 0
  <2>1. n - 1 \in Nat /\ n - 1 \notin T
    BY <1>2, <1>3, <1>5
  <2>2. PICK f : Upto(n - 1, f)
    BY <2>1
  <2>. DEFINE g == [k \in 0..n |-> IF k = n THEN f[n - 1] * Base + s[n] ELSE f[k]]
  <2>3. ASSUME NEW k \in 0..n
        PROVE  g[k] = IF k = 0 THEN 0 ELSE g[k - 1] * Base + s[k]
    <3>1. CASE k < n
      <4>1. k \in 0..(n - 1) /\ g[k] = f[k] /\ (k # 0 => g[k - 1] = f[k - 1])
        BY <1>3, <3>1
      <4>2. f[k] = IF k = 0 THEN 0 ELSE f[k - 1] * Base + s[k]
        BY <2>2, <4>1 DEF Upto
      <4>. HIDE DEF g
      <4>. QED
        BY <4>1, <4>2
    <3>2. CASE k = n
      <4>1. g[k] = f[k - 1] * Base + s[k] /\ g[k - 1] = f[k - 1]
        BY <1>3, <1>5, <3>2
      <4>. HIDE DEF g
      <4>. QED
        BY <1>5, <3>2, <4>1
    <3>. QED
      BY <1>3, <3>1, <3>2
  <2>4. g = [k \in 0..n |-> g[k]]
    OBVIOUS
  <2>. HIDE DEF g
  <2>5. Upto(n, g)
    BY <2>3, <2>4 DEF Upto
  <2>. QED
    BY <1>3, <2>5
<1>. QED
  BY <1>3, <1>4, <1>5

\* A number is the last value of that function.
LEMMA NumberIsLast ==
  ASSUME NEW s \in Seq(Int)
  PROVE  \E f : IsNumber(s, f) /\ Number(s) = f[Len(s)]
<1>. DEFINE f == CHOOSE f : IsNumber(s, f)
<1>1. IsNumber(s, f)
  BY NumberExists
<1>2. Number(s) = f[Len(s)]
  BY DEF Number, IsNumber
<1>. QED
  BY <1>1, <1>2

\* The functions agree on equal digits.
LEMMA SameNumbers ==
  ASSUME NEW s \in Seq(Int), NEW t \in Seq(Int), NEW f, NEW g,
         IsNumber(s, f), IsNumber(t, g), Len(s) <= Len(t),
         \A k \in 1..Len(s) : s[k] = t[k]
  PROVE  \A k \in 0..Len(s) : f[k] = g[k] /\ f[k] \in Int
<1>. DEFINE T == {k \in 0..Len(s) : ~(f[k] = g[k] /\ f[k] \in Int)}
<1>1. SUFFICES ASSUME T # {} PROVE FALSE
  OBVIOUS
<1>2. PICK n \in T : \A m \in T : n <= m
  <2>1. T \subseteq Nat
    OBVIOUS
  <2>2. \E x \in T : \A y \in T : x <= y
    BY <1>1, <2>1, LeastNumber
  <2>. QED
    BY <2>2
<1>3. /\ Len(s) \in Nat /\ n \in 0..Len(s) /\ n \in 0..Len(t)
      /\ ~(f[n] = g[n] /\ f[n] \in Int)
  BY <1>2
<1>4. /\ f[n] = IF n = 0 THEN 0 ELSE f[n - 1] * Base + s[n]
      /\ g[n] = IF n = 0 THEN 0 ELSE g[n - 1] * Base + t[n]
  BY <1>3 DEF IsNumber
<1>5. n # 0
  BY <1>3, <1>4
<1>6. n - 1 \in 0..Len(s) /\ n - 1 \notin T
  BY <1>2, <1>3, <1>5
<1>7. f[n - 1] = g[n - 1] /\ f[n - 1] \in Int
  BY <1>6
<1>8. s[n] = t[n] /\ s[n] \in Int
  BY <1>3, <1>5
<1>. QED
  BY <1>3, <1>4, <1>5, <1>7, <1>8, WidthAssumption

\* The number of no digits.
LEMMA NumberEmpty == Number(<<>>) = 0
<1>0. <<>> \in Seq(Int)
  OBVIOUS
<1>1. PICK f : IsNumber(<<>>, f) /\ Number(<<>>) = f[Len(<<>>)]
  BY <1>0, NumberIsLast
<1>2. Len(<<>>) = 0 /\ 0 \in 0..0
  OBVIOUS
<1>3. f = [k \in 0..0 |-> IF k = 0 THEN 0 ELSE f[k - 1] * Base + <<>>[k]]
  BY <1>1, <1>2 DEF IsNumber
<1>. QED
  BY <1>1, <1>2, <1>3

\* The number of one more digit.
LEMMA NumberAppend ==
  ASSUME NEW s \in Seq(Int), NEW x \in Int
  PROVE  /\ Number(s) \in Int /\ Append(s, x) \in Seq(Int)
         /\ Number(Append(s, x)) = Number(s) * Base + x
<1>. DEFINE t == Append(s, x)
<1>1. /\ t \in Seq(Int) /\ Len(t) = Len(s) + 1 /\ t[Len(s) + 1] = x /\ Len(s) \in Nat
      /\ \A k \in 1..Len(s) : t[k] = s[k]
  OBVIOUS
<1>. HIDE DEF t
<1>2. PICK f : IsNumber(s, f) /\ Number(s) = f[Len(s)]
  BY NumberIsLast
<1>3. PICK g : IsNumber(t, g) /\ Number(t) = g[Len(t)]
  BY <1>1, NumberIsLast
<1>4. f[Len(s)] = g[Len(s)] /\ f[Len(s)] \in Int
  BY <1>1, <1>2, <1>3, SameNumbers
<1>5. g[Len(t)] = g[Len(s)] * Base + t[Len(t)]
  BY <1>1, <1>3 DEF IsNumber
<1>. QED
  BY <1>1, <1>2, <1>3, <1>4, <1>5 DEF t

\* The digits of a number stand for it.
LEMMA DigitsFacts ==
  ASSUME NEW n \in Nat
  PROVE  /\ Digits(n) \in Seq(0..(Base - 1)) /\ Digits(n) # <<>>
         /\ Number(Digits(n)) = n
<1>. DEFINE f == CHOOSE f : IsDigits(n, f)
            Good(k) == f[k] \in Seq(0..(Base - 1)) /\ f[k] # <<>> /\ Number(f[k]) = k
            T == {k \in 0..n : ~Good(k)}
<1>0. Base \in Nat /\ Base >= 2
  BY WidthAssumption
<1>1. IsDigits(n, f)
  BY DigitsExist
<1>2. Digits(n) = f[n]
  BY DEF Digits, IsDigits
<1>. HIDE DEF f
<1>3. SUFFICES ASSUME T # {} PROVE FALSE
  BY <1>2
<1>4. PICK m \in T : \A k \in T : m <= k
  <2>1. T \subseteq Nat
    OBVIOUS
  <2>2. \E x \in T : \A y \in T : x <= y
    BY <1>3, <2>1, LeastNumber
  <2>. QED
    BY <2>2
<1>5. m \in 0..n /\ m \in Nat /\ ~Good(m)
  BY <1>4
<1>6. f[m] = IF m < Base THEN <<m>> ELSE Append(f[m \div Base], m % Base)
  BY <1>1, <1>5 DEF IsDigits
<1>7. CASE m < Base
  <2>1. f[m] = <<m>> /\ <<m>> = Append(<<>>, m) /\ m \in Int /\ <<>> \in Seq(Int)
    BY <1>5, <1>6, <1>7
  <2>2. Number(Append(<<>>, m)) = Number(<<>>) * Base + m
    BY <2>1, NumberAppend
  <2>3. Number(f[m]) = m
    BY <1>0, <1>5, <2>1, <2>2, NumberEmpty
  <2>4. <<m>> \in Seq(0..(Base - 1)) /\ <<m>> # <<>>
    BY <1>0, <1>5, <1>7
  <2>. QED
    BY <1>5, <2>1, <2>3, <2>4
<1>8. CASE m >= Base
  <2>. DEFINE q == m \div Base
              r == m % Base
  <2>1. q \in Nat /\ q <= m - 1 /\ r \in 0..(Base - 1) /\ m = q * Base + r
    BY <1>5, <1>8, Shorter
  <2>2. f[m] = Append(f[q], r)
    BY <1>0, <1>5, <1>6, <1>8
  <2>. HIDE DEF q, r
  <2>3. q \in 0..n /\ q \notin T
    BY <1>4, <1>5, <2>1
  <2>4. Good(q)
    BY <2>3
  <2>5. f[q] \in Seq(Int) /\ r \in Int
    BY <1>0, <2>1, <2>4
  <2>6. Number(f[m]) = m
    BY <2>1, <2>2, <2>4, <2>5, NumberAppend
  <2>7. f[m] \in Seq(0..(Base - 1)) /\ f[m] # <<>>
    BY <2>1, <2>2, <2>4
  <2>. QED
    BY <1>5, <2>6, <2>7
<1>. QED
  BY <1>0, <1>5, <1>7, <1>8

\* The two's complement of a number.
LEMMA Modulo ==
  ASSUME NEW w \in Nat \ {0}, NEW n \in Int
  PROVE  /\ n \in 0..(w - 1) => n % w = n
         /\ n \in (-w)..(-1) => n % w = n + w
<1>. DEFINE q == n \div w
            r == n % w
<1>1. q \in Int /\ r \in 0..(w - 1) /\ n = w * q + r
  OBVIOUS
<1>. HIDE DEF q, r
<1>2. /\ q >= 1 => w * q >= w
      /\ q = 0 => w * q = 0
      /\ q = -1 => w * q = -w
      /\ q <= -2 => w * q <= -w - w
  BY <1>1
<1>3. w * q \in Int
  BY <1>1
<1>. DEFINE p == w * q
<1>. HIDE DEF p
<1>4. ASSUME n \in 0..(w - 1) PROVE r = n
  <2>1. q = 0
    BY <1>1, <1>2, <1>3, <1>4 DEF p
  <2>. QED
    BY <1>1, <1>2, <2>1
<1>5. ASSUME n \in (-w)..(-1) PROVE r = n + w
  <2>1. q = -1
    BY <1>1, <1>2, <1>3, <1>5 DEF p
  <2>. QED
    BY <1>1, <1>2, <2>1
<1>. QED
  BY <1>4, <1>5 DEF r

\* The range of an integer feature.
LEMMA RepresentableFacts ==
  /\ 2^Bits \in Nat \ {0} /\ 2^(Bits - 1) \in Nat \ {0} /\ 2^Bits = 2 * 2^(Bits - 1)
  /\ Representable \subseteq Int
<1>1. Bits \in Nat \ {0}
  BY WidthAssumption
<1>2. 2^Bits = 2 * 2^(Bits - 1) /\ 2^(Bits - 1) \in Nat \ {0}
  BY <1>1, TwoToTheNext
<1>3. 2^Bits \in Nat \ {0}
  BY <1>1, TwoToThe
<1>4. Representable \subseteq Int
  BY <1>2 DEF Representable
<1>. QED
  BY <1>2, <1>3, <1>4

\* std::stoll throws on what does not fit.
LEMMA ParseIsRepresentable ==
  ASSUME NEW s
  PROVE  ParseNumber(s) \subseteq Representable
BY DEF ParseNumber

\* Digits are read to the end.
LEMMA LeadingKeeps ==
  ASSUME NEW s, \A i \in 1..Len(s) : s[i] # -1
  PROVE  Leading(s) = s
<1>1. {i \in 1..Len(s) : s[i] = -1} = {}
  BY Zenon
<1>. QED
  BY <1>1, Zenon DEF Leading

\* The text of a number that is not negative.
LEMMA ParseDigits ==
  ASSUME NEW n \in Nat
  PROVE  ParseNumber(Digits(n)) = IF n \in Representable THEN {n} ELSE {}
<1>. DEFINE s == Digits(n)
<1>0. Base \in Nat /\ Base >= 2
  BY WidthAssumption
<1>1. s \in Seq(0..(Base - 1)) /\ s # <<>> /\ Number(s) = n
  BY DigitsFacts
<1>. HIDE DEF s
<1>2. s[1] # -1 /\ \A i \in 1..Len(s) : s[i] # -1
  BY <1>0, <1>1
<1>3. Leading(s) = s
  BY <1>2, LeadingKeeps, Zenon
<1>. QED
  BY <1>1, <1>2, <1>3 DEF ParseNumber, s

\* The text of a negative number.
LEMMA ParseMinus ==
  ASSUME NEW n \in Nat
  PROVE  /\ ParseNumber(<<-1>> \o Digits(n)) = IF -n \in Representable THEN {-n} ELSE {}
         /\ <<-1>> \o Digits(n) \in Seq(Int)
<1>. DEFINE s == Digits(n)
            t == <<-1>> \o s
<1>0. Base \in Nat /\ Base >= 2
  BY WidthAssumption
<1>1. s \in Seq(0..(Base - 1)) /\ s # <<>> /\ Number(s) = n
  BY DigitsFacts
<1>. HIDE DEF s
<1>2. \A i \in 1..Len(s) : s[i] # -1
  BY <1>0, <1>1
<1>3. s \in Seq(Int)
  BY <1>0, <1>1
<1>4. t \in Seq(Int) /\ t # <<>> /\ t[1] = -1
  BY <1>3
<1>5. Tail(t) = s
  BY <1>3
<1>. HIDE DEF t
<1>7. Leading(s) = s
  BY <1>2, LeadingKeeps, Zenon
<1>6. ParseNumber(t) = IF -n \in Representable THEN {-n} ELSE {}
  BY <1>1, <1>4, <1>5, <1>7 DEF ParseNumber
<1>. QED
  BY <1>4, <1>6 DEF s, t

\* std::stoll reads what the stream has printed.
LEMMA PrintedIsParsed ==
  ASSUME NEW n \in Representable
  PROVE  PrintNumber(n) \in Seq(Int) /\ ParseNumber(PrintNumber(n)) = {n}
<1>1. n \in Int
  BY RepresentableFacts
<1>2. CASE n < 0
  <2>1. -n \in Nat /\ -(-n) = n
    BY <1>1, <1>2
  <2>2. PrintNumber(n) = <<-1>> \o Digits(-n)
    BY <1>2 DEF PrintNumber
  <2>. QED
    BY <2>1, <2>2, ParseMinus
<1>3. CASE n >= 0
  <2>1. n \in Nat /\ PrintNumber(n) = Digits(n)
    BY <1>1, <1>3 DEF PrintNumber
  <2>2. Digits(n) \in Seq(Int)
    BY <2>1, DigitsFacts, WidthAssumption
  <2>. QED
    BY <2>1, <2>2, ParseDigits
<1>. QED
  BY <1>1, <1>2, <1>3

\* A hexadecimal number is read as it was printed, or not at all.
LEMMA HexIsParsed ==
  ASSUME NEW n \in Representable
  PROVE  /\ Digits(Unsigned(n)) \in Seq(Int) /\ Digits(Unsigned(n)) # <<>>
         /\ ParseNumber(Digits(Unsigned(n))) \subseteq {n}
<1>. DEFINE w == 2^Bits
            h == 2^(Bits - 1)
            u == Unsigned(n)
<1>1. w \in Nat \ {0} /\ h \in Nat \ {0} /\ w = 2 * h /\ n \in Int
  BY RepresentableFacts
<1>2. n \in (-h)..(h - 1) /\ Representable = (-h)..(h - 1)
  BY DEF Representable
<1>3. u = n % w
  BY DEF Unsigned
<1>. HIDE DEF w, h, u
<1>4. /\ n \in 0..(w - 1) => u = n
      /\ n \in (-w)..(-1) => u = n + w
  <2>1. /\ n \in 0..(w - 1) => n % w = n
        /\ n \in (-w)..(-1) => n % w = n + w
    BY <1>1, Modulo, Zenon
  <2>. QED
    BY <1>3, <2>1, Zenon
<1>5. u \in Nat /\ (u = n \/ (u = n + w /\ n < 0))
  BY <1>1, <1>2, <1>4
<1>6. u \in Representable => u = n
  BY <1>1, <1>2, <1>5
<1>7. ParseNumber(Digits(u)) = IF u \in Representable THEN {u} ELSE {}
  BY <1>5, ParseDigits
<1>8. Digits(u) \in Seq(Int) /\ Digits(u) # <<>>
  BY <1>5, DigitsFacts, WidthAssumption
<1>. QED
  BY <1>6, <1>7, <1>8 DEF u

-----------------------------------------------------------------------------
(* Text of features. *)

Kinds == {"string", "integer", "hex", "float", "ipv4", "mac", "register"}

\* What can be edited as text of a feature.
Texts(kind) ==
  CASE kind = "string"   -> Seq(Chars)
    [] kind = "register" -> Seq(0..(Base - 1))
    [] OTHER             -> Seq(Int)

\* An array is a sequence.
LEMMA TupleIsSequence ==
  ASSUME NEW S, NEW n \in Nat, NEW v \in [1..n -> S]
  PROVE  v \in Seq(S) /\ Len(v) = n
<1>. DEFINE w == SubSeq(v, 1, n)
<1>1. w \in Seq(S) /\ Len(w) = n /\ \A i \in 1..n : w[i] = v[i]
  <2>1. \A i \in 1..n : v[i] \in S
    OBVIOUS
  <2>2. /\ SubSeq(v, 1, n) \in Seq(S)
        /\ Len(SubSeq(v, 1, n)) = IF 1 <= n THEN n - 1 + 1 ELSE 0
        /\ \A i \in 1..(n - 1 + 1) : SubSeq(v, 1, n)[i] = v[1 + i - 1]
    BY <2>1, SubSeqProperties
  <2>3. \A i \in 1..n : 1 + i - 1 = i /\ i \in 1..(n - 1 + 1)
    OBVIOUS
  <2>. QED
    BY <2>2, <2>3
<1>. HIDE DEF w
<1>2. w \in [1..n -> S]
  BY <1>1, LenProperties
<1>3. w = v
  BY <1>1, <1>2
<1>. QED
  BY <1>1, <1>3

\* An array of bytes or digits is a text.
LEMMA ArrayIsSequence ==
  ASSUME NEW n \in Nat, NEW v \in [1..n -> 0..(Base - 1)]
  PROVE  v \in Seq(Int) /\ Len(v) = n /\ \A i \in 1..n : v[i] \in 0..(Base - 1)
<1>1. Base \in Nat
  BY WidthAssumption
<1>2. v \in Seq(0..(Base - 1)) /\ Len(v) = n
  BY TupleIsSequence
<1>. QED
  BY <1>1, <1>2

\* An element of a text as a byte.
LEMMA Remainder ==
  ASSUME NEW n \in Int
  PROVE  n % Base \in 0..(Base - 1) /\ (n \in 0..(Base - 1) => n % Base = n)
<1>1. Base \in Nat \ {0}
  BY WidthAssumption
<1>2. n % Base \in 0..(Base - 1)
  BY <1>1
<1>3. n \in 0..(Base - 1) => n % Base = n
  BY <1>1, Modulo, Zenon
<1>. QED
  BY <1>2, <1>3

\* Addresses.
LEMMA FourElementsFacts ==
  ASSUME NEW s \in Seq(Int)
  PROVE  /\ FourElements(s) \subseteq [1..4 -> 0..(Base - 1)]
         /\ s \in [1..4 -> 0..(Base - 1)] => FourElements(s) = {s}
<1>. DEFINE m(i) == Min({i, Len(s)})
            a == [i \in 1..4 |-> s[m(i)] % Base]
<1>1. \A i \in 1..4 : m(i) \in Int /\ m(i) <= i /\ m(i) <= Len(s) /\ (m(i) = i \/ m(i) = Len(s))
  <2>1. Len(s) \in Int /\ 1..4 \subseteq Int
    OBVIOUS
  <2>. QED
    BY <2>1, MinOfTwo
<1>2. FourElements(s) = IF s = <<>> THEN {} ELSE {a}
  BY DEF FourElements
<1>. HIDE DEF m
<1>3. ASSUME s # <<>> PROVE a \in [1..4 -> 0..(Base - 1)]
  <2>1. \A i \in 1..4 : m(i) \in 1..Len(s)
    BY <1>1, <1>3
  <2>2. \A i \in 1..4 : s[m(i)] \in Int
    BY <2>1
  <2>. QED
    BY <2>2, Remainder
<1>4. ASSUME s \in [1..4 -> 0..(Base - 1)] PROVE s # <<>> /\ a = s
  <2>1. Len(s) = 4 /\ \A i \in 1..4 : s[i] \in 0..(Base - 1) /\ s[i] \in Int
    BY <1>4, ArrayIsSequence
  <2>2. \A i \in 1..4 : m(i) = i
    BY <1>1, <2>1
  <2>3. \A i \in 1..4 : a[i] = s[i]
    BY <2>1, <2>2, Remainder
  <2>4. a = [i \in 1..4 |-> a[i]] /\ s = [i \in 1..4 |-> s[i]]
    BY <1>4
  <2>. HIDE DEF a
  <2>. QED
    BY <2>1, <2>3, <2>4
<1>. QED
  BY <1>2, <1>3, <1>4

\* Registers.
LEMMA BytesFacts ==
  ASSUME NEW f, f.value \in [1..Length -> 0..(Base - 1)],
         NEW s \in Seq(0..(Base - 1)), NEW cut \in BOOLEAN,
         NEW v \in Bytes(f, s, cut)
  PROVE  /\ v \in [1..Length -> 0..(Base - 1)]
         /\ \A i \in 1..Length : v[i] = IF i <= Len(s) THEN s[i] ELSE f.value[i]
<1>. DEFINE a == [i \in 1..Length |-> IF i <= Len(s) THEN s[i] ELSE f.value[i]]
<1>1. v = a
  BY DEF Bytes
<1>2. \A i \in 1..Length : (IF i <= Len(s) THEN s[i] ELSE f.value[i]) \in 0..(Base - 1)
  <2>1. Length \in Nat /\ Len(s) \in Nat
    BY RegisterAssumption
  <2>2. \A i \in 1..Length : i <= Len(s) => s[i] \in 0..(Base - 1)
    <3>1. \A i \in 1..Len(s) : s[i] \in 0..(Base - 1)
      BY ElementOfSeq
    <3>2. \A i \in 1..Length : i <= Len(s) => i \in 1..Len(s)
      BY <2>1
    <3>. QED
      BY <3>1, <3>2
  <2>3. \A i \in 1..Length : f.value[i] \in 0..(Base - 1)
    OBVIOUS
  <2>. QED
    BY <2>2, <2>3
<1>3. a \in [1..Length -> 0..(Base - 1)]
  BY <1>2
<1>. QED
  BY <1>1, <1>3

\* The bytes that are shown, of all bytes.
LEMMA ShownBytes ==
  ASSUME NEW v \in [1..Length -> 0..(Base - 1)], NEW bytes \in Nat \ {0}
  PROVE  LET s == SubSeq(v, 1, Min({Length, bytes}))
         IN  /\ s \in Seq(0..(Base - 1)) /\ s # <<>> /\ Len(s) <= Length
             /\ \A i \in 1..Len(s) : s[i] = v[i]
             /\ bytes >= Length => Len(s) = Length
<1>. DEFINE n == Min({Length, bytes})
            s == SubSeq(v, 1, n)
<1>1. Length \in Nat \ {0} /\ bytes \in Nat \ {0}
  BY RegisterAssumption
<1>2. n \in 1..Length /\ (bytes >= Length => n = Length)
  <2>1. /\ n \in Int /\ n <= Length /\ n <= bytes /\ (n = Length \/ n = bytes)
    <3>1. Length \in Int /\ bytes \in Int
      BY <1>1
    <3>. QED
      BY <3>1, MinOfTwo
  <2>. HIDE DEF n
  <2>. QED
    BY <1>1, <2>1
<1>. HIDE DEF n
<1>3. /\ s \in Seq(0..(Base - 1))
      /\ Len(s) = IF 1 <= n THEN n - 1 + 1 ELSE 0
      /\ \A i \in 1..(n - 1 + 1) : s[i] = v[1 + i - 1]
  <2>1. \A i \in 1..n : v[i] \in 0..(Base - 1)
    BY <1>1, <1>2
  <2>. QED
    BY <1>2, <2>1, SubSeqProperties
<1>. HIDE DEF s
<1>4. Len(s) = n /\ \A i \in 1..n : s[i] = v[i]
  BY <1>2, <1>3
<1>5. s # <<>>
  BY <1>2, <1>4
<1>6. Len(s) <= Length /\ (bytes >= Length => Len(s) = Length)
  BY <1>1, <1>2, <1>4
<1>7. \A i \in 1..Len(s) : s[i] = v[i]
  BY <1>4
<1>8. s \in Seq(0..(Base - 1))
  BY <1>3
<1>. QED
  BY <1>5, <1>6, <1>7, <1>8 DEF s, n

\* What is shown of a value is a text that can be edited.
LEMMA TextIsTyped ==
  ASSUME NEW f, f.kind \in Kinds, f.value \in Values(f.kind)
  PROVE  Text(f, Visible) \in Texts(f.kind)
<1>. DEFINE k == f.kind
            v == f.value
<1>0. k \in Kinds /\ v \in Values(k)
  OBVIOUS
<1>1. CASE k = "string"
  <2>1. v \in Seq(Chars)
    BY <1>0, <1>1 DEF Values
  <2>. QED
    BY <1>1, <2>1 DEF Text, Texts
<1>2. CASE k = "integer"
  <2>1. v \in Representable
    BY <1>0, <1>2 DEF Values
  <2>2. PrintNumber(v) \in Seq(Int)
    BY <2>1, PrintedIsParsed
  <2>. QED
    BY <1>2, <2>2 DEF Text, Texts
<1>3. CASE k = "hex"
  <2>1. v \in Representable
    BY <1>0, <1>3 DEF Values
  <2>2. Digits(Unsigned(v)) \in Seq(Int)
    BY <2>1, HexIsParsed
  <2>. QED
    BY <1>3, <2>2 DEF Text, Texts
<1>4. CASE k = "float"
  <2>1. v \in Int \X Int
    BY <1>0, <1>4 DEF Values
  <2>2. <<v[1]>> \in Seq(Int)
    BY <2>1
  <2>. QED
    BY <1>4, <2>2 DEF Text, Texts
<1>5. CASE k = "ipv4"
  <2>1. v \in [1..4 -> 0..(Base - 1)]
    BY <1>0, <1>5 DEF Values
  <2>2. v \in Seq(Int)
    BY <2>1, ArrayIsSequence
  <2>. QED
    BY <1>5, <2>2 DEF Text, Texts
<1>6. CASE k = "mac"
  <2>1. v \in [1..6 -> 0..(Base - 1)]
    BY <1>0, <1>6 DEF Values
  <2>2. v \in Seq(Int)
    BY <2>1, ArrayIsSequence
  <2>. QED
    BY <1>6, <2>2 DEF Text, Texts
<1>7. CASE k = "register"
  <2>1. v \in [1..Length -> 0..(Base - 1)]
    BY <1>0, <1>7 DEF Values
  <2>2. SubSeq(v, 1, Min({Length, Visible})) \in Seq(0..(Base - 1))
    BY <2>1, ShownBytes, ColumnsAssumption
  <2>. QED
    BY <1>7, <2>2 DEF Text, Texts
<1>. QED
  BY <1>0, <1>1, <1>2, <1>3, <1>4, <1>5, <1>6, <1>7 DEF Kinds

\* The values of a text are values of the feature.
LEMMA ParseIsTyped ==
  ASSUME NEW f, f.kind \in Kinds, f.value \in Values(f.kind),
         NEW s \in Texts(f.kind), NEW cut \in BOOLEAN
  PROVE  Parse(f, s, cut) \subseteq Values(f.kind)
<1>. DEFINE k == f.kind
<1>0. k \in Kinds /\ f.value \in Values(k) /\ s \in Texts(k)
  OBVIOUS
<1>1. CASE k = "string"
  <2>1. s \in Seq(Chars) /\ Parse(f, s, cut) = {s}
    BY <1>0, <1>1 DEF Texts, Parse
  <2>. QED
    BY <1>1, <2>1 DEF Values
<1>2. CASE k \in {"integer", "hex"}
  <2>1. Parse(f, s, cut) = ParseNumber(s)
    BY <1>2 DEF Parse
  <2>. QED
    BY <1>2, <2>1, ParseIsRepresentable DEF Values
<1>4. CASE k = "float"
  <2>1. s \in Seq(Int) /\ Parse(f, s, cut) = IF s = <<>> THEN {} ELSE {<<s[1], 0>>}
    BY <1>0, <1>4 DEF Texts, Parse
  <2>2. s # <<>> => <<s[1], 0>> \in Int \X Int
    BY <2>1
  <2>. QED
    BY <1>4, <2>1, <2>2 DEF Values
<1>5. CASE k = "ipv4"
  <2>1. s \in Seq(Int) /\ Parse(f, s, cut) = FourElements(s)
    BY <1>0, <1>5 DEF Texts, Parse
  <2>. QED
    BY <1>5, <2>1, FourElementsFacts DEF Values
<1>6. CASE k = "mac"
  <2>1. s \in Seq(Int) /\ Parse(f, s, cut) = FirstFour(s)
    BY <1>0, <1>6 DEF Texts, Parse
  <2>2. ASSUME NEW v \in FirstFour(s) PROVE v \in [1..6 -> 0..(Base - 1)]
    <3>1. PICK four \in FourElements(s) : v = <<0, 0>> \o four
      BY <2>2 DEF FirstFour
    <3>2. four \in [1..4 -> 0..(Base - 1)]
      BY <2>1, <3>1, FourElementsFacts
    <3>3. four \in Seq(0..(Base - 1)) /\ Len(four) = 4
      <4>. DEFINE S == 0..(Base - 1)
                  n == 4
      <4>1. n \in Nat /\ four \in [1..n -> S]
        BY <3>2
      <4>. HIDE DEF S, n
      <4>2. four \in Seq(S) /\ Len(four) = n
        BY <4>1, TupleIsSequence
      <4>. QED
        BY <4>2 DEF S, n
    <3>4. <<0, 0>> \in Seq(0..(Base - 1)) /\ Len(<<0, 0>>) = 2
      <4>. DEFINE S == 0..(Base - 1)
      <4>1. 0 \in S
        BY WidthAssumption
      <4>. HIDE DEF S
      <4>2. <<0, 0>> \in Seq(S) /\ Len(<<0, 0>>) = 2
        BY <4>1
      <4>. QED
        BY <4>2 DEF S
    <3>. DEFINE two == <<0, 0>>
    <3>. HIDE DEF two
    <3>5. two \o four \in Seq(0..(Base - 1)) /\ Len(two \o four) = Len(two) + Len(four)
      BY <3>3, <3>4, ConcatProperties DEF two
    <3>6. v \in Seq(0..(Base - 1)) /\ Len(v) = 6
      BY <3>1, <3>3, <3>4, <3>5 DEF two
    <3>7. v \in [1..Len(v) -> 0..(Base - 1)]
      BY <3>6, LenProperties
    <3>. QED
      BY <3>6, <3>7
  <2>. QED
    BY <1>6, <2>1, <2>2 DEF Values
<1>7. CASE k = "register"
  <2>1. s \in Seq(0..(Base - 1)) /\ Parse(f, s, cut) = Bytes(f, s, cut)
    BY <1>0, <1>7 DEF Texts, Parse
  <2>2. f.value \in [1..Length -> 0..(Base - 1)]
    BY <1>0, <1>7 DEF Values
  <2>3. \A v \in Bytes(f, s, cut) : v \in [1..Length -> 0..(Base - 1)]
    BY <2>1, <2>2, BytesFacts
  <2>. QED
    BY <1>7, <2>1, <2>3 DEF Values
<1>. QED
  BY <1>0, <1>1, <1>2, <1>4, <1>5, <1>6, <1>7 DEF Kinds

\* The text that is shown stands for the value, or for nothing.  A register keeps
\* the bytes that are not shown.
LEMMA ShownIsParsed ==
  ASSUME NEW f, f.kind \in Kinds, f.value \in Values(f.kind),
         NEW g, g.kind = f.kind, g.value \in Values(f.kind),
         f.kind # "mac", f.kind = "float" => f.value[2] = 0,
         f.kind = "register" => Visible >= Length \/ g.value = f.value,
         NEW cut \in BOOLEAN
  PROVE  LET s == Text(f, Visible)
         IN  /\ Parse(g, s, cut) \subseteq {f.value}
             /\ (f.kind = "hex" => ParseNumber(s) # {}) => Parse(g, s, cut) # {}
<1>. DEFINE k == f.kind
            v == f.value
            s == Text(f, Visible)
<1>0. k \in Kinds /\ k # "mac" /\ v \in Values(k) /\ g.kind = k
  OBVIOUS
<1>1. CASE k = "string"
  <2>1. s = v /\ Parse(g, s, cut) = {s}
    BY <1>0, <1>1 DEF Text, Parse
  <2>. QED
    BY <1>1, <2>1
<1>2. CASE k = "integer"
  <2>1. v \in Representable /\ s = PrintNumber(v) /\ Parse(g, s, cut) = ParseNumber(s)
    BY <1>0, <1>2 DEF Values, Text, Parse
  <2>. QED
    BY <1>2, <2>1, PrintedIsParsed
<1>3. CASE k = "hex"
  <2>1. v \in Representable /\ s = Digits(Unsigned(v)) /\ Parse(g, s, cut) = ParseNumber(s)
    BY <1>0, <1>3 DEF Values, Text, Parse
  <2>. QED
    BY <1>3, <2>1, HexIsParsed
<1>4. CASE k = "float"
  <2>1. v \in Int \X Int /\ s = <<v[1]>> /\ v[2] = 0
    BY <1>0, <1>4 DEF Values, Text
  <2>2. s # <<>> /\ s[1] = v[1] /\ v = <<v[1], v[2]>>
    BY <2>1
  <2>3. Parse(g, s, cut) = IF s = <<>> THEN {} ELSE {<<s[1], 0>>}
    BY <1>0, <1>4 DEF Parse
  <2>. QED
    BY <1>4, <2>1, <2>2, <2>3
<1>5. CASE k = "ipv4"
  <2>1. v \in [1..4 -> 0..(Base - 1)] /\ s = v /\ Parse(g, s, cut) = FourElements(s)
    BY <1>0, <1>5 DEF Values, Text, Parse
  <2>2. s \in Seq(Int)
    BY <2>1, ArrayIsSequence
  <2>3. FourElements(s) = {s}
    BY <2>1, <2>2, FourElementsFacts
  <2>. QED
    BY <1>5, <2>1, <2>3
<1>7. CASE k = "register"
  <2>1. v \in [1..Length -> 0..(Base - 1)] /\ g.value \in [1..Length -> 0..(Base - 1)]
    BY <1>0, <1>7 DEF Values
  <2>2. s = SubSeq(v, 1, Min({Length, Visible})) /\ Parse(g, s, cut) = Bytes(g, s, cut)
    BY <1>0, <1>7 DEF Text, Parse
  <2>3. /\ s \in Seq(0..(Base - 1)) /\ s # <<>> /\ Len(s) <= Length
        /\ \A i \in 1..Len(s) : s[i] = v[i]
        /\ Visible >= Length => Len(s) = Length
    <3>. DEFINE r == SubSeq(v, 1, Min({Length, Visible}))
    <3>1. Visible \in Nat \ {0}
      BY ColumnsAssumption
    <3>. HIDE DEF s, v
    <3>2. /\ r \in Seq(0..(Base - 1)) /\ r # <<>> /\ Len(r) <= Length
          /\ \A i \in 1..Len(r) : r[i] = v[i]
          /\ Visible >= Length => Len(r) = Length
      BY <2>1, <3>1, ShownBytes
    <3>. HIDE DEF r
    <3>3. s = r
      BY <2>2 DEF r
    <3>. QED
      BY <3>2, <3>3
  <2>. HIDE DEF s
  <2>4. ASSUME NEW w \in Bytes(g, s, cut) PROVE w = v
    <3>1. /\ w \in [1..Length -> 0..(Base - 1)]
          /\ \A i \in 1..Length : w[i] = IF i <= Len(s) THEN s[i] ELSE g.value[i]
      BY <2>1, <2>3, BytesFacts
    <3>2. ASSUME NEW i \in 1..Length PROVE w[i] = v[i]
      <4>1. CASE i <= Len(s)
        <5>1. i \in 1..Len(s)
          BY <2>3, <4>1, RegisterAssumption
        <5>. QED
          BY <2>3, <3>1, <4>1, <5>1
      <4>2. CASE ~(i <= Len(s))
        <5>0. ~(Visible >= Length)
          BY <2>3, <4>2, RegisterAssumption
        <5>1. g.value = v
          BY <1>7, <5>0
        <5>. QED
          BY <3>1, <4>2, <5>1
      <4>. QED
        BY <4>1, <4>2
    <3>3. \A i \in 1..Length : w[i] = v[i]
      BY <3>2
    <3>4. w \in [1..Length -> 0..(Base - 1)] /\ v \in [1..Length -> 0..(Base - 1)]
      BY <2>1, <3>1
    <3>. HIDE DEF v, s
    <3>5. w = [i \in 1..Length |-> w[i]]
      BY <3>4, Zenon
    <3>6. v = [i \in 1..Length |-> v[i]]
      BY <3>4, Zenon
    <3>7. [i \in 1..Length |-> w[i]] = [i \in 1..Length |-> v[i]]
      BY <3>3, Zenon
    <3>. QED
      BY <3>5, <3>6, <3>7, Zenon
  <2>5. Bytes(g, s, cut) # {}
    <3>1. ~(Len(s) > Length)
      BY <2>3, RegisterAssumption
    <3>. QED
      BY <2>3, <3>1 DEF Bytes
  <2>. QED
    BY <1>7, <2>2, <2>4, <2>5 DEF s
<1>. QED
  BY <1>0, <1>1, <1>2, <1>3, <1>4, <1>5, <1>7 DEF Kinds

-----------------------------------------------------------------------------
(* The features of a device. *)

\* The features of a device, and what can be written to them.
LEMMA FeatureFacts ==
  ASSUME NEW d
  PROVE  /\ Feature(d, "ComponentSelector") =
              [kind |-> "enumeration", access |-> "RW", entries |-> d.entries,
               value |-> <<d.selector>>]
         /\ Feature(d, "ComponentEnable") =
              [kind |-> "boolean", access |-> "RW", value |-> d.enabled[d.selector]]
         /\ Feature(d, "Command") = [kind |-> "command", access |-> "WO", value |-> d.runs]
         /\ Feature(d, "Feature") = [kind |-> d.kind, access |-> d.access, value |-> d.value]
         /\ \A n : n \notin {"ComponentSelector", "ComponentEnable", "Command", "Feature"}
                => Feature(d, n) = [kind |-> "category", access |-> "RO", value |-> <<>>]
  BY DEF Feature

\* The parts of a device.
DeviceFields(E, K, d) ==
  /\ d.entries = E /\ d.selector \in E /\ d.runs \in Nat
  /\ d.enabled \in [E -> {<<0>>, <<1>>}]
  /\ d.kind = K /\ d.access \in {"RW", "RO", "WO"} /\ d.value \in Values(K)
  /\ d = [entries |-> d.entries, selector |-> d.selector, runs |-> d.runs,
          enabled |-> d.enabled, kind |-> d.kind, access |-> d.access,
          value |-> d.value]

\* A device has these parts.
LEMMA FieldsOfDevice ==
  ASSUME NEW E, NEW K, NEW d \in DevicesOf(E, K)
  PROVE  DeviceFields(E, K, d)
  BY DEF DevicesOf, DeviceFields

\* What the device lets call the features by.
LEMMA StoreSelector ==
  ASSUME NEW E, NEW K, NEW d \in DevicesOf(E, K), NEW e \in E
  PROVE  LET c == Store(d, "ComponentSelector", <<e>>)
         IN  c \in DevicesOf(E, K) /\ c.access = d.access /\ c.value = d.value
<1>1. DeviceFields(E, K, d)
  BY FieldsOfDevice
<1>2. Store(d, "ComponentSelector", <<e>>) =
          [entries |-> d.entries, selector |-> e, runs |-> d.runs,
           enabled |-> d.enabled, kind |-> d.kind, access |-> d.access,
           value |-> d.value]
  BY <1>1 DEF Store, DeviceFields
<1>. QED
  BY <1>1, <1>2 DEF DevicesOf, DeviceFields

\* Switching a component.
LEMMA StoreEnable ==
  ASSUME NEW E, NEW K, NEW d \in DevicesOf(E, K), NEW v \in {<< 0 >>, << 1 >>}
  PROVE  LET c == Store(d, "ComponentEnable", v)
         IN  c \in DevicesOf(E, K) /\ c.access = d.access /\ c.value = d.value
<1>1. DeviceFields(E, K, d)
  BY FieldsOfDevice
<1>. DEFINE g == [d.enabled EXCEPT ![d.selector] = v]
<1>3. g \in [E -> {<<0>>, <<1>>}]
  BY <1>1 DEF DeviceFields
<1>2. Store(d, "ComponentEnable", v) =
          [entries |-> d.entries, selector |-> d.selector, runs |-> d.runs,
           enabled |-> g, kind |-> d.kind, access |-> d.access,
           value |-> d.value]
  BY <1>1 DEF Store, DeviceFields
<1>. HIDE DEF g
<1>. QED
  BY <1>1, <1>2, <1>3 DEF DevicesOf, DeviceFields

\* Executing the command.
LEMMA StoreRuns ==
  ASSUME NEW E, NEW K, NEW d \in DevicesOf(E, K), NEW n \in Nat
  PROVE  LET c == Store(d, "Command", n)
         IN  c \in DevicesOf(E, K) /\ c.access = d.access /\ c.value = d.value
<1>1. DeviceFields(E, K, d)
  BY FieldsOfDevice
<1>. DEFINE g == [x \in d.entries |-> <<1>>]
<1>3. g \in [E -> {<<0>>, <<1>>}]
  BY <1>1 DEF DeviceFields
<1>2. Store(d, "Command", n) =
          [entries |-> d.entries, selector |-> d.selector, runs |-> n,
           enabled |-> g, kind |-> d.kind, access |-> d.access,
           value |-> d.value]
  BY <1>1 DEF Store, DeviceFields
<1>. HIDE DEF g
<1>. QED
  BY <1>1, <1>2, <1>3 DEF DevicesOf, DeviceFields

\* Writing the feature.
LEMMA StoreValue ==
  ASSUME NEW E, NEW K, NEW d \in DevicesOf(E, K), NEW v \in Values(K)
  PROVE  LET c == Store(d, "Feature", v)
         IN  c \in DevicesOf(E, K) /\ c.access = d.access /\ c.value = v
<1>1. DeviceFields(E, K, d)
  BY FieldsOfDevice
<1>2. Store(d, "Feature", v) =
          [entries |-> d.entries, selector |-> d.selector, runs |-> d.runs,
           enabled |-> d.enabled, kind |-> d.kind, access |-> d.access,
           value |-> v]
  BY <1>1 DEF Store, DeviceFields
<1>. QED
  BY <1>1, <1>2 DEF DevicesOf, DeviceFields

\* Storing the value that a feature has changes nothing.
LEMMA StoreKeeps ==
  ASSUME NEW E, NEW K, NEW d \in DevicesOf(E, K)
  PROVE  /\ Store(d, "ComponentSelector", <<d.selector>>) = d
         /\ Store(d, "ComponentEnable", d.enabled[d.selector]) = d
         /\ Store(d, "Feature", d.value) = d
<1>1. /\ d = [entries |-> d.entries, selector |-> d.selector, runs |-> d.runs,
              enabled |-> d.enabled, kind |-> d.kind, access |-> d.access,
              value |-> d.value]
      /\ d.enabled \in [E -> {<<0>>, <<1>>}] /\ d.selector \in E
  BY DEF DevicesOf
<1>2. [d.enabled EXCEPT ![d.selector] = d.enabled[d.selector]] = d.enabled
  BY <1>1
<1>. QED
  BY <1>1, <1>2 DEF Store

\* The tool finds no component IntensityCombined, and changes nothing.
LEMMA PreparedKeeps ==
  ASSUME NEW E, NEW K, NEW d \in DevicesOf(E, K), Combined \notin E
  PROVE  Prepared(d) = d
<1>1. d.entries = E /\ Store(d, "ComponentSelector", <<d.selector>>) = d
  BY StoreKeeps DEF DevicesOf
<1>2. Select(d, Combined) = Done(d, "false")
  BY <1>1 DEF Select, SetEnum, Assign, Failed, Feature, Done, Writable
<1>. QED
  BY <1>2 DEF Prepared, Done

\* Selecting a component, present or not, leaves a state of the device.
LEMMA SelectIsTyped ==
  ASSUME NEW E, NEW K, NEW d \in DevicesOf(E, K), NEW component
  PROVE  /\ Select(d, component).value \in DevicesOf(E, K)
         /\ Select(d, component).value.access = d.access
<1>1. d.entries = E /\ d.selector \in E
  BY DEF DevicesOf
<1>. DEFINE f == Feature(d, "ComponentSelector")
            o == SetEnum(f, <<component>>, FALSE)
<1>2. f.kind = "enumeration" /\ Writable(f) /\ f.value = <<d.selector>> /\ f.entries = E
  <2>1. f = [kind |-> "enumeration", access |-> "RW", entries |-> d.entries,
             value |-> <<d.selector>>]
    BY FeatureFacts, Zenon
  <2>. HIDE DEF f
  <2>. QED
    BY <1>1, <2>1 DEF Writable
<1>. HIDE DEF f
<1>6. <<component>>[1] = component
  OBVIOUS
<1>7. o.value = IF component \in E THEN <<component>> ELSE <<d.selector>>
  BY <1>2, <1>6 DEF SetEnum, Assign, Failed, Done
<1>. HIDE DEF o
<1>8. Select(d, component) = Done(Store(d, "ComponentSelector", o.value), o.result)
  BY DEF Select, o, f
<1>9. Select(d, component).value = Store(d, "ComponentSelector", o.value)
  BY <1>8 DEF Done
<1>. HIDE DEF o
<1>3. CASE component \in E
  BY <1>3, <1>7, <1>9, StoreSelector
<1>4. CASE component \notin E
  BY <1>1, <1>4, <1>7, <1>9, StoreSelector
<1>. QED
  BY <1>3, <1>4

\* So does preparing the components.
LEMMA PreparedIsTyped ==
  ASSUME NEW E, NEW K, NEW d \in DevicesOf(E, K)
  PROVE  Prepared(d) \in DevicesOf(E, K) /\ Prepared(d).access = d.access
<1>. DEFINE c == Select(d, Combined)
            i == Select(c.value, "Intensity")
<1>1. c.value \in DevicesOf(E, K) /\ c.value.access = d.access
  BY SelectIsTyped
<1>2. i.value \in DevicesOf(E, K) /\ i.value.access = d.access
  BY <1>1, SelectIsTyped
<1>. DEFINE off == SetBoolean(Feature(i.value, "ComponentEnable"), <<0>>, TRUE).value
            s == Store(i.value, "ComponentEnable", off)
<1>3. Prepared(d) = c.value \/ Prepared(d) = i.value \/ Prepared(d) = s
  BY DEF Prepared
<1>. HIDE DEF c, i
<1>4. off = <<0>>
  <2>. DEFINE f == Feature(i.value, "ComponentEnable")
              r == SetBoolean(f, <<0>>, TRUE)
  <2>1. f = [kind |-> "boolean", access |-> "RW", value |-> i.value.enabled[i.value.selector]]
    BY FeatureFacts, Zenon
  <2>. HIDE DEF f
  <2>2. f.kind = "boolean" /\ f.access \in {"RW", "WO"}
    BY <2>1
  <2>3. r = Done(<<0>>, "true")
    BY <2>2 DEF SetBoolean, Assign, Writable
  <2>. HIDE DEF r
  <2>4. r.value = <<0>>
    BY <2>3 DEF Done
  <2>. QED
    BY <2>4 DEF f, r
<1>. HIDE DEF off
<1>5. s \in DevicesOf(E, K) /\ s.access = d.access
  BY <1>2, <1>4, StoreEnable
<1>. HIDE DEF s
<1>. QED
  BY <1>1, <1>2, <1>3, <1>5

-----------------------------------------------------------------------------
(* The loops of the editor, by feature. *)

\* Every element of a finite set is in its sequence.
LEMMA SetToSeqFacts ==
  ASSUME NEW S, IsFiniteSet(S)
  PROVE  /\ SetToSeq(S) \in Seq(S)
         /\ \A x \in S : \E i \in 1..Len(SetToSeq(S)) : SetToSeq(S)[i] = x
         /\ S # {} => SetToSeq(S) # <<>>
<1>. DEFINE n == Cardinality(S)
            s == SetToSeq(S)
            Inj(f) == \A a, b \in DOMAIN f : f[a] = f[b] => a = b
<1>1. n \in Nat /\ ExistsBijection(1..n, S)
  BY FS_CardinalityType
<1>2. PICK f \in Bijection(1..n, S) : TRUE
  BY <1>1 DEF ExistsBijection
<1>3. f \in [1..n -> S] /\ Inj(f) /\ \A x \in S : \E i \in 1..n : f[i] = x
  BY <1>2 DEF Bijection, Injection, Surjection, IsInjective
<1>4. s = CHOOSE g \in [1..n -> S] : Inj(g)
  BY DEF SetToSeq, IsInjective
<1>5. s \in [1..n -> S] /\ Inj(s)
  BY <1>3, <1>4
<1>. HIDE DEF s
<1>6. IsFiniteSet(1..n) /\ Cardinality(1..n) = n
  BY <1>1, FS_Interval
<1>7. s \in Injection(1..n, S)
  BY <1>5 DEF Injection, IsInjective
<1>8. s \in Surjection(1..n, S)
  BY <1>6, <1>7, FS_Injection
<1>9. \A x \in S : \E i \in 1..n : s[i] = x
  BY <1>8 DEF Surjection
<1>10. s \in Seq(S) /\ Len(s) = n
  BY <1>1, <1>5, TupleIsSequence
<1>11. S # {} => s # <<>>
  BY <1>1, <1>9, <1>10
<1>. QED
  BY <1>9, <1>10, <1>11 DEF s

-----------------------------------------------------------------------------
(* The second call repeats the changes. *)

\* An argument turns a device into the next one.
Replays(d, entry, next) ==
  LET outcome == Argument(d, entry)
  IN outcome.result # "throws" /\ next = Store(d, entry.name, outcome.value)

\* The arguments turn a device into another one, by way of states in S.
Leads(S, d, entries, last) ==
  \E f \in [1..(Len(entries) + 1) -> S] :
    /\ f[1] = d /\ f[Len(entries) + 1] = last
    /\ \A k \in 1..Len(entries) : Replays(f[k], entries[k], f[k + 1])

\* No argument, no change.
LEMMA LeadsNowhere ==
  ASSUME NEW S, NEW d \in S, NEW last
  PROVE  Leads(S, d, <<>>, last) <=> last = d
<1>. DEFINE n == Len(<<>>)
<1>1. n = 0 /\ 1..(n + 1) = {1} /\ 1..n = {}
  OBVIOUS
<1>2. ASSUME Leads(S, d, <<>>, last) PROVE last = d
  <2>1. PICK f \in [1..(n + 1) -> S] : f[1] = d /\ f[n + 1] = last
    BY <1>2 DEF Leads
  <2>2. n + 1 = 1
    BY <1>1
  <2>. QED
    BY <2>1, <2>2
<1>3. ASSUME last = d PROVE Leads(S, d, <<>>, last)
  <2>. DEFINE f == [i \in 1..(n + 1) |-> d]
  <2>1. f \in [1..(n + 1) -> S] /\ f[1] = d /\ f[n + 1] = last
    BY <1>1, <1>3
  <2>. HIDE DEF f
  <2>2. \A k \in 1..n : Replays(f[k], <<>>[k], f[k + 1])
    BY <1>1
  <2>. HIDE DEF n
  <2>3. \E g \in [1..(n + 1) -> S] :
           /\ g[1] = d /\ g[n + 1] = last
           /\ \A k \in 1..n : Replays(g[k], <<>>[k], g[k + 1])
    BY <2>1, <2>2, Zenon
  <2>. QED
    BY <2>3, Zenon DEF Leads, n
<1>. QED
  BY <1>2, <1>3

\* Another argument.
LEMMA LeadsFurther ==
  ASSUME NEW S, NEW d, NEW R, NEW entries \in Seq(R), NEW middle, NEW entry \in R, NEW last \in S,
         Leads(S, d, entries, middle), Replays(middle, entry, last)
  PROVE  Leads(S, d, Append(entries, entry), last)
<1>. DEFINE n == Len(entries)
            longer == Append(entries, entry)
<1>1. n \in Nat /\ Len(longer) = n + 1 /\ longer[n + 1] = entry
      /\ \A k \in 1..n : longer[k] = entries[k]
  OBVIOUS
<1>. HIDE DEF n, longer
<1>2. PICK f \in [1..(n + 1) -> S] :
         /\ f[1] = d /\ f[n + 1] = middle
         /\ \A k \in 1..n : Replays(f[k], entries[k], f[k + 1])
  BY Zenon DEF Leads, n
<1>. DEFINE g == [k \in 1..((n + 1) + 1) |-> IF k = n + 2 THEN last ELSE f[k]]
<1>3. g \in [1..((n + 1) + 1) -> S]
  BY <1>1, <1>2
<1>4. \A k \in 1..(n + 1) : g[k] = f[k]
  BY <1>1
<1>5. g[n + 2] = last
  BY <1>1
<1>. HIDE DEF g
<1>6. g[1] = d /\ g[(n + 1) + 1] = last
  BY <1>1, <1>2, <1>4, <1>5
<1>7. ASSUME NEW k \in 1..(n + 1) PROVE Replays(g[k], longer[k], g[k + 1])
  <2>1. CASE k = n + 1
    <3>1. g[k] = middle /\ longer[k] = entry /\ g[k + 1] = last
      BY <1>1, <1>2, <1>4, <1>6, <2>1
    <3>. QED
      BY <3>1
  <2>2. CASE k # n + 1
    <3>1. k \in 1..n /\ k + 1 \in 1..(n + 1)
      BY <1>1, <2>2
    <3>2. g[k] = f[k] /\ longer[k] = entries[k] /\ g[k + 1] = f[k + 1]
      BY <1>1, <1>4, <3>1
    <3>3. Replays(f[k], entries[k], f[k + 1])
      BY <1>2, <3>1
    <3>. QED
      BY <3>2, <3>3
  <2>. QED
    BY <2>1, <2>2
<1>8. \E h \in [1..(Len(longer) + 1) -> S] :
         /\ h[1] = d /\ h[Len(longer) + 1] = last
         /\ \A k \in 1..Len(longer) : Replays(h[k], longer[k], h[k + 1])
  <2>1. g \in [1..(Len(longer) + 1) -> S] /\ g[1] = d /\ g[Len(longer) + 1] = last
        /\ \A k \in 1..Len(longer) : Replays(g[k], longer[k], g[k + 1])
    BY <1>1, <1>3, <1>6, <1>7
  <2>. QED
    BY <2>1, Zenon
<1>. QED
  BY <1>8, Zenon DEF Leads, longer

\* The first argument, and the others.
LEMMA LeadsFirst ==
  ASSUME NEW S, NEW d, NEW R, NEW entries \in Seq(R), entries # <<>>, NEW last,
         Leads(S, d, entries, last)
  PROVE  \E middle \in S : /\ Replays(d, Head(entries), middle)
                           /\ Leads(S, middle, Tail(entries), last)
<1>. DEFINE n == Len(entries)
            shorter == Tail(entries)
<1>1. n \in Nat /\ n >= 1 /\ Len(shorter) = n - 1 /\ Head(entries) = entries[1]
      /\ \A k \in 1..(n - 1) : shorter[k] = entries[k + 1]
  <2>1. n \in Nat /\ n >= 1 /\ Head(entries) = entries[1]
    OBVIOUS
  <2>2. /\ Len(Tail(entries)) = Len(entries) - 1
        /\ \A k \in 1..Len(Tail(entries)) : Tail(entries)[k] = entries[k + 1]
    BY HeadTailProperties
  <2>. QED
    BY <2>1, <2>2
<1>. HIDE DEF n, shorter
<1>2. PICK f \in [1..(n + 1) -> S] :
         /\ f[1] = d /\ f[n + 1] = last
         /\ \A k \in 1..n : Replays(f[k], entries[k], f[k + 1])
  BY Zenon DEF Leads, n
<1>. DEFINE g == [k \in 1..((n - 1) + 1) |-> f[k + 1]]
<1>3. g \in [1..((n - 1) + 1) -> S]
  BY <1>1, <1>2
<1>4. \A k \in 1..n : g[k] = f[k + 1]
  BY <1>1
<1>. HIDE DEF g
<1>5. g[1] = f[2] /\ g[(n - 1) + 1] = last /\ f[2] \in S
  <2>1. g[1] = f[1 + 1] /\ g[n] = f[n + 1]
    BY <1>1, <1>4
  <2>. QED
    BY <1>1, <1>2, <2>1
<1>6. ASSUME NEW k \in 1..(n - 1) PROVE Replays(g[k], shorter[k], g[k + 1])
  <2>1. k \in 1..n /\ k + 1 \in 1..n
    BY <1>1
  <2>2. g[k] = f[k + 1] /\ shorter[k] = entries[k + 1] /\ g[k + 1] = f[(k + 1) + 1]
    BY <1>1, <1>4, <2>1
  <2>3. Replays(f[k + 1], entries[k + 1], f[(k + 1) + 1])
    BY <1>2, <2>1
  <2>. QED
    BY <2>2, <2>3
<1>7. Leads(S, f[2], shorter, last)
  <2>1. g \in [1..(Len(shorter) + 1) -> S] /\ g[1] = f[2] /\ g[Len(shorter) + 1] = last
        /\ \A k \in 1..Len(shorter) : Replays(g[k], shorter[k], g[k + 1])
    BY <1>1, <1>3, <1>5, <1>6
  <2>. QED
    BY <2>1, Zenon DEF Leads
<1>8. Replays(d, Head(entries), f[2])
  <2>1. Replays(f[1], entries[1], f[1 + 1]) /\ 1 + 1 = 2
    BY <1>1, <1>2
  <2>. QED
    BY <1>1, <1>2, <2>1
<1>. QED
  BY <1>5, <1>7, <1>8, Zenon DEF shorter

-----------------------------------------------------------------------------
(* Each change is repeated. *)

\* A text that can be converted is written.
LEMMA SetStringConverts ==
  ASSUME NEW f, Writable(f), f.kind # "command", NEW s, ~Unknown(f, s),
         NEW v, Parse(f, s, TRUE) = {v}
  PROVE  SetString(f, s, TRUE) = Done(v, "false")
<1>1. (CHOOSE value \in {v} : TRUE) = v /\ {v} # {}
  OBVIOUS
<1>. QED
  BY <1>1, Zenon DEF SetString

\* An argument whose text can be converted writes the feature.
LEMMA ArgumentConverts ==
  ASSUME NEW d, NEW name, NEW s, s # <<>>, NEW f, f = Feature(d, name),
         Writable(f), f.kind # "command", ~Unknown(f, s),
         NEW v, Parse(f, s, TRUE) = {v}
  PROVE  Replays(d, [name |-> name, text |-> s], Store(d, name, v))
<1>. DEFINE e == [name |-> name, text |-> s]
<1>1. e.name = name /\ e.text = s
  OBVIOUS
<1>. HIDE DEF e
<1>2. SetString(f, s, TRUE) = Done(v, "false")
  BY SetStringConverts, Zenon
<1>3. Argument(d, e) = Done(v, "false")
  BY <1>1, <1>2, Zenon DEF Argument
<1>4. Done(v, "false").result # "throws" /\ Done(v, "false").value = v
  BY DEF Done
<1>. QED
  BY <1>1, <1>3, <1>4, Zenon DEF Replays, e

\* An entry of the selector is selected again.
LEMMA ReplaysSelector ==
  ASSUME NEW E, NEW K, NEW d \in DevicesOf(E, K), NEW e \in E
  PROVE  Replays(d, [name |-> "ComponentSelector", text |-> <<e>>],
                 Store(d, "ComponentSelector", <<e>>))
<1>. DEFINE f == Feature(d, "ComponentSelector")
            s == <<e>>
<1>1. f = [kind |-> "enumeration", access |-> "RW", entries |-> d.entries,
           value |-> <<d.selector>>]
  BY FeatureFacts, Zenon
<1>. HIDE DEF f
<1>2. f.kind = "enumeration" /\ Writable(f) /\ f.entries = E
  BY <1>1, FieldsOfDevice DEF Writable, DeviceFields
<1>3. s # <<>> /\ s[1] = e
  OBVIOUS
<1>4. ~Unknown(f, s)
  BY <1>2, <1>3 DEF Unknown
<1>5. Parse(f, s, TRUE) = {s}
  BY <1>2 DEF Parse
<1>. HIDE DEF s
<1>6. f.kind # "command"
  BY <1>2
<1>. QED
  BY <1>2, <1>3, <1>4, <1>5, <1>6, ArgumentConverts, Zenon DEF f, s

\* A component is switched again.
LEMMA ReplaysEnable ==
  ASSUME NEW E, NEW K, NEW d \in DevicesOf(E, K), NEW s \in {<< 0 >>, << 1 >>}
  PROVE  Replays(d, [name |-> "ComponentEnable", text |-> s],
                 Store(d, "ComponentEnable", s))
<1>. DEFINE f == Feature(d, "ComponentEnable")
<1>1. f = [kind |-> "boolean", access |-> "RW", value |-> d.enabled[d.selector]]
  BY FeatureFacts, Zenon
<1>. HIDE DEF f
<1>2. f.kind = "boolean" /\ Writable(f) /\ f.kind # "command"
  BY <1>1 DEF Writable
<1>3. s # <<>> /\ Len(s) = 1 /\ s[1] \in {0, 1} /\ s = <<s[1]>>
  OBVIOUS
<1>4. ~Unknown(f, s)
  BY <1>2 DEF Unknown
<1>5. Parse(f, s, TRUE) = {s}
  <2>1. Min({1, Len(s)}) = 1
    <3>. DEFINE n == Len(s)
    <3>1. n \in Int /\ 1 \in Int /\ n = 1
      BY <1>3
    <3>. HIDE DEF n
    <3>2. Min({1, n}) = 1 \/ Min({1, n}) = n
      BY <3>1, MinOfTwo, Zenon
    <3>. QED
      BY <3>1, <3>2 DEF n
  <2>2. {s[i] : i \in 1..1} = {s[1]}
    OBVIOUS
  <2>3. Parse(f, s, TRUE) = {<<IF t = 0 THEN 0 ELSE 1>> : t \in {s[1]}}
    BY <1>2, <2>1, <2>2 DEF Parse
  <2>4. (IF s[1] = 0 THEN 0 ELSE 1) = s[1]
    BY <1>3
  <2>5. {<<IF t = 0 THEN 0 ELSE 1>> : t \in {s[1]}} = {<<s[1]>>}
    BY <2>4
  <2>. QED
    BY <1>3, <2>3, <2>5
<1>. QED
  BY <1>2, <1>3, <1>4, <1>5, ArgumentConverts, Zenon DEF f

\* A command is executed again.
LEMMA ReplaysCommand ==
  ASSUME NEW E, NEW K, NEW d \in DevicesOf(E, K)
  PROVE  Replays(d, [name |-> "Command", text |-> <<>>], Store(d, "Command", d.runs + 1))
<1>. DEFINE f == Feature(d, "Command")
            e == [name |-> "Command", text |-> <<>>]
            c == CallCommand(f, TRUE, FALSE)
<1>1. f = [kind |-> "command", access |-> "WO", value |-> d.runs]
  BY FeatureFacts, Zenon
<1>. HIDE DEF f
<1>2. f.kind = "command" /\ f.access \in {"RW", "WO"} /\ f.value = d.runs
  BY <1>1
<1>3. e.text = <<>> /\ e.name = "Command"
  OBVIOUS
<1>. HIDE DEF e
<1>4. c = Done(d.runs + 1, "true")
  BY <1>2 DEF CallCommand, Assign, Writable
<1>. HIDE DEF c
<1>5. Argument(d, e) = c
  BY <1>3, Zenon DEF Argument, c, f
<1>6. c.result # "throws" /\ c.value = d.runs + 1
  BY <1>4 DEF Done
<1>. QED
  BY <1>3, <1>5, <1>6, Zenon DEF Replays, e

\* A value that has been set in the editor is shown, and set again.
LEMMA ReplaysFeature ==
  ASSUME NEW E, NEW K \in Kinds, NEW d \in DevicesOf(E, K), d.access \in {"RW", "WO"},
         NEW v \in Values(K), K # "mac", K = "float" => v[2] = 0,
         K = "register" => Visible >= Length,
         NEW s, s = Shown(Feature(Store(d, "Feature", v), "Feature")), s # <<>>,
         K = "hex" => ParseNumber(s) # {}
  PROVE  Replays(d, [name |-> "Feature", text |-> s], Store(d, "Feature", v))
<1>. DEFINE c == Store(d, "Feature", v)
            f == Feature(c, "Feature")
            g == Feature(d, "Feature")
<1>1. c \in DevicesOf(E, K) /\ c.access = d.access /\ c.value = v /\ d.kind = K
      /\ d.value \in Values(K) /\ c.kind = K
  BY StoreValue DEF DevicesOf
<1>. HIDE DEF c
<1>2. /\ f = [kind |-> c.kind, access |-> c.access, value |-> c.value]
      /\ g = [kind |-> d.kind, access |-> d.access, value |-> d.value]
  BY FeatureFacts, Zenon
<1>. HIDE DEF f, g
<1>3. f.kind = K /\ f.value = v /\ f.access = d.access
      /\ g.kind = K /\ g.value = d.value /\ Writable(g)
  BY <1>1, <1>2 DEF Writable
<1>4. s = Shown(f)
  BY Zenon DEF f, c
<1>5. s = Text(f, Visible)
  BY <1>4, Zenon DEF Shown
<1>6. Parse(g, s, TRUE) \subseteq {v} /\ Parse(g, s, TRUE) # {}
  <2>1. /\ Parse(g, Text(f, Visible), TRUE) \subseteq {f.value}
        /\ (f.kind = "hex" => ParseNumber(Text(f, Visible)) # {})
             => Parse(g, Text(f, Visible), TRUE) # {}
    <3>1. f.kind \in Kinds /\ f.value \in Values(f.kind) /\ g.kind = f.kind
          /\ g.value \in Values(f.kind) /\ f.kind # "mac" /\ (f.kind = "float" => f.value[2] = 0)
          /\ (f.kind = "register" => Visible >= Length \/ g.value = f.value)
      BY <1>1, <1>3
    <3>2. TRUE \in BOOLEAN
      OBVIOUS
    <3>. QED
      BY <3>1, <3>2, ShownIsParsed, Zenon
  <2>. QED
    BY <1>3, <1>5, <2>1, Zenon
<1>7. Parse(g, s, TRUE) = {v}
  BY <1>6, Zenon
<1>8. ~Unknown(g, s) /\ g.kind # "command"
  BY <1>3 DEF Unknown, Kinds
<1>. QED
  BY <1>3, <1>7, <1>8, ArgumentConverts, Zenon DEF g, c

-----------------------------------------------------------------------------
(* Keys in the loops for options and for text. *)

\* The elements of a text.
Alphabet(kind) ==
  CASE kind = "string"   -> Chars
    [] kind = "register" -> 0..(Base - 1)
    [] OTHER             -> Int

\* Texts are sequences of such elements.
LEMMA TextsAreSequences ==
  ASSUME NEW kind
  PROVE  /\ Texts(kind) = Seq(Alphabet(kind))
         /\ kind # "string" => 0..(Base - 1) \subseteq Alphabet(kind)
         /\ kind \in {"integer", "hex", "float"} => -1..(Base - 1) \subseteq Alphabet(kind)
         /\ kind = "string" => Alphabet(kind) = Chars
  BY WidthAssumption DEF Texts, Alphabet

\* Erasing an element.
LEMMA RemoveAtShortens ==
  ASSUME NEW S, NEW s \in Seq(S), NEW i \in 1..Len(s)
  PROVE  RemoveAt(s, i) \in Seq(S) /\ Len(RemoveAt(s, i)) = Len(s) - 1
<1>. DEFINE n == Len(s)
            a == SubSeq(s, 1, i - 1)
            b == SubSeq(s, i + 1, n)
<1>1. n \in Nat /\ i \in 1..n /\ \A j \in 1..n : s[j] \in S
  BY ElementOfSeq
<1>. HIDE DEF n
<1>2. a \in Seq(S) /\ Len(a) = i - 1
  <2>1. i - 1 \in Int /\ 1 \in Int /\ \A j \in 1..(i - 1) : s[j] \in S
    BY <1>1
  <2>2. a \in Seq(S) /\ Len(a) = IF 1 <= i - 1 THEN i - 1 - 1 + 1 ELSE 0
    BY <2>1, SubSeqProperties
  <2>. HIDE DEF a
  <2>. QED
    BY <1>1, <2>2
<1>3. b \in Seq(S) /\ Len(b) = n - i
  <2>1. i + 1 \in Int /\ n \in Int /\ \A j \in (i + 1)..n : s[j] \in S
    BY <1>1
  <2>2. b \in Seq(S) /\ Len(b) = IF i + 1 <= n THEN n - (i + 1) + 1 ELSE 0
    BY <2>1, SubSeqProperties
  <2>. HIDE DEF b
  <2>. QED
    BY <1>1, <2>2
<1>. HIDE DEF a, b
<1>4. a \o b \in Seq(S) /\ Len(a \o b) = Len(a) + Len(b)
  BY <1>2, <1>3, ConcatProperties
<1>5. RemoveAt(s, i) = a \o b
  BY Zenon DEF RemoveAt, a, b, n
<1>. DEFINE ab == a \o b
<1>. HIDE DEF ab
<1>7. ab \in Seq(S) /\ Len(ab) = n - 1
  <2>1. Len(ab) = Len(a) + Len(b) /\ ab \in Seq(S)
    BY <1>4 DEF ab
  <2>. QED
    BY <1>1, <1>2, <1>3, <2>1
<1>6. RemoveAt(s, i) \in Seq(S) /\ Len(RemoveAt(s, i)) = n - 1
  BY <1>5, <1>7 DEF ab
<1>. QED
  BY <1>6 DEF n

\* Inserting an element.
LEMMA InsertAtLengthens ==
  ASSUME NEW S, NEW s \in Seq(S), NEW i \in 1..(Len(s) + 1), NEW e \in S
  PROVE  InsertAt(s, i, e) \in Seq(S) /\ Len(InsertAt(s, i, e)) = Len(s) + 1
<1>. DEFINE n == Len(s)
            a == SubSeq(s, 1, i - 1)
            c == <<e>>
            b == SubSeq(s, i, n)
<1>1. n \in Nat /\ i \in 1..(n + 1) /\ \A j \in 1..n : s[j] \in S
  BY ElementOfSeq
<1>. HIDE DEF n
<1>2. a \in Seq(S) /\ Len(a) = i - 1
  <2>1. i - 1 \in Int /\ 1 \in Int /\ \A j \in 1..(i - 1) : s[j] \in S
    BY <1>1
  <2>2. a \in Seq(S) /\ Len(a) = IF 1 <= i - 1 THEN i - 1 - 1 + 1 ELSE 0
    BY <2>1, SubSeqProperties
  <2>. HIDE DEF a
  <2>. QED
    BY <1>1, <2>2
<1>3. b \in Seq(S) /\ Len(b) = n - i + 1
  <2>1. i \in Int /\ n \in Int /\ \A j \in i..n : s[j] \in S
    BY <1>1
  <2>2. b \in Seq(S) /\ Len(b) = IF i <= n THEN n - i + 1 ELSE 0
    BY <2>1, SubSeqProperties
  <2>. HIDE DEF b
  <2>. QED
    BY <1>1, <2>2
<1>4. c \in Seq(S) /\ Len(c) = 1
  OBVIOUS
<1>. HIDE DEF a, b, c
<1>5. a \o c \in Seq(S) /\ Len(a \o c) = Len(a) + Len(c)
  BY <1>2, <1>4, ConcatProperties
<1>. DEFINE ac == a \o c
<1>. HIDE DEF ac
<1>6. ac \o b \in Seq(S) /\ Len(ac \o b) = Len(ac) + Len(b)
  BY <1>3, <1>5, ConcatProperties DEF ac
<1>7. InsertAt(s, i, e) = ac \o b
  BY Zenon DEF InsertAt, a, b, c, ac, n
<1>8. Len(ac) = i
  BY <1>1, <1>2, <1>4, <1>5 DEF ac
<1>9. InsertAt(s, i, e) \in Seq(S) /\ Len(InsertAt(s, i, e)) = n + 1
  BY <1>1, <1>3, <1>6, <1>7, <1>8
<1>. QED
  BY <1>9 DEF n

\* The options of a feature.
LEMMA OptionsOfSelector ==
  ASSUME NEW E, IsFiniteSet(E), NEW K, NEW d \in DevicesOf(E, K)
  PROVE  LET options == Options(Feature(d, "ComponentSelector"))
         IN  /\ options \in Seq({<<e>> : e \in E}) /\ options # <<>>
             /\ \E i \in 1..Len(options) : options[i] = Feature(d, "ComponentSelector").value
<1>. DEFINE f == Feature(d, "ComponentSelector")
            S == {<<e>> : e \in E}
            g == [e \in E |-> <<e>>]
<1>1. f = [kind |-> "enumeration", access |-> "RW", entries |-> d.entries,
           value |-> <<d.selector>>]
  BY FeatureFacts, Zenon
<1>2. d.entries = E /\ d.selector \in E
  BY FieldsOfDevice DEF DeviceFields
<1>. HIDE DEF f
<1>3. f.kind = "enumeration" /\ Readable(f) /\ f.value = <<d.selector>> /\ f.entries = E
  BY <1>1, <1>2 DEF Readable
<1>4. Options(f) = SetToSeq({<<e>> : e \in f.entries})
  BY <1>3 DEF Options
<1>5. IsFiniteSet(S)
  <2>1. g \in [E -> S] /\ \A x \in S : \E e \in E : g[e] = x
    OBVIOUS
  <2>. HIDE DEF g, S
  <2>2. g \in Surjection(E, S)
    BY <2>1 DEF Surjection
  <2>. QED
    BY <2>2, FS_Surjection
<1>6. f.value \in S
  BY <1>2, <1>3
<1>7. Options(f) = SetToSeq(S)
  BY <1>3, <1>4
<1>. HIDE DEF S
<1>8. /\ Options(f) \in Seq(S) /\ Options(f) # <<>>
      /\ \E i \in 1..Len(Options(f)) : Options(f)[i] = f.value
  BY <1>5, <1>6, <1>7, SetToSeqFacts
<1>. QED
  BY <1>8 DEF f, S

\* The options of a switch.
LEMMA OptionsOfEnable ==
  ASSUME NEW E, NEW K, NEW d \in DevicesOf(E, K)
  PROVE  LET options == Options(Feature(d, "ComponentEnable"))
         IN  /\ options \in Seq({<<0>>, <<1>>}) /\ options # <<>>
             /\ \E i \in 1..Len(options) : options[i] = Feature(d, "ComponentEnable").value
<1>. DEFINE f == Feature(d, "ComponentEnable")
            o == <<<<0>>, <<1>>>>
            S == {<<0>>, <<1>>}
<1>1. f = [kind |-> "boolean", access |-> "RW", value |-> d.enabled[d.selector]]
  BY FeatureFacts, Zenon
<1>2. d.enabled[d.selector] \in S
  BY FieldsOfDevice DEF DeviceFields
<1>. HIDE DEF f
<1>3. f.kind = "boolean" /\ Readable(f) /\ f.value \in S
  BY <1>1, <1>2 DEF Readable
<1>4. Options(f) = o
  BY <1>3 DEF Options
<1>5. o \in Seq(S) /\ o # <<>> /\ Len(o) = 2 /\ o[1] = <<0>> /\ o[2] = <<1>>
  <2>. DEFINE x == <<0>>
              y == <<1>>
  <2>. HIDE DEF x, y
  <2>1. <<x, y>> \in Seq({x, y}) /\ <<x, y>> # <<>> /\ Len(<<x, y>>) = 2
        /\ <<x, y>>[1] = x /\ <<x, y>>[2] = y
    OBVIOUS
  <2>. QED
    BY <2>1, Zenon DEF x, y
<1>6. \E i \in 1..2 : o[i] = f.value
  <2>1. f.value = <<0>> \/ f.value = <<1>>
    BY <1>3
  <2>. HIDE DEF o
  <2>. QED
    BY <1>5, <2>1
<1>. HIDE DEF o
<1>7. \E i \in 1..Len(Options(f)) : Options(f)[i] = f.value
  BY <1>4, <1>5, <1>6
<1>. QED
  BY <1>4, <1>5, <1>7, Zenon DEF f

\* A feature that is edited as text has no options.
LEMMA NoOptions ==
  ASSUME NEW E, NEW K \in Kinds, NEW d \in DevicesOf(E, K)
  PROVE  Options(Feature(d, "Feature")) = <<>>
<1>. DEFINE f == Feature(d, "Feature")
<1>0. d.kind = K
  BY FieldsOfDevice DEF DeviceFields
<1>1. f = [kind |-> d.kind, access |-> d.access, value |-> d.value]
  BY FeatureFacts, Zenon
<1>. HIDE DEF f
<1>2. f.kind # "boolean" /\ f.kind # "enumeration"
  BY <1>0, <1>1 DEF Kinds
<1>3. Options(f) = <<>>
  BY <1>2 DEF Options
<1>. QED
  BY <1>3 DEF f

\* The features with options, and the options of all of them.
WithOptions == {"ComponentSelector", "ComponentEnable"}
AllOptions(E) == {<<e>> : e \in E} \cup {<<0>>, <<1>>}

\* What is recorded when an option is taken.
LEMMA TakenOption ==
  ASSUME NEW E, IsFiniteSet(E), NEW K, NEW d \in DevicesOf(E, K),
         NEW name \in WithOptions, NEW i \in 1..Len(Options(Feature(d, name))), NEW value,
         value = Options(Feature(d, name))[i] \/ value = Feature(d, name).value
  PROVE  LET c == Store(d, name, value)
             s == Shown(Feature(c, name))
         IN  /\ c \in DevicesOf(E, K) /\ c.access = d.access /\ c.value = d.value
             /\ s \in AllOptions(E)
             /\ Replays(d, [name |-> name, text |-> s], c)
<1>. DEFINE c == Store(d, name, value)
            f == Feature(c, name)
<1>1. DeviceFields(E, K, d)
  BY FieldsOfDevice
<1>2. CASE name = "ComponentSelector"
  <2>1. PICK e \in E : value = <<e>>
    <3>1. Options(Feature(d, name))[i] \in {<<e>> : e \in E}
      BY <1>2, OptionsOfSelector, ElementOfSeq
    <3>2. Feature(d, name).value = <<d.selector>>
      BY <1>2 DEF Feature
    <3>. QED
      BY <1>1, <3>1, <3>2 DEF DeviceFields
  <2>2. c \in DevicesOf(E, K) /\ c.access = d.access /\ c.value = d.value
    BY <1>2, <2>1, StoreSelector
  <2>3. c.selector = e
    <3>1. value[1] = e
      BY <2>1
    <3>. QED
      BY <1>1, <1>2, <3>1 DEF Store, DeviceFields
  <2>4. Replays(d, [name |-> name, text |-> value], c)
    BY <1>2, <2>1, ReplaysSelector
  <2>. HIDE DEF c
  <2>5. f = [kind |-> "enumeration", access |-> "RW", entries |-> c.entries,
             value |-> <<c.selector>>]
    BY <1>2, FeatureFacts, Zenon
  <2>. HIDE DEF f
  <2>6. f.kind = "enumeration" /\ Readable(f) /\ f.value = value
    BY <2>1, <2>3, <2>5 DEF Readable
  <2>7. Shown(f) = value
    BY <2>6 DEF Shown, Text
  <2>. QED
    BY <2>1, <2>2, <2>4, <2>7 DEF f, c, AllOptions
<1>3. CASE name = "ComponentEnable"
  <2>1. value \in {<<0>>, <<1>>}
    <3>1. Options(Feature(d, name))[i] \in {<<0>>, <<1>>}
      BY <1>3, OptionsOfEnable, ElementOfSeq
    <3>2. Feature(d, name).value = d.enabled[d.selector]
      BY <1>3 DEF Feature
    <3>. QED
      BY <1>1, <3>1, <3>2 DEF DeviceFields
  <2>2. c \in DevicesOf(E, K) /\ c.access = d.access /\ c.value = d.value
    BY <1>3, <2>1, StoreEnable
  <2>3. c.enabled[c.selector] = value
    BY <1>1, <1>3 DEF Store, DeviceFields
  <2>4. Replays(d, [name |-> name, text |-> value], c)
    BY <1>3, <2>1, ReplaysEnable
  <2>. HIDE DEF c
  <2>5. f = [kind |-> "boolean", access |-> "RW", value |-> c.enabled[c.selector]]
    BY <1>3, FeatureFacts, Zenon
  <2>. HIDE DEF f
  <2>6. f.kind = "boolean" /\ Readable(f) /\ f.value = value
    BY <2>3, <2>5 DEF Readable
  <2>7. Shown(f) = value
    BY <2>6 DEF Shown, Text
  <2>. QED
    BY <2>1, <2>2, <2>4, <2>7 DEF f, c, AllOptions
<1>. QED
  BY <1>2, <1>3 DEF WithOptions

\* What is recorded when a text is taken.
LEMMA TakenText ==
  ASSUME NEW E, NEW K \in Kinds, NEW d \in DevicesOf(E, K), NEW s \in Texts(K),
         NEW given, given = Parse(Feature(d, "Feature"), s, FALSE),
         NEW value \in given \cup Instead(Feature(d, "Feature"), given)
                            \cup {Feature(d, "Feature").value}
  PROVE  LET c == Store(d, "Feature", value)
         IN  /\ value \in Values(K)
             /\ K = "float" /\ d.value[2] = 0 => value[2] = 0
             /\ c \in DevicesOf(E, K) /\ c.access = d.access /\ c.value = value
             /\ Shown(Feature(c, "Feature")) \in Texts(K)
<1>. DEFINE f == Feature(d, "Feature")
            c == Store(d, "Feature", value)
            g == Feature(c, "Feature")
<1>1. DeviceFields(E, K, d)
  BY FieldsOfDevice
<1>2. f = [kind |-> d.kind, access |-> d.access, value |-> d.value]
  BY FeatureFacts, Zenon
<1>. HIDE DEF f
<1>3. f.kind = K /\ f.value = d.value /\ d.value \in Values(K)
  BY <1>1, <1>2 DEF DeviceFields
<1>4. \/ value \in Parse(f, s, FALSE) \/ value = d.value
      \/ K \in {"integer", "hex"} /\ value \in Representable
  BY <1>3 DEF f, Instead
<1>5. value \in Values(K)
  <2>1. FALSE \in BOOLEAN /\ f.kind \in Kinds /\ f.value \in Values(f.kind) /\ s \in Texts(f.kind)
    BY <1>3
  <2>2. Parse(f, s, FALSE) \subseteq Values(f.kind)
    BY <2>1, ParseIsTyped, Zenon
  <2>3. K \in {"integer", "hex"} => Values(K) = Representable
    BY DEF Values
  <2>. QED
    BY <1>3, <1>4, <2>2, <2>3, Zenon
<1>6. ASSUME K = "float", d.value[2] = 0 PROVE value[2] = 0
  <2>1. ASSUME value \in Parse(f, s, FALSE) PROVE value[2] = 0
    <3>1. Parse(f, s, FALSE) = IF s = <<>> THEN {} ELSE {<<s[1], 0>>}
      BY <1>3, <1>6 DEF Parse
    <3>2. value = <<s[1], 0>>
      BY <2>1, <3>1
    <3>. QED
      BY <3>2
  <2>2. K \notin {"integer", "hex"}
    BY <1>6
  <2>. QED
    BY <1>4, <1>6, <2>1, <2>2, Zenon
<1>7. c \in DevicesOf(E, K) /\ c.access = d.access /\ c.value = value
  BY <1>5, StoreValue
<1>8. c.kind = K
  BY <1>7 DEF DevicesOf
<1>. HIDE DEF c
<1>9. g = [kind |-> c.kind, access |-> c.access, value |-> c.value]
  BY FeatureFacts, Zenon
<1>. HIDE DEF g
<1>10. Shown(g) \in Texts(K)
  <2>1. g.kind = K /\ g.value = value
    BY <1>7, <1>8, <1>9
  <2>2. Text(g, Visible) \in Texts(K)
    BY <1>5, <2>1, TextIsTyped
  <2>3. <<>> \in Texts(K)
    BY DEF Texts
  <2>. QED
    BY <2>2, <2>3, Zenon DEF Shown
<1>. QED
  BY <1>5, <1>6, <1>7, <1>10 DEF g, c

-----------------------------------------------------------------------------
(* The invariant. *)

\* The states that the device can be in.
Device == DevicesOf(start.entries, start.kind)

\* What is recorded.
Entry ==
  [name : {"ComponentSelector", "ComponentEnable", "Command", "Feature"},
   text : Texts(start.kind) \cup AllOptions(start.entries)]

\* What the second call reads: changes, and words behind a blank.
Argued == Entry \cup {Word}

\* The phases in which the tool waits for a key.
Keys == {"navigate", "execute", "option", "string"}

TypeInv ==
  /\ start \in Devices
  /\ phase \in Keys \cup {"prepare", "replay", "done", "failed", "ended"}
  /\ text \in Texts(start.kind) /\ cpos \in 0..Len(text)
  /\ changed \in Seq(Entry) /\ todo \in Seq(Argued)
  /\ DOMAIN dev = DOMAIN start /\ dev.kind = start.kind /\ dev.entries = start.entries
  /\ phase \in Keys \cup {"prepare"} => dev \in Device

\* Each loop edits features of its own, which can be written.
LoopInv ==
  /\ phase = "execute" => Name = "Command"
  /\ phase = "option" => /\ Name \in WithOptions
                         /\ current \in 1..Len(Options(Focused))
  /\ phase = "string" => Name = "Feature" /\ dev.access \in {"RW", "WO"}

\* The changes lead from the device of the first call to the edited one, as long
\* as they can be told.
Tells ==
  /\ phase # "failed"
  /\ phase = "prepare" => dev = start /\ changed = <<>>
  /\ phase \in Keys => /\ Leads(Device, start, changed, dev)
                       /\ start.kind = "float" => dev.value[2] = 0
  /\ phase = "replay" => /\ Leads(Device, dev, todo, edited)
                         /\ todo \in Seq(Entry)
                         /\ \A i \in 1..Len(todo) : Blanks(todo[i].text) = {}
  /\ phase = "done" => dev = edited

TellInv == Told /\ Combined \notin start.entries => Tells

SessionInv == TypeInv /\ LoopInv /\ TellInv

\* The device at the first call.
LEMMA StartIsTyped ==
  ASSUME start \in Devices
  PROVE  start \in Device /\ start.kind \in Kinds /\ IsFiniteSet(start.entries)
  BY DevicesAssumption DEF Device, Kinds

\* The text is empty outside of its loop.
LEMMA EmptyIsText ==
  ASSUME NEW kind
  PROVE  <<>> \in Texts(kind) /\ Len(<<>>) = 0
  BY DEF Texts

\* All states of a device have the same parts.
LEMMA Shape ==
  ASSUME NEW E, NEW K, NEW d \in DevicesOf(E, K), NEW c \in DevicesOf(E, K)
  PROVE  DOMAIN d = DOMAIN c /\ d.kind = c.kind /\ d.entries = c.entries
  BY DEF DevicesOf

\* What can be told after a step could be told before.
LEMMA ToldBefore ==
  ASSUME changed \in Seq(Entry), start' = start, dev'.kind = dev.kind, Told',
         changed' = changed \/ \E e : changed' = Append(changed, e)
  PROVE  Told
<1>1. \A i \in 1..Len(changed) : i \in 1..Len(changed') /\ changed'[i] = changed[i]
  <2>1. CASE changed' = changed
    BY <2>1
  <2>2. CASE \E e : changed' = Append(changed, e)
    <3>1. PICK e : changed' = Append(changed, e)
      BY <2>2
    <3>2. Len(changed) \in Nat /\ Len(changed') = Len(changed) + 1
          /\ \A i \in 1..Len(changed) : changed'[i] = changed[i]
      BY <3>1
    <3>. QED
      BY <3>2
  <2>. QED
    BY <2>1, <2>2
<1>. QED
  BY <1>1 DEF Told, Convertible

-----------------------------------------------------------------------------
(* Steps of the editor. *)

\* A key that changes only the place, the loop or its text.
LEMMA KeyKeepsSession ==
  ASSUME SessionInv, phase \in Keys, phase' \in Keys,
         UNCHANGED <<dev, changed, start, edited, todo>>,
         text' \in Texts(start.kind), cpos' \in 0..Len(text'), LoopInv'
  PROVE  SessionInv'
<1>1. TypeInv'
  BY DEF SessionInv, TypeInv, Device, Argued, Entry, Keys
<1>2. TellInv'
  <2>1. SUFFICES ASSUME Told', Combined \notin start.entries PROVE Tells'
    BY DEF TellInv
  <2>2. Told
    BY <2>1, ToldBefore DEF SessionInv, TypeInv
  <2>3. Tells
    BY <2>1, <2>2 DEF SessionInv, TellInv
  <2>. QED
    BY <2>3 DEF Tells, Device, Keys
<1>. QED
  BY <1>1, <1>2 DEF SessionInv

\* A change.
LEMMA ChangeKeepsSession ==
  ASSUME SessionInv, phase \in Keys, UNCHANGED <<start, edited, todo>>, Leave,
         NEW e \in Entry, changed' = Append(changed, e), dev' \in Device,
         start.kind = "float" /\ dev.value[2] = 0 => dev'.value[2] = 0,
         Told' /\ (start.kind = "float" => dev.value[2] = 0) => Replays(dev, e, dev')
  PROVE  SessionInv'
<1>0. phase' = "navigate" /\ text' = <<>> /\ cpos' = 0
  BY DEF Leave
<1>1. dev \in Device /\ start \in Devices /\ changed \in Seq(Entry)
  BY DEF SessionInv, TypeInv
<1>2. dev'.kind = dev.kind /\ dev'.entries = dev.entries /\ DOMAIN dev' = DOMAIN dev
  BY <1>1, Shape DEF Device
<1>3. TypeInv'
  <2>1. <<>> \in Texts(start.kind) /\ 0 \in 0..Len(<<>>)
    BY EmptyIsText
  <2>2. changed' \in Seq(Entry)
    BY <1>1
  <2>3. Entry' = Entry /\ Argued' = Argued /\ Device' = Device
    BY DEF Argued, Entry, Device
  <2>. QED
    BY <1>0, <1>1, <1>2, <2>1, <2>2, <2>3 DEF SessionInv, TypeInv, Keys
<1>4. LoopInv'
  BY <1>0 DEF LoopInv
<1>5. TellInv'
  <2>1. SUFFICES ASSUME Told', Combined \notin start.entries PROVE Tells'
    BY DEF TellInv
  <2>2. Told
    BY <1>1, <1>2, <2>1, ToldBefore
  <2>3. Leads(Device, start, changed, dev) /\ (start.kind = "float" => dev.value[2] = 0)
    BY <2>1, <2>2 DEF SessionInv, TellInv, Tells
  <2>4. Leads(Device, start, Append(changed, e), dev')
    <3>. DEFINE D == Device
                R == Entry
                d1 == start
                d2 == dev
                d3 == dev'
                s == changed
    <3>1. s \in Seq(R) /\ e \in R /\ d3 \in D /\ Leads(D, d1, s, d2) /\ Replays(d2, e, d3)
      BY <1>1, <2>1, <2>3
    <3>. HIDE DEF D, R, d1, d2, d3, s
    <3>2. Leads(D, d1, Append(s, e), d3)
      BY <3>1, LeadsFurther
    <3>. QED
      BY <3>2 DEF D, d1, d3, s
  <2>5. Leads(Device, start, changed, dev)'
    BY <2>4 DEF Device
  <2>. QED
    BY <1>0, <2>3, <2>5 DEF Tells
<1>. QED
  BY <1>3, <1>4, <1>5 DEF SessionInv

\* Moving the focus.
LEMMA MovesKeepSession ==
  ASSUME SessionInv, UNCHANGED <<start, edited, todo>>,
         NEW t, NEW f, Move(t, f)
  PROVE  SessionInv'
<1>1. phase = "navigate" /\ phase' = "navigate"
      /\ UNCHANGED <<text, cpos, dev, changed>>
  BY DEF Move, edit
<1>2. LoopInv'
  BY <1>1 DEF LoopInv
<1>3. text' \in Texts(start.kind) /\ cpos' \in 0..Len(text')
  BY <1>1 DEF SessionInv, TypeInv
<1>. QED
  BY <1>1, <1>2, <1>3, KeyKeepsSession DEF Keys

\* Leaving a loop without a change.
LEMMA LeaveKeepsSession ==
  ASSUME SessionInv, UNCHANGED <<start, edited, todo>>,
         Editing, Leave, UNCHANGED <<dev, changed>>
  PROVE  SessionInv'
<1>1. phase \in Keys /\ phase' = "navigate" /\ text' = <<>> /\ cpos' = 0
  BY DEF Leave, Editing, Keys
<1>2. LoopInv'
  BY <1>1 DEF LoopInv
<1>3. text' \in Texts(start.kind) /\ cpos' \in 0..Len(text')
  BY <1>1, EmptyIsText
<1>. QED
  BY <1>1, <1>2, <1>3, KeyKeepsSession DEF Keys

\* Entering a loop, where the feature in focus is one of its own.
LEMMA EntersKeepSession ==
  ASSUME SessionInv, UNCHANGED <<start, edited, todo>>,
         EnterExecute \/ EnterOption \/ EnterString
  PROVE  SessionInv'
<1>1. /\ phase = "navigate" /\ phase' \in Keys
      /\ UNCHANGED <<dev, changed, focus>> /\ Writable(Focused)
  BY DEF EnterExecute, EnterOption, EnterString, Enter, place, Keys
<1>2. Name' = Name /\ Focused' = Focused
  BY <1>1 DEF Name, Focused
<1>. DEFINE E == start.entries
            K == start.kind
            d == dev
            n == Name
            f == Focused
<1>3. d \in DevicesOf(E, K) /\ K \in Kinds /\ IsFiniteSet(E) /\ f = Feature(d, n) /\ d.kind = K
  BY <1>1, StartIsTyped DEF SessionInv, TypeInv, Device, Keys, Focused
<1>. HIDE DEF E, K, d, n, f
<1>4. f.access \in {"RW", "WO"}
  BY <1>1 DEF Writable, f
<1>5. n \in {"ComponentSelector", "ComponentEnable", "Command", "Feature"}
  <2>1. ASSUME n \notin {"ComponentSelector", "ComponentEnable", "Command", "Feature"}
        PROVE  FALSE
    <3>1. f = [kind |-> "category", access |-> "RO", value |-> <<>>]
      BY <1>3, <2>1, FeatureFacts, Zenon
    <3>. QED
      BY <1>4, <3>1
  <2>. QED
    BY <2>1
<1>6. /\ n = "ComponentSelector" => f.kind = "enumeration"
      /\ n = "ComponentEnable"   => f.kind = "boolean"
      /\ n = "Command"           => f.kind = "command"
      /\ n = "Feature"           => f.kind = K /\ f.access = d.access
  BY <1>3 DEF Feature
<1>7. CASE EnterExecute
  <2>1. f.kind = "command" /\ phase' = "execute" /\ UNCHANGED <<text, cpos>>
    BY <1>7 DEF EnterExecute, Enter, f
  <2>2. n = "Command"
    BY <1>3, <1>5, <1>6, <2>1 DEF Kinds
  <2>3. LoopInv'
    BY <1>2, <2>1, <2>2 DEF LoopInv, n
  <2>4. text' \in Texts(start.kind) /\ cpos' \in 0..Len(text')
    BY <2>1 DEF SessionInv, TypeInv
  <2>. QED
    BY <1>1, <2>3, <2>4, KeyKeepsSession DEF Keys
<1>8. CASE EnterOption
  <2>1. /\ f.kind # "command" /\ Options(f) # <<>>
        /\ phase' = "option" /\ UNCHANGED <<text, cpos>>
        /\ current' = CHOOSE i \in 1..Len(Options(f)) : Options(f)[i] = f.value
    BY <1>8 DEF EnterOption, Enter, f
  <2>2. n \in WithOptions
    <3>1. n # "Command"
      BY <1>6, <2>1
    <3>2. n # "Feature"
      BY <1>3, <2>1, NoOptions
    <3>. QED
      BY <1>5, <3>1, <3>2 DEF WithOptions
  <2>3. \E i \in 1..Len(Options(f)) : Options(f)[i] = f.value
    <3>1. CASE n = "ComponentSelector"
      BY <1>3, <3>1, OptionsOfSelector
    <3>2. CASE n = "ComponentEnable"
      BY <1>3, <3>2, OptionsOfEnable
    <3>. QED
      BY <2>2, <3>1, <3>2 DEF WithOptions
  <2>4. current' \in 1..Len(Options(f))
    BY <2>1, <2>3
  <2>5. LoopInv'
    BY <1>2, <2>1, <2>2, <2>4 DEF LoopInv, n, f
  <2>6. text' \in Texts(start.kind) /\ cpos' \in 0..Len(text')
    BY <2>1 DEF SessionInv, TypeInv
  <2>. QED
    BY <1>1, <2>5, <2>6, KeyKeepsSession DEF Keys
<1>9. CASE EnterString
  <2>1. /\ f.kind # "command" /\ Options(f) = <<>>
        /\ phase' = "string" /\ text' = Shown(f) /\ cpos' = Len(text')
    BY <1>9 DEF EnterString, Enter, f
  <2>2. n = "Feature"
    <3>1. n # "Command"
      BY <1>6, <2>1
    <3>2. n # "ComponentSelector"
      BY <1>3, <2>1, OptionsOfSelector
    <3>3. n # "ComponentEnable"
      BY <1>3, <2>1, OptionsOfEnable
    <3>. QED
      BY <1>5, <3>1, <3>2, <3>3
  <2>3. LoopInv'
    BY <1>1, <1>2, <1>4, <1>6, <2>1, <2>2 DEF LoopInv, n, d
  <2>4. Shown(f) \in Texts(K)
    <3>1. f.kind = K /\ f.value \in Values(K)
      <4>1. f.value = d.value
        BY <1>3, <2>2 DEF Feature
      <4>. QED
        BY <1>3, <1>6, <2>2, <4>1 DEF DevicesOf
    <3>2. Text(f, Visible) \in Texts(K)
      BY <1>3, <3>1, TextIsTyped
    <3>. QED
      BY <3>2, EmptyIsText, Zenon DEF Shown
  <2>5. text' \in Texts(start.kind)
    BY <2>1, <2>4 DEF K
  <2>6. cpos' \in 0..Len(text')
    <3>1. Texts(start.kind) = Seq(Alphabet(start.kind))
      BY TextsAreSequences
    <3>2. Len(text') \in Nat
      BY <2>5, <3>1
    <3>. QED
      BY <2>1, <3>2
  <2>. QED
    BY <1>1, <2>3, <2>5, <2>6, KeyKeepsSession DEF Keys
<1>. QED
  BY <1>7, <1>8, <1>9

\* The screen changes.
LEMMA ResizeKeepsSession ==
  ASSUME SessionInv, UNCHANGED <<start, edited, todo>>, Resize
  PROVE  SessionInv'
<1>1. /\ phase \in Keys /\ phase' = phase
      /\ UNCHANGED <<focus, text, cpos, current, dev, changed>>
  BY DEF Resize, Editing, Keys
<1>2. Name' = Name /\ Focused' = Focused
  BY <1>1 DEF Name, Focused
<1>3. LoopInv'
  BY <1>1, <1>2 DEF SessionInv, LoopInv
<1>4. text' \in Texts(start.kind) /\ cpos' \in 0..Len(text')
  BY <1>1 DEF SessionInv, TypeInv
<1>. QED
  BY <1>1, <1>3, <1>4, KeyKeepsSession

\* Another option is shown.
LEMMA OptionsKeepSession ==
  ASSUME SessionInv, UNCHANGED <<start, edited, todo>>, OptionUp \/ OptionDown
  PROVE  SessionInv'
<1>1. /\ phase = "option" /\ phase' = "option"
      /\ UNCHANGED <<focus, text, cpos, dev, changed>>
      /\ \/ current > 1 /\ current' = current - 1
         \/ current < Len(Options(Focused)) /\ current' = current + 1
  BY DEF OptionUp, OptionDown, place
<1>2. Name' = Name /\ Focused' = Focused
  BY <1>1 DEF Name, Focused
<1>. DEFINE n == Len(Options(Focused))
<1>3. Name \in WithOptions /\ current \in 1..n
  BY <1>1 DEF SessionInv, LoopInv
<1>4. n \in Nat
  <2>. DEFINE E == start.entries
              K == start.kind
              d == dev
  <2>1. d \in DevicesOf(E, K) /\ IsFiniteSet(E)
    BY <1>1, StartIsTyped DEF SessionInv, TypeInv, Device, Keys
  <2>. HIDE DEF E, K, d
  <2>2. Options(Feature(d, "ComponentSelector")) \in Seq({<<e>> : e \in E})
    BY <2>1, OptionsOfSelector
  <2>3. Options(Feature(d, "ComponentEnable")) \in Seq({<<0>>, <<1>>})
    BY <2>1, OptionsOfEnable
  <2>4. \A name \in WithOptions :
           Len(Options(Feature(d, name))) \in Nat
    BY <2>2, <2>3, LenProperties DEF WithOptions
  <2>. QED
    BY <1>3, <2>4 DEF Focused, d
<1>5. current' \in 1..n
  <2>. HIDE DEF n
  <2>1. \/ current > 1 /\ current' = current - 1
        \/ current < n /\ current' = current + 1
    BY <1>1 DEF n
  <2>. QED
    BY <1>3, <1>4, <2>1
<1>6. LoopInv'
  BY <1>1, <1>2, <1>3, <1>5 DEF LoopInv
<1>7. text' \in Texts(start.kind) /\ cpos' \in 0..Len(text')
  BY <1>1 DEF SessionInv, TypeInv
<1>. QED
  BY <1>1, <1>6, <1>7, KeyKeepsSession DEF Keys

\* Typing.
LEMMA TypeKeepsSession ==
  ASSUME SessionInv, UNCHANGED <<start, edited, todo>>,
         NEW t \in Texts(start.kind), NEW c \in 0..Len(t), Type(t, c)
  PROVE  SessionInv'
<1>1. /\ phase = "string" /\ phase' = "string" /\ text' = t /\ cpos' = c
      /\ UNCHANGED <<focus, dev, changed>>
  BY DEF Type, place
<1>2. Name' = Name
  BY <1>1 DEF Name
<1>3. LoopInv'
  BY <1>1, <1>2 DEF SessionInv, LoopInv
<1>. QED
  BY <1>1, <1>3, KeyKeepsSession DEF Keys

\* All keys that change the text or move its cursor.
LEMMA TypingKeepsSession ==
  ASSUME SessionInv, UNCHANGED <<start, edited, todo>>,
         Left \/ Right \/ Backspace \/ Delete \/ Insert
  PROVE  SessionInv'
<1>. DEFINE K == start.kind
            S == Alphabet(K)
            s == text
            p == cpos
<1>1. Texts(K) = Seq(S) /\ s \in Seq(S) /\ p \in 0..Len(s)
  BY TextsAreSequences DEF SessionInv, TypeInv
<1>2. dev.kind = K
  BY DEF SessionInv, TypeInv
<1>. HIDE DEF K, S, s, p
<1>3. Len(s) \in Nat /\ p \in Nat /\ p <= Len(s)
  BY <1>1
<1>4. \A t \in Seq(S) : \A c \in 0..Len(t) : Type(t, c) => SessionInv'
  BY <1>1, TypeKeepsSession DEF K
<1>5. CASE Left
  <2>1. p > 0 /\ Type(s, p - 1)
    BY <1>5 DEF Left, s, p
  <2>2. p - 1 \in 0..Len(s)
    BY <1>3, <2>1
  <2>. QED
    BY <1>1, <1>4, <2>1, <2>2
<1>6. CASE Right
  <2>1. p < Len(s) /\ Type(s, p + 1)
    BY <1>6 DEF Right, s, p
  <2>2. p + 1 \in 0..Len(s)
    BY <1>3, <2>1
  <2>. QED
    BY <1>1, <1>4, <2>1, <2>2
<1>7. CASE Backspace
  <2>1. p > 0 /\ Type(RemoveAt(s, p), p - 1)
    BY <1>7 DEF Backspace, s, p
  <2>2. p \in 1..Len(s)
    BY <1>3, <2>1
  <2>3. RemoveAt(s, p) \in Seq(S) /\ Len(RemoveAt(s, p)) = Len(s) - 1
    BY <1>1, <2>2, RemoveAtShortens
  <2>4. p - 1 \in 0..Len(RemoveAt(s, p))
    BY <1>3, <2>1, <2>3
  <2>. QED
    BY <1>4, <2>1, <2>3, <2>4
<1>8. CASE Delete
  <2>1. p < Len(s) /\ Type(RemoveAt(s, p + 1), p)
    BY <1>8 DEF Delete, s, p
  <2>2. p + 1 \in 1..Len(s)
    BY <1>3, <2>1
  <2>3. RemoveAt(s, p + 1) \in Seq(S) /\ Len(RemoveAt(s, p + 1)) = Len(s) - 1
    BY <1>1, <2>2, RemoveAtShortens
  <2>4. p \in 0..Len(RemoveAt(s, p + 1))
    BY <1>3, <2>1, <2>3
  <2>. QED
    BY <1>4, <2>1, <2>3, <2>4
<1>9. CASE Insert
  <2>1. PICK c \in Allowed : Type(InsertAt(s, p + 1, c), p + 1)
    BY <1>9 DEF Insert, s, p
  <2>2. c \in S
    <3>1. CASE K = "string"
      BY <1>2, <2>1, <3>1, TextsAreSequences DEF Allowed, S
    <3>2. CASE K \in {"integer", "hex", "float"}
      <4>1. Allowed = -1..(Base - 1)
        BY <1>2, <3>2 DEF Allowed
      <4>. QED
        BY <2>1, <3>2, <4>1, TextsAreSequences DEF S
    <3>3. CASE K \notin {"string", "integer", "hex", "float"}
      <4>1. Allowed = 0..(Base - 1)
        BY <1>2, <3>3 DEF Allowed
      <4>. QED
        BY <2>1, <3>3, <4>1, TextsAreSequences DEF S
    <3>. QED
      BY <3>1, <3>2, <3>3
  <2>3. p + 1 \in 1..(Len(s) + 1)
    BY <1>3
  <2>4. InsertAt(s, p + 1, c) \in Seq(S) /\ Len(InsertAt(s, p + 1, c)) = Len(s) + 1
    BY <1>1, <2>2, <2>3, InsertAtLengthens
  <2>5. p + 1 \in 0..Len(InsertAt(s, p + 1, c))
    BY <1>3, <2>4
  <2>. QED
    BY <1>4, <2>1, <2>4, <2>5
<1>. QED
  BY <1>5, <1>6, <1>7, <1>8, <1>9

\* The command is executed.
LEMMA ExecuteKeepsSession ==
  ASSUME SessionInv, UNCHANGED <<start, edited, todo>>, Execute
  PROVE  SessionInv'
<1>. DEFINE E == start.entries
            K == start.kind
            d == dev
            f == Focused
            o == CallCommand(f, FALSE, FALSE)
            e == [name |-> "Command", text |-> <<>>]
<1>1. phase = "execute" /\ phase \in Keys /\ Name = "Command" /\ Leave
  BY DEF Execute, SessionInv, LoopInv, Keys
<1>2. d \in DevicesOf(E, K) /\ f = Feature(d, "Command")
  BY <1>1 DEF SessionInv, TypeInv, Device, Focused
<1>3. dev' = Store(d, "Command", o.value) /\ changed' = Append(changed, e)
  <2>1. dev' = Store(d, Name, o.value) /\ Record(<<>>)
    BY Zenon DEF Execute
  <2>. QED
    BY <1>1, <2>1, Zenon DEF Record
<1>. HIDE DEF E, K, d, f
<1>4. f = [kind |-> "command", access |-> "WO", value |-> d.runs]
  BY <1>2, FeatureFacts, Zenon
<1>5. o.value = d.runs + 1
  <2>1. f.kind = "command" /\ f.access \in {"RW", "WO"} /\ f.value = d.runs
    BY <1>4
  <2>2. o = Done(d.runs + 1, "true")
    BY <2>1 DEF CallCommand, Assign, Writable
  <2>. HIDE DEF o
  <2>. QED
    BY <2>2 DEF Done
<1>. HIDE DEF o
<1>6. dev' = Store(d, "Command", d.runs + 1)
  BY <1>3, <1>5
<1>7. d.runs + 1 \in Nat
  BY <1>2, FieldsOfDevice DEF DeviceFields
<1>8. dev' \in DevicesOf(E, K) /\ dev'.value = d.value
  BY <1>2, <1>6, <1>7, StoreRuns
<1>9. Replays(d, e, dev')
  BY <1>2, <1>6, ReplaysCommand
<1>10. e \in Entry
  BY EmptyIsText DEF Entry
<1>. HIDE DEF e
<1>. QED
  BY <1>1, <1>3, <1>8, <1>9, <1>10, ChangeKeepsSession DEF Device, E, K, d

\* An option is taken, whether the device accepts it or not.
LEMMA TakeOptionKeepsSession ==
  ASSUME SessionInv, UNCHANGED <<start, edited, todo>>, TakeOption
  PROVE  SessionInv'
<1>. DEFINE E == start.entries
            K == start.kind
            d == dev
            n == Name
<1>1. /\ phase = "option" /\ phase \in Keys /\ Leave
      /\ n \in WithOptions
      /\ current \in 1..Len(Options(Feature(d, n)))
  BY DEF TakeOption, SessionInv, LoopInv, Keys, Focused
<1>2. d \in DevicesOf(E, K) /\ IsFiniteSet(E)
  BY <1>1, StartIsTyped DEF SessionInv, TypeInv, Device
<1>3. PICK value \in {Options(Feature(d, n))[current], Feature(d, n).value} :
        SetValue(value)
  BY DEF TakeOption, Focused
<1>. DEFINE c == Store(d, n, value)
            s == Shown(Feature(c, n))
            e == [name |-> n, text |-> s]
<1>4. dev' = c /\ changed' = Append(changed, e)
  BY <1>3, Zenon DEF SetValue, Record
<1>5. /\ c \in DevicesOf(E, K) /\ c.value = d.value
      /\ s \in AllOptions(E)
      /\ Replays(d, e, c)
  <2>. DEFINE i == current
  <2>1. /\ i \in 1..Len(Options(Feature(d, n)))
        /\ value = Options(Feature(d, n))[i] \/ value = Feature(d, n).value
    BY <1>1, <1>3
  <2>. HIDE DEF E, K, d, n, i
  <2>2. /\ c \in DevicesOf(E, K) /\ c.access = d.access /\ c.value = d.value
        /\ s \in AllOptions(E)
        /\ Replays(d, [name |-> n, text |-> s], c)
    <3>1. IsFiniteSet(E) /\ d \in DevicesOf(E, K) /\ n \in WithOptions
      BY <1>1, <1>2
    <3>. QED
      BY <2>1, <3>1, TakenOption, Zenon
  <2>. QED
    BY <2>2, Zenon
<1>. HIDE DEF c, s
<1>6. e \in Entry
  BY <1>1, <1>5 DEF Entry, WithOptions
<1>. HIDE DEF n, e
<1>. QED
  BY <1>1, <1>4, <1>5, <1>6, ChangeKeepsSession DEF Device

\* A text is taken, whether it can be converted or not.
LEMMA TakeStringKeepsSession ==
  ASSUME SessionInv, UNCHANGED <<start, edited, todo>>, TakeString
  PROVE  SessionInv'
<1>. DEFINE E == start.entries
            K == start.kind
            d == dev
<1>1. /\ phase = "string" /\ phase \in Keys /\ Leave
      /\ Name = "Feature" /\ d.access \in {"RW", "WO"}
  BY DEF TakeString, SessionInv, LoopInv, Keys
<1>2. d \in DevicesOf(E, K) /\ K \in Kinds /\ text \in Texts(K) /\ changed \in Seq(Entry)
      /\ d.kind = K
  BY <1>1, StartIsTyped DEF SessionInv, TypeInv, Device
<1>. DEFINE g == Parse(Feature(d, "Feature"), text, FALSE)
<1>3. PICK value \in g \cup Instead(Feature(d, "Feature"), g) \cup {Feature(d, "Feature").value} :
        SetValue(value)
  BY <1>1, Zenon DEF TakeString, Focused
<1>. DEFINE c == Store(d, "Feature", value)
            s == Shown(Feature(c, "Feature"))
            e == [name |-> "Feature", text |-> s]
<1>4. dev' = c /\ changed' = Append(changed, e)
  BY <1>1, <1>3, Zenon DEF SetValue, Record
<1>5. /\ value \in Values(K)
      /\ K = "float" /\ d.value[2] = 0 => value[2] = 0
      /\ c \in DevicesOf(E, K) /\ c.value = value
      /\ s \in Texts(K)
  <2>. DEFINE t == text
  <2>1. /\ t \in Texts(K) /\ g = Parse(Feature(d, "Feature"), t, FALSE)
        /\ value \in g \cup Instead(Feature(d, "Feature"), g) \cup {Feature(d, "Feature").value}
    BY <1>2, <1>3
  <2>. HIDE DEF E, K, d, t, g
  <2>2. /\ value \in Values(K)
        /\ K = "float" /\ d.value[2] = 0 => value[2] = 0
        /\ c \in DevicesOf(E, K) /\ c.access = d.access /\ c.value = value
        /\ s \in Texts(K)
    <3>1. K \in Kinds /\ d \in DevicesOf(E, K)
      BY <1>2
    <3>. QED
      BY <2>1, <3>1, TakenText, Zenon
  <2>. QED
    BY <2>2, Zenon
<1>6. e \in Entry
  BY <1>5 DEF Entry
<1>7. ASSUME Told', K = "float" => d.value[2] = 0 PROVE Replays(d, e, c)
  <2>. HIDE DEF c, s
  <2>0. Len(changed) \in Nat /\ Len(changed') = Len(changed) + 1 /\ changed'[Len(changed) + 1] = e
    BY <1>2, <1>4
  <2>. DEFINE i == Len(changed) + 1
  <2>1. i \in 1..Len(changed') /\ changed'[i].name = "Feature" /\ changed'[i].text = s
    BY <2>0
  <2>. HIDE DEF i
  <2>2. c.kind = K
    BY <1>2, <1>5, Shape
  <2>3. K # "mac" /\ (K = "register" => Visible >= Length)
        /\ s # <<>> /\ (K = "hex" => ParseNumber(s) # {})
    BY <1>4, <1>7, <2>1, <2>2 DEF Told, Convertible
  <2>4. K = "float" => value[2] = 0
    BY <1>5, <1>7
  <2>5. s = Shown(Feature(Store(d, "Feature", value), "Feature"))
    BY Zenon DEF s, c
  <2>. HIDE DEF E, K, d
  <2>6. Replays(d, [name |-> "Feature", text |-> s], Store(d, "Feature", value))
    BY <1>1, <1>2, <1>5, <2>3, <2>4, <2>5, ReplaysFeature
  <2>. QED
    BY <2>6 DEF c
<1>. HIDE DEF c, s, e
<1>. QED
  BY <1>1, <1>4, <1>5, <1>6, <1>7, ChangeKeepsSession DEF Device

\* All keys.
LEMMA EditKeepsSession == SessionInv /\ EditStep => SessionInv'
<1> SUFFICES ASSUME SessionInv, EditStep PROVE SessionInv'
  OBVIOUS
<1>1. Edit /\ UNCHANGED <<start, edited, todo>>
  BY DEF EditStep
<1>2. CASE PageUp
  BY <1>1, <1>2, MovesKeepSession DEF PageUp
<1>3. CASE PageDown
  BY <1>1, <1>3, MovesKeepSession DEF PageDown
<1>4. CASE Up \/ Down
  BY <1>1, <1>4, MovesKeepSession DEF Up, Down
<1>5. CASE EnterExecute \/ EnterOption \/ EnterString
  BY <1>1, <1>5, EntersKeepSession
<1>6. CASE Resize
  BY <1>1, <1>6, ResizeKeepsSession
<1>7. CASE Cancel
  BY <1>1, <1>7, LeaveKeepsSession DEF Cancel
<1>8. CASE ExecuteFails
  BY <1>1, <1>8, LeaveKeepsSession DEF ExecuteFails, Editing
<1>9. CASE Execute
  BY <1>1, <1>9, ExecuteKeepsSession
<1>10. CASE OptionUp \/ OptionDown
  BY <1>1, <1>10, OptionsKeepSession
<1>11. CASE TakeOption
  BY <1>1, <1>11, TakeOptionKeepsSession
<1>12. CASE Left \/ Right \/ Backspace \/ Delete \/ Insert
  BY <1>1, <1>12, TypingKeepsSession
<1>13. CASE TakeString
  BY <1>1, <1>13, TakeStringKeepsSession
<1>. QED
  BY <1>1, <1>2, <1>3, <1>4, <1>5, <1>6, <1>7, <1>8, <1>9, <1>10, <1>11, <1>12, <1>13
     DEF Edit

-----------------------------------------------------------------------------
(* The two calls. *)

\* What a device is made of does not change, whatever is stored.
LEMMA StoreKeepsShape ==
  ASSUME NEW d, NEW e, DOMAIN d = DOMAIN e, d.kind = e.kind, d.entries = e.entries,
         {"kind", "entries"} \subseteq DOMAIN e,
         NEW name \in {"ComponentSelector", "ComponentEnable", "Command", "Feature"},
         NEW value
  PROVE  LET c == Store(d, name, value)
         IN  DOMAIN c = DOMAIN e /\ c.kind = e.kind /\ c.entries = e.entries
  BY DEF Store

\* The parts that never change.
LEMMA DomainOfDevice ==
  ASSUME NEW E, NEW K, NEW d \in DevicesOf(E, K)
  PROVE  {"kind", "entries"} \subseteq DOMAIN d
  BY DEF DevicesOf

\* Preparing the components does not change what the device is made of.
LEMMA PreparedKeepsShape ==
  ASSUME NEW d, NEW e, DOMAIN d = DOMAIN e, d.kind = e.kind, d.entries = e.entries,
         {"kind", "entries"} \subseteq DOMAIN e
  PROVE  LET c == Prepared(d)
         IN  DOMAIN c = DOMAIN e /\ c.kind = e.kind /\ c.entries = e.entries
<1>. DEFINE Same(x) == DOMAIN x = DOMAIN e /\ x.kind = e.kind /\ x.entries = e.entries
            Selected(x, component) ==
              Store(x, "ComponentSelector",
                    SetEnum(Feature(x, "ComponentSelector"), <<component>>, FALSE).value)
            c == Select(d, Combined)
            i == Select(c.value, "Intensity")
            off == SetBoolean(Feature(i.value, "ComponentEnable"), <<0>>, TRUE).value
            s == Store(i.value, "ComponentEnable", off)
<1>1. ASSUME NEW x, NEW name \in {"ComponentSelector", "ComponentEnable"}, NEW v, Same(x)
      PROVE  Same(Store(x, name, v))
  BY <1>1, StoreKeepsShape
<1>2. ASSUME NEW x, NEW component
      PROVE  \E v : Select(x, component).value = Store(x, "ComponentSelector", v)
  <2>. DEFINE o == SetEnum(Feature(x, "ComponentSelector"), <<component>>, FALSE)
  <2>1. Select(x, component) = Done(Store(x, "ComponentSelector", o.value), o.result)
    BY DEF Select
  <2>. HIDE DEF o
  <2>2. Select(x, component).value = Store(x, "ComponentSelector", o.value)
    BY <2>1 DEF Done
  <2>. QED
    BY <2>2
<1>3. Prepared(d) = c.value \/ Prepared(d) = i.value \/ Prepared(d) = s
  BY DEF Prepared
<1>4. Same(d)
  OBVIOUS
<1>. HIDE DEF Same, off
<1>5. Same(c.value)
  BY <1>1, <1>2, <1>4
<1>. HIDE DEF c
<1>6. Same(i.value)
  BY <1>1, <1>2, <1>5
<1>. HIDE DEF i
<1>7. Same(s)
  BY <1>1, <1>6
<1>. HIDE DEF s
<1>8. Same(Prepared(d))
  BY <1>3, <1>5, <1>6, <1>7
<1>. QED
  BY <1>8 DEF Same

\* The first call prepares the components.
LEMMA FirstCallKeepsSession == SessionInv /\ FirstCall => SessionInv'
<1> SUFFICES ASSUME SessionInv, FirstCall PROVE SessionInv'
  OBVIOUS
<1>1. /\ phase = "prepare" /\ phase' = "navigate" /\ dev' = Prepared(dev)
      /\ UNCHANGED <<text, cpos, changed, start, edited, todo>>
  BY DEF FirstCall, Prepare, edit
<1>. DEFINE E == start.entries
            K == start.kind
            d == dev
<1>2. d \in DevicesOf(E, K) /\ start \in Device
  BY <1>1, StartIsTyped DEF SessionInv, TypeInv, Device
<1>3. dev' \in DevicesOf(E, K)
  <2>. HIDE DEF E, K, d
  <2>1. Prepared(d) \in DevicesOf(E, K)
    BY <1>2, PreparedIsTyped
  <2>. QED
    BY <1>1, <2>1 DEF d
<1>4. DOMAIN dev' = DOMAIN dev /\ dev'.kind = dev.kind /\ dev'.entries = dev.entries
  BY <1>2, <1>3, Shape
<1>5. TypeInv'
  BY <1>1, <1>3, <1>4 DEF SessionInv, TypeInv, Device, Argued, Entry, Keys
<1>6. LoopInv'
  BY <1>1 DEF LoopInv
<1>7. TellInv'
  <2>1. SUFFICES ASSUME Told', Combined \notin start.entries PROVE Tells'
    BY <1>1 DEF TellInv
  <2>2. Told
    BY <1>1, <1>4, <2>1, ToldBefore DEF SessionInv, TypeInv
  <2>3. dev = start /\ changed = <<>>
    BY <1>1, <2>1, <2>2 DEF SessionInv, TellInv, Tells
  <2>4. dev' = dev
    <3>. HIDE DEF E, K, d
    <3>1. Combined \notin E
      BY <2>1 DEF E
    <3>2. Prepared(d) = d
      BY <1>2, <3>1, PreparedKeeps
    <3>. QED
      BY <1>1, <3>2 DEF d
  <2>5. Leads(Device, start, changed, dev)'
    <3>1. Device' = Device
      BY <1>1 DEF Device
    <3>2. Leads(Device, start, <<>>, start)
      BY <1>2, LeadsNowhere
    <3>. QED
      BY <1>1, <2>3, <2>4, <3>1, <3>2
  <2>6. start.kind = "float" => start.value[2] = 0
    <3>1. dev.kind = start.kind
      BY <2>3
    <3>. QED
      BY <2>2, <3>1 DEF Told, Convertible
  <2>. QED
    BY <1>1, <2>3, <2>4, <2>5, <2>6 DEF Tells
<1>. QED
  BY <1>5, <1>6, <1>7 DEF SessionInv

\* The user quits, and calls the tool again.
LEMMA QuitKeepsSession == SessionInv /\ Quit => SessionInv'
<1> SUFFICES ASSUME SessionInv, Quit PROVE SessionInv'
  OBVIOUS
<1>1. /\ phase = "navigate" /\ phase' = "replay"
      /\ edited' = dev /\ dev' = start /\ todo' = changed
      /\ UNCHANGED <<text, cpos, changed, start>>
  BY DEF Quit, edit
<1>2. TypeInv'
  <2>1. changed \in Seq(Argued)
    <3>1. changed \in Seq(Entry)
      BY DEF SessionInv, TypeInv
    <3>. QED
      BY <3>1 DEF Argued
  <2>2. Entry' = Entry /\ Argued' = Argued
    BY <1>1 DEF Argued, Entry
  <2>. QED
    BY <1>1, <2>1, <2>2 DEF SessionInv, TypeInv, Device, Keys
<1>3. LoopInv'
  BY <1>1 DEF LoopInv
<1>4. TellInv'
  <2>1. SUFFICES ASSUME Told', Combined \notin start.entries PROVE Tells'
    BY <1>1 DEF TellInv
  <2>2. dev'.kind = dev.kind
    BY <1>1 DEF SessionInv, TypeInv
  <2>3. Told
    BY <1>1, <2>1, <2>2, ToldBefore DEF SessionInv, TypeInv
  <2>4. Leads(Device, start, changed, dev)
    BY <1>1, <2>1, <2>3 DEF SessionInv, TellInv, Tells, Keys
  <2>5. Leads(Device, dev, todo, edited)'
    <3>1. Device' = Device
      BY <1>1 DEF Device
    <3>. QED
      BY <1>1, <2>4, <3>1
  <2>6. todo' \in Seq(Entry') /\ \A i \in 1..Len(todo') : Blanks(todo'[i].text) = {}
    <3>1. Entry' = Entry /\ changed \in Seq(Entry)
      BY <1>1 DEF Entry, SessionInv, TypeInv
    <3>2. \A i \in 1..Len(changed') : Blanks(changed'[i].text) = {}
      BY <2>1 DEF Told
    <3>. QED
      BY <1>1, <3>1, <3>2
  <2>. QED
    BY <1>1, <2>5, <2>6 DEF Tells, Keys, Blanks
<1>. QED
  BY <1>2, <1>3, <1>4 DEF SessionInv

\* An exception ends the session.
LEMMA EditorThrowsKeepsSession == SessionInv /\ EditorThrows => SessionInv'
<1> SUFFICES ASSUME SessionInv, EditorThrows PROVE SessionInv'
  OBVIOUS
<1>1. phase' = "ended" /\ UNCHANGED <<text, cpos, dev, changed, start, edited, todo>>
  BY DEF EditorThrows, edit
<1>2. TypeInv'
  BY <1>1 DEF SessionInv, TypeInv, Device, Argued, Entry, Keys
<1>3. LoopInv'
  BY <1>1 DEF LoopInv
<1>4. TellInv'
  BY <1>1 DEF TellInv, Tells, Keys
<1>. QED
  BY <1>2, <1>3, <1>4 DEF SessionInv

\* An argument of the second call.
LEMMA ReplayKeepsSession == SessionInv /\ Replay => SessionInv'
<1> SUFFICES ASSUME SessionInv, Replay PROVE SessionInv'
  OBVIOUS
<1>. DEFINE h == Head(todo)
            e == FirstWord(h)
            o == Argument(dev, e)
            m == OtherWords(h)
            t == Tail(todo)
<1>1. /\ phase = "replay" /\ todo # <<>> /\ todo' = m \o t
      /\ UNCHANGED <<text, cpos, changed, start, edited>>
      /\ \/ o.result = "throws" /\ phase' = "failed" /\ dev' = dev
         \/ o.result # "throws" /\ phase' = "replay" /\ dev' = Store(dev, e.name, o.value)
  BY Zenon DEF Replay, edit
<1>2. h \in Argued /\ todo' \in Seq(Argued)
  <2>1. todo \in Seq(Argued)
    BY DEF SessionInv, TypeInv
  <2>2. h \in Argued /\ t \in Seq(Argued)
    BY <1>1, <2>1
  <2>3. m \in Seq(Argued)
    <3>1. m = <<>> \/ m = <<Word>>
      BY Zenon DEF OtherWords
    <3>2. Word \in Argued
      BY DEF Argued
    <3>. DEFINE w == Word
                A == Argued
    <3>. HIDE DEF m, w, A
    <3>3. <<>> \in Seq(A) /\ (w \in A => <<w>> \in Seq(A))
      OBVIOUS
    <3>. QED
      BY <3>1, <3>2, <3>3, Zenon DEF w, A
  <2>. HIDE DEF h, m, t
  <2>. QED
    BY <1>1, <2>2, <2>3
<1>3. \/ e.name \in {"ComponentSelector", "ComponentEnable", "Command", "Feature"}
      \/ o.result = "throws"
  <2>1. CASE h \in Entry
    <3>. HIDE DEF h
    <3>. QED
      BY <2>1 DEF Entry, FirstWord
  <2>2. CASE h = Word
    <3>1. h.text = <<>> /\ h.name = "word" /\ Len(<<>>) = 0
      BY <2>2 DEF Word
    <3>. HIDE DEF h
    <3>2. Blanks(h.text) = {}
      BY <3>1 DEF Blanks
    <3>3. e.name = "word" /\ e.text = <<>>
      BY <3>1, <3>2 DEF FirstWord
    <3>. HIDE DEF e
    <3>4. o = CallCommand(Feature(dev, "word"), TRUE, FALSE)
      <4>1. e.text # <<>> <=> FALSE
        BY <3>3
      <4>. QED
        BY <3>3, <4>1, Zenon DEF Argument
    <3>. HIDE DEF o
    <3>5. Feature(dev, "word").kind = "category"
      <4>1. "word" \notin {"ComponentSelector", "ComponentEnable", "Command", "Feature"}
        OBVIOUS
      <4>2. Feature(dev, "word") = [kind |-> "category", access |-> "RO", value |-> <<>>]
        BY <4>1, FeatureFacts, Zenon
      <4>. QED
        BY <4>2
    <3>. QED
      BY <3>4, <3>5 DEF CallCommand, Assign, Failed, Done
  <2>. QED
    BY <1>2, <2>1, <2>2 DEF Argued
<1>. HIDE DEF h, e, o, m, t
<1>4. DOMAIN dev' = DOMAIN start /\ dev'.kind = start.kind /\ dev'.entries = start.entries
  <2>1. DOMAIN dev = DOMAIN start /\ dev.kind = start.kind /\ dev.entries = start.entries
    BY DEF SessionInv, TypeInv
  <2>2. {"kind", "entries"} \subseteq DOMAIN start
    BY StartIsTyped, DomainOfDevice DEF SessionInv, TypeInv, Device
  <2>3. CASE dev' = dev
    BY <2>1, <2>3
  <2>4. CASE o.result # "throws" /\ dev' = Store(dev, e.name, o.value)
    BY <1>3, <2>1, <2>2, <2>4, StoreKeepsShape
  <2>. QED
    BY <1>1, <2>3, <2>4
<1>5. TypeInv'
  BY <1>1, <1>2, <1>4 DEF SessionInv, TypeInv, Device, Argued, Entry, Keys
<1>6. LoopInv'
  BY <1>1 DEF LoopInv
<1>7. TellInv'
  <2>1. SUFFICES ASSUME Told', Combined \notin start.entries PROVE Tells'
    BY <1>1 DEF TellInv
  <2>2. Told
    BY <1>1, <1>4, <2>1, ToldBefore DEF SessionInv, TypeInv
  <2>3. /\ Leads(Device, dev, todo, edited) /\ todo \in Seq(Entry)
        /\ \A i \in 1..Len(todo) : Blanks(todo[i].text) = {}
    BY <1>1, <2>1, <2>2 DEF SessionInv, TellInv, Tells
  <2>4. PICK middle \in Device : Replays(dev, h, middle) /\ Leads(Device, middle, t, edited)
    <3>. DEFINE D == Device
                R == Entry
                d1 == dev
                d2 == edited
                s == todo
    <3>1. s \in Seq(R) /\ s # <<>> /\ Leads(D, d1, s, d2)
      BY <1>1, <2>3
    <3>. HIDE DEF D, R, d1, d2, s
    <3>2. \E middle \in D : Replays(d1, Head(s), middle) /\ Leads(D, middle, Tail(s), d2)
      BY <3>1, LeadsFirst
    <3>. QED
      BY <3>2 DEF D, d1, d2, s, h, t
  <2>8. h \in Entry /\ Blanks(h.text) = {}
    <3>1. h = todo[1] /\ 1 \in 1..Len(todo) /\ h \in Entry
      BY <1>1, <2>3 DEF h
    <3>. QED
      BY <2>3, <3>1
  <2>9. e = h /\ m = <<>>
    <3>1. FirstWord(h) = [name |-> h.name, text |-> h.text]
      BY <2>8, Zenon DEF FirstWord
    <3>2. h = [name |-> h.name, text |-> h.text]
      BY <2>8 DEF Entry
    <3>3. OtherWords(h) = <<>>
      BY <2>8, Zenon DEF OtherWords
    <3>. QED
      BY <3>1, <3>2, <3>3 DEF e, m
  <2>10. /\ t \in Seq(Entry) /\ todo' = t
         /\ \A i \in 1..Len(t) : Blanks(t[i].text) = {}
    <3>1. t \in Seq(Entry) /\ Len(t) = Len(todo) - 1
          /\ \A i \in 1..Len(t) : t[i] = todo[i + 1] /\ i + 1 \in 1..Len(todo)
      BY <1>1, <2>3, HeadTailProperties DEF t
    <3>2. <<>> \o t = t
      BY <3>1
    <3>. QED
      BY <1>1, <2>3, <2>9, <3>1, <3>2
  <2>5. o.result # "throws" /\ middle = Store(dev, e.name, o.value)
    BY <2>4, <2>9, Zenon DEF Replays, o
  <2>6. phase' = "replay" /\ dev' = middle
    BY <1>1, <2>5
  <2>7. Leads(Device, dev, todo, edited)'
    <3>1. Device' = Device
      BY <1>1 DEF Device
    <3>. QED
      BY <1>1, <2>4, <2>6, <2>10, <3>1
  <2>11. Entry' = Entry
    BY <1>1 DEF Entry
  <2>. QED
    BY <2>6, <2>7, <2>10, <2>11 DEF Tells, Keys, Blanks
<1>. QED
  BY <1>5, <1>6, <1>7 DEF SessionInv

\* The second call prepares the components once more.
LEMMA SecondCallKeepsSession == SessionInv /\ SecondCall => SessionInv'
<1> SUFFICES ASSUME SessionInv, SecondCall PROVE SessionInv'
  OBVIOUS
<1>1. /\ phase = "replay" /\ phase' = "done" /\ todo = <<>> /\ dev' = Prepared(dev)
      /\ UNCHANGED <<text, cpos, changed, start, edited, todo>>
  BY DEF SecondCall, Prepare, edit
<1>2. DOMAIN dev' = DOMAIN start /\ dev'.kind = start.kind /\ dev'.entries = start.entries
  <2>1. DOMAIN dev = DOMAIN start /\ dev.kind = start.kind /\ dev.entries = start.entries
    BY DEF SessionInv, TypeInv
  <2>2. {"kind", "entries"} \subseteq DOMAIN start
    BY StartIsTyped, DomainOfDevice DEF SessionInv, TypeInv, Device
  <2>. QED
    BY <1>1, <2>1, <2>2, PreparedKeepsShape
<1>3. TypeInv'
  BY <1>1, <1>2 DEF SessionInv, TypeInv, Device, Argued, Entry, Keys
<1>4. LoopInv'
  BY <1>1 DEF LoopInv
<1>5. TellInv'
  <2>1. SUFFICES ASSUME Told', Combined \notin start.entries PROVE Tells'
    BY <1>1 DEF TellInv
  <2>2. Told
    BY <1>1, <1>2, <2>1, ToldBefore DEF SessionInv, TypeInv
  <2>3. Leads(Device, dev, <<>>, edited)
    BY <1>1, <2>1, <2>2 DEF SessionInv, TellInv, Tells
  <2>. DEFINE E == start.entries
              K == start.kind
              D == Device
              d1 == dev
              d2 == edited
  <2>4. d1 \in D
    <3>1. Len(<<>>) + 1 = 1
      OBVIOUS
    <3>2. PICK f \in [1..(Len(<<>>) + 1) -> D] : f[1] = d1
      BY <2>3 DEF Leads
    <3>3. 1 \in 1..(Len(<<>>) + 1)
      BY <3>1
    <3>. QED
      BY <3>2, <3>3
  <2>5. d2 = d1
    <3>. HIDE DEF D
    <3>1. Leads(D, d1, <<>>, d2)
      BY <2>3 DEF D
    <3>. HIDE DEF d1, d2
    <3>. QED
      BY <2>4, <3>1, LeadsNowhere
  <2>6. dev' = dev
    <3>1. d1 \in DevicesOf(E, K) /\ Combined \notin E
      BY <2>1, <2>4 DEF Device
    <3>. HIDE DEF E, K, d1
    <3>2. Prepared(d1) = d1
      BY <3>1, PreparedKeeps
    <3>. QED
      BY <1>1, <3>2 DEF d1
  <2>. QED
    BY <1>1, <2>5, <2>6 DEF Tells, Keys
<1>. QED
  BY <1>3, <1>4, <1>5 DEF SessionInv

-----------------------------------------------------------------------------
(* The session. *)

\* The invariant holds at first.
LEMMA SessionBegins == Init => SessionInv
<1> SUFFICES ASSUME Init PROVE SessionInv
  OBVIOUS
<1>1. /\ start \in Devices /\ dev = start /\ phase = "prepare" /\ changed = <<>>
      /\ text = <<>> /\ cpos = 0 /\ todo = <<>>
  BY DEF Init
<1>2. dev \in Device
  BY <1>1, StartIsTyped
<1>3. TypeInv
  <2>1. <<>> \in Texts(start.kind) /\ 0 \in 0..Len(<<>>) /\ <<>> \in Seq(Entry)
    BY EmptyIsText
  <2>. QED
    BY <1>1, <1>2, <2>1 DEF TypeInv
<1>4. LoopInv
  BY <1>1 DEF LoopInv
<1>5. TellInv
  BY <1>1 DEF TellInv, Tells, Keys
<1>. QED
  BY <1>3, <1>4, <1>5 DEF SessionInv

\* Every step keeps it.
LEMMA SessionGoesOn == SessionInv /\ [Next]_sessionVars => SessionInv'
<1> SUFFICES ASSUME SessionInv, [Next]_sessionVars PROVE SessionInv'
  OBVIOUS
<1>1. CASE FirstCall
  BY <1>1, FirstCallKeepsSession
<1>2. CASE EditStep
  BY <1>2, EditKeepsSession
<1>3. CASE Quit
  BY <1>3, QuitKeepsSession
<1>4. CASE EditorThrows
  BY <1>4, EditorThrowsKeepsSession
<1>5. CASE Replay
  BY <1>5, ReplayKeepsSession
<1>6. CASE SecondCall
  BY <1>6, SecondCallKeepsSession
<1>7. CASE UNCHANGED sessionVars
  <2>1. UNCHANGED <<phase, focus, text, cpos, current, dev, changed, start, edited, todo>>
    BY <1>7 DEF sessionVars, editVars, place, edit
  <2>2. TypeInv'
    BY <2>1 DEF SessionInv, TypeInv, Device, Argued, Entry
  <2>3. LoopInv'
    BY <2>1 DEF SessionInv, LoopInv, Name, Focused
  <2>4. Told' = Told
    BY <2>1 DEF Told, Convertible, Blanks
  <2>5. Tells' = Tells
    BY <2>1 DEF Tells, Device, Entry, Blanks
  <2>6. TellInv'
    BY <2>1, <2>4, <2>5 DEF SessionInv, TellInv
  <2>. QED
    BY <2>2, <2>3, <2>6 DEF SessionInv
<1>. QED
  BY <1>1, <1>2, <1>3, <1>4, <1>5, <1>6, <1>7 DEF Next, Over

\* The invariant holds in every state of a session.
LEMMA SessionHolds == Spec => []SessionInv
  BY SessionBegins, SessionGoesOn, PTL DEF Spec

\* The cursor stays in the text.
THEOREM CursorInTextHolds == Spec => []CursorInText
<1>1. SessionInv => CursorInText
  BY DEF SessionInv, TypeInv, CursorInText
<1>. QED
  BY <1>1, SessionHolds, PTL

\* The second call gives an equal device the parameters of the first one.
THEOREM ReplayRestoresHolds == Spec => []ReplayRestores
<1>1. SessionInv => ReplayRestores
  BY DEF SessionInv, TypeInv, TellInv, Tells, ReplayRestores
<1>. QED
  BY <1>1, SessionHolds, PTL

\* A text that is taken as it was shown keeps the value.
LEMMA TakenAsShown ==
  ASSUME SessionInv, TakeString, text = Shown(Focused), Readable(Focused),
         dev.kind \notin {"mac", "float"}
  PROVE  dev' = dev
<1>. DEFINE E == start.entries
            K == start.kind
            d == dev
            f == Feature(d, "Feature")
            s == text
<1>1. phase = "string" /\ Name = "Feature" /\ Focused = f
  BY DEF TakeString, SessionInv, LoopInv, Focused
<1>2. d \in DevicesOf(E, K) /\ K \in Kinds /\ K # "mac" /\ K # "float"
  BY <1>1, StartIsTyped DEF SessionInv, TypeInv, Device, Keys
<1>. DEFINE g == Parse(f, s, FALSE)
<1>3. PICK value \in g \cup Instead(f, g) \cup {f.value} : dev' = Store(d, "Feature", value)
  <2>1. PICK value \in g \cup Instead(f, g) \cup {f.value} : SetValue(value)
    BY <1>1, Zenon DEF TakeString
  <2>. QED
    BY <1>1, <2>1, Zenon DEF SetValue
<1>4. s = Text(f, Visible)
  BY <1>1, Zenon DEF Shown
<1>. HIDE DEF E, K, d, s, f
<1>5. f.kind = K /\ f.value = d.value /\ d.value \in Values(K)
  <2>1. f = [kind |-> d.kind, access |-> d.access, value |-> d.value]
    BY FeatureFacts, Zenon DEF f
  <2>. QED
    BY <1>2, <2>1, FieldsOfDevice DEF DeviceFields
<1>6. Parse(f, s, FALSE) \subseteq {f.value}
  <2>1. FALSE \in BOOLEAN /\ f.kind \in Kinds /\ f.value \in Values(f.kind) /\ f.kind = f.kind
        /\ f.kind # "mac" /\ (f.kind = "float" => f.value[2] = 0)
        /\ (f.kind = "register" => Visible >= Length \/ f.value = f.value)
    BY <1>2, <1>5
  <2>2. Parse(f, Text(f, Visible), FALSE) \subseteq {f.value}
    BY <2>1, ShownIsParsed, Zenon
  <2>. QED
    BY <1>4, <2>2, Zenon
<1>9. Instead(f, g) = {}
  <2>1. g = {} \/ g = {f.value}
    BY <1>6, Zenon
  <2>. HIDE DEF g
  <2>. QED
    BY <2>1 DEF Instead
<1>7. value = d.value
  BY <1>3, <1>5, <1>6, <1>9, Zenon
<1>8. Store(d, "Feature", d.value) = d
  BY <1>2, StoreKeeps
<1>. QED
  BY <1>3, <1>7, <1>8 DEF d

\* Leaving the loop for text with ENTER does not change what was only shown.
THEOREM ConfirmKeepsHolds == Spec => ConfirmKeeps
<1>1. SessionInv /\ [Next]_sessionVars =>
        [phase = "string" /\ phase' # "string" /\ text = Shown(Focused)
           => dev' = dev \/ dev.kind \in {"mac", "float"} \/ ~Readable(Focused)]_sessionVars
  <2> SUFFICES ASSUME SessionInv, Next, phase = "string", phase' # "string",
                      text = Shown(Focused),
                      dev.kind \notin {"mac", "float"}, Readable(Focused)
               PROVE  dev' = dev
    OBVIOUS
  <2>1. TakeString \/ dev' = dev
    BY DEF Next, FirstCall, EditStep, Quit, EditorThrows, Replay, SecondCall, Over,
           sessionVars, editVars, Edit, PageUp, PageDown, Up, Down, Move,
           EnterExecute, EnterOption, EnterString, Enter, Resize, Cancel, Execute,
           ExecuteFails, OptionUp, OptionDown, TakeOption, Left, Right, Backspace,
           Delete, Insert, Type
  <2>. QED
    BY <2>1, TakenAsShown
<1>. QED
  BY <1>1, SessionHolds, PTL DEF Spec, ConfirmKeeps
=============================================================================
