-------------------------------- MODULE Calc --------------------------------
(***************************************************************************)
(* A window of the calculator, apps/app_calc.c, its buttons, keys and      *)
(* menus.  A double is a fraction here, so rounding in the last bit, and   *)
(* the 0.000001 the display adds against it, are left out; how many        *)
(* decimals the display shows is not, since Copy takes the number from it. *)
(***************************************************************************)
EXTENDS Integers, Sequences

CONSTANTS
  Digits, Ops,            \* the buttons in use: digits, and of "+", "-", "*", "/"
  MaxNumber, MaxDecimals  \* bounds: a number that large, or with so many decimals, is not typed on

VARIABLES
  current, accumulator, operation, newEntry,          \* operation: "" for none
  hasDecimal, decimals, leftOperand, leftDecimals,
  showExpr, exprComplete, error, scientific,
  display,        \* "Error", or the texts shown: the left number's and the right one's
  clipboard,      \* calc_clipboard: the number its text begins with, and its first decimals
  terms, pend,    \* ghost: what was typed, and the operator after it ("=": finished)
  entry,          \* ghost: the digits of the number being typed, and how many follow the point
  odd             \* ghost: a key was used in a way the reference says nothing of

operands == <<current, accumulator, operation, leftOperand, leftDecimals>>
flags    == <<newEntry, hasDecimal, decimals, showExpr, exprComplete>>
typed    == <<terms, pend, entry, odd>>
vars     == <<operands, flags, error, scientific, display, clipboard, typed>>

(* Fractions, in lowest terms. *)
Abs(n)     == IF n < 0 THEN -n ELSE n
Gcd[p \in Nat \X Nat] == IF p[2] = 0 THEN p[1] ELSE Gcd[<<p[2], p[1] % p[2]>>]
Frac(n, d) == LET s == IF d < 0 THEN -1 ELSE 1
                  g == Gcd[<<Abs(n), Abs(d)>>]
              IN [n |-> s * (IF n < 0 THEN -(Abs(n) \div g) ELSE n \div g), d |-> Abs(d) \div g]
Num(n)     == [n |-> n, d |-> 1]
Add(a, b)  == Frac(a.n * b.d + b.n * a.d, a.d * b.d)
Apply(op, a, b) ==
  CASE op = "+" -> Add(a, b)
    [] op = "-" -> Add(a, [b EXCEPT !.n = -@])
    [] op = "*" -> Frac(a.n * b.n, a.d * b.d)
    [] op = "/" -> Frac(a.n * b.d, a.d * b.n)

Tens[k \in Nat] == IF k = 0 THEN 1 ELSE 10 * Tens[k - 1]
Scaled(v, e) == IF e < 0 THEN Frac(v.n, v.d * Tens[-e]) ELSE Frac(v.n * Tens[e], v.d)   \* v times 10^e

(* num_to_str: with no decimals asked for the fraction is dropped, with    *)
(* some the number is rounded, and a whole one gets a zero more: 2.00.     *)
(* The scientific form rounds the mantissa.  A text is its number and its  *)
(* decimals.                                                               *)
Whole(n)    == [num |-> Num(n), places |-> 0]
Round(v, p) == Frac((IF v.n < 0 THEN -1 ELSE 1) * ((2 * Abs(v.n) * Tens[p] + v.d) \div (2 * v.d)), Tens[p])
Rounded(v, p) == [num |-> Round(v, p), places |-> IF Round(v, p).d = 1 THEN p + 1 ELSE p]
Exponent(v) ==
  LET Ten(k) == Abs(v.n) >= 10 * Tens[k] * v.d     \* after k divisions it is still 10 or more
      One(k) == Abs(v.n) * Tens[k] >= v.d          \* after k multiplications it is 1 or more
  IN IF One(0) THEN CHOOSE k \in 0 .. 99 : (k = 99 \/ ~Ten(k)) /\ \A j \in 0 .. k - 1 : Ten(j)
     ELSE -(CHOOSE k \in 1 .. 99 : (k = 99 \/ One(k)) /\ \A j \in 1 .. k - 1 : ~One(j))
Mantissa(v, p) ==
  LET e == Exponent(v)
      m == Rounded(Scaled(v, -e), p)
  IN [m EXCEPT !.num = Scaled(@, e)]
Shown(v, p) ==
  IF scientific' THEN IF v.n = 0 THEN Whole(0) ELSE Mantissa(v, IF p = 0 THEN 3 ELSE IF p > 6 THEN 6 ELSE p)
  ELSE IF p = 0 THEN Whole(IF v.n < 0 THEN -(Abs(v.n) \div v.d) ELSE v.n \div v.d)
  ELSE Rounded(v, p)

Error == [left |-> Whole(0), right |-> Whole(0), err |-> TRUE]
Both(l, r) == [left |-> l, right |-> r, err |-> FALSE]
(* calc_update_display, called when everything else is set.  An expression *)
(* marked complete has lost its operator, whose NUL ends the text.         *)
UpdateDisplay ==
  LET left  == Shown(leftOperand', leftDecimals')
      right == Shown(current', decimals')
  IN display' = IF error' THEN Error
                ELSE IF exprComplete' THEN Both(left, left)
                ELSE IF showExpr' /\ operation' # "" THEN Both(left, right)
                ELSE Both(right, right)

Zero == Num(0)
Plain == [left |-> Whole(0), right |-> Whole(0), err |-> FALSE]
Init ==      \* calc_init
  /\ current = Zero /\ accumulator = Zero /\ operation = "" /\ leftOperand = Zero /\ leftDecimals = 0
  /\ newEntry = TRUE /\ hasDecimal = FALSE /\ decimals = 0 /\ showExpr = FALSE /\ exprComplete = FALSE
  /\ error = FALSE /\ scientific = FALSE /\ display = Plain /\ clipboard = <<>>
  /\ terms = <<>> /\ pend = "" /\ entry = [digits |-> 0, frac |-> 0] /\ odd = FALSE

----------------------------------------------------------------------------
(* The ghosts.  What was typed is a list of terms, each with the operator  *)
(* before it, and the reference value takes them from the left.            *)
Term(op, v) == [op |-> op, num |-> v]
Entered(e)  == Frac(e.digits, Tens[e.frac])
Defined     == \A i \in DOMAIN terms : ~(terms[i].op = "/" /\ terms[i].num.n = 0)
ValueOf(ts) == LET after[i \in 0 .. Len(ts)] ==
                     IF i = 0 THEN Zero ELSE Apply(ts[i].op, after[i - 1], ts[i].num)
               IN after[Len(ts)]
Value       == ValueOf(terms)
Fresh       == pend # "" \/ terms = <<>>
TypeDigit(d) ==
  LET e == IF Fresh THEN [digits |-> d, frac |-> 0]
           ELSE [digits |-> entry.digits * 10 + d, frac |-> IF hasDecimal THEN entry.frac + 1 ELSE entry.frac]
  IN /\ entry' = e /\ pend' = "" /\ UNCHANGED odd
     /\ terms' = IF ~Fresh THEN [terms EXCEPT ![Len(terms)].num = Entered(e)]
                 ELSE IF pend \in {"", "="} THEN <<Term("+", Entered(e))>> ELSE Append(terms, Term(pend, Entered(e)))
TypePoint ==
  IF ~Fresh THEN odd' = (odd \/ hasDecimal) /\ UNCHANGED <<terms, pend, entry>>
  ELSE /\ entry' = [digits |-> 0, frac |-> 0] /\ pend' = "" /\ UNCHANGED odd
       /\ terms' = IF pend \in {"", "="} THEN <<Term("+", Zero)>> ELSE Append(terms, Term(pend, Zero))
(* An operator that divides by zero is not described, nor, below, what    *)
(* follows CE in the middle of a calculation.                             *)
TypeOp(o) ==
  /\ pend' = o /\ odd' = (odd \/ error') /\ UNCHANGED entry
  /\ terms' = IF terms = <<>> THEN <<Term("+", Zero)>> ELSE terms
(* "5 + =" adds 5 to itself; a lone number can still be typed on. *)
TypeEquals ==
  /\ pend' = (IF pend \in Ops \/ Len(terms) > 1 THEN "=" ELSE pend) /\ UNCHANGED <<entry, odd>>
  /\ terms' = IF pend \in Ops /\ ~odd THEN Append(terms, Term(pend, Value)) ELSE terms
Forget == terms' = <<>> /\ pend' = "" /\ entry' = [digits |-> 0, frac |-> 0]

----------------------------------------------------------------------------
Digit(d) ==
  /\ error' = FALSE
  /\ LET new   == newEntry
         place == hasDecimal /\ ~error
         v     == IF error THEN Zero ELSE current
         k     == IF error THEN 1 ELSE decimals + 1
     IN /\ newEntry' = FALSE
        /\ current' = IF new THEN Num(d) ELSE IF place THEN Add(v, Frac(d, Tens[k])) ELSE Add(Frac(v.n * 10, v.d), Num(d))
        /\ hasDecimal' = (~new /\ place)
        /\ decimals' = IF ~new /\ place THEN k ELSE IF new \/ error THEN 0 ELSE decimals
  /\ exprComplete' = FALSE
  /\ TypeDigit(d)
  /\ UNCHANGED <<accumulator, operation, leftOperand, leftDecimals, showExpr, scientific, clipboard>>
  /\ UpdateDisplay

(* calc_input_decimal: the display is left alone. *)
Decimal ==
  /\ ~error
  /\ current' = (IF newEntry THEN Zero ELSE current) /\ newEntry' = FALSE
  /\ hasDecimal' = TRUE /\ decimals' = 0
  /\ TypePoint
  /\ UNCHANGED <<accumulator, operation, leftOperand, leftDecimals, showExpr, exprComplete, error, scientific, display, clipboard>>

Clear ==
  /\ current' = Zero /\ accumulator' = Zero /\ operation' = "" /\ leftOperand' = Zero /\ leftDecimals' = 0
  /\ newEntry' = TRUE /\ hasDecimal' = FALSE /\ decimals' = 0 /\ showExpr' = FALSE /\ exprComplete' = FALSE
  /\ error' = FALSE /\ Forget /\ odd' = FALSE
  /\ UNCHANGED <<scientific, clipboard>>
  /\ UpdateDisplay

ClearEntry ==
  /\ current' = Zero /\ hasDecimal' = FALSE /\ decimals' = 0 /\ newEntry' = TRUE /\ error' = FALSE
  /\ IF operation = "" THEN Forget /\ UNCHANGED odd
     ELSE /\ odd' = TRUE /\ UNCHANGED <<terms, pend, entry>>
  /\ UNCHANGED <<accumulator, operation, leftOperand, leftDecimals, showExpr, exprComplete, scientific, clipboard>>
  /\ UpdateDisplay

(* calc_calculate: its result, and whether it failed. *)
Fails  == operation = "/" /\ current.n = 0
Result == IF Fails THEN current ELSE Apply(operation, accumulator, current)

(* Mutant: a second operator calculates although no number was typed. *)
DueAlways == operation # ""
Due == operation # "" /\ ~newEntry
SetOperation(op) ==
  /\ ~error
  /\ error' = (Due /\ Fails)
  /\ current' = IF Due THEN Result ELSE current
  /\ accumulator' = current' /\ leftOperand' = current'
  /\ leftDecimals' = IF Due THEN 0 ELSE decimals
  /\ operation' = op /\ newEntry' = TRUE /\ hasDecimal' = FALSE /\ decimals' = 0
  /\ showExpr' = TRUE /\ exprComplete' = FALSE
  /\ TypeOp(op)
  /\ UNCHANGED <<scientific, clipboard>>
  /\ IF Due   \* calc_calculate shows the result, before the new operator is set
     THEN display' = IF error' THEN Error ELSE Both(Shown(current', 0), Shown(current', 0))
     ELSE UNCHANGED display

Equals ==
  /\ ~error /\ TypeEquals /\ UNCHANGED <<scientific, clipboard>>
  /\ IF operation = "" THEN exprComplete' = TRUE /\ UNCHANGED <<operands, newEntry, hasDecimal, decimals, showExpr, error, display>>
     ELSE /\ error' = Fails /\ current' = Result /\ accumulator' = Result /\ operation' = ""
          /\ newEntry' = TRUE /\ hasDecimal' = FALSE /\ decimals' = 0 /\ leftDecimals' = 0
          /\ showExpr' = FALSE /\ exprComplete' = FALSE /\ UNCHANGED leftOperand
          /\ UpdateDisplay

(* The menus.  Copy takes what follows "=", or else the whole text; Paste  *)
(* reads the number that text begins with, 0 if it begins with none, and   *)
(* counts the decimals, at most 6, after the text's first point.           *)
Copy ==
  /\ clipboard' = <<[num |-> display.left.num,
                     places |-> IF display.left.places > 0 THEN display.left.places ELSE display.right.places]>>
  /\ UNCHANGED <<operands, flags, error, scientific, display, typed>>
Paste ==
  /\ clipboard # <<>>
  /\ current' = clipboard[1].num /\ accumulator' = Zero /\ operation' = "" /\ leftOperand' = Zero /\ leftDecimals' = 0
  /\ hasDecimal' = (clipboard[1].places > 0)
  /\ decimals' = IF clipboard[1].places > 6 THEN 6 ELSE clipboard[1].places
  /\ newEntry' = TRUE /\ showExpr' = FALSE /\ exprComplete' = FALSE /\ error' = FALSE
  /\ terms' = <<Term("+", current')>> /\ pend' = "=" /\ entry' = entry /\ odd' = FALSE
  /\ UNCHANGED <<scientific, clipboard>>
  /\ UpdateDisplay
SetScientific ==
  /\ scientific' = ~scientific
  /\ UNCHANGED <<operands, flags, error, clipboard, typed>>
  /\ UpdateDisplay

Short == newEntry \/ (decimals < MaxDecimals /\ Abs(current.n) < MaxNumber * current.d)
Next ==
  \/ \E d \in Digits : Short /\ Digit(d)
  \/ \E o \in Ops : SetOperation(o)
  \/ Decimal \/ Clear \/ ClearEntry \/ Equals \/ Copy \/ Paste \/ SetScientific
Spec == Init /\ [][Next]_vars
----------------------------------------------------------------------------
TypeOK ==
  /\ operation \in Ops \cup {""} /\ decimals \in Nat /\ leftDecimals \in Nat
  /\ current.d > 0 /\ accumulator.d > 0

(* LeftToRight: whenever a number is finished, the calculator holds what   *)
(* the typed terms give when taken from the left, and reports an error     *)
(* exactly if one of them divides by zero; a second operator replaces the  *)
(* first, "=" alone changes nothing, a point counts decimals.              *)
(* calc_input_digit, calc_set_operation, calc_calculate, calc_equals.      *)
LeftToRight == newEntry /\ ~odd => /\ error = ~Defined
                                   /\ ~error => current = Value
=============================================================================
