------------------------------- MODULE MCText -------------------------------
(* Typed texts for TLC: paths with buffers of six characters and three     *)
(* components, short texts; and what an expression typed for calc means.   *)
EXTENDS TypedText

CONSTANT CalcChars     \* the characters of an expression

MCComps == {Dot, DotDot, Comp("a", 1), Comp("b", 3)}
MCArgs  == [abs : BOOLEAN, comps : UNION {[1..n -> MCComps] : n \in 1..3}]

MCAlphabet == [calc |-> CalcChars,
               line |-> {"echo", " ", "tab", "&", "'", ">"},
               asm  |-> {"0", "9", "x", "c", " "}]

MCTyped == [calc |-> 5, line |-> 7, asm |-> 7]

-----------------------------------------------------------------------------
(* The meaning of an expression, read from the outside in.  The last + or  *)
(* - between two operands and outside of parentheses is done last; then    *)
(* the last *, / or %; a sign belongs to the factor behind it.  A text     *)
(* that is no expression, and one that divides by zero, has no meaning:    *)
(* the empty set.  Any other has one, its value or, if a quotient on the   *)
(* way does not fit, the trap.                                             *)
Trap == 2^CALC_BITS     \* no number the calculator can hold
Depth(s, k) == Cardinality({j \in 1..(k - 1) : s[j] = "("})
             - Cardinality({j \in 1..(k - 1) : s[j] = ")"})
BehindOperand(s, k) ==
    LET before == Trim(SubSeq(s, 1, k - 1))
    IN  before # <<>> /\ (IsHexDigit(Last(before)) \/ Last(before) = ")")
Splits(s, ops) ==
    {k \in DOMAIN s : s[k] \in ops /\ Depth(s, k) = 0 /\ BehindOperand(s, k)}

HexLiteral(s) == HexPrefix(s, 1) /\ \A k \in 3..Len(s) : IsHexDigit(s[k])
DecimalLiteral(s) == s # <<>> /\ \A k \in DOMAIN s : IsDigit(s[k])

(* Left operand, right operand, operation: the first trap ends it all.     *)
Combined(op, a, b) ==
    IF a = Trap \/ b = Trap THEN {Trap}
    ELSE CASE OpError(op, a, b) = 0     -> {Apply(op, a, b)}
           [] OpError(op, a, b) = Fault -> {Trap}
           [] OTHER                     -> {}

RECURSIVE Meaning(_)
Meaning(text) ==
    LET s == Trim(text)
        sums == Splits(s, {"+", "-"})
        products == Splits(s, {"*", "/", "%"})
        k == Max(IF sums # {} THEN sums ELSE products)
        inner == SubSeq(s, 2, Len(s) - 1)
    IN  IF sums \cup products # {}
        THEN UNION {Combined(s[k], p[1], p[2]) :
                      p \in Meaning(SubSeq(s, 1, k - 1))
                              \X Meaning(SubSeq(s, k + 1, Len(s)))}
        ELSE IF s = <<>> THEN {}
        ELSE IF s[1] = "+" THEN Meaning(Tail(s))
        ELSE IF s[1] = "-" THEN {IF a = Trap THEN Trap ELSE Int64(-a) :
                                   a \in Meaning(Tail(s))}
        ELSE IF s[1] = "(" THEN
             IF Len(s) > 1 /\ Last(s) = ")" THEN Meaning(inner) ELSE {}
        ELSE IF HexLiteral(s) THEN {Int64(Accumulate(SubSeq(s, 3, Len(s)), 16))}
        ELSE IF DecimalLiteral(s) THEN {Int64(Accumulate(s, 10))}
        ELSE {}

Calculated(text) == cmd_calc(tokenize(<<"calc", " ">> \o text))

(* The value, and its decimal as long as it fits an int.                   *)
Prints(result, v) ==
    /\ result.err = 0
    /\ result.hex = v
    /\ Abs(v) < 2^(INT_BITS - 1) => result.decimal = ToString(v)

(* A hexadecimal number with something behind it is read wrong: HexAgrees. *)
HexInside(s) == \E p \in DOMAIN s : /\ HexPrefix(s, p)
                                    /\ EndOf(s, p + 2, IsHexDigit) <= Len(s)

(* The calculator, fed with the words that are left of the line, computes  *)
(* an expression that has a value, and rejects a text without a meaning.   *)
(* It traps, and never comes back, on an expression whose quotient does    *)
(* not fit; besides these only on a text with such an expression in it,    *)
(* never on one that is only ill-formed or divides by zero.  0x alone is   *)
(* taken for zero.  Texts in which something follows a hexadecimal number  *)
(* are left out here.                                                      *)
CalcAgrees ==
    mode = "calc" /\ ~HexInside(typed) =>
      LET result == Calculated(typed)
          m == Meaning(typed)
      IN  /\ \A v \in m \ {Trap} : Prints(result, v)
          /\ Trap \in m => result.err = Fault
          /\ m = {} => result.err # 0
          /\ result.err = Fault =>
               \E i, j \in DOMAIN typed : Meaning(SubSeq(typed, i, j)) = {Trap}

(* What the manual's example of hexadecimal operands says, for every       *)
(* expression that has a value: the calculator computes it.                *)
HexAgrees ==
    mode = "calc" => \A v \in Meaning(typed) \ {Trap} : Prints(Calculated(typed), v)
=============================================================================
