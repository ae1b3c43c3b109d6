---------------------------- MODULE NumberParser ----------------------------
(***************************************************************************)
(* parse_number (parsing/numeric_parser.c): the numbers of the command     *)
(* line, decimal, hexadecimal, octal, binary or with a point, with a sign  *)
(* and the prefixes K, M, G and Ki, Mi, Gi.  One character is a step.      *)
(*                                                                         *)
(* The text is a sequence of characters, "SP" the blank, and ends with     *)
(* Null.  Unsigned numbers count modulo Size.  A double is a pair of       *)
(* numerator and power of ten; its rounding is not modelled.  The states   *)
(* STATE_END_INT and STATE_FINISHED_INT are never entered and left out.    *)
(***************************************************************************)
EXTENDS Integers, Sequences, SequencesExt

CONSTANTS Alphabet,     \* the characters of the texts
          MaxText,      \* bound on their length
          Size          \* 2^64

ASSUME NumberAssumption ==
  /\ Alphabet \subseteq {"-", "+", ".", "0", "1", "7", "9", "a", "b", "x", "k", "M", "i",
                         "SP", "z"}
  /\ MaxText \in Nat
  /\ Size \in Nat \ {0}

VARIABLES
  text,
  pos,      \* i, from 1
  state,    \* STATE_...; "NONE" when there is no number
  acc,      \* uint_accumulator
  frac,     \* float_accumulator times base
  base,     \* float_base_accumulator
  sign,
  prefix    \* the prefix character, Null if there was none

number_vars == <<text, pos, state, acc, frac, base, sign, prefix>>

Null == "NUL"
Blank == "SP"
Texts == BoundedSeq(Alphabet, MaxText)

Value == [d \in {"0", "1", "7", "9", "a", "b"} |->
            CASE d = "0" -> 0 [] d = "1" -> 1 [] d = "7" -> 7 [] d = "9" -> 9
              [] d = "a" -> 10 [] d = "b" -> 11]
Digits == [r \in {2, 8, 10, 16} |-> {d \in DOMAIN Value : Value[d] < r}]
Prefix == [k |-> 1000, M |-> 1000000]
BinPrefix == [k |-> 1024, M |-> 1048576]
PrefixChars == DOMAIN Prefix
Finished == {"FINISHED_UINT", "FINISHED_FLOAT", "NONE"}

NumberInit(t) ==
  /\ text = t
  /\ pos = 1
  /\ state = IF text = <<>> THEN "NONE" ELSE "INIT"
  /\ acc = 0 /\ frac = 0 /\ base = 1 /\ sign = 1
  /\ prefix = Null

c == IF pos > Len(text) THEN Null ELSE text[pos]

-----------------------------------------------------------------------------
(* The moves of a step, besides pos.                                       *)

Goto(s) == state' = s /\ UNCHANGED <<acc, frac, base, sign, prefix>>

Digit(s, radix) ==
  /\ state' = s
  /\ acc' = (acc * radix + Value[c]) % Size
  /\ UNCHANGED <<frac, base, sign, prefix>>

Point ==
  /\ state' = "GET_FLO_DIGITS"
  /\ frac' = acc
  /\ UNCHANGED <<acc, base, sign, prefix>>

PrefixTo(s) ==
  /\ state' = s
  /\ prefix' = c
  /\ UNCHANGED <<acc, frac, base, sign>>

-----------------------------------------------------------------------------
(* The states.                                                             *)

FromInit ==
  /\ state = "INIT"
  /\ CASE c \in {"-", "+"}  -> /\ state' = "FOUND_SIGN"
                               /\ sign' = IF c = "-" THEN -1 ELSE 1
                               /\ UNCHANGED <<acc, frac, base, prefix>>
       [] c = "."           -> Point
       [] c = "0"           -> Goto("FOUND_INIT_ZERO")
       [] c \in Digits[10] \ {"0"} -> Digit("GET_DEC_DIGITS", 10)
       [] c = Blank         -> Goto("INIT")
       [] OTHER             -> Goto("NONE")

FromSign ==
  /\ state = "FOUND_SIGN"
  /\ CASE c = "0"           -> Goto("MUST_BE_ZERO_OR_PERIOD")
       [] c = "."           -> Point
       [] c \in Digits[10] \ {"0"} -> Digit("GET_DEC_DIGITS", 10)
       [] OTHER             -> Goto("NONE")

FromSignedZero ==
  /\ state = "MUST_BE_ZERO_OR_PERIOD"
  /\ CASE c = "0"           -> Goto("MUST_BE_ZERO_OR_PERIOD")
       [] c = "."           -> Point
       [] OTHER             -> Goto("NONE")

FromInitZero ==
  /\ state = "FOUND_INIT_ZERO"
  /\ CASE c = "x"           -> Goto("GET_HEX_DIGITS")
       [] c = "b"           -> Goto("GET_BIN_DIGITS")
       [] c = "."           -> Point
       [] c = Null          -> Goto("FINISHED_UINT")
       [] c \in PrefixChars -> PrefixTo("END_UINT")
       [] c \in Digits[8]   -> Digit("GET_OCT_DIGITS", 8)
       [] OTHER             -> Goto("NONE")

(* A blank ends a number of another radix, but not a decimal one: the test *)
(* for it belongs to an if without a body of its own.                      *)
FromDecDigits ==
  /\ state = "GET_DEC_DIGITS"
  /\ CASE c \in Digits[10]  -> Digit("GET_DEC_DIGITS", 10)
       [] c = "."           -> Point
       [] c \in PrefixChars -> PrefixTo("END_UINT")
       [] c = Null          -> Goto("FINISHED_UINT")
       [] OTHER             -> Goto("NONE")

Radix == [GET_BIN_DIGITS |-> 2, GET_OCT_DIGITS |-> 8, GET_HEX_DIGITS |-> 16]

FromDigits ==
  /\ state \in DOMAIN Radix
  /\ CASE c \in Digits[Radix[state]] -> Digit(state, Radix[state])
       [] c \in PrefixChars -> PrefixTo("END_UINT")
       [] c = Blank         -> Goto("END_UINT")
       [] c = Null          -> Goto("FINISHED_UINT")
       [] OTHER             -> Goto("NONE")

FromFloDigits ==
  /\ state = "GET_FLO_DIGITS"
  /\ CASE c \in Digits[10]  -> /\ frac' = frac * 10 + Value[c]
                               /\ base' = base * 10
                               /\ UNCHANGED <<state, acc, sign, prefix>>
       [] c \in PrefixChars -> PrefixTo("END_FLOAT")
       [] c = Blank         -> Goto("END_FLOAT")
       [] c = Null          -> Goto("FINISHED_FLOAT")
       [] OTHER             -> Goto("NONE")

(* The prefix tested before the i, as for a double; a mutant of FromEndUint.*)
EndUintPrefixFirst ==
  /\ state = "END_UINT"
  /\ CASE c = Blank         -> Goto("END_UINT")
       [] c # Blank /\ prefix # Null ->
            /\ state' = "FINISHED_UINT"
            /\ acc' = (acc * Prefix[prefix]) % Size
            /\ UNCHANGED <<frac, base, sign, prefix>>
       [] c = Null /\ prefix = Null -> Goto("FINISHED_UINT")
       [] OTHER             -> Goto("NONE")

(* Whatever follows a prefix ends the number, and is not looked at further.*)
FromEndUint ==
  /\ state = "END_UINT"
  /\ CASE c = Blank         -> Goto("END_UINT")
       [] c # Blank /\ prefix # Null ->
            /\ state' = "FINISHED_UINT"
            /\ acc' = (acc * (IF c = "i" THEN BinPrefix[prefix] ELSE Prefix[prefix])) % Size
            /\ UNCHANGED <<frac, base, sign, prefix>>
       [] c = Null /\ prefix = Null -> Goto("FINISHED_UINT")
       [] OTHER             -> Goto("NONE")

(* The prefix is tested first: with a point, Ki is K.                      *)
FromEndFloat ==
  /\ state = "END_FLOAT"
  /\ CASE c = Blank         -> Goto("END_FLOAT")
       [] c # Blank /\ prefix # Null ->
            /\ state' = "FINISHED_FLOAT"
            /\ frac' = frac * Prefix[prefix]
            /\ UNCHANGED <<acc, base, sign, prefix>>
       [] c = Null /\ prefix = Null -> Goto("FINISHED_FLOAT")
       [] OTHER             -> Goto("NONE")

NumberNext ==
  /\ pos' = pos + 1
  /\ UNCHANGED text
  /\ \/ FromInit \/ FromSign \/ FromSignedZero \/ FromInitZero \/ FromDecDigits
     \/ FromDigits \/ FromFloDigits \/ FromEndUint \/ FromEndFloat

(* num_result.                                                             *)
num_result ==
  CASE state = "NONE"           -> [type |-> "CAMIO_NO_TYPE"]
    [] state = "FINISHED_FLOAT" -> [type |-> "CAMIO_DOUBLE", val |-> sign * frac, by |-> base]
    [] state = "FINISHED_UINT"  ->
         IF sign = 1 THEN [type |-> "CAMIO_UINT64", val |-> acc]
         ELSE LET v == (Size - acc) % Size IN
              [type |-> "CAMIO_INT64", val |-> IF 2 * v >= Size THEN v - Size ELSE v]

NumberSpec == (\E t \in Texts : NumberInit(t)) /\ [][NumberNext]_number_vars

-----------------------------------------------------------------------------
(* What a text means: blanks, a sign, a numeral, and a tail.               *)

Only(s, chars) == \A k \in DOMAIN s : s[k] \in chars
Upto(s, k) == SubSeq(s, 1, k)
After(s, k) == SubSeq(s, k + 1, Len(s))
(* The length of what comes before the first of chars.                     *)
Before(s, chars) == Min({k - 1 : k \in {j \in 1..Len(s) : s[j] \in chars}} \union {Len(s)})

(* Digits written after a number; a number of its own comes after 0.       *)
Extended(n, digits, radix) ==
  LET v[k \in 0..Len(digits)] == IF k = 0 THEN n ELSE v[k - 1] * radix + Value[digits[k]]
  IN  v[Len(digits)]
Number(digits, radix) == Extended(0, digits, radix)
(* A one with a nought for each digit.                                     *)
Power(digits) == Extended(1, [k \in DOMAIN digits |-> "0"], 10)

IsDecimal(s) == s # <<>> /\ Only(s, Digits[10]) /\ s[1] # "0"
IsMarked(s, mark, radix) ==
  /\ Len(s) >= Len(mark) /\ Upto(s, Len(mark)) = mark
  /\ Only(After(s, Len(mark)), Digits[radix])
(* Digits and a point; only a signed number may have several zeros first.  *)
Left(s) == Upto(s, Before(s, {"."}))
Right(s) == After(s, Before(s, {"."}) + 1)
IsLeft(s, signed) == IsDecimal(s) \/ s \in {<<>>, <<"0">>} \/ (signed /\ Only(s, {"0"}))
IsFloat(s, signed) ==
  Before(s, {"."}) < Len(s) /\ Only(Right(s), Digits[10]) /\ IsLeft(Left(s), signed)

Uint(v) == [val |-> v % Size, by |-> 1, is_float |-> FALSE]
Float(s) == [val |-> Extended(Number(Left(s), 10) % Size, Right(s), 10),
             by |-> Power(Right(s)), is_float |-> TRUE]
NotANumber == [val |-> 0, by |-> 0, is_float |-> FALSE]

Numeral(s, signed) ==
  CASE IsDecimal(s)                           -> Uint(Number(s, 10))
    [] ~signed /\ IsMarked(s, <<"0">>, 8)       -> Uint(Number(After(s, 1), 8))
    [] ~signed /\ IsMarked(s, <<"0", "b">>, 2)  -> Uint(Number(After(s, 2), 2))
    [] ~signed /\ IsMarked(s, <<"0", "x">>, 16) -> Uint(Number(After(s, 2), 16))
    [] IsFloat(s, signed)                     -> Float(s)
    [] OTHER                                  -> NotANumber

(* The factor a tail stands for, 0 if the tail is not allowed.  Anything   *)
(* may follow a prefix.                                                    *)
IsBinary(tail) ==
  LET rest == After(tail, 1)
      next == Before(rest, Alphabet \ {Blank}) + 1 IN
  next <= Len(rest) /\ rest[next] = "i"
Factor(tail, s, n) ==
  CASE tail = <<>> -> 1
    [] tail # <<>> /\ Only(tail, {Blank}) -> IF IsDecimal(s) \/ s = <<"0">> THEN 0 ELSE 1
    [] tail # <<>> /\ tail[1] \in PrefixChars ->
         IF ~n.is_float /\ IsBinary(tail) THEN BinPrefix[tail[1]] ELSE Prefix[tail[1]]
    [] OTHER -> 0

Blanks(t) == Before(t, Alphabet \ {Blank})
Signed(t) == Blanks(t) < Len(t) /\ t[Blanks(t) + 1] \in {"-", "+"}
Minus(t) == Signed(t) /\ t[Blanks(t) + 1] = "-"
Body(t) == After(t, IF Signed(t) THEN Blanks(t) + 1 ELSE Blanks(t))
NumeralEnd(u) == Before(u, PrefixChars \union {Blank})

Scaled(n, f, minus) ==
  LET v == (n.val * f) % Size IN
  CASE n.by = 0 \/ f = 0 -> [type |-> "CAMIO_NO_TYPE"]
    [] n.by # 0 /\ f # 0 /\ n.is_float ->
         [type |-> "CAMIO_DOUBLE", val |-> (IF minus THEN -1 ELSE 1) * n.val * f, by |-> n.by]
    [] OTHER ->
         IF minus THEN [type |-> "CAMIO_INT64",
                        val |-> IF 0 < v /\ v <= Size \div 2 THEN -v ELSE (Size - v) % Size]
         ELSE [type |-> "CAMIO_UINT64", val |-> v]

Meaning(t) ==
  LET u == Body(t)
      s == Upto(u, NumeralEnd(u))
      n == Numeral(s, Signed(t)) IN
  Scaled(n, Factor(After(u, NumeralEnd(u)), s, n), Minus(t))

-----------------------------------------------------------------------------
(* Every text is read as what it means, digit by digit and modulo 2^64, or *)
(* is no number: no state forgets a sign, a digit or a prefix, or takes    *)
(* over what another state left.                                           *)
NumberAsWritten == state \in Finished => num_result = Meaning(text)

=============================================================================
