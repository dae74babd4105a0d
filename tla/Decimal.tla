------------------------------ MODULE Decimal ------------------------------
(***************************************************************************)
(* Non-negative decimals with a mantissa and an exponent of fixed width    *)
(* (`Decimal` of utils/decimal.rs): parsing, printing, multiplication and  *)
(* conversion to integers.                                                 *)
(*                                                                         *)
(* The widths are parameters: u64, u128 and i16 in the code.  A text is a  *)
(* sequence of symbols; what is neither a digit nor one of the symbols of  *)
(* a number is a symbol of its own.  An operation returns Ok(value),       *)
(* Error, or Overflowed if the code leaves a width without a check.        *)
(***************************************************************************)
EXTENDS Integers, Sequences, FiniteSets

LOCAL INSTANCE SequencesExt
LOCAL INSTANCE FiniteSetsExt

CONSTANTS
  MaxMantissa,      \* u64::MAX
  MaxWide,          \* u128::MAX
  WidePow,          \* exponent of the largest power of 10 within MaxWide
  MaxExponent,      \* i16::MAX
  DecimalExponents  \* adjusted exponents printed without an exponent

\* 10^n
TenTo[n \in Nat] == IF n = 0 THEN 1 ELSE 10 * TenTo[n - 1]

ASSUME DecimalAssumption ==
  /\ MaxMantissa \in Nat \ {0} /\ MaxMantissa % 2 = 1
  /\ MaxWide = (MaxMantissa + 1) * MaxMantissa + MaxMantissa
  /\ WidePow \in Nat /\ TenTo[WidePow] <= MaxWide /\ MaxWide \div 10 < TenTo[WidePow]
  /\ MaxExponent \in Nat

Exponent == (-MaxExponent - 1)..MaxExponent
DecimalNumber == [mantissa : 0..MaxMantissa, exponent : Exponent]

Ok(value) == [ok |-> TRUE, value |-> value]
Error == [ok |-> FALSE, why |-> "error"]
Overflowed == [ok |-> FALSE, why |-> "overflow"]

\* checked_pow() and checked_mul() for unsigned integers.
PowFits(n, max) == n <= WidePow /\ TenTo[n] <= max
ProductFits(a, b, max) == b = 0 \/ a <= max \div b

Symbols == <<"0", "1", "2", "3", "4", "5", "6", "7", "8", "9">>
IsDigit(s) == s \in ToSet(Symbols)
DigitOf(s) == (CHOOSE i \in DOMAIN Symbols : Symbols[i] = s) - 1

\* Decimal::reduced
Reduced(d) ==
  LET strip[m \in Nat \ {0}] == IF m % 10 = 0 THEN 1 + strip[m \div 10] ELSE 0
  IN  IF d.mantissa = 0 THEN [mantissa |-> 0, exponent |-> 0]
      ELSE [mantissa |-> d.mantissa \div TenTo[strip[d.mantissa]],
            exponent |-> d.exponent + strip[d.mantissa]]

\* Mutant: ties away from zero.
RoundedHalfUp(value, pow) ==
  IF 2 * (value % pow) >= pow THEN value \div pow + 1 ELSE value \div pow

\* Rounding of value / pow to nearest, ties to even.
RoundedHalfEven(value, pow) ==
  LET quotient == value \div pow
      rest     == value % pow
  IN  IF rest > pow \div 2 \/ (rest = pow \div 2 /\ quotient % 2 = 1)
      THEN quotient + 1 ELSE quotient

Rounded(value, pow) == IF pow = 1 THEN value ELSE RoundedHalfEven(value, pow)
-----------------------------------------------------------------------------
(* Parsing *)

\* DecimalStr::new: the longest prefix that looks like a number.  An "e" with
\* nothing that continues it belongs to the rest.
MantissaSymbols == ToSet(Symbols) \cup {"_", "."}

LongestPrefix(s, P(_)) == Max({n \in 0..Len(s) : P(SubSeq(s, 1, n))})

IsMantissa(s) ==
  /\ ToSet(s) \subseteq MantissaSymbols
  /\ \A i, j \in DOMAIN s : s[i] = "." /\ s[j] = "." => i = j

IsExponent(s) ==
  \A i \in DOMAIN s : IsDigit(s[i]) \/ (i = 1 /\ s[i] \in {"+", "-"})

DecimalStr(s) ==
  LET mantissaLen == LongestPrefix(s, IsMantissa)
      hasE        == mantissaLen < Len(s) /\ s[mantissaLen + 1] \in {"e", "E"}
      tail        == SubSeq(s, mantissaLen + 2, Len(s))
      exponentLen == IF hasE THEN LongestPrefix(tail, IsExponent) ELSE 0
      total       == IF exponentLen = 0 THEN mantissaLen
                     ELSE mantissaLen + 1 + exponentLen
  IN  [mantissa |-> SubSeq(s, 1, mantissaLen),
       exponent |-> SubSeq(tail, 1, exponentLen),
       rest     |-> SubSeq(s, total + 1, Len(s))]

\* The value of a sequence of digits up to a bound; bound + 1 above it.
ValueUpTo(digits, bound) ==
  FoldLeft(LAMBDA v, s : Min({v * 10 + DigitOf(s), bound + 1}), 0, digits)

\* `str::parse::<i16>` of what IsExponent accepts.
ParsedExponent(s) ==
  LET signed == s # <<>> /\ ~IsDigit(s[1])
      digits == IF signed THEN Tail(s) ELSE s
      value  == ValueUpTo(digits, MaxExponent + 1)
      number == IF signed /\ s[1] = "-" THEN -value ELSE value
  IN  IF s = <<>> THEN Ok(0)
      ELSE IF digits = <<>> \/ number \notin Exponent THEN Error
      ELSE Ok(number)

\* The sum with a further significant digit, the k-th from the right: the
\* product is checked, the sum is not.
DigitAdded(digit, k, sum) ==
  IF digit = 0 THEN Ok(sum)
  ELSE IF ~PowFits(k, MaxMantissa) \/ ~ProductFits(digit, TenTo[k], MaxMantissa)
       THEN Error
       ELSE IF sum + digit * TenTo[k] > MaxMantissa THEN Overflowed
            ELSE Ok(sum + digit * TenTo[k])

\* Mutant: counts the spacing, too.
SymbolsAfterDot(mantissa) ==
  LET dot == {i \in DOMAIN mantissa : mantissa[i] = "."}
  IN  IF dot = {} THEN 0 ELSE Len(mantissa) - Max(dot)

DigitsAfterDot(mantissa) ==
  LET dot == {i \in DOMAIN mantissa : mantissa[i] = "."}
  IN  IF dot = {} THEN 0
      ELSE Cardinality({i \in Max(dot)..Len(mantissa) : IsDigit(mantissa[i])})

\* Decimal::from_decimal_str.  Trailing zeros and the dot go to the exponent,
\* in steps that are not checked.
FromDecimalStr(s) ==
  LET digits   == SelectSeq(s.mantissa, IsDigit)
      zeros    == IF ToSet(digits) \subseteq {"0"} THEN Len(digits)
                  ELSE Len(digits) - Max({i \in DOMAIN digits : digits[i] # "0"})
      fraction == DigitsAfterDot(s.mantissa)
      kept     == SubSeq(digits, 1, Len(digits) - zeros)
      mantissa == FoldLeft(LAMBDA r, k :
                             IF ~r.ok THEN r
                             ELSE DigitAdded(DigitOf(kept[Len(kept) - k]), k, r.value),
                           Ok(0), [i \in DOMAIN kept |-> i - 1])
      exponent == ParsedExponent(s.exponent)
  IN  IF s.mantissa = <<>> THEN Error
      ELSE IF ~mantissa.ok THEN mantissa
      ELSE IF ~exponent.ok THEN exponent
      ELSE IF \/ exponent.value + zeros \notin Exponent
              \/ exponent.value + zeros - fraction \notin Exponent
           THEN Overflowed
           ELSE Ok(Reduced([mantissa |-> mantissa.value,
                            exponent |-> exponent.value + zeros - fraction]))

\* `FromStr` for Decimal
FromStr(s) ==
  IF DecimalStr(s).rest # <<>> THEN Error ELSE FromDecimalStr(DecimalStr(s))
-----------------------------------------------------------------------------
(* Printing *)

ToText(n) ==
  LET text[m \in Nat] ==
        IF m < 10 THEN <<Symbols[m + 1]>>
        ELSE Append(text[m \div 10], Symbols[(m % 10) + 1])
  IN  text[n]

SignedText(n) == IF n < 0 THEN <<"-">> \o ToText(-n) ELSE ToText(n)

Zeros(n) == [i \in 1..n |-> "0"]

\* Decimal::adjusted_exponent
AdjustedExponent(d) == d.exponent + Len(ToText(d.mantissa)) - 1

\* Mutant: without the padding of the fraction.
FormatDecimalUnpadded(d) ==
  LET text == ToText(d.mantissa)
      int  == IF Len(text) > -d.exponent THEN Len(text) + d.exponent ELSE 0
  IN  IF d.exponent >= 0 THEN text \o Zeros(d.exponent)
      ELSE (IF int = 0 THEN <<"0">> ELSE SubSeq(text, 1, int))
             \o <<".">> \o SubSeq(text, int + 1, Len(text))

\* Decimal::format_decimal
FormatDecimal(d) ==
  LET text == ToText(d.mantissa)
      int  == IF Len(text) > -d.exponent THEN Len(text) + d.exponent ELSE 0
      frac == SubSeq(text, int + 1, Len(text))
  IN  IF d.exponent >= 0 THEN text \o Zeros(d.exponent)
      ELSE (IF int = 0 THEN <<"0">> ELSE SubSeq(text, 1, int))
             \o <<".">> \o Zeros(-d.exponent - Len(frac)) \o frac

\* Decimal::format_exp
FormatExp(d) ==
  LET text == ToText(d.mantissa)
  IN  <<text[1]>> \o (IF Len(text) = 1 THEN <<>> ELSE <<".">>) \o Tail(text)
        \o <<"e">> \o SignedText(AdjustedExponent(d))

\* Decimal::format_generic: "{:#}", "{:e}" and "{}".
Formats == {"decimal", "exponential", "any"}
Printed(d, format) ==
  LET reduced == Reduced(d)
  IN  IF \/ format = "decimal"
         \/ format = "any" /\ AdjustedExponent(reduced) \in DecimalExponents
      THEN IF -reduced.exponent > MaxExponent THEN Overflowed
           ELSE Ok(FormatDecimal(reduced))
      ELSE Ok(FormatExp(reduced))
-----------------------------------------------------------------------------
(* Arithmetic *)

\* `PartialEq` for Decimal
Equal(a, b) ==
  LET lesser  == IF a.exponent <= b.exponent THEN a ELSE b
      greater == IF a.exponent <= b.exponent THEN b ELSE a
      diff    == greater.exponent - lesser.exponent
  IN  \/ a.mantissa = 0 /\ b.mantissa = 0
      \/ /\ PowFits(diff, MaxMantissa)
         /\ ProductFits(greater.mantissa, TenTo[diff], MaxMantissa)
         /\ greater.mantissa * TenTo[diff] = lesser.mantissa

\* Decimal::to_int, to the wide type.
ToInt(d) ==
  IF d.exponent >= 0
  THEN IF PowFits(d.exponent, MaxWide)
            /\ ProductFits(d.mantissa, TenTo[d.exponent], MaxWide)
       THEN Ok(d.mantissa * TenTo[d.exponent]) ELSE Error
  ELSE IF -d.exponent > MaxExponent THEN Overflowed
  ELSE IF PowFits(-d.exponent, MaxWide)
       THEN Ok(Rounded(d.mantissa, TenTo[-d.exponent])) ELSE Ok(0)

\* Decimal::scale
Scaled(d, scale) ==
  LET scaled == Reduced([d EXCEPT !.exponent = @ + scale])
  IN  IF d.exponent + scale \notin Exponent \/ scaled.exponent < 0 THEN Error
      ELSE ToInt(scaled)

\* Mutant: forgets that ties are rounded up.
ThresholdsWithTies ==
  [i \in {i \in 1..WidePow : PowFits(i - 1, MaxMantissa)} |->
     IF PowFits(i, MaxMantissa)
     THEN MaxMantissa * TenTo[i] + TenTo[i] \div 2
     ELSE MaxWide]

\* The powers of 10 that a product may be divided by, each with the largest
\* product for which that leaves a mantissa after rounding.
Thresholds ==
  [i \in {i \in 1..WidePow : PowFits(i - 1, MaxMantissa)} |->
     IF PowFits(i, MaxMantissa)
     THEN MaxMantissa * TenTo[i] + TenTo[i] \div 2 - 1
     ELSE MaxWide]

\* Decimal::checked_mul
CheckedMul(a, b) ==
  LET product == Reduced([mantissa |-> a.mantissa * b.mantissa, exponent |-> 0])
      cut     == IF product.mantissa <= MaxMantissa THEN 0
                 ELSE Min({i \in DOMAIN Thresholds :
                             product.mantissa <= Thresholds[i]})
      exp     == a.exponent + b.exponent + product.exponent + cut
  IN  IF exp \notin Exponent THEN Error
      ELSE Ok([mantissa |-> Rounded(product.mantissa, TenTo[cut]), exponent |-> exp])
=============================================================================
