---------------------------- MODULE Conversions ----------------------------
(***************************************************************************)
(* Requests to the conversions of Decimal and Units, one after another in  *)
(* a chain: what one of them returns may be the argument of the next.      *)
(***************************************************************************)
EXTENDS Units

LOCAL INSTANCE FiniteSetsExt
LOCAL INSTANCE SequencesExt

CONSTANTS
  Texts,      \* texts that are parsed as decimals
  Decimals,   \* decimals the program has
  Factors,    \* decimals they are multiplied by
  Scales,     \* powers of ten they are scaled by
  Amounts,    \* kind -> values that are serialized
  UnitTexts,  \* <<kind, text>> that are parsed
  Objects     \* <<kind, tag, integer>>: objects that are parsed

ASSUME ConversionsAssumption ==
  /\ Decimals \cup Factors \subseteq DecimalNumber
  /\ Scales \subseteq Exponent
  /\ \A kind \in Kinds : Amounts[kind] \subseteq ValueOf(kind)

VARIABLES
  asked,    \* operation with its arguments
  returned

conversionVars == <<asked, returned>>

Nothing == [op |-> "nothing"]

Answer(request, result) == asked' = request /\ returned' = result

Parse(text) == Answer([op |-> "parse", text |-> text], FromStr(text))

Show(d, format) ==
  Answer([op |-> "print", decimal |-> d, format |-> format],
         Printed(d, format))

Multiply(a, b) == Answer([op |-> "multiply", a |-> a, b |-> b], CheckedMul(a, b))

Compare(a, b) == Answer([op |-> "equal", a |-> a, b |-> b], Ok(Equal(a, b)))

Integer(d) == Answer([op |-> "to_int", decimal |-> d], ToInt(d))

Scale(d, scale) ==
  Answer([op |-> "scale", decimal |-> d, scale |-> scale], Scaled(d, scale))

\* A number as the code has it: sizes are integers.
NumberFor(kind, n) ==
  IF kind = "size" THEN n ELSE Reduced([mantissa |-> n, exponent |-> 0])

Convert(kind, unit, number) ==
  Answer([op |-> "convert", kind |-> kind, unit |-> unit, number |-> number],
         Converted(kind, unit, number))

Serialize(kind, value) ==
  Answer([op |-> "serialize", kind |-> kind, value |-> value],
         Ok(SerializedWithUnit(kind, value)))

SerializeIn(kind, unit, value) ==
  Answer([op |-> "serialize_in", kind |-> kind, unit |-> unit, value |-> value],
         SerializedIn(kind, unit, value))

ParseObject(kind, tag, n) ==
  Answer([op |-> "object", kind |-> kind, tag |-> tag, number |-> n],
         FromObject(kind, tag, NumberFor(kind, n)))

ParseWithUnit(kind, text) ==
  Answer([op |-> "with_unit", kind |-> kind, text |-> text],
         FromUnitStr(kind, text))

Init == asked = Nothing /\ returned = Error

\* A program that has printed a value, or serialized it, reads it again.
ReadBack ==
  /\ returned.ok
  /\ \/ asked.op = "print" /\ Parse(returned.value)
     \/ asked.op = "serialize" /\ ParseWithUnit(asked.kind, returned.value)
     \/ /\ asked.op = "serialize_in"
        /\ Convert(asked.kind, asked.unit, NumberFor(asked.kind, returned.value))

Next ==
  \/ ReadBack
  \/ /\ asked = Nothing
     /\ \/ \E text \in Texts : Parse(text)
        \/ \E d \in Decimals, format \in Formats : Show(d, format)
        \/ \E d \in Decimals, factor \in Factors : Multiply(d, factor)
        \/ \E d \in Decimals, other \in Factors : Compare(d, other)
        \/ \E d \in Decimals : Integer(d)
        \/ \E d \in Decimals, scale \in Scales : Scale(d, scale)
        \/ \E d \in Decimals, unit \in DOMAIN UnitNames.duration :
             Convert("duration", unit, d)
        \/ \E kind \in Kinds : \E value \in Amounts[kind] : Serialize(kind, value)
        \/ \E kind \in Kinds \ {"ether"} :
             \E value \in Amounts[kind], unit \in DOMAIN UnitNames[kind] :
               SerializeIn(kind, unit, value)
        \/ \E t \in UnitTexts : ParseWithUnit(t[1], t[2])
        \/ \E o \in Objects : ParseObject(o[1], o[2], o[3])

Spec == Init /\ [][Next]_conversionVars
-----------------------------------------------------------------------------
(* Properties *)

Returned(op) == asked.op = op /\ returned.ok

\* The same number: both reduced are the same, for mantissas of any size.
Same(a, b) == Reduced(a) = Reduced(b)

\* The number that a text denotes: its digits, and its exponents.
Digits(text) == SelectSeq(DecimalStr(text).mantissa, IsDigit)
Significant(text) ==
  LET digits  == Digits(text)
      nonzero == {i \in DOMAIN digits : digits[i] # "0"}
  IN  IF nonzero = {} THEN <<>> ELSE SubSeq(digits, 1, Max(nonzero))

\* An i16 holds the exponent of the text and that of its last digit, and what
\* is in between.
ExponentsFit(text) ==
  LET exponent == ParsedExponent(DecimalStr(text).exponent)
  IN  /\ exponent.ok
      /\ exponent.value + Len(Digits(text)) <= MaxExponent
      /\ exponent.value - Len(Digits(text)) \in Exponent

\* from_decimal_str: a text is a number if the whole text looks like one, and
\* what is parsed is that number, if its digits fit into the mantissa.
ParsedExactly ==
  asked.op = "parse" =>
    LET text        == asked.text
        significant == ValueUpTo(Significant(text), MaxMantissa)
        exponent    == ParsedExponent(DecimalStr(text).exponent)
        all         == ValueUpTo(Digits(text), MaxWide \div 100)
        spelled     == DecimalStr(text).mantissa
        fraction    == {i \in DOMAIN spelled : IsDigit(spelled[i]) /\
                          \E j \in 1..i : spelled[j] = "."}
    IN  /\ returned.ok => DecimalStr(text).rest = <<>> /\ exponent.ok
        /\ (/\ DecimalStr(text).rest = <<>> /\ DecimalStr(text).mantissa # <<>>
            /\ ExponentsFit(text) /\ significant <= MaxMantissa
            /\ all <= MaxWide \div 100)
           => /\ returned.ok
              /\ Same(returned.value,
                      [mantissa |-> all,
                       exponent |-> exponent.value - Cardinality(fraction)])

\* from_decimal_str: "too many digits" is the error of a number whose digits,
\* without the zeros at its end, do not fit into the mantissa.
DigitsOverflowIsError ==
  asked.op = "parse" /\ ValueUpTo(Significant(asked.text), MaxMantissa) > MaxMantissa
    => returned = Error

\* Display, Debug and LowerExp: "The output never loses precision."  What is
\* printed can be parsed, and is an equal number, as long as its adjusted
\* exponent is one that can be parsed.
PrintedParses ==
  Returned("print") /\ AdjustedExponent(Reduced(asked.decimal)) \in Exponent =>
    LET parsed == FromStr(returned.value)
    IN  parsed.ok /\ Equal(parsed.value, asked.decimal)

\* checked_mul() returns a nearest decimal, and the even one of two: with one
\* more digit the mantissa would not fit.  Equality is that of numbers.
ProductNearest ==
  /\ Returned("multiply") =>
       LET product == asked.a.mantissa * asked.b.mantissa
           cut     == returned.value.exponent - asked.a.exponent - asked.b.exponent
       IN  /\ returned.value \in DecimalNumber
           /\ IF product % TenTo[cut] = 0
              THEN returned.value.mantissa * TenTo[cut] = product
              ELSE /\ returned.value.mantissa = RoundedHalfEven(product, TenTo[cut])
                   /\ Rounded(product, TenTo[cut - 1]) > MaxMantissa
  /\ Returned("equal") => (returned.value <=> Same(asked.a, asked.b))

\* to_int() rounds to a nearest integer, and scale() is exact or fails.  A
\* duration is exact if it is a number of milliseconds that fits into an
\* integer, and otherwise off by less than one of them: it is rounded twice, so
\* that it need not be the nearest.
IntegerNearest ==
  /\ Returned("to_int") =>
       LET d == asked.decimal
       IN  IF d.exponent >= 0
           THEN Same(d, [mantissa |-> returned.value, exponent |-> 0])
           ELSE -d.exponent <= WidePow =>
                  LET pow  == TenTo[-d.exponent]
                      twice == 2 * (d.mantissa % pow)
                  IN  returned.value - d.mantissa \div pow =
                        IF twice < pow THEN 0
                        ELSE IF twice > pow THEN 1
                        ELSE (d.mantissa \div pow) % 2
  /\ Returned("scale") =>
       Same([mantissa |-> returned.value, exponent |-> 0],
            [asked.decimal EXCEPT !.exponent = @ + asked.scale])
  /\ Returned("convert") /\ asked.kind = "duration" =>
       LET factor  == MillisIn(asked.unit)
           product == asked.number.mantissa * factor.mantissa
           exp     == asked.number.exponent + factor.exponent
           millis  == returned.value.secs * MillisPerSecond + returned.value.millis
       IN  IF exp >= 0
           THEN PowFits(exp, MaxMantissa) /\ ProductFits(product, TenTo[exp], MaxMantissa)
                  => millis = product * TenTo[exp]
           ELSE PowFits(-exp, MaxWide) /\ product \div TenTo[-exp] < MaxMantissa
                  => millis * TenTo[-exp] - product
                       \in (1 - TenTo[-exp])..(TenTo[-exp] - 1)

\* What is serialized with a unit is read again as the same value, if its digits
\* fit into the mantissa of a decimal, and the milliseconds of a duration into an
\* integer.  What is serialized in a unit (TimeUnit, SizeUnit) is read as the
\* value without what is below the unit.  An object with a unit as its key, which
\* has to be in lower case, means the same as the text.
UnitsReadBack ==
  /\ Returned("serialize") =>
       LET start == DecimalStr(returned.value).mantissa
       IN  /\ ValueUpTo(Significant(start), MaxMantissa) <= MaxMantissa
           /\ asked.kind = "duration" =>
                \/ asked.value.millis = 0
                \/ SerializedIn("duration", "millis", asked.value).ok
           => FromUnitStr(asked.kind, returned.value) = Ok(asked.value)
  /\ Returned("serialize_in") =>
       LET read == Converted(asked.kind, asked.unit,
                             NumberFor(asked.kind, returned.value))
       IN  IF asked.kind = "size"
           THEN read.ok /\ asked.value - read.value \in
                             0..(IntoSize(asked.unit, 1).value - 1)
           ELSE /\ read.ok
                /\ (asked.value.secs - read.value.secs) * MillisPerSecond
                     + asked.value.millis - read.value.millis
                     \in 0..(ToInt(MillisIn(asked.unit)).value - 1)
  /\ Returned("object") /\ asked.tag[1] # "in_" =>
       returned = FromUnitStr(asked.kind, ToText(asked.number) \o asked.tag)
=============================================================================
