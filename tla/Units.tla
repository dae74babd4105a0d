------------------------------- MODULE Units -------------------------------
(***************************************************************************)
(* Durations, byte sizes and ether amounts with units of measurement       *)
(* (de/units.rs, types.rs): how they are read from numbers and from texts, *)
(* and what they are serialized to.                                        *)
(*                                                                         *)
(* A duration is [secs, millis]; what is below a millisecond is left out.  *)
(***************************************************************************)
EXTENDS Decimal

LOCAL INSTANCE FiniteSetsExt
LOCAL INSTANCE SequencesExt

CONSTANTS
  SecondsIn,  \* unit of time above "seconds" -> seconds; 60, 3600, ... in
              \* the code
  BytesIn,    \* unit of size above "bytes" -> bytes; 2^10, 2^20, 2^30
  WeiScale    \* unit of ether -> power of 10; 0, 9, 18

ASSUME UnitsAssumption ==
  /\ DOMAIN SecondsIn = {"minutes", "hours", "days", "weeks"}
  /\ DOMAIN BytesIn = {"kib", "mib", "gib"}
  /\ DOMAIN WeiScale = {"wei", "gwei", "ether"}
  /\ \A u \in DOMAIN SecondsIn : SecondsIn[u] \in 1..MaxMantissa
  /\ \A u \in DOMAIN BytesIn : BytesIn[u] \in 1..MaxMantissa
  /\ \A u \in DOMAIN WeiScale : WeiScale[u] \in 0..WidePow

Kinds == {"duration", "size", "ether"}

MillisPerSecond == 1000
Duration == [secs : 0..MaxMantissa, millis : 0..(MillisPerSecond - 1)]

\* Values of the kinds: `Duration`, `ByteSize` over u64, `EtherAmount` over
\* u128.
ValueOf(kind) ==
  CASE kind = "duration" -> Duration
    [] kind = "size" -> 0..MaxMantissa
    [] kind = "ether" -> 0..MaxWide

\* impl_enum_with_unit!: the names of units, as the symbols that follow a
\* number.  A name is one symbol, except that it may start like an exponent.
Names(symbols) == {<<symbol>> : symbol \in symbols}

UnitNames ==
  [duration |->
     [millis  |-> Names({"milliseconds", "millis", "ms"}),
      seconds |-> Names({"seconds", "second", "secs", "sec", "s"}),
      minutes |-> Names({"minutes", "minute", "mins", "min", "m"}),
      hours   |-> Names({"hours", "hour", "hr", "h"}),
      days    |-> Names({"days", "day", "d"}),
      weeks   |-> Names({"weeks", "week", "w"})],
   size |->
     [bytes |-> Names({"bytes", "b"}),
      kib   |-> Names({"kilobytes", "kb", "kib"}),
      mib   |-> Names({"megabytes", "mb", "mib"}),
      gib   |-> Names({"gigabytes", "gb", "gib"})],
   ether |->
     [wei |-> Names({"wei"}), gwei |-> Names({"gwei"}),
      ether |-> {<<"e", "ther">>}]]

UnitsNamed(kind, name) ==
  {unit \in DOMAIN UnitNames[kind] : name \in UnitNames[kind][unit]}

\* str::to_lowercase, for the names that are printed.
Lower(name) ==
  LET lower == [B |-> "b", KiB |-> "kib", MiB |-> "mib", GiB |-> "gib"]
  IN  [i \in DOMAIN name |->
         IF name[i] \in DOMAIN lower THEN lower[name[i]] ELSE name[i]]
-----------------------------------------------------------------------------
(* Conversions with a unit *)

\* The milliseconds in a unit, as TimeUnit::into_duration has them.
MillisIn(unit) ==
  Reduced(IF unit = "millis" THEN [mantissa |-> 1, exponent |-> 0]
          ELSE IF unit = "seconds" THEN [mantissa |-> 1, exponent |-> 3]
          ELSE [mantissa |-> SecondsIn[unit], exponent |-> 3])

\* Mutant: does without the wider range.
IntoMillis(unit, raw) ==
  LET product == CheckedMul(raw, MillisIn(unit))
      millis  == IF product.ok THEN ToInt(product.value) ELSE product
  IN  IF millis.ok /\ millis.value <= MaxMantissa
      THEN Ok([secs |-> millis.value \div MillisPerSecond,
               millis |-> millis.value % MillisPerSecond])
      ELSE Error

\* TimeUnit::into_duration: beyond u64 milliseconds in whole seconds.
IntoDuration(unit, raw) ==
  LET product == CheckedMul(raw, MillisIn(unit))
      millis  == IF product.ok THEN ToInt(product.value) ELSE product
  IN  IF ~millis.ok THEN millis
      ELSE IF millis.value <= MaxMantissa
           THEN Ok([secs   |-> millis.value \div MillisPerSecond,
                    millis |-> millis.value % MillisPerSecond])
           ELSE IF millis.value \div MillisPerSecond <= MaxMantissa
                THEN Ok([secs |-> millis.value \div MillisPerSecond, millis |-> 0])
                ELSE Error

\* ByteSize::checked
IntoSize(unit, raw) ==
  LET factor == IF unit = "bytes" THEN 1 ELSE BytesIn[unit]
  IN  IF ProductFits(raw, factor, MaxMantissa) THEN Ok(raw * factor) ELSE Error

\* TryFrom<RawDuration>, TryFrom<RawByteSize>, TryFrom<RawEtherAmount>
Converted(kind, unit, raw) ==
  CASE kind = "duration" -> IntoDuration(unit, raw)
    [] kind = "size" -> IntoSize(unit, raw)
    [] kind = "ether" -> Scaled(raw, WeiScale[unit])

\* FromStrStart: the number that a text starts with, and the rest.
IntegerStart(text) ==
  LET len   == LongestPrefix(text, LAMBDA s : ToSet(s) \subseteq ToSet(Symbols))
      value == ValueUpTo(SubSeq(text, 1, len), MaxMantissa)
  IN  [number |-> IF len = 0 \/ value > MaxMantissa THEN Error ELSE Ok(value),
       rest   |-> SubSeq(text, len + 1, Len(text))]

DecimalStart(text) ==
  [number |-> FromDecimalStr(DecimalStr(text)), rest |-> DecimalStr(text).rest]

\* str::trim
Trimmed(text) ==
  LET inner == {i \in DOMAIN text : text[i] # " "}
  IN  IF inner = {} THEN <<>> ELSE SubSeq(text, Min(inner), Max(inner))

\* EnumWithUnit::from_unit_str, and the conversion.
FromUnitStr(kind, text) ==
  LET start == IF kind = "size" THEN IntegerStart(text) ELSE DecimalStart(text)
      word  == Trimmed(start.rest)
      units == UnitsNamed(kind, IF kind = "duration" THEN word ELSE Lower(word))
  IN  IF ~start.number.ok THEN start.number
      ELSE IF units = {} THEN Error
      ELSE Converted(kind, CHOOSE unit \in units : TRUE, start.number.value)

\* EnumVisitor: an object with the unit as its key.
FromObject(kind, tag, number) ==
  LET units == UnitsNamed(kind, IF tag[1] = "in_" THEN Tail(tag) ELSE tag)
  IN  IF units = {} THEN Error
      ELSE Converted(kind, CHOOSE unit \in units : TRUE, number)
-----------------------------------------------------------------------------
(* Serialization *)

\* Mutant: minutes for whole hours only.
UnitOfSecondsSwapped(secs) ==
  IF secs % SecondsIn.minutes # 0 THEN <<1, "s">>
  ELSE IF secs % SecondsIn.days # 0 THEN <<SecondsIn.hours, "h">>
  ELSE <<SecondsIn.days, "d">>

\* The largest unit that is a divisor.
UnitOfSeconds(secs) ==
  IF secs % SecondsIn.minutes # 0 THEN <<1, "s">>
  ELSE IF secs % SecondsIn.hours # 0 THEN <<SecondsIn.minutes, "min">>
  ELSE IF secs % SecondsIn.days # 0 THEN <<SecondsIn.hours, "h">>
  ELSE IF secs % SecondsIn.weeks # 0 THEN <<SecondsIn.days, "d">>
  ELSE <<SecondsIn.weeks, "w">>

\* WithUnit::serialize_param for Duration
DurationText(d) ==
  LET unit == UnitOfSeconds(d.secs)
  IN  IF d.secs = 0 /\ d.millis = 0 THEN <<"0", "s">>
      ELSE IF d.millis # 0
           THEN ToText(d.secs * MillisPerSecond + d.millis) \o <<"ms">>
           ELSE ToText(d.secs \div unit[1]) \o <<unit[2]>>

\* Display for ByteSize
SizeText(n) ==
  LET unit == IF n = 0 \/ n % BytesIn.kib # 0 THEN <<1, "B">>
              ELSE IF n % BytesIn.mib # 0 THEN <<BytesIn.kib, "KiB">>
              ELSE IF n % BytesIn.gib # 0 THEN <<BytesIn.mib, "MiB">>
              ELSE <<BytesIn.gib, "GiB">>
  IN  ToText(n \div unit[1]) \o <<" ", unit[2]>>

\* Display for EtherAmount
EtherText(n) ==
  IF n % TenTo[WeiScale.ether] = 0
  THEN ToText(n \div TenTo[WeiScale.ether]) \o <<" ", "e", "ther">>
  ELSE IF n % TenTo[WeiScale.gwei] = 0
       THEN ToText(n \div TenTo[WeiScale.gwei]) \o <<" ", "gwei">>
       ELSE ToText(n) \o <<" ", "wei">>

SerializedWithUnit(kind, value) ==
  CASE kind = "duration" -> DurationText(value)
    [] kind = "size" -> SizeText(value)
    [] kind = "ether" -> EtherText(value)

\* serialize_param of TimeUnit and SizeUnit: what is below the unit is lost.
SerializedIn(kind, unit, value) ==
  CASE kind = "duration" /\ unit = "millis" ->
         LET millis == value.secs * MillisPerSecond + value.millis
         IN  IF millis > MaxMantissa THEN Overflowed ELSE Ok(millis)
    [] kind = "duration" /\ unit = "seconds" -> Ok(value.secs)
    [] kind = "duration" /\ unit \in DOMAIN SecondsIn ->
         Ok(value.secs \div SecondsIn[unit])
    [] kind = "size" /\ unit = "bytes" -> Ok(value)
    [] kind = "size" /\ unit \in DOMAIN BytesIn -> Ok(value \div BytesIn[unit])
=============================================================================
