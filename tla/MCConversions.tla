--------------------------- MODULE MCConversions ---------------------------
(* An instance of Conversions for model checking. *)
EXTENDS Conversions

\* 15-bit mantissas: 32767, whose last digit is odd as that of u64::MAX, is
\* below 10^5, so that some numbers with five digits fit and others do not.
\* Units have the ratios of the code scaled down, so that weeks fit, too.
MCDecimalExponents == -2..4
MCSecondsIn == [minutes |-> 6, hours |-> 36, days |-> 864, weeks |-> 6048]
MCBytesIn == [kib |-> 8, mib |-> 64, gib |-> 512]
MCWeiScale == [wei |-> 0, gwei |-> 2, ether |-> 4]

\* Mantissas at the boundaries of digits, of widths and of ties.
Mantissas ==
  (0..30) \cup (95..105) \cup {125, 250, 255, 500, 999, 1000, 1001, 1285, 3276, 3277,
    4095, 4096, 5000, 6553, 6554, 9999, 10000, 10001, 16383, 16384, 20000, 29999,
    30000, 32761, 32765, 32766, 32767}
Exponents == {-15, -14, -6, -5, -3, -2, -1, 0, 1, 2, 4, 12, 14}

MCDecimals == [mantissa : Mantissas, exponent : Exponents]
MCFactors ==
  [mantissa : {0, 1, 2, 3, 5, 7, 10, 11, 99, 100, 255, 3277, 10001, 32761, 32767},
   exponent : {-15, -1, 0, 2}]
MCScales == {0, 1, 2, 4}

MCAmounts ==
  [duration |-> [secs : (0..7) \cup {11, 12, 35, 36, 72, 863, 864, 1728, 6047, 6048,
                                     6054, 12096, 30240, 32766, 32767},
                 millis : {0, 1, 10, 500, 999}],
   size |-> (0..130) \cup {511, 512, 1024, 4096, 32766, 32767},
   ether |-> (0..130) \cup {9999, 10000, 10001, 20000, 32767, 32768, 40000, 50001,
                            1000000, 100000000, 999999999}]

\* Texts with up to five symbols, and long ones.
TextSymbols == {"0", "1", "9", ".", "_", "e", "-"}
LongTexts ==
  {<<"3", "2", "7", "6", "7">>, <<"3", "2", "7", "6", "8">>,
   <<"3", "2", "7", "6", "7", "0", "0">>, <<"0", "0", "3", "2", ".", "7", "6", "7">>,
   <<"3", "_", "2", "7", "6", ".", "_", "7", "0", "e", "+", "2">>,
   <<"9", "9", "9", "9", "9">>, <<"1", "0", "0", "0", "0", "1">>,
   <<"1", "0", "0", "0", "0", "0", "0", "0">>,
   <<"1", ".", "0", "E", "-", "1", "4">>, <<"1", "e", "1", "4">>,
   <<"1", "e", "1", "5">>, <<"1", "e", "-", "1", "6">>,
   <<"1", "0", "e", "1", "4">>, <<"0", ".", "1", "e", "-", "1", "5">>}
Short == UNION {[1..n -> TextSymbols] : n \in 0..4}
MCTexts == Short \cup LongTexts

\* Digits that are each within the width, with a sum that is not.
OverflowTexts == {<<a, b, "9", "9", "9">> : a \in {"1", "2", "3"}, b \in {"0", "2", "9"}}

UnitWords == {<<"ms">>, <<"s">>, <<"min">>, <<"MiB">>, <<"kb">>, <<"wei">>,
              <<"e", "ther">>, <<>>, <<"e">>}
MCUnitTexts ==
  {<<kind, number \o space \o word>> :
     kind \in Kinds, number \in {<<>>, <<"2">>, <<"1", ".", "5">>, <<"1", "e", "2">>},
     space \in {<<>>, <<" ">>, <<" ", " ">>}, word \in UnitWords}

MCObjects ==
  {<<kind, prefix \o word, n>> :
     kind \in Kinds, prefix \in {<<>>, <<"in_">>}, word \in UnitWords \ {<<>>},
     n \in {0, 1, 70, 3277, 32767}}
=============================================================================
