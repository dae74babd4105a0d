---------------------------- MODULE VariantNames ----------------------------
(***************************************************************************)
(* Names of enum variants, split into words and spelled in other cases     *)
(* (EnumVariant of utils/mod.rs).  A name is a sequence of characters.     *)
(***************************************************************************)
EXTENDS Naturals, Sequences

LOCAL INSTANCE SequencesExt
LOCAL INSTANCE Functions

CONSTANT UpperOf  \* lowercase letter -> uppercase letter

ASSUME LettersAssumption ==
  /\ IsInjective(UpperOf)
  /\ DOMAIN UpperOf \cap Range(UpperOf) = {}

Digits == {"0", "1", "2", "3", "4", "5", "6", "7", "8", "9"}
Separators == {"-", "_"}

IsLower(ch) == ch \in DOMAIN UpperOf
IsUpper(ch) == ch \in Range(UpperOf)

LowerCased(text) ==
  [i \in DOMAIN text |-> IF IsUpper(text[i]) THEN AntiFunction(UpperOf)[text[i]] ELSE text[i]]
UpperCased(text) ==
  [i \in DOMAIN text |-> IF IsLower(text[i]) THEN UpperOf[text[i]] ELSE text[i]]

NoWords == <<>>

\* Mixed case with separators, several separators, one at the start, or two in
\* a row: there are no words.
HasWords(raw) ==
  LET chars == Range(raw)
      mixed == (\E ch \in chars : IsLower(ch)) /\ (\E ch \in chars : IsUpper(ch))
      seps  == chars \cap Separators
  IN  /\ raw # <<>>
      /\ \A ch \in chars : IsLower(ch) \/ IsUpper(ch) \/ ch \in Digits \cup Separators
      /\ \A s, t \in seps : s = t
      /\ raw[1] \notin Separators
      /\ \A i \in 1..(Len(raw) - 1) : ~(raw[i] \in Separators /\ raw[i + 1] \in Separators)
      /\ mixed => seps = {}

\* The parts of a text between the positions of `cuts`.
PartsBetween(text, cuts) ==
  [k \in 1..(Len(cuts) - 1) |-> SubSeq(text, cuts[k], cuts[k + 1] - 1)]

\* EnumVariant::new: words end at separators, or before uppercase letters if
\* the case is mixed.
Words(raw) ==
  LET isCamel == /\ \E i \in DOMAIN raw : IsLower(raw[i])
                 /\ \E i \in DOMAIN raw : IsUpper(raw[i])
      starts  == {1, Len(raw) + 1} \cup
                 {i \in DOMAIN raw : IF isCamel THEN IsUpper(raw[i])
                                     ELSE raw[i] \in Separators}
      parts   == PartsBetween(raw, SetToSortSeq(starts, <))
      word(part) == SelectSeq(part, LAMBDA ch : ch \notin Separators)
  IN  IF ~HasWords(raw)
      THEN NoWords
      ELSE SelectSeq([k \in DOMAIN parts |-> word(parts[k])], LAMBDA w : w # <<>>)

\* TargetCase::ALL
Cases == <<"lower", "UPPER", "Camel", "snake", "SCREAMING_SNAKE", "kebab", "SCREAMING-KEBAB">>

SeparatorOf(case) ==
  CASE case \in {"lower", "UPPER", "Camel"} -> <<>>
    [] case \in {"snake", "SCREAMING_SNAKE"} -> <<"_">>
    [] case \in {"kebab", "SCREAMING-KEBAB"} -> <<"-">>

\* Mutant: camel case only changes the first letter of a word.
WordInAsGiven(case, word) ==
  CASE case \in {"lower", "snake", "kebab"} -> LowerCased(word)
    [] case \in {"UPPER", "SCREAMING_SNAKE", "SCREAMING-KEBAB"} -> UpperCased(word)
    [] case = "Camel" -> UpperCased(<<Head(word)>>) \o Tail(word)

WordIn(case, word) ==
  CASE case \in {"lower", "snake", "kebab"} -> LowerCased(word)
    [] case \in {"UPPER", "SCREAMING_SNAKE", "SCREAMING-KEBAB"} -> UpperCased(word)
    [] case = "Camel" -> UpperCased(<<Head(word)>>) \o LowerCased(Tail(word))

\* EnumVariant::transform
Transformed(words, case) ==
  FlattenSeq([i \in DOMAIN words |->
                WordIn(case, words[i])
                  \o (IF i < Len(words) THEN SeparatorOf(case) ELSE <<>>)])

\* EnumVariant::try_match for a name with words: the spellings are tried in
\* the order of Cases, after the name itself.
TryMatch(raw, variants) ==
  LET spellings == <<raw>> \o [i \in DOMAIN Cases |-> Transformed(Words(raw), Cases[i])]
      matching  == SelectSeq(spellings, LAMBDA s : s \in variants)
  IN  IF Words(raw) = NoWords \/ matching = <<>> THEN raw ELSE Head(matching)
=============================================================================
