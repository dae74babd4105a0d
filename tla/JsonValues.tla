----------------------------- MODULE JsonValues -----------------------------
(***************************************************************************)
(* Values that param deserializers read and write: `Value` of value.rs and *)
(* `serde_json::Value`, and how strings are read as other values.          *)
(*                                                                         *)
(* A value is a record with a field named for its type.  A text is a       *)
(* sequence of symbols; a number or a word is one symbol.  The keys of an  *)
(* object are texts.                                                       *)
(***************************************************************************)
EXTENDS ValueTree

LOCAL INSTANCE SequencesExt
LOCAL INSTANCE TLC

CONSTANTS
  MaxInt,       \* the largest value of an integer type
  IntTexts,     \* texts that parse::<u64>() takes -> integer
  FloatTexts,   \* texts that parse::<f64>() takes -> floating-point number
  NumberTexts   \* texts that are JSON numbers -> value

ASSUME TextAssumption ==
  /\ MaxInt \in Nat
  /\ \A text \in DOMAIN IntTexts : IntTexts[text] \in 0..MaxInt

Null == [null |-> "null"]
Bool(b) == [bool |-> b]
Integer(n) == [int |-> n]
Float(f) == [float |-> f]
Text(symbols) == [text |-> symbols, secret |-> FALSE]
SecretText(symbols) == [text |-> symbols, secret |-> TRUE]
Arr(items) == [arr |-> items]
Obj(entries) == [obj |-> entries]

\* There is no value.
Missing == [missing |-> "missing"]

Is(value, type) == type \in DOMAIN value

BoolType == {"bool"}
IntegerType == {"int"}
FloatType == {"int", "float"}
StringType == {"text"}
ArrayType == {"arr"}
ObjectType == {"obj"}

\* Value::is_supported_by
IsSupportedBy(value, types) ==
  \/ Is(value, "null")
  \/ \E type \in types : Is(value, type)
  \/ Is(value, "text") /\ types \cap {"text", "int", "bool"} # {}

BoolTexts == [text \in {<<"true">>, <<"false">>} |-> text = <<"true">>]

IsPlainText(value) == Is(value, "text") /\ ~value.secret

IsNullText(text) == text \in {<<>>, <<"null">>}

\* Mutant: parses booleans for every type.
CoercedLoosely(value, expecting) ==
  IF IsPlainText(value) /\ value.text \in DOMAIN BoolTexts
  THEN Bool(BoolTexts[value.text])
  ELSE value

\* WithOrigin::coerce_value_type, or the value itself.  A type that allows
\* several representations is left alone.
Coerced(value, expecting) ==
  CASE IsPlainText(value) /\ "text" \notin expecting /\ IsNullText(value.text) ->
         Null
    [] IsPlainText(value) /\ expecting = BoolType /\ value.text \in DOMAIN BoolTexts ->
         Bool(BoolTexts[value.text])
    [] /\ IsPlainText(value)
       /\ expecting \in {IntegerType, FloatType} /\ value.text \in DOMAIN NumberTexts ->
         NumberTexts[value.text]
    [] OTHER -> value

\* to_string() of numbers and booleans.
WordOf(value) ==
  CASE Is(value, "bool") -> <<IF value.bool THEN "true" ELSE "false">>
    [] Is(value, "int") -> <<ToString(value.int)>>
    [] Is(value, "float") -> <<value.float>>

\* str::split
Split(text, sep) ==
  LET cuts == SetToSortSeq({0, Len(text) + 1} \cup {i \in DOMAIN text : text[i] = sep},
                           LAMBDA i, j : i < j)
  IN  [k \in 1..(Len(cuts) - 1) |-> SubSeq(text, cuts[k] + 1, cuts[k + 1] - 1)]
-----------------------------------------------------------------------------
(* Values as parts of a tree *)

\* A key of an object is one symbol, and so is its path.
RECURSIVE TreeOfValue(_)
TreeOfValue(value) ==
  CASE Is(value, "obj") ->
         LET below == [key \in DOMAIN value.obj |-> TreeOfValue(value.obj[key])]
             within(key) == {Join(key, p) : p \in DOMAIN below[key]}
         IN  [path \in {<<>>} \cup UNION {within(key) : key \in DOMAIN below} |->
                IF path = <<>> THEN Object
                ELSE below[<<path[1]>>][Relative(<<path[1]>>, path)]]
    [] Is(value, "text") -> Single([Str(value.text) EXCEPT !.secret = value.secret])
    [] Is(value, "arr") -> Single(Array(value))
    [] OTHER -> Single(Other(value))

\* The value that a tree is; there is none if the tree is empty.
RECURSIVE ValueOfTree(_)
ValueOfTree(t) ==
  CASE DOMAIN t = {} -> Missing
    [] IsObjectAt(t, <<>>) ->
         Obj([key \in {<<k>> : k \in ChildKeys(t, <<>>)} |-> ValueOfTree(Sub(t, key))])
    [] IsLeafAt(t, <<>>) /\ t[<<>>].kind = "string" ->
         [Text(t[<<>>].data) EXCEPT !.secret = t[<<>>].secret]
    [] IsLeafAt(t, <<>>) /\ t[<<>>].kind # "string" -> t[<<>>].data
=============================================================================
