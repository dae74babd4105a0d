------------------------------ MODULE RustTypes ------------------------------
(***************************************************************************)
(* How values become values of Rust types through serde, and back:         *)
(* ValueDeserializer of de/deserializer.rs and serde_json::to_value.       *)
(*                                                                         *)
(* A type is a record: its kind, and what it is made of.  serde stops at   *)
(* the first error; all that is said of it is whether a field is missing.  *)
(***************************************************************************)
EXTENDS JsonValues, VariantNames

LOCAL INSTANCE SequencesExt
LOCAL INSTANCE FiniteSets

CONSTANT CoerceVariantNames  \* of DeserializerOptions

\* Values of Rust types: as in JSON, and these.
None == [none |-> "None"]
Some(value) == [some |-> value]
List(items) == [list |-> items]
Mapping(entries) == [map |-> entries]
Variant(name, content) == [variant |-> name, content |-> content]

NoValue == [none |-> "no value"]

Ok(value) == [ok |-> TRUE, value |-> value, pushed |-> <<>>]
Err(category) == [ok |-> FALSE, error |-> category, pushed |-> <<>>]

OkOrError(value) == IF value = NoValue THEN Err("generic") ELSE Ok(value)

\* All of the outcomes, or the first error among them.
InOrder(outcomes, value) ==
  LET failed == SelectSeq(outcomes, LAMBDA outcome : ~outcome.ok)
  IN  IF failed = <<>> THEN Ok(value) ELSE Head(failed)

Outputs(outcomes) == [i \in DOMAIN outcomes |-> outcomes[i].value]
-----------------------------------------------------------------------------
(* Primitive types *)

IntOf(value) ==
  CASE Is(value, "int") /\ value.int \in 0..MaxInt -> value
    [] Is(value, "text") /\ value.text \in DOMAIN IntTexts ->
         Integer(IntTexts[value.text])
    [] OTHER -> NoValue

FloatOf(value) ==
  CASE Is(value, "float") -> value
    [] Is(value, "int") -> Float(FloatTexts[WordOf(value)])
    [] Is(value, "text") /\ value.text \in DOMAIN FloatTexts ->
         Float(FloatTexts[value.text])
    [] OTHER -> NoValue

\* deserialize_bool
BoolOf(value) ==
  CASE Is(value, "bool") -> value
    [] Is(value, "text") /\ value.text \in DOMAIN BoolTexts ->
         Bool(BoolTexts[value.text])
    [] OTHER -> NoValue

\* deserialize_string
StringOf(value) ==
  CASE Is(value, "text") -> Text(value.text)
    [] Is(value, "null") -> Text(<<"null">>)
    [] Is(value, "bool") \/ Is(value, "int") \/ Is(value, "float") ->
         Text(WordOf(value))
    [] OTHER -> NoValue

\* deserialize_unit
UnitOf(value) == IF Is(value, "null") THEN Null ELSE NoValue
-----------------------------------------------------------------------------
RECURSIVE Typed(_, _)

\* deserialize_seq for a Vec
TypedSeq(item, value) ==
  LET outcomes == [i \in DOMAIN value.arr |-> Typed(item, value.arr[i])]
  IN  IF Is(value, "arr") THEN InOrder(outcomes, List(Outputs(outcomes))) ELSE Err("generic")

\* deserialize_seq for a tuple: no item is left out or left over.
TypedTuple(types, value) ==
  LET pairs    == IF Is(value, "arr") THEN Zip(types, value.arr) ELSE <<>>
      outcomes == [i \in DOMAIN pairs |-> Typed(pairs[i][1], pairs[i][2])]
      read     == InOrder(outcomes, List(Outputs(outcomes)))
  IN  IF Is(value, "arr") /\ (~read.ok \/ Len(value.arr) = Len(types))
      THEN read
      ELSE Err("generic")

\* deserialize_map for a map with keys that are strings
TypedMap(item, value) ==
  LET outcomes == [key \in DOMAIN value.obj |-> Typed(item, value.obj[key])]
      failed   == {key \in DOMAIN value.obj : ~outcomes[key].ok}
  IN  CASE ~Is(value, "obj") -> Err("generic")
        [] Is(value, "obj") /\ failed # {} -> outcomes[CHOOSE key \in failed : TRUE]
        [] OTHER -> Ok(Mapping([key \in DOMAIN outcomes |-> outcomes[key].value]))

\* deserialize_map for a struct: unknown keys are ignored, and an absent Option
\* is None.
TypedFields(fields, value) ==
  LET read(field) == CASE field.name \in DOMAIN value.obj ->
                            Typed(field.ty, value.obj[field.name])
                       [] /\ field.name \notin DOMAIN value.obj
                          /\ field.ty.kind = "option" -> Ok(None)
                       [] OTHER -> Err("missing")
      outcomes    == [i \in DOMAIN fields |-> read(fields[i])]
      present     == SelectSeq([i \in DOMAIN fields |-> i],
                               LAMBDA i : fields[i].name \in DOMAIN value.obj)
  IN  IF ~Is(value, "obj")
      THEN Err("generic")
      ELSE InOrder([k \in DOMAIN present |-> outcomes[present[k]]] \o outcomes,
                   List(Outputs(outcomes)))

\* deserialize_struct
TypedStruct(fields, value) ==
  IF Is(value, "arr")
  THEN TypedTuple([i \in DOMAIN fields |-> fields[i].ty], value)
  ELSE TypedFields(fields, value)

\* The content of a variant, Missing if the name is all there is.
TypedContent(content, value) ==
  CASE Is(value, "missing") ->
         IF content.kind = "unit" THEN Ok(Null) ELSE Err("generic")
    [] ~Is(value, "missing") /\ content.kind = "struct" -> TypedFields(content.fields, value)
    [] OTHER -> Typed(content, value)

\* deserialize_enum: the name of a variant, or an object with its name as the
\* single key.
TypedEnum(variants, value) ==
  LET isObject == Is(value, "obj") /\ Cardinality(DOMAIN value.obj) = 1
      key      == IF isObject THEN CHOOSE k \in DOMAIN value.obj : TRUE ELSE value.text
      name     == IF CoerceVariantNames THEN TryMatch(key, DOMAIN variants) ELSE key
      content  == TypedContent(variants[name], IF isObject THEN value.obj[key] ELSE Missing)
  IN  IF /\ isObject \/ Is(value, "text")
         /\ name \in DOMAIN variants
      THEN IF content.ok THEN Ok(Variant(name, content.value)) ELSE content
      ELSE Err("generic")

\* T::deserialize
Typed(ty, value) ==
  LET inner == Typed(ty.item, value)
  IN  CASE ty.kind = "int" -> OkOrError(IntOf(value))
        [] ty.kind = "float" -> OkOrError(FloatOf(value))
        [] ty.kind = "bool" -> OkOrError(BoolOf(value))
        [] ty.kind = "string" -> OkOrError(StringOf(value))
        [] ty.kind = "unit" -> OkOrError(UnitOf(value))
        [] ty.kind = "option" /\ Is(value, "null") -> Ok(None)
        [] ty.kind = "option" /\ ~Is(value, "null") ->
             IF inner.ok THEN Ok(Some(inner.value)) ELSE inner
        [] ty.kind = "newtype" -> inner
        [] ty.kind = "seq" -> TypedSeq(ty.item, value)
        [] ty.kind = "tuple" -> TypedTuple(ty.types, value)
        [] ty.kind = "map" -> TypedMap(ty.item, value)
        [] ty.kind = "struct" -> TypedStruct(ty.fields, value)
        [] ty.kind = "enum" -> TypedEnum(ty.variants, value)
-----------------------------------------------------------------------------
(* serde_json::to_value *)

RECURSIVE ToJson(_, _)

FieldsToJson(fields, values) ==
  Obj([name \in {fields[i].name : i \in DOMAIN fields} |->
         LET i == CHOOSE i \in DOMAIN fields : fields[i].name = name
         IN  ToJson(fields[i].ty, values[i])])

VariantToJson(content, value) ==
  IF content.kind = "unit"
  THEN Text(value.variant)
  ELSE Obj([name \in {value.variant} |-> ToJson(content, value.content)])

ToJson(ty, value) ==
  CASE ty.kind = "float" /\ value.float = "inf" -> Null
    [] ty.kind = "option" -> IF value = None THEN Null ELSE ToJson(ty.item, value.some)
    [] ty.kind = "newtype" -> ToJson(ty.item, value)
    [] ty.kind = "seq" -> Arr([i \in DOMAIN value.list |-> ToJson(ty.item, value.list[i])])
    [] ty.kind = "tuple" ->
         Arr([i \in DOMAIN value.list |-> ToJson(ty.types[i], value.list[i])])
    [] ty.kind = "map" ->
         Obj([key \in DOMAIN value.map |-> ToJson(ty.item, value.map[key])])
    [] ty.kind = "struct" -> FieldsToJson(ty.fields, value.list)
    [] ty.kind = "enum" -> VariantToJson(ty.variants[value.variant], value)
    [] OTHER -> value
=============================================================================
