------------------------- MODULE ParamDeserializers -------------------------
(***************************************************************************)
(* The deserializers of params that the library comes with, and how they   *)
(* are combined (de/param.rs, repeated.rs, secret.rs, _private.rs).        *)
(*                                                                         *)
(* A deserializer is a record: its kind, and what it is made of.  It reads *)
(* a value and returns a value of the param, or an error, after it has     *)
(* pushed other errors to the list of the parser.  The error "marker" only *)
(* says that errors have been pushed.                                      *)
(***************************************************************************)
EXTENDS RustTypes

LOCAL INSTANCE SequencesExt
LOCAL INSTANCE Functions
LOCAL INSTANCE FiniteSets
LOCAL INSTANCE TLC

\* Values of params: those of Rust types, and sets.
Set(items) == [set |-> items]

AnyLength == -1

\* The errors of a call, once what it returns has been pushed at its location
\* (DeserializeContext::push_generic_error).
AllErrors(outcome) ==
  IF outcome.ok \/ outcome.error = "marker"
  THEN outcome.pushed
  ELSE Append(outcome.pushed, [category |-> outcome.error, at |-> <<>>])

PushedAt(path, outcome) ==
  [i \in DOMAIN AllErrors(outcome) |->
     [AllErrors(outcome)[i] EXCEPT !.at = Join(path, @)]]

\* Mutant: the first part that fails ends the call.
FirstFailureOnly(parts, value) ==
  IF \A i \in DOMAIN parts : parts[i].outcome.ok
  THEN Ok(value)
  ELSE LET first == CHOOSE i \in DOMAIN parts :
                      /\ ~parts[i].outcome.ok
                      /\ \A j \in 1..(i - 1) : parts[j].outcome.ok
       IN  parts[first].outcome

\* All parts are read, whatever fails, and their errors are pushed.
Combined(parts, value) ==
  IF \A i \in DOMAIN parts : parts[i].outcome.ok
  THEN Ok(value)
  ELSE [ok |-> FALSE, error |-> "marker",
        pushed |-> FlattenSeq([i \in DOMAIN parts |->
                                 PushedAt(parts[i].path, parts[i].outcome)])]

Index(i) == <<ToString(i - 1)>>
-----------------------------------------------------------------------------
(* What is expected: DeserializeParam::EXPECTING *)

RECURSIVE Expecting(_)
Expecting(de) ==
  CASE de.kind = "serde" -> de.expecting
    [] de.kind \in {"default", "optional", "validated", "deserialize_if"} ->
         Expecting(de.inner)
    [] de.kind \in {"or_string", "delimited"} -> Expecting(de.inner) \cup StringType
    [] de.kind = "repeated" -> ArrayType
    [] de.kind = "entries" -> ObjectType
    [] de.kind = "named_entries" -> ObjectType \cup ArrayType
    [] de.kind = "delimited_entries" -> ObjectType \cup StringType
    [] de.kind \in {"tag", "secret", "secret_string"} -> StringType

\* The assertions that are evaluated when a deserializer is compiled.
RECURSIVE Compiles(_)
Compiles(de) ==
  /\ de.kind = "secret" => StringType \subseteq Expecting(de.inner)
  /\ de.kind = "delimited" => ArrayType \subseteq Expecting(de.inner)
  /\ de.kind = "named_entries" => <<>> # de.key_name /\ <<>> # de.value_name
                                 /\ de.key_name # de.value_name
  /\ de.kind = "entries" => \/ StringType \subseteq Expecting(de.keys)
                            \/ IntegerType \subseteq Expecting(de.keys)
  /\ "inner" \in DOMAIN de => Compiles(de.inner)
-----------------------------------------------------------------------------
(* Deserializers of single values *)

\* Serde
DeSerde(de, value) ==
  IF IsSupportedBy(value, de.expecting)
  THEN Typed(de.ty, value)
  ELSE Err("generic")

\* TagDeserializer
DeTag(de, value) ==
  LET name == StringOf(value)
  IN  OkOrError(IF name # NoValue /\ name.text \in de.expected THEN name ELSE NoValue)

\* FromSecretString
DeSecretString(value) ==
  IF Is(value, "text") THEN Ok(Text(value.text)) ELSE Err("generic")
-----------------------------------------------------------------------------
RECURSIVE Deserialize(_, _)

\* A part of the value, with the path of its errors.
Part(de, path, value) ==
  [path |-> path, outcome |-> Deserialize(de, Coerced(value, Expecting(de)))]

Values(parts) == [i \in DOMAIN parts |-> parts[i].outcome.value]

\* Repeated::deserialize_array
DeRepeated(de, value) ==
  IF /\ Is(value, "arr")
     /\ de.length \in {AnyLength, Len(value.arr)}
  THEN LET parts == [i \in DOMAIN value.arr |->
                       Part(de.inner, Index(i), value.arr[i])]
       IN  Combined(parts, IF de.is_set THEN Set(Range(Values(parts)))
                           ELSE List(Values(parts)))
  ELSE Err("generic")

\* Delimited: parts of a secret are secret.
DeDelimited(de, value) ==
  IF Is(value, "text")
  THEN LET parts == Split(value.text, de.sep)
       IN  Deserialize(de.inner, Arr([i \in DOMAIN parts |->
                                        [value EXCEPT !.text = parts[i]]]))
  ELSE Deserialize(de.inner, value)

\* Split::split_once
SplitOnce(text, sep) ==
  LET cut == CHOOSE i \in DOMAIN text :
               text[i] = sep /\ \A j \in 1..(i - 1) : text[j] # sep
  IN  <<SubSeq(text, 1, cut - 1), SubSeq(text, cut + 1, Len(text))>>

\* The collection made of entries, that of a map keeps the last of a key.
CollectedEntries(de, keys, values) ==
  IF de.is_map
  THEN Mapping([key \in Range(keys) |->
                  values[CHOOSE i \in DOMAIN keys :
                           /\ keys[i] = key
                           /\ \A j \in DOMAIN keys : keys[j] = key => j <= i]])
  ELSE List([i \in DOMAIN keys |-> <<keys[i], values[i]>>])

\* The parts of an entry: [path, key, value], or [path, error] if it is none.
EntryParts(de, entry) ==
  IF "error" \in DOMAIN entry
  THEN <<[path |-> entry.path, outcome |-> Err(entry.error)]>>
  ELSE <<Part(de.keys, entry.path, entry.key),
         Part(de.values, entry.path, entry.value)>>

\* Entries::deserialize_map, NamedEntries::deserialize_entries
DeEntrySeq(de, entries) ==
  LET parts == [i \in DOMAIN entries |-> EntryParts(de, entries[i])]
  IN  Combined(FlattenSeq(parts),
               CollectedEntries(de, [i \in DOMAIN parts |-> parts[i][1].outcome.value],
                                    [i \in DOMAIN parts |-> parts[i][2].outcome.value]))

\* The keys of an object in their order.
KeyOrder(entries) == SetToSeq(DOMAIN entries)

\* Entries
DeEntries(de, value) ==
  IF Is(value, "obj")
  THEN LET keys == KeyOrder(value.obj)
       IN  DeEntrySeq(de, [i \in DOMAIN keys |->
                             [path |-> keys[i], key |-> Text(keys[i]),
                              value |-> value.obj[keys[i]]]])
  ELSE Err("generic")

\* NamedEntries::parse_entry: the value may be left out.
NamedEntry(de, path, item) ==
  CASE ~Is(item, "obj") -> [path |-> path, error |-> "generic"]
    [] Is(item, "obj") /\ de.key_name \notin DOMAIN item.obj ->
         [path |-> path, error |-> "missing"]
    [] /\ Is(item, "obj") /\ de.key_name \in DOMAIN item.obj
       /\ Cardinality(DOMAIN item.obj) > 2 ->
         [path |-> path, error |-> "generic"]
    [] OTHER ->
         [path |-> path, key |-> item.obj[de.key_name],
          value |-> IF de.value_name \in DOMAIN item.obj
                    THEN item.obj[de.value_name] ELSE Null]

DeNamedEntries(de, value) ==
  IF Is(value, "arr")
  THEN DeEntrySeq(de.inner, [i \in DOMAIN value.arr |->
                               NamedEntry(de, Index(i), value.arr[i])])
  ELSE DeEntries(de.inner, value)

\* DelimitedEntries: pieces that are no entries are errors of the param.
DeDelimitedEntries(de, value) ==
  IF ~Is(value, "text")
  THEN DeEntries(de.inner, value)
  ELSE LET pieces == Split(value.text, de.sep)
           pairs  == SelectSeq(pieces, LAMBDA piece : Contains(piece, de.key_value_sep))
           others == SelectSeq(pieces, LAMBDA piece : ~Contains(piece, de.key_value_sep))
           key(i)   == SplitOnce(pairs[i], de.key_value_sep)[1]
           entry(i) == [path |-> key(i), key |-> Text(key(i)),
                        value |-> [value EXCEPT !.text =
                                     SplitOnce(pairs[i], de.key_value_sep)[2]]]
       IN  DeEntrySeq(de.inner,
                      [i \in DOMAIN pairs |-> entry(i)]
                        \o [i \in DOMAIN others |-> [path |-> <<>>, error |-> "generic"]])

\* Optional: Option::map, or Option::and_then of the inner deserializer.
DeOptional(de, value) ==
  LET inner == Deserialize(de.inner, value)
  IN  CASE Is(value, "missing") \/ Is(value, "null") -> Ok(None)
        [] OTHER -> IF inner.ok /\ ~de.and_then
                    THEN Ok(Some(inner.value)) ELSE inner

\* OrString
DeOrString(de, value) ==
  IF Is(value, "text")
  THEN IF value.text \in DOMAIN de.from_str
       THEN Ok(de.from_str[value.text]) ELSE Err("generic")
  ELSE Deserialize(de.inner, value)

\* What validations and conditions see: None is not validated.
Checked(value) == IF Is(value, "some") THEN {value.some} ELSE {value} \ {None}

\* Validated: each validation is a set of values.
DeValidated(de, value) ==
  LET inner  == Deserialize(de.inner, value)
      failed == SelectSeq(de.validations, LAMBDA valid : ~(Checked(inner.value) \subseteq valid))
  IN  IF ~inner.ok \/ failed = <<>>
      THEN inner
      ELSE [ok |-> FALSE, error |-> "marker",
            pushed |-> [i \in DOMAIN failed |-> [category |-> "generic", at |-> <<>>]]]

\* DeserializeIf
DeFiltered(de, value) ==
  LET inner == Deserialize(de.inner, value)
  IN  IF inner.ok /\ ~(Checked(inner.value) \subseteq de.condition) THEN Ok(None) ELSE inner

\* A value that is not there.
DeMissing(de) ==
  CASE de.kind = "default" -> Ok(de.default)
    [] de.kind = "tag" /\ de.default # NoValue -> Ok(de.default)
    [] de.kind = "optional" -> DeOptional(de, Missing)
    [] de.kind = "validated" -> DeValidated(de, Missing)
    [] de.kind = "deserialize_if" -> DeFiltered(de, Missing)
    [] de.kind \in {"secret", "delimited", "or_string"} -> Deserialize(de.inner, Missing)
    [] OTHER -> Err("missing")

\* DeserializeParam::deserialize_param
Deserialize(de, value) ==
  IF Is(value, "missing")
  THEN DeMissing(de)
  ELSE CASE de.kind = "serde" -> DeSerde(de, value)
         [] de.kind \in {"default", "secret"} -> Deserialize(de.inner, value)
         [] de.kind = "optional" -> DeOptional(de, value)
         [] de.kind = "or_string" -> DeOrString(de, value)
         [] de.kind = "validated" -> DeValidated(de, value)
         [] de.kind = "deserialize_if" -> DeFiltered(de, value)
         [] de.kind = "repeated" -> DeRepeated(de, value)
         [] de.kind = "delimited" -> DeDelimited(de, value)
         [] de.kind = "entries" -> DeEntries(de, value)
         [] de.kind = "named_entries" -> DeNamedEntries(de, value)
         [] de.kind = "delimited_entries" -> DeDelimitedEntries(de, value)
         [] de.kind = "tag" -> DeTag(de, value)
         [] de.kind = "secret_string" -> DeSecretString(value)

\* deserialize_any_param: the value of a param, coerced to what is expected.
DeserializeParam(de, value) == Deserialize(de, Coerced(value, Expecting(de)))
-----------------------------------------------------------------------------
(* Serialization: DeserializeParam::serialize_param *)

RECURSIVE SerializeParam(_, _)

SerItems(de, items) == Arr([i \in DOMAIN items |-> SerializeParam(de, items[i])])

\* The entries of a collection, in the order of its iterator.
EntriesOf(collection) ==
  IF Is(collection, "list")
  THEN collection.list
  ELSE LET keys == SetToSeq(DOMAIN collection.map)
       IN  [i \in DOMAIN keys |-> <<keys[i], collection.map[keys[i]]>>]

\* Keys become texts, and the last entry with a key is kept.
SerEntries(de, collection) ==
  LET entries == EntriesOf(collection)
      key(i)  == LET k == SerializeParam(de.keys, entries[i][1])
                 IN  IF Is(k, "text") THEN k.text ELSE WordOf(k)
      last(k) == CHOOSE i \in DOMAIN entries :
                   /\ key(i) = k
                   /\ \A j \in DOMAIN entries : key(j) = k => j <= i
  IN  Obj([k \in {key(i) : i \in DOMAIN entries} |->
             SerializeParam(de.values, entries[last(k)][2])])

SerNamedEntries(de, collection) ==
  LET entries == EntriesOf(collection)
  IN  Arr([i \in DOMAIN entries |->
             Obj([name \in {de.key_name, de.value_name} |->
                    IF name = de.key_name
                    THEN SerializeParam(de.inner.keys, entries[i][1])
                    ELSE SerializeParam(de.inner.values, entries[i][2])])])

SerializeParam(de, value) ==
  CASE de.kind = "serde" -> ToJson(de.ty, value)
    [] de.kind \in {"tag", "secret_string"} -> value
    [] de.kind = "optional" ->
         IF value = None THEN Null
         ELSE SerializeParam(de.inner, IF de.and_then THEN value ELSE value.some)
    [] de.kind = "repeated" ->
         SerItems(de.inner, IF de.is_set THEN SetToSeq(value.set) ELSE value.list)
    [] de.kind = "entries" -> SerEntries(de, value)
    [] de.kind = "named_entries" -> SerNamedEntries(de, value)
    [] de.kind = "delimited_entries" -> SerEntries(de.inner, value)
    [] OTHER -> SerializeParam(de.inner, value)
=============================================================================
