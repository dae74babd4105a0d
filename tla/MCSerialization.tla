--------------------------- MODULE MCSerialization ---------------------------
(* An instance of Serialization and Completeness, with the params of ParamDeserializers. *)
EXTENDS Completeness, ParamDeserializers, FiniteSets, TLC

LOCAL INSTANCE SequencesExt
LOCAL INSTANCE FiniteSetsExt
LOCAL INSTANCE Functions

W(word) == <<word>>

MCMaxInt == 99
MCIntTexts ==
  [t \in {W("0"), W("5"), W("12"), W("+5")} |->
     CASE t = W("0") -> 0 [] t = W("12") -> 12 [] OTHER -> 5]
MCFloatTexts ==
  [t \in {W("0"), W("5"), W("12"), W("+5"), W("250"), W("-1"), W("0.5"), W("1e1"), W("inf")} |->
     CASE t = W("+5") -> "5" [] t = W("1e1") -> "10" [] OTHER -> t[1]]
MCNumberTexts ==
  [t \in {W("0"), W("5"), W("12"), W("250"), W("-1"), W("0.5"), W("1e1")} |->
     CASE t = W("0") -> Integer(0) [] t = W("5") -> Integer(5)
       [] t = W("12") -> Integer(12) [] t = W("250") -> Integer(250)
       [] t = W("-1") -> Integer(-1) [] t = W("0.5") -> Float("0.5")
       [] t = W("1e1") -> Float("10")]
-----------------------------------------------------------------------------
(* Deserializers *)

Serde(ty, expecting) == [kind |-> "serde", ty |-> ty, expecting |-> expecting]
Kind(kind) == [kind |-> kind]
OptionOf(ty) == [kind |-> "option", item |-> ty]
AnInt == Serde(Kind("int"), IntegerType)
AFloat == Serde(Kind("float"), FloatType)
ABool == Serde(Kind("bool"), BoolType)
AString == Serde(Kind("string"), StringType)
Default(de, value) == [kind |-> "default", inner |-> de, default |-> value]
Optional(de) == [kind |-> "optional", inner |-> de, and_then |-> FALSE]
Flattened(de) == [kind |-> "optional", inner |-> de, and_then |-> TRUE]
Repeated(de, length, is_set) ==
  [kind |-> "repeated", inner |-> de, length |-> length, is_set |-> is_set]
Delimited(de) == [kind |-> "delimited", inner |-> de, sep |-> ","]
Entries(keys, values, is_map) ==
  [kind |-> "entries", keys |-> keys, values |-> values, is_map |-> is_map]
Named(de) ==
  [kind |-> "named_entries", inner |-> de, key_name |-> W("name"), value_name |-> W("val")]
DelimitedEntries(de) ==
  [kind |-> "delimited_entries", inner |-> de, sep |-> ",", key_value_sep |-> "="]

\* A number with a unit, as the units of the library.
ASize ==
  [kind |-> "or_string", inner |-> AnInt,
   from_str |-> [t \in {<<"5", "kb">>, W("12")} |->
                   IF t = W("12") THEN Integer(12) ELSE Integer(5)]]

\* Variants in the camel case that they have in Rust, each with its content.
MCUpperOf == [ch \in {"a", "n", "o", "y", "z"} |->
                CASE ch = "a" -> "A" [] ch = "n" -> "N" [] ch = "o" -> "O"
                  [] ch = "y" -> "Y" [] ch = "z" -> "Z"]
NoZoo == <<"N", "o", "Z", "o", "o">>
AnyName == <<"A", "n", "y">>
On == <<"o", "n">>
Point == [kind |-> "struct", fields |-> <<[name |-> W("a"), ty |-> Kind("int")]>>]
ModeWords ==
  [name \in {NoZoo, AnyName, On} |->
     CASE name = NoZoo -> << <<"n", "o">>, <<"z", "o", "o">> >>
       [] name = AnyName -> << <<"a", "n", "y">> >>
       [] name = On -> << <<"o", "n">> >>]
Mode ==
  [kind |-> "enum",
   variants |-> [name \in DOMAIN ModeWords |->
                   CASE name = NoZoo -> Kind("unit")
                     [] name = AnyName -> OptionOf(Kind("int"))
                     [] name = On -> Point]]
AMode == Serde(Mode, StringType \cup ObjectType)

Shape ==
  [kind |-> "struct",
   fields |-> <<[name |-> W("a"), ty |-> Kind("int")],
                [name |-> W("b"), ty |-> OptionOf(Kind("float"))],
                [name |-> W("val"),
                 ty |-> [kind |-> "map", item |-> [kind |-> "newtype", item |-> Kind("bool")]]]>>]
Triple ==
  [kind |-> "tuple", types |-> <<OptionOf(Kind("string")), Kind("unit"), Point>>]

APin == [kind |-> "or_string", inner |-> AnInt,
         from_str |-> [t \in {W("0"), W("5"), W("12")} |-> Integer(MCIntTexts[t])]]

Small == {Integer(0), Integer(5)}
NotEmpty == {Text(W(w)) : w \in {"a", "b", "5", "true", "null"}}

De ==
  [App |-> <<
     AnInt,                                                       \* 1 port
     Optional(AFloat),                                            \* 2 ratio
     Default(AString, Text(W("a"))),                              \* 3 name
     Default(ABool, Bool(FALSE)),                                 \* 4 flag
     Default(Delimited(Repeated(AnInt, AnyLength, FALSE)),
             List(<<Integer(5)>>)),                               \* 5 ports
     Default(Delimited(Repeated(Optional(AnInt), 2, FALSE)),
             List(<<None, None>>)),                               \* 6 range
     Optional(Repeated(AString, AnyLength, TRUE)),                \* 7 features
     Default(Entries(AString, AnInt, TRUE),
             Mapping([k \in {} |-> Null])),                       \* 8 limits
     Optional(Named(Entries(AnInt, Optional(ASize), FALSE))),     \* 9 sizes
     Optional(DelimitedEntries(Entries(AString, ABool, TRUE))),   \* 10 flags
     [kind |-> "validated", inner |-> Optional(AnInt),
      validations |-> <<Small, Small \ {Integer(0)}>>],           \* 11 level
     Flattened([kind |-> "deserialize_if", inner |-> Optional(AString),
                condition |-> NotEmpty]),                         \* 12 url
     Optional([kind |-> "secret_string"]),                        \* 13 token
     Optional([kind |-> "secret",
               inner |-> Delimited(Repeated(Optional(ABool), AnyLength, FALSE))]), \* 14 masks
     Default(ASize, Integer(12)),                                 \* 15 size
     Optional(Repeated(AMode, AnyLength, FALSE)),                 \* 16 modes
     Optional(Serde(Shape, ArrayType \cup ObjectType)),           \* 17 shape
     Optional(Serde(Triple, ArrayType)),                          \* 18 triple
     Optional(AMode)>>,                                           \* 19 mode
   Common |-> <<Default(Serde([kind |-> "seq", item |-> Kind("int")], ArrayType), List(<<>>))>>,
   Db |-> <<AString, Default([kind |-> "secret", inner |-> APin], Integer(0))>>,
   Pool |-> <<Default(AnInt, Integer(5))>>,
   Job |-> <<[kind |-> "tag", expected |-> {W("none"), W("pool")}, default |-> Text(W("none"))],
             Default(AnInt, Integer(0))>>,
   Lists |-> <<Default(AString, Text(W("b")))>>]

ASSUME \A ty \in DOMAIN De : \A i \in DOMAIN De[ty] : Compiles(De[ty][i])

AppParams == <<"port", "ratio", "name", "flag", "ports", "range", "features", "limits",
               "sizes", "flags", "level", "url", "token", "masks", "size", "modes",
               "shape", "triple", "mode">>
Secrets == {<<"App", 13>>, <<"App", 14>>, <<"Db", 2>>}
WithFallback == {<<"App", 3>>}
-----------------------------------------------------------------------------
(* Configs *)

MCTypes == DOMAIN De
MCKey == Range(AppParams) \cup
  {"app", "db", "pool", "job", "kind", "retries", "list", "dsn", "pin", "items", "lists",
   "a", "b", "true", "null", "5", "name", "val", "0", "1", "2"}

Param(index, name) == [kind |-> "param", index |-> index, name |-> W(name)]
Nested(index, name, meta, default) ==
  [kind |-> "nested", index |-> index, name |-> name, meta |-> meta, default |-> default]
NestedOpt(index, name, meta) ==
  [kind |-> "nested_opt", index |-> index, name |-> name, meta |-> meta]
Struct(fields) ==
  [tag |-> NoTagParam, arms |-> [arm \in {NoVariant} |-> fields], validations |-> 0]

LargePool == ConfigOf("Pool", NoVariant, <<Integer(12)>>)
DefaultPool == ConfigOf("Pool", NoVariant, <<Integer(5)>>)

MCCode ==
  [ty \in MCTypes |->
     CASE ty = "App" ->
            Struct([i \in 1..Len(AppParams) |-> Param(i, AppParams[i])]
                     \o <<NestedOpt(1, W("db"), "Db"),
                          Nested(2, <<>>, "Common", NoDefault),
                          Nested(3, W("pool"), "Pool", LargePool),
                          Nested(4, W("job"), "Job", NoDefault)>>)
       [] ty = "Common" -> Struct(<<Param(1, "list"), NestedOpt(1, W("items"), "Pool")>>)
       [] ty = "Db" ->
            Struct(<<Param(1, "dsn"), Param(2, "pin"),
                     Nested(1, W("pool"), "Pool", DefaultPool)>>)
       [] ty = "Pool" -> Struct(<<Param(1, "size")>>)
       [] ty = "Lists" -> Struct(<<Param(1, "name")>>)
       [] ty = "Job" ->
            [tag |-> Param(1, "kind"), validations |-> 0,
             arms |-> [arm \in {"none", "pool"} |->
                         IF arm = "none" THEN <<>>
                         ELSE <<Param(2, "retries"),
                                Nested(1, W("pool"), "Pool", NoDefault)>>]]]

MCConfigs ==
  {[ty |-> "App", prefix |-> W("app"), top_level |-> TRUE],
   [ty |-> "Lists", prefix |-> <<"app", "lists">>, top_level |-> TRUE],
   [ty |-> "Db", prefix |-> <<"app", "db">>, top_level |-> FALSE]}

MCDefaultVariant == [ty \in MCTypes |-> IF ty = "Job" THEN "none" ELSE NoVariant]

TagOf(ty, index) == Code[ty].tag # NoTagParam /\ Code[ty].tag.index = index

\* Functions of whatever they are applied to: TLC evaluates them only there,
\* and keeps no statistics of what is within them.
DeserializedBy == [call \in Any |-> DeserializeParam(call.de, call.value)]
SerializedBy == [call \in Any |-> SerializeParam(call.de, call.value)]

Deserialized(de, value) == DeserializedBy[[de |-> de, value |-> value]]
Serialized(de, value) == SerializedBy[[de |-> de, value |-> value]]

\* A parsed tag is the variant itself.
MCDeParam(ty, index, tree) ==
  LET outcome == Deserialized(De[ty][index], ValueOfTree(tree))
  IN  IF outcome.ok
      THEN [ok |-> TRUE, value |-> IF TagOf(ty, index) THEN outcome.value.text[1]
                                   ELSE outcome.value]
      ELSE [ok |-> FALSE, errors |-> AllErrors(outcome)]

MCSerializedParam(ty, index, value) ==
  TreeOfValue(Serialized(De[ty][index], IF TagOf(ty, index) THEN Text(<<value>>)
                                            ELSE value))

\* default_value_json: that of WithDefault.
MCParamInfo ==
  [ty \in MCTypes |->
     [index \in DOMAIN De[ty] |->
        [default |-> IF De[ty][index].kind = "default"
                     THEN MCSerializedParam(ty, index, De[ty][index].default)
                     ELSE Absent,
         fallback |-> <<ty, index>> \in WithFallback,
         secret |-> <<ty, index>> \in Secrets]]]

MCHolds(ty, n, config) == TRUE
-----------------------------------------------------------------------------
(* Merged sources *)

Scalars ==
  {Null, Bool(TRUE), Integer(5), Integer(250), Integer(-1), Float("0.5"), Arr(<<>>)}
    \cup {Text(W(w)) : w \in {"a", "5", "+5", "-1", "0.5", "1e1", "inf", "true", "null"}}
    \cup {Text(<<>>)}
Lists ==
  {Arr(<<i, j>>) : i, j \in {Integer(5), Text(W("5")), Text(W("a")), Text(<<>>), Null,
                             Text(W("true"))}}
    \cup {Text(W(w) \o <<",">> \o v) :
            w \in {"a", "5", "true", "null"}, v \in {<<>>, W("5"), W("b"), W("true")}}
    \cup {Text(<<"5", ",", "5", ",", "12">>), Text(<<"a", ",", "5", ",", "b">>)}
Maps ==
  {Obj([k \in {W("a"), W("5")} |-> IF k = W("a") THEN v ELSE w]) :
     v, w \in {Integer(5), Text(W("true")), Text(W("a"))}}
    \cup {Text(<<"a", "=">> \o v \o rest) :
            v \in {W("true"), W("5"), <<>>, <<"true", "=", "5">>},
            rest \in {<<>>, <<",", "b">>, <<",", "b", "=", "true">>, <<",", "a", "=", "false">>}}
    \cup {Arr(<<v, w>>) :
            v, w \in {Obj([n \in {W("name"), W("val")} |->
                             IF n = W("name") THEN Integer(5) ELSE Text(<<"5", "kb">>)]),
                      Obj([n \in {W("name")} |-> Text(W("12"))]),
                      Obj([n \in {W("name"), W("val")} |-> Text(W("a"))]),
                      Obj([n \in {W("val")} |-> Integer(5)])}}
Names ==
  {<<"N", "o", "Z", "o", "o">>, <<"n", "o", "_", "z", "o", "o">>, <<"N", "O", "-", "Z", "O", "O">>,
   <<"N", "O", "_", "Z", "O", "O">>, <<"n", "o", "-", "z", "o", "o">>,
   <<"n", "o", "Z", "o", "o">>, <<"n", "o", "z", "o", "o">>, <<"N", "o", "_", "Z", "o", "o">>,
   <<"n", "o", "_", "z", "o", "o", "_">>, <<"_", "o", "n">>, <<"O", "N">>, <<"a", "n", "y">>, <<>>}
ModeLists ==
  {Arr(<<Text(name)>>) : name \in Names}
    \cup {Arr(<<Obj([n \in {name} |-> content]), Text(NoZoo)>>) :
            name \in Names \ {<<>>, <<"_", "o", "n">>, <<"n", "o", "z", "o", "o">>},
            content \in {Null, Integer(5), Integer(-1), Arr(<<Integer(5)>>),
                         Obj([n \in {W("a")} |-> Text(W("5"))])}}
Shapes ==
  {Obj([n \in {W("a"), W("b")} |-> IF n = W("a") THEN v ELSE w]) :
     v \in {Integer(5), Text(W("a"))}, w \in {Null, Text(W("0.5")), Bool(TRUE)}}
    \cup {Obj([n \in {W("a"), W("val"), W("kind")} |->
                 CASE n = W("a") -> v [] n = W("val") -> w [] OTHER -> Arr(<<>>)]) :
            v \in {Integer(5), Integer(-1)},
            w \in {Obj([n \in {W("b")} |-> Text(W("true"))]), Obj([n \in {W("b")} |-> Null]),
                   Null}}
    \cup {Arr(<<u, v, w>>) :
            u \in {Integer(5), Null}, v \in {Null, Integer(5)},
            w \in {Obj([n \in {W("b")} |-> Bool(TRUE)]), Obj([n \in {W("a")} |-> Integer(5)]),
                   Arr(<<Integer(5)>>)}}
    \cup {Arr(<<Integer(5), Null>>), Arr(<<Integer(5), Null, Arr(<<Integer(5)>>), Null>>)}
Few == {Text(<<"5", "kb">>), Text(<<"a", ",", "5">>), Obj([k \in {W("a")} |-> Null]),
        Arr(<<Text(W("a"))>>)}

\* Inputs of the param with this index.
Inputs(i) ==
  Scalars \cup Few
    \cup (IF i \in {5, 6, 7, 14} THEN Lists ELSE {})
    \cup (IF i \in {8, 9, 10} THEN Maps ELSE {})
    \cup (CASE i = 16 -> ModeLists [] i = 19 -> {Text(name) : name \in Names} [] OTHER -> {})
    \cup (IF i \in {17, 18} THEN Shapes ELSE {})

Put(t, path, value) == DeepMerge(t, PlacedAt(path, TreeOfValue(value)))

MCFallbackValues == Put(Single(Object), <<"app", "name">>, Text(W("fb")))

Base == Put(MCFallbackValues, <<"app", "port">>, Integer(5))

OneParam ==
  UNION {{Put(Base, <<"app", AppParams[i]>>, value) : value \in Inputs(i)} :
           i \in DOMAIN AppParams}

At2(path, value) == [path |-> path, value |-> value]
Structure ==
  {At2(<<"app", "name">>, Text(W("a"))),
   At2(<<"app", "list">>, Arr(<<Integer(5)>>)),
   At2(<<"app", "items", "size">>, Integer(5)), At2(<<"app", "items", "size">>, Integer(12)),
   At2(<<"app", "db", "dsn">>, Text(W("a"))), At2(<<"app", "db", "pin">>, Text(W("5"))),
   At2(<<"app", "db", "pool", "size">>, Integer(5)),
   At2(<<"app", "pool", "size">>, Integer(5)), At2(<<"app", "pool", "size">>, Integer(0)),
   At2(<<"app", "job", "kind">>, Text(W("pool"))),
   At2(<<"app", "job", "retries">>, Integer(5)),
   At2(<<"app", "lists", "name">>, Text(W("a"))),
   At2(<<"app", "lists", "name">>, Text(W("b"))),
   At2(<<"app", "lists", "name">>, Arr(<<>>))}

OfParts(base, parts) ==
  FoldLeft(LAMBDA t, part : Put(t, part.path, part.value), base, SetToSeq(parts))

PartsUpTo(n) ==
  {parts \in UNION {kSubset(k, Structure) : k \in 0..n} :
     \A p, q \in parts : p # q => p.path # q.path}

MCRoots ==
  {Marked(t) : t \in OneParam
                 \cup {OfParts(Base, parts) : parts \in PartsUpTo(3)}
                 \cup {OfParts(MCFallbackValues, parts) : parts \in PartsUpTo(1)}}

MCOptionSets ==
  {o \in [diff_with_default : BOOLEAN, flat : BOOLEAN, hide_secrets : BOOLEAN] :
     o.hide_secrets => o.flat /\ ~o.diff_with_default}
-----------------------------------------------------------------------------
(* Parts of values *)

RECURSIVE Unwrapped(_)
Unwrapped(de) ==
  IF de.kind \in {"default", "optional", "secret"} THEN Unwrapped(de.inner) ELSE de

\* The parts of a collection, each as a collection of its own.
PartsAlone(wrapped, value) ==
  LET de == Unwrapped(wrapped)
      items == {[path |-> Index(i), value |-> Arr(<<value.arr[i]>>)] : i \in DOMAIN value.arr}
      entries == {[path |-> k, value |-> Obj([key \in {k} |-> value.obj[key]])] :
                    k \in DOMAIN value.obj}
      pieces(path(_, _)) ==
        LET all == Split(value.text, ",")
        IN  {[path |-> path(i, all[i]), value |-> [value EXCEPT !.text = all[i]]] :
               i \in DOMAIN all}
      keyOf(i, piece) == IF "=" \in Range(piece) THEN SplitOnce(piece, "=")[1] ELSE <<>>
      indexOf(i, piece) == Index(i)
  IN  CASE \/ de.kind = "repeated" /\ Is(value, "arr") /\ de.length = AnyLength
           \/ de.kind = "named_entries" /\ Is(value, "arr") -> items
        [] de.kind = "delimited" /\ Is(value, "text") /\ de.inner.length = AnyLength ->
             pieces(indexOf)
        [] de.kind \in {"entries", "delimited_entries"} /\ Is(value, "obj") -> entries
        [] de.kind = "delimited_entries" /\ Is(value, "text") -> pieces(keyOf)
        [] OTHER -> {}

\* A part of the text, between separators, means null.
HasNullPiece(text) ==
  \E i, j \in 1..(Len(text) + 1) :
    /\ i <= j
    /\ i = 1 \/ text[i - 1] \in {",", "="}
    /\ j = Len(text) + 1 \/ text[j] \in {",", "="}
    /\ IsNullText(SubSeq(text, i, j - 1))
-----------------------------------------------------------------------------
(* Properties *)

\* JSON has no infinite numbers: the param is written as null.
HasInfinity(c, config) ==
  c.ty = "App" /\ config.fields[2] = Some(Float("inf"))

\* canonicalize: "Returns canonical JSON for all configurations contained in
\* the schema, with values filled both from the contained sources and from
\* defaults."  A repository with that JSON as its only source has the same
\* configs, in each form of the JSON and in whatever order they are visited.
CanonicalReparses ==
  /\ status # "panicked"
  /\ status = "read back" /\ ~options.hide_secrets =>
       \A c \in DOMAIN parsed :
         \/ ParseOpt(c) = parsed[c]
         \/ /\ parsed[c] # NoConfig
            /\ \/ HasVanished(c.ty, parsed[c])
               \/ options.flat /\ IsBlank(c.ty, parsed[c])
               \/ HasInfinity(c, parsed[c])

\* The params of the visible configs with their values.
Given ==
  IF status # "idle" THEN {} ELSE
  UNION {{[de |-> De[c.ty][p.index],
            value |-> ValueOfTree(ValueAt(merged, Join(c.prefix, p.name)))] :
            p \in ParamsOf(c.ty)} : c \in Configs}

\* Repeated: the outcome of a collection is that of its parts.  However they
\* are combined, it fails just at the parts that fail on their own, so that
\* all errors are reported at once; and what fails has an error to show.
FailuresReported ==
  \A param \in Given :
  \E parts \in {PartsAlone(param.de, param.value)} :
  \E outcomeOf \in {[value \in {param.value} \cup {part.value : part \in parts} |->
                       Deserialized(param.de, value)]} :
    LET errs    == Range(AllErrors(outcomeOf[param.value]))
        failing == {part \in parts : ~outcomeOf[part.value].ok}
    IN  /\ outcomeOf[param.value].ok <=> errs = {}
        /\ parts # {} =>
             /\ outcomeOf[param.value].ok <=> failing = {}
             /\ \A p \in failing : \E e \in errs : IsPrefix(p.path, e.at)
             /\ \A e \in errs : \E p \in failing : IsPrefix(p.path, e.at)

\* coerce_value_type only spares deserializers the conversion: a text is read
\* as the secret text, which is never coerced, unless a part of it means null.
CoercionAgrees ==
  \A param \in Given :
    IsPlainText(param.value) /\ ~HasNullPiece(param.value.text) =>
      Deserialized(param.de, param.value)
        = Deserialized(param.de, [param.value EXCEPT !.secret = TRUE])

\* What is given for the enum, in the param `mode` and in the list `modes`.
GivenModes ==
  IF status = "idle" THEN {} ELSE
  LET given(i) == ValueOfTree(ValueAt(merged, <<"app", AppParams[i]>>))
      modes == given(16)
  IN  {given(19)} \cup (IF Is(modes, "arr") THEN Range(modes.arr) ELSE {})

HasName(value) ==
  Is(value, "text") \/ (Is(value, "obj") /\ Cardinality(DOMAIN value.obj) = 1)
NameOf(value) ==
  IF Is(value, "text") THEN value.text ELSE CHOOSE k \in DOMAIN value.obj : TRUE
Renamed(value, name) ==
  IF Is(value, "text") THEN [value EXCEPT !.text = name]
  ELSE Obj([k \in {name} |-> value.obj[NameOf(value)]])

Letters(name) == LowerCased(SelectSeq(name, LAMBDA ch : ch \notin Separators))

\* The name of the variant, and its words in snake and kebab case, lower or upper.
SpellingsOf(variant) ==
  LET words == ModeWords[variant]
      joined(sep) == words[1] \o FlattenSeq([i \in DOMAIN Tail(words) |->
                                              <<sep>> \o words[i + 1]])
      lower == {joined(sep) : sep \in Separators}
  IN  {variant} \cup lower \cup {UpperCased(name) : name \in lower}

\* try_match: a variant may be named by its words in any case and with either
\* separator, with the outcome of its own name and the same content, whatever
\* the case in which the other variants are written; and no name is taken for a
\* variant that has other letters.
SpellingsAgree ==
  \A value \in {v \in GivenModes : HasName(v)} :
  \E outcomeOf \in {[name \in {NameOf(value)} \cup DOMAIN ModeWords |->
                       Deserialized(AMode, Renamed(value, name))]} :
    LET outcome == outcomeOf[NameOf(value)]
    IN  /\ outcome.ok => Letters(NameOf(value)) = Letters(outcome.value.variant)
        /\ \A variant \in DOMAIN ModeWords :
             NameOf(value) \in SpellingsOf(variant) =>
               /\ outcome.ok = outcomeOf[variant].ok
               /\ outcome.ok => outcome.value = outcomeOf[variant].value
=============================================================================
