---------------------------- MODULE Serialization ----------------------------
(***************************************************************************)
(* ConfigRepository::canonicalize: all top-level configs are parsed from   *)
(* the merged sources and written to one JSON object, through the visitor  *)
(* `Serializer` of visit.rs and the code that the derive macro generates   *)
(* for `VisitConfig`.                                                      *)
(*                                                                         *)
(* A JSON object is a tree; a flat one is a function from full paths to    *)
(* the trees of params.  What serialize_param() writes is a parameter.     *)
(***************************************************************************)
EXTENDS ParsedConfigs

LOCAL INSTANCE SequencesExt
LOCAL INSTANCE FiniteSetsExt

CONSTANTS
  Roots,           \* merged trees
  FallbackValues,  \* the tree that fallbacks provide
  Configs,         \* [ty, prefix, top_level] in the schema
  OptionSets,      \* [diff_with_default, flat, hide_secrets]
  ParamInfo,       \* type -> index -> [default: tree or Absent, fallback, secret]
  DefaultVariant,  \* type -> variant or NoVariant
  SerializedParam(_, _, _)  \* type, index of the param, value -> tree

ASSUME SerializerAssumption ==
  /\ \A t \in Roots : IsTree(t)
  /\ \A c \in Configs : c.ty \in Types /\ c.top_level \in BOOLEAN
  /\ \A ty \in Types, param \in UNION {ParamsOf(t) : t \in Types} :
       param \in ParamsOf(ty) => param.index \in DOMAIN ParamInfo[ty]

VARIABLES
  merged,   \* the merged sources of the repository
  options,  \* SerializerOptions of the call
  todo,     \* configs that are still to be visited
  parsed,   \* top-level configs that have been visited -> what was parsed
  json,     \* the JSON object
  status    \* of the call

vars == <<merged, options, todo, parsed, json, status>>

NoOptions == [none |-> "no options"]

\* parse_opt(), which is the subject of Deserialization.
ParseOpt(c) == Outcome(merged, c.ty, c.prefix, TRUE).value
-----------------------------------------------------------------------------
(* Serializer *)

FieldsOf(ty, config) == Code[ty].arms[config.variant]

Placeholder == Single(Str(<<"placeholder">>))

\* Mutant: fallbacks are forgotten.
DiffersFromDefault(ty, index, value) ==
  \/ ~options.diff_with_default
  \/ ParamInfo[ty][index].default # SerializedParam(ty, index, value)

ShouldInsert(ty, index, value) ==
  \/ ~options.diff_with_default
  \/ ParamInfo[ty][index].fallback
  \/ ParamInfo[ty][index].default # SerializedParam(ty, index, value)

\* Serializer::visit_param: no entry, or the name and the value.
ParamEntry(ty, param, value) ==
  IF ~ShouldInsert(ty, param.index, value)
  THEN <<>>
  ELSE << <<param.name,
            IF options.hide_secrets /\ ParamInfo[ty][param.index].secret
            THEN Placeholder
            ELSE SerializedParam(ty, param.index, value)>> >>

\* Serializer::visit_tag
TagEntry(ty, config) ==
  IF \/ Code[ty].tag = NoTagParam
     \/ options.diff_with_default /\ DefaultVariant[ty] = config.variant
  THEN <<>>
  ELSE << <<Code[ty].tag.name,
            SerializedParam(ty, Code[ty].tag.index, config.variant)>> >>

\* What visit_config() inserts for the config itself: its tag and its params.
OwnEntries(ty, config) ==
  LET fields == FieldsOf(ty, config)
  IN  TagEntry(ty, config)
        \o FlattenSeq([i \in DOMAIN fields |->
                         IF fields[i].kind = "param"
                         THEN ParamEntry(ty, fields[i], config.fields[i])
                         ELSE <<>>])

\* The nested configs that visit_config() visits after that.
NestedIn(ty, config) ==
  LET fields == FieldsOf(ty, config)
  IN  SelectSeq([i \in DOMAIN fields |-> i],
                LAMBDA i : fields[i].kind # "param" /\ config.fields[i] # NoConfig)

Insert(t, name, value) == ExtendMap(t, <<>>, Entry(LastKey(name), value))

\* visit_config() and visit_nested_config() of a serializer with the object t:
\* a nested config is written to an object of its own, which replaces what is
\* there.
RECURSIVE Written(_, _, _)
Written(t, ty, config) ==
  LET fields == FieldsOf(ty, config)
      own    == FoldLeft(LAMBDA obj, e : Insert(obj, e[1], e[2]), t,
                         OwnEntries(ty, config))
      nested(obj, i) == Written(obj, fields[i].meta, config.fields[i])
      visit(obj, i) ==
        CASE fields[i].name = <<>> -> nested(obj, i)
          [] /\ fields[i].name # <<>> /\ options.diff_with_default
             /\ nested(Single(Object), i) = Single(Object) -> obj
          [] OTHER -> Insert(obj, fields[i].name, nested(Single(Object), i))
  IN  FoldLeft(visit, own, NestedIn(ty, config))

\* The same for a flat object: <<full path, value>> of all params.
RECURSIVE WrittenFlat(_, _, _)
WrittenFlat(prefix, ty, config) ==
  LET fields == FieldsOf(ty, config)
      own    == OwnEntries(ty, config)
      nested == NestedIn(ty, config)
  IN  [i \in DOMAIN own |-> <<Join(prefix, own[i][1]), own[i][2]>>]
        \o FlattenSeq([i \in DOMAIN nested |->
             LET field == fields[nested[i]]
             IN  WrittenFlat(Join(prefix, field.name), field.meta,
                             config.fields[nested[i]])])

\* A tree at a path of an otherwise empty tree.
PlacedAt(path, t) ==
  [p \in {<<>>} \cup WithAncestors(path) \cup {Join(path, q) : q \in DOMAIN t} |->
     IF IsPrefix(path, p) THEN t[Relative(path, p)] ELSE Object]

\* merge_json: panics if there is no object on the way.
MergeJson(target, path, t) ==
  IF \E p \in WithAncestors(path) : IsLeafAt(target, p)
  THEN Panicked
  ELSE DeepMerge(target, PlacedAt(path, t))

\* Map::extend with entries of which the last one counts.
Extended(flat, entries) ==
  LET keys == {entries[i][1] : i \in DOMAIN entries}
      last(key) == CHOOSE i \in DOMAIN entries :
                     /\ entries[i][1] = key
                     /\ \A j \in DOMAIN entries : entries[j][1] = key => j <= i
  IN  [key \in DOMAIN flat \cup keys |->
         IF key \in keys THEN entries[last(key)][2] ELSE flat[key]]
-----------------------------------------------------------------------------
(* canonicalize() *)

Init ==
  /\ merged \in Roots
  /\ options = NoOptions
  /\ todo = {}
  /\ parsed = [c \in {} |-> NoConfig]
  /\ json = Absent
  /\ status = "idle"

Canonicalize(o) ==
  /\ status = "idle"
  /\ options' = o
  /\ todo' = Configs
  /\ json' = IF o.flat THEN Absent ELSE Single(Object)
  /\ status' = "running"
  /\ UNCHANGED <<merged, parsed>>

Visit(c) ==
  /\ status = "running"
  /\ c \in todo
  /\ todo' = todo \ {c}
  /\ UNCHANGED <<merged, options>>

\* "The config should be serialized as a part of the parent config."
SkipNested(c) ==
  /\ ~c.top_level
  /\ Visit(c)
  /\ UNCHANGED <<parsed, json, status>>

\* There is no config, or it only misses params.
SkipAbsent(config) ==
  /\ config = NoConfig
  /\ UNCHANGED <<json, status>>

Fail(config) ==
  /\ config = Failed
  /\ status' = "failed"
  /\ UNCHANGED json

MergeTree(c, config) ==
  /\ config \notin {NoConfig, Failed}
  /\ ~options.flat
  /\ \E written \in {Written(Single(Object), c.ty, config)} :
       json' = MergeJson(json, c.prefix, written)
  /\ status' = IF json' = Panicked THEN "panicked" ELSE status

MergeFlat(c, config) ==
  /\ config \notin {NoConfig, Failed}
  /\ options.flat
  /\ \E entries \in {WrittenFlat(c.prefix, c.ty, config)} :
       json' = Extended(json, entries)
  /\ UNCHANGED status

VisitTopLevel(c) ==
  /\ c.top_level
  /\ Visit(c)
  /\ \E config \in {ParseOpt(c)} :
       /\ parsed' = [d \in DOMAIN parsed \cup {c} |-> IF d = c THEN config ELSE parsed[d]]
       /\ \/ SkipAbsent(config)
          \/ Fail(config)
          \/ MergeTree(c, config)
          \/ MergeFlat(c, config)

Finish ==
  /\ status = "running" /\ todo = {}
  /\ status' = "done"
  /\ UNCHANGED <<merged, options, todo, parsed, json>>
-----------------------------------------------------------------------------
(* The canonical JSON as the only source of a new repository *)

\* The keys of a flat object are paths.
AsSource ==
  IF options.flat
  THEN FoldSet(LAMBDA path, t : DeepMerge(t, PlacedAt(path, json[path])),
               Single(Object), DOMAIN json)
  ELSE json

\* mark_secrets
SecretPaths ==
  UNION {{Join(c.prefix, param.name) :
            param \in {p \in ParamsOf(c.ty) : ParamInfo[c.ty][p.index].secret}} :
           c \in Configs}

Marked(t) ==
  LET secrets == SecretPaths
  IN  [path \in DOMAIN t |->
         IF path \in secrets /\ t[path].kind = "string"
         THEN [t[path] EXCEPT !.secret = TRUE]
         ELSE t[path]]

ReadBack ==
  /\ status = "done"
  /\ \E source \in {AsSource} :
       merged' = Marked(DeepMerge(FallbackValues, source))
  /\ status' = "read back"
  /\ UNCHANGED <<options, todo, parsed, json>>

Next ==
  \/ \E o \in OptionSets : Canonicalize(o)
  \/ \E c \in Configs : SkipNested(c)
  \/ \E c \in Configs : VisitTopLevel(c)
  \/ Finish
  \/ ReadBack

Spec == Init /\ [][Next]_vars
-----------------------------------------------------------------------------
\* A config of which nothing is written: all it has are defaults.
IsBlank(ty, config) == WrittenFlat(<<>>, ty, config) = <<>>

\* A config within this one is not read back: it is blank, in a place where
\* no config, or another one, is the default.
RECURSIVE HasVanished(_, _)
HasVanished(ty, config) ==
  \E i \in DOMAIN FieldsOf(ty, config) :
    LET field == FieldsOf(ty, config)[i]
        inner == config.fields[i]
    IN  /\ field.kind # "param"
        /\ inner # NoConfig
        /\ \/ HasVanished(field.meta, inner)
           \/ /\ IsBlank(field.meta, inner)
              /\ field.kind = "nested" => field.default \notin {NoDefault, inner}
=============================================================================
