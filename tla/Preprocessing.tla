--------------------------- MODULE Preprocessing ---------------------------
(***************************************************************************)
(* What happens to a configuration source before it is merged into a       *)
(* repository: `WithOrigin::preprocess_source` and `nest_kvs` of           *)
(* source/mod.rs.  Every pass is an operator on the tree of the source; it *)
(* reads the schema, whose state is that of ConfigSchema.                  *)
(*                                                                         *)
(* A key is a sequence of words: "pool_size" is <<"pool", "size">>, so     *)
(* that stripping a prefix of a name and the key-value form of a path (its *)
(* dots replaced by underscores) are operations on words.                  *)
(*                                                                         *)
(* The passes visit configs in the order of the schema's maps: by the      *)
(* prefix, and for one prefix in an order (that of a HashMap) which is an  *)
(* input here, a sequence of <<prefix, type>>.  A loop is an instance of   *)
(* Visiting for its body.                                                  *)
(***************************************************************************)
EXTENDS ConfigSchema, ValueTree

LOCAL INSTANCE SequencesExt

CONSTANTS
  Word,     \* words of keys
  Index,    \* word -> number, for the words that are decimal numbers
  Rank      \* word -> its place in the order of texts, for the same words

ASSUME WordsAssumption ==
  /\ Key \subseteq Seq(Word) \ {<<>>}
  /\ DOMAIN Index \subseteq Word
  /\ \A w \in DOMAIN Index : Index[w] \in Nat /\ Rank[w] \in Nat

ParamKey(param) == param.name[1]

\* WithOrigin::strip_prefix: the suffixes `s` such that `name`_`s` is a key
\* of the object at `at`.
SuffixesAt(t, at, name) ==
  {Relative(name, key) : key \in {k \in ChildKeys(t, at) :
                                    IsStrictPrefix(name, k)}}

\* The key-value form of a path.
Words(path) == FlattenSeq(path)
-----------------------------------------------------------------------------
(* copy_aliased_values *)

\* All paths of the param, in the order they are tried.
SourcesOfParam(paths, param) ==
  [j \in DOMAIN paths |-> [param |-> param, path |-> paths[j].path]]

\* Those of all params of the config.
AliasSources(key) ==
  LET params == Meta[key[2]].params
  IN  FlattenSeq([i \in DOMAIN params |->
        SourcesOfParam(AllPathsForChild(configs[key], params[i]), params[i])])

\* The location of a value: the path itself, or with a suffix of the param
\* appended to the name.
Suffixed(path, suffix) == Append(ParentOf(path), LastKey(path) \o suffix)

\* The values that the source has at these paths.
AliasedValues(t, sources) ==
  UNION {{[rank |-> k, key |-> ParamKey(sources[k].param) \o s,
           at |-> Suffixed(sources[k].path, s)] :
            s \in {s \in {<<>>} \cup sources[k].param.suffixes :
                     Suffixed(sources[k].path, s) \in DOMAIN t}} :
           k \in {k \in DOMAIN sources : sources[k].path # NoPath}}

FirstFor(values, k) ==
  CHOOSE v \in values :
    v.key = k /\ \A w \in values : w.key = k => v.rank <= w.rank

\* Mutant: moves the values instead of copying them.
MoveMissing(t, prefix, values, missing) ==
  LET copied == ExtendMap(EnsureObject(t, prefix), prefix,
                  [k \in missing |-> Sub(t, FirstFor(values, k).at)])
  IN  [path \in {p \in DOMAIN copied :
                   \A v \in values : v.key \in missing => ~IsPrefix(v.at, p)} |->
         copied[path]]

\* The first value for each of these keys, inserted at the config.
CopyMissing(t, prefix, values, missing) ==
  ExtendMap(EnsureObject(t, prefix), prefix,
            [k \in missing |-> Sub(t, FirstFor(values, k).at)])

\* "param paths are never empty": an alias of a param may climb to the root.
LeadsToRoot(sources) == \E k \in DOMAIN sources : sources[k].path = <<>>

\* copy_aliases_for_config, and the insertion of what it returns.
CopyAliasesFor(t, key) ==
  LET sources == AliasSources(key)
      values  == AliasedValues(t, sources)
      missing == {v.key : v \in values} \ ChildKeys(t, key[1])
  IN  IF t = Panicked \/ IsLeafAt(t, key[1]) THEN t
      ELSE IF LeadsToRoot(sources) THEN Panicked
      ELSE IF missing = {} THEN t
      ELSE CopyMissing(t, key[1], values, missing)

Copying == INSTANCE Visiting WITH Step <- CopyAliasesFor

CopyAliasedValues(t, order) == Copying!Visit(t, order)
-----------------------------------------------------------------------------
(* mark_secrets *)

\* Mutant: top-level configs only.
TopLevelSecretPaths ==
  UNION {{Join(key[1], Meta[key[2]].params[i].name) :
            i \in {i \in DOMAIN Meta[key[2]].params :
                     Meta[key[2]].params[i].secret}} :
           key \in {k \in DOMAIN configs : configs[k].top}}

SecretPaths ==
  UNION {{Join(key[1], Meta[key[2]].params[i].name) :
            i \in {i \in DOMAIN Meta[key[2]].params :
                     Meta[key[2]].params[i].secret}} :
           key \in DOMAIN configs}

MarkSecrets(t) ==
  [path \in DOMAIN t |->
     IF path \in SecretPaths /\ t[path].kind = "string"
     THEN [kind |-> "string", data |-> t[path].data, secret |-> TRUE]
     ELSE t[path]]
-----------------------------------------------------------------------------
(* convert_serde_enums *)

\* Mutant: the canonical location only.
CanonicalMapOf(t, key) ==
  SelectSeq(<<key[1]>>, LAMBDA path : IsObjectAt(t, path))

\* The objects at the canonical location of the config and at its aliases.
MapsOf(t, key) ==
  SelectSeq([i \in DOMAIN configs[key].paths |-> configs[key].paths[i].path],
            LAMBDA path : IsObjectAt(t, path))

VariantFields(tag) == UNION {ToSet(tag.variants[i].fields) :
                               i \in DOMAIN tag.variants}

\* detect_serde_enum_variant: the variants to choose from; there is none if
\* fields of several names are present or the content is not an object.
DetectedVariants(t, key, tag) ==
  LET maps == MapsOf(t, key)
      present == {field \in VariantFields(tag) :
                    \E i \in DOMAIN maps : field \in ChildKeys(t, maps[i])}
      last(field) == maps[CHOOSE i \in DOMAIN maps :
                            /\ field \in ChildKeys(t, maps[i])
                            /\ \A j \in DOMAIN maps :
                                 field \in ChildKeys(t, maps[j]) => j <= i]
  IN  IF \E field \in present :
           /\ present = {field}
           /\ IsObjectAt(t, Append(last(field), field))
      THEN {i \in DOMAIN tag.variants :
              ToSet(tag.variants[i].fields) \cap present # {}}
      ELSE {}

\* Inserts the tag of the detected variant unless there is one.
ConvertSerdeEnum(t, key) ==
  LET tag == Meta[key[2]].tag
      variants == IF tag = NoTag THEN {} ELSE DetectedVariants(t, key, tag)
      chosen == tag.variants[CHOOSE i \in variants :
                               \A j \in variants : j <= i]
  IN  IF \/ t = Panicked
         \/ ~configs[key].coerce
         \/ variants = {}
         \/ tag.param \in ChildKeys(t, key[1])
      THEN t
      ELSE LET ensured == EnsureObject(t, key[1])
           IN  IF ensured = Panicked
               THEN Panicked
               ELSE ExtendMap(ensured, key[1],
                              Entry(tag.param, Single(Str(chosen.name))))

Converting == INSTANCE Visiting WITH Step <- ConvertSerdeEnum

ConvertSerdeEnums(t, order) == Converting!Visit(t, order)
-----------------------------------------------------------------------------
(* nest_object_params_and_sub_configs *)

\* The children that collect prefixed fields, with the suffixes they take.
NestingChildren(key) ==
  LET meta == Meta[key[2]]
  IN  {[key |-> ParamKey(meta.params[i]), suffixes |-> meta.params[i].suffixes] :
         i \in {i \in DOMAIN meta.params : meta.params[i].suffixes # {}}}
      \cup
      {[key |-> meta.nested[i].name[1], suffixes |-> Key] :
         i \in {i \in DOMAIN meta.nested : meta.nested[i].name # <<>>}}

NestObjectsFor(t, key) ==
  LET prefix == key[1]
      target(child) == Append(prefix, child.key)
      matching(child) == (SuffixesAt(t, prefix, child.key) \cap child.suffixes)
                           \ ChildKeys(t, target(child))
      filled == {child \in NestingChildren(key) :
                   ~IsLeafAt(t, target(child)) /\ matching(child) # {}}
      field(child, s) == Sub(t, Append(prefix, child.key \o s))
      value(child) ==
        ExtendMap(IF target(child) \in DOMAIN t
                  THEN Sub(t, target(child)) ELSE Single(Object),
                  <<>>, [s \in matching(child) |-> field(child, s)])
  IN  IF t = Panicked \/ filled = {}
      THEN t
      ELSE ExtendMap(t, prefix,
             [k \in {child.key : child \in filled} |->
                value(CHOOSE child \in filled : child.key = k)])

NestingObjects == INSTANCE Visiting WITH Step <- NestObjectsFor

NestObjects(t, order) == NestingObjects!Visit(t, order)
-----------------------------------------------------------------------------
(* nest_array_params *)

\* The items of the param in the config at the prefix: the fields that are its
\* name and a number.
ItemWords(t, site) ==
  {s[1] : s \in {s \in SuffixesAt(t, site.prefix, ParamKey(site.param)) :
                   Len(s) = 1 /\ s[1] \in DOMAIN Index}}

\* The fields are in the order of texts; of "0" and "00" the last one is left.
ItemAt(t, site, n) ==
  LET spelled == {w \in ItemWords(t, site) : Index[w] = n}
      last == CHOOSE w \in spelled : \A v \in spelled : Rank[v] <= Rank[w]
  IN  t[Append(site.prefix, ParamKey(site.param) \o <<last>>)]

TakesItems(t, site) ==
  /\ t # Panicked
  /\ IsObjectAt(t, site.prefix)
  /\ "array" \in site.param.expecting /\ "object" \notin site.param.expecting
  /\ ParamKey(site.param) \notin ChildKeys(t, site.prefix)

\* The array of the items with these numbers, in this order.
WithItems(t, site, numbers) ==
  ExtendMap(t, site.prefix, Entry(ParamKey(site.param),
    Single(Array(FlattenSeq([i \in DOMAIN numbers |->
                               ItemAt(t, site, numbers[i]).data])))))

\* Mutant: gaps between the numbers are closed.
NestArrayParamWithGaps(t, site) ==
  LET numbers == {Index[w] : w \in ItemWords(t, site)}
  IN  IF TakesItems(t, site) /\ numbers # {}
      THEN WithItems(t, site, SetToSortSeq(numbers, <))
      ELSE t

\* For a param in the config at the prefix.
NestArrayParam(t, site) ==
  LET numbers == {Index[w] : w \in ItemWords(t, site)}
      count == Cardinality(numbers)
  IN  IF TakesItems(t, site) /\ numbers # {} /\ numbers = 0..(count - 1)
      THEN WithItems(t, site, [i \in 1..count |-> i - 1])
      ELSE t

NestingArrays == INSTANCE Visiting WITH Step <- NestArrayParam

ParamSites(key) ==
  LET params == Meta[key[2]].params
  IN  [i \in DOMAIN params |-> [prefix |-> key[1], param |-> params[i]]]

NestArrays(t, order) ==
  NestingArrays!Visit(t, FlattenSeq([i \in DOMAIN order |-> ParamSites(order[i])]))
-----------------------------------------------------------------------------
(* collect_garbage *)

\* ConfigSchema::contains_canonical_param
CanonicalPaths ==
  {path \in DOMAIN mounts :
     mounts[path].kind = "param" /\ mounts[path].canonical}

\* ConfigRepository's prefixes_for_canonical_configs
ConfigAncestors ==
  {<<>>} \cup UNION {WithAncestors(key[1]) : key \in DOMAIN configs}

\* Mutant: everything below a config.
AllTerminals(t) == DOMAIN t \cap (CanonicalPaths \cup ConfigAncestors)

\* Where the walk from the root ends with something to retain: canonical
\* params, and non-objects where a config or an ancestor of one should be.
Terminals(t) ==
  {path \in DOMAIN t :
     /\ \/ path \in CanonicalPaths
        \/ path \in ConfigAncestors /\ IsLeafAt(t, path)
     /\ \A p \in ({<<>>} \cup WithAncestors(path)) \ {path} :
          p \in ConfigAncestors \ CanonicalPaths}

\* The terminals, what is below them and what is above.
Retained(t, terminals) ==
  {p \in DOMAIN t :
     \/ p = <<>>
     \/ \E end \in terminals : IsPrefix(p, end) \/ IsPrefix(end, p)}

CollectGarbage(t) ==
  IF t = Panicked THEN Panicked
  ELSE [path \in Retained(t, Terminals(t)) |-> t[path]]
-----------------------------------------------------------------------------
(* nest_kvs *)

\* Mutant: one reading of the key, the deepest.
DeepestKvTarget(key) ==
  LET paths == {path \in DOMAIN mounts :
                  mounts[path].kind = "param" /\ Words(path) = key}
      deepest == CHOOSE path \in paths : \A p \in paths : Len(p) <= Len(path)
  IN  IF paths = {} THEN {} ELSE {<<ParentOf(deepest), LastKey(deepest)>>}

\* The locations <<parent, field>> an entry of a flat source is copied to:
\* those of the params at the key, of object params at a prefix of it, and
\* of array params if the rest is an index.
KvTargets(key) ==
  {<<ParentOf(path), Relative(Words(ParentOf(path)), key)>> : path \in
     {path \in DOMAIN mounts \ {<<>>} :
        /\ mounts[path].kind = "param"
        /\ IsPrefix(Words(path), key)
        /\ \/ Words(path) = key
           \/ "object" \in mounts[path].expecting
           \/ /\ "array" \in mounts[path].expecting
              /\ Len(key) = Len(Words(path)) + 1
              /\ key[Len(key)] \in DOMAIN Index}}

\* copy_kv_entry
CopyKvEntry(t, entry) ==
  LET ensured == EnsureObject(t, entry.parent)
  IN  IF t = Panicked \/ ensured = Panicked
      THEN Panicked
      ELSE ExtendMap(ensured, entry.parent, Entry(entry.field, entry.value))

CopyingKvs == INSTANCE Visiting WITH Step <- CopyKvEntry

\* The copies of an entry; they do not get into each other's way.
KvEntries(kvs, key) ==
  LET targets == CHOOSE s \in SetToSeqs(KvTargets(key)) : TRUE
  IN  [i \in DOMAIN targets |-> [parent |-> targets[i][1],
                                 field  |-> targets[i][2],
                                 value  |-> Sub(kvs, <<key>>)]]

\* The map of a flat source is sorted, so that a key comes after its
\* prefixes; other keys do not get into each other's way.
NestKvs(kvs) ==
  LET keys == CHOOSE s \in SetToSeqs(ChildKeys(kvs, <<>>)) :
                \A i, j \in DOMAIN s : i <= j => Len(s[i]) <= Len(s[j])
  IN  CopyingKvs!Visit(Single(Object),
        FlattenSeq([i \in DOMAIN keys |-> KvEntries(kvs, keys[i])]))
-----------------------------------------------------------------------------
\* ConfigRepository::insert_inner: flat sources are nested first.
NestedForm(source) ==
  IF source.flat THEN NestKvs(source.contents) ELSE source.contents

\* preprocess_source
Preprocess(source, order, byDepthOrder) ==
  LET marked    == MarkSecrets(CopyAliasedValues(NestedForm(source), order))
      converted == ConvertSerdeEnums(marked, byDepthOrder)
  IN  CollectGarbage(NestArrays(NestObjects(converted, order), order))
=============================================================================
