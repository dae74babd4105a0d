-------------------------- MODULE ConfigRepository --------------------------
(***************************************************************************)
(* The configuration repository (`ConfigRepository` of source/mod.rs):     *)
(* opened on a schema, it takes sources one after another, preprocesses    *)
(* each and merges it over what it has.                                    *)
(*                                                                         *)
(* The schema is built first (the actions of ConfigSchema); the repository *)
(* borrows it, so that it does not change any more.                        *)
(***************************************************************************)
EXTENDS Preprocessing

LOCAL INSTANCE SequencesExt

CONSTANTS
  PrefixOrder, \* canonical prefixes, in the order of the schema's map
  Sources,     \* sources: [contents : tree, flat : BOOLEAN]
  Provided,    \* sets of paths of params whose fallbacks provide a value
  MaxSources   \* bound: number of sources

ASSUME RepositoryAssumption ==
  /\ PrefixOrder \in Seq(Path(Key))
  /\ \A source \in Sources :
       /\ TreeOver(Seq(Word), source.contents) /\ source.contents[<<>>] = Object
       /\ source.flat \in BOOLEAN
       /\ source.flat => IsFiniteSet(DOMAIN source.contents)
  /\ \A provided \in Provided : IsFiniteSet(provided)
  /\ MaxSources \in Nat

VARIABLES
  status,        \* "none", "open", "panicked"
  order,         \* iteration order of iter_ll() for the schema
  byDepthOrder,  \* iteration order of iter()
  sources,       \* [params: number of params in it, source, layer]; the
                 \* code does not keep the source and what became of it
  merged         \* the merged tree

repo == <<status, order, byDepthOrder, sources, merged>>
allVars == <<vars, repo>>
-----------------------------------------------------------------------------
\* What one gets by going through the prefixes in the order of the map, with
\* one of these sequences for each.
Chained(choices) ==
  {FlattenSeq(f) :
     f \in {f \in [DOMAIN choices -> UNION {choices[i] : i \in DOMAIN choices}] :
              \A i \in DOMAIN choices : f[i] \in choices[i]}}

\* ConfigSchema::iter_ll: the configs at one prefix are in no order.
Orders ==
  Chained([i \in DOMAIN PrefixOrder |->
             SetToSeqs({key \in DOMAIN configs : key[1] = PrefixOrder[i]})])

\* ConfigSchema::iter: for one prefix and depth in the order of type ids.
ByDepthOrders ==
  {[i \in DOMAIN s |-> <<s[i][1], s[i][3]>>] : s \in
     Chained([k \in DOMAIN PrefixOrder |->
                {s \in SetToSeqs({e \in byDepth : e[1] = PrefixOrder[k]}) :
                   \A i, j \in DOMAIN s : i <= j => s[i][2] <= s[j][2]}])}

\* Bound: the prefixes of all configs are in the given order.
PrefixesListed ==
  \A key \in DOMAIN configs : \E k \in DOMAIN PrefixOrder : PrefixOrder[k] = key[1]

\* Fallbacks: the params with a fallback that currently provides a value.
FallbackPaths(provided) ==
  {path \in provided :
     \E key \in DOMAIN configs : \E i \in DOMAIN Meta[key[2]].params :
       /\ Meta[key[2]].params[i].fallback
       /\ path = Join(key[1], Meta[key[2]].params[i].name)}

\* Fallbacks::into_contents, for one order of its map.
FallbackContents(paths) ==
  CopyingKvs!Visit(Single(Object),
    [i \in DOMAIN paths |-> [parent |-> ParentOf(paths[i]),
                             field  |-> LastKey(paths[i]),
                             value  |-> Single(Str(<<"fallback">>))]])

\* Mutant: what is there wins.
MergeBelow(overrides) == Merge(overrides, merged, CanonicalPaths)

\* Mutant: params are merged field by field.
MergeFields(overrides) == Merge(merged, overrides, {})

\* guided_merge
GuidedMerge(overrides) == Merge(merged, overrides, CanonicalPaths)
-----------------------------------------------------------------------------
RepoInit ==
  /\ Init
  /\ status = "none"
  /\ order = <<>>
  /\ byDepthOrder = <<>>
  /\ sources = <<>>
  /\ merged = Single(Object)

\* Any operation on the schema, before it is borrowed.
ChangeSchema ==
  /\ status = "none"
  /\ Next
  /\ UNCHANGED repo

\* ConfigRepository::insert_inner; the repository is gone after a panic.
InsertSource(source, tree) ==
  \/ /\ tree # Panicked
     /\ status' = "open"
     /\ sources' = Append(sources,
                          [source |-> source, layer |-> tree,
                           params |-> Cardinality(Terminals(tree))])
     /\ merged' = GuidedMerge(tree)
  \/ /\ tree = Panicked
     /\ status' = "panicked"
     /\ UNCHANGED <<sources, merged>>

\* ConfigRepository::new on a schema without fallbacks that provide a value.
New(provided) ==
  /\ status = "none" /\ call = Idle /\ PrefixesListed
  /\ FallbackPaths(provided) = {}
  /\ order' \in Orders
  /\ byDepthOrder' \in ByDepthOrders
  /\ status' = "open"
  /\ UNCHANGED <<vars, sources, merged>>

\* ConfigRepository::new: the fallbacks become the first source.
NewWithFallbacks(provided) ==
  /\ status = "none" /\ call = Idle /\ PrefixesListed
  /\ FallbackPaths(provided) # {}
  /\ order' \in Orders
  /\ byDepthOrder' \in ByDepthOrders
  /\ \E paths \in SetToSeqs(FallbackPaths(provided)) :
       LET source == [contents |-> FallbackContents(paths), flat |-> FALSE]
       IN  InsertSource(source, Preprocess(source, order', byDepthOrder'))
  /\ UNCHANGED vars

\* ConfigRepository::with (and every iteration of with_all).
With(source) ==
  /\ status = "open"
  /\ Len(sources) < MaxSources
  /\ InsertSource(source, Preprocess(source, order, byDepthOrder))
  /\ UNCHANGED <<vars, order, byDepthOrder>>

RepoNext ==
  \/ ChangeSchema
  \/ \E provided \in Provided : New(provided)
  \/ \E provided \in Provided : NewWithFallbacks(provided)
  \/ \E source \in Sources : With(source)

RepoSpec == RepoInit /\ [][RepoNext]_allVars
-----------------------------------------------------------------------------
(* Properties *)

\* The repository holds a tree, also after the preprocessing has moved,
\* replaced and dropped parts of the sources, and nothing panicked.
RepoTypeOK ==
  /\ status \in {"none", "open", "panicked"}
  /\ IsTree(merged) /\ merged[<<>>] = Object
  /\ \A i \in DOMAIN sources : sources[i].params \in Nat

NewestSource == sources[Len(sources)].source
NewestLayer == IF sources = <<>> THEN Single(Object)
               ELSE sources[Len(sources)].layer

LayerValues(t) == [site \in Terminals(t) |-> Sub(t, site)]

\* A repository is a stack of layers: params are replaced as a whole, by the
\* newest source that gives a value, and nothing else is touched.
Layered ==
  INSTANCE LayeredConfig WITH
    Site   <- Path(Key),
    values <- LayerValues(merged),
    newest <- LayerValues(NewestLayer)

ImplementsLayers == Layered!Spec

\* The params of the schema, with their canonical paths.
Params ==
  UNION {{[key |-> key, param |-> Meta[key[2]].params[i],
           path |-> Join(key[1], Meta[key[2]].params[i].name)] :
            i \in DOMAIN Meta[key[2]].params} : key \in DOMAIN configs}

ParamsInSchema == {p.path : p \in Params}

\* collect_garbage: "Removes all values that do not correspond to canonical
\* params or their ancestors."  Only a non-object where a config or one of
\* its ancestors should be stays, too, with what is above it.
NoGarbage ==
  \A path \in DOMAIN merged \ {<<>>} :
    \/ \E p \in ParamsInSchema : IsPrefix(p, path) \/ IsPrefix(path, p)
    \/ \E q \in ConfigAncestors : IsLeafAt(merged, q) /\ IsPrefix(path, q)

\* ConfigRepository: "Values corresponding to secret params are wrapped in
\* opaque, zero-on-drop wrappers."
SecretsWrapped ==
  \A p \in Params :
    p.param.secret /\ p.path \in DOMAIN merged
      /\ merged[p.path].kind = "string" => merged[p.path].secret

\* `got` has the value `given`: the same if that is no object, and at least
\* the same fields if it is one.
Carries(got, given) ==
  \A path \in DOMAIN given :
    /\ path \in DOMAIN got
    /\ got[path].kind = given[path].kind /\ got[path].data = given[path].data

\* The param is the only one at its path, and no other param, or a part of
\* one, is at one of its aliases: no value appears there while the source is
\* processed.
Independent(p) ==
  /\ \A q \in Params : q.path = p.path => q = p
  /\ \A path \in ParamPaths(configs[p.key], p.param) \ {p.path} :
       \A q \in ParamsInSchema : ~IsPrefix(path, q) /\ ~IsPrefix(q, path)

\* Where the passes may put values of a param: its path, and that with one of
\* its suffixes.
ValueSites(p) == {p.path} \cup {Suffixed(p.path, s) : s \in p.param.suffixes}

Related(path1, path2) == IsPrefix(path1, path2) \/ IsPrefix(path2, path1)

\* No value of another param gets to a path of this one, above or below.
Undisturbed(p) ==
  \A q \in Params \ {p} : \A site \in ValueSites(q) :
    \A path \in {p.path} \cup ParamPaths(configs[p.key], p.param) :
      ~Related(path, site)

\* ConfigRepository: "The new source has higher priority and will overwrite
\* values defined in old sources, including via parameter aliases."  Whatever
\* other params it gives, and in whatever order configs are visited, a value
\* of a hierarchical source at the best path of a param is the one that one
\* reads from the repository.  It is not at a config that is no object; if
\* there are configs at or below the path of the param, objects are made there,
\* and a value that comes from an alias needs the param to be undisturbed.
NewestSourceWins ==
  (sources # <<>> /\ ~NewestSource.flat) =>
    \A p \in Params :
      LET contents == NewestSource.contents
          paths    == AllPathsForChild(configs[p.key], p.param)
          given    == {i \in DOMAIN paths :
                         paths[i].path \in DOMAIN contents \ {NoPath}}
          best     == CHOOSE i \in given : \A j \in given : i <= j
      IN  (/\ given # {}
           /\ p.path \notin ConfigAncestors
           /\ p.path \in DOMAIN contents \/ Undisturbed(p)
           /\ \A path \in WithAncestors(p.path) \ {p.path} :
                ~IsLeafAt(contents, path))
          => Carries(Sub(merged, p.path), Sub(contents, paths[best].path))

\* The same for flat sources: an entry whose name is that of a param reaches
\* the param, also if the name has other readings; unless there are configs or
\* other params below the param.
NewestEntryWins ==
  (sources # <<>> /\ NewestSource.flat) =>
    \A p \in Params :
      LET contents == NewestSource.contents
          name     == Words(p.path)
      IN  (/\ <<name>> \in DOMAIN contents
           /\ p.path \notin ConfigAncestors
           /\ \A path \in DOMAIN mounts :
                mounts[path].kind = "param" => ~IsStrictPrefix(p.path, path))
          => Carries(Sub(merged, p.path), Sub(contents, <<name>>))

\* nest_array_params: "a source with values at `test.param_0`, `test.param_1`,
\* `test.param_2` (and no `test.param`)".  If the numbers of the entries leave no
\* gap, the param becomes the array of them, each at the place its number says,
\* however many spellings of the number there are (the last one is taken), and
\* whatever the order of their names; else the source gives no value for the
\* param, and what older ones gave stays.
ItemsInOrder ==
  (sources # <<>> /\ NewestSource.flat) =>
    \A p \in {q \in Params : "array" \in q.param.expecting
                               /\ "object" \notin q.param.expecting} :
      LET contents    == NewestSource.contents
          name(w)     == <<Words(p.path) \o <<w>>>>
          items       == {w \in DOMAIN Index : name(w) \in DOMAIN contents}
          numbers     == {Index[w] : w \in items}
          count       == Cardinality(numbers)
          last(w)     == \A v \in items : Index[v] = Index[w] => Rank[v] <= Rank[w]
          givenWhole  == \E path \in ParamPaths(configs[p.key], p.param) :
                           <<Words(path)>> \in DOMAIN contents
      IN  (items # {} /\ ~givenWhole /\ p.path \notin ConfigAncestors
             /\ Undisturbed(p))
          => IF numbers = 0..(count - 1)
             THEN /\ p.path \in DOMAIN NewestLayer
                  /\ NewestLayer[p.path].kind = "array"
                  /\ Len(NewestLayer[p.path].data) = count
                  /\ \A w \in {v \in items : last(v)} :
                       <<NewestLayer[p.path].data[Index[w] + 1]>>
                         = contents[name(w)].data
             ELSE p.path \notin DOMAIN NewestLayer

\* What becomes of a source does not depend on the order of configs at the
\* same prefix, which may differ between any two runs of the program: in
\* every order it is what it is in one of them.
OrderIndependent ==
  (status = "open" /\ sources # <<>> /\ \A p \in Params : Independent(p)) =>
    LET someOrder        == CHOOSE o \in Orders : TRUE
        someByDepthOrder == CHOOSE d \in ByDepthOrders : TRUE
    IN  NewestLayer = Preprocess(NewestSource, someOrder, someByDepthOrder)

\* A source that spells an enum config the way serde does selects the variant,
\* whichever of the maps of the config has it, unless it spells out the tag.
VariantSelected ==
  (sources # <<>> /\ ~NewestSource.flat) =>
    \A key \in {k \in DOMAIN configs :
                 configs[k].coerce /\ Meta[k[2]].tag # NoTag} :
      LET tag      == Meta[key[2]].tag
          contents == NewestSource.contents
          paths    == PathSet(configs[key].paths)
          tagPaths == UNION {ParamPaths(configs[key], p.param) :
                               p \in {q \in Params :
                                        /\ q.key = key
                                        /\ ParamKey(q.param) = tag.param}}
          spelled  == {i \in DOMAIN tag.variants :
                         \E path \in paths :
                           \E f \in ToSet(tag.variants[i].fields) :
                             Append(path, f) \in DOMAIN contents}
          objects  == \A path \in paths : \A f \in VariantFields(tag) :
                        ~IsLeafAt(contents, Append(path, f))
          oneField == \A i \in spelled : Len(tag.variants[i].fields) = 1
      IN  \A i \in spelled :
            (/\ spelled = {i} /\ oneField /\ objects
             /\ tagPaths \cap DOMAIN contents = {}
             /\ ~IsLeafAt(contents, key[1]))
            => LET at == Append(key[1], tag.param)
               IN  at \in DOMAIN merged
                     /\ merged[at].data = tag.variants[i].name

\* ensure_object: "unreachable!(); // Ensured by calls above".
NoPanic == status # "panicked"
=============================================================================
