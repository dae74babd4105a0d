---------------------------- MODULE ConfigSchema ----------------------------
(***************************************************************************)
(* The schema of a configuration: which config types are mounted at which  *)
(* prefixes, under which aliases, and which paths they occupy              *)
(* (schema/mod.rs and schema/mount.rs).                                    *)
(*                                                                         *)
(* `configs`, `byDepth`, `mounts` and `coerce` are the fields of           *)
(* `ConfigSchema`.  An insert() or a push_alias() builds a patch next to   *)
(* the schema (`PatchedSchema`): it walks over the config and its nested   *)
(* configs with an explicit stack, `pending`, and commits the patch if no  *)
(* mounting point conflicts.  Each iteration of that walk is a step here.  *)
(*                                                                         *)
(* A key of `configs` is <<prefix, type>>.  `paths` of a config is its     *)
(* `all_paths`, in priority order; an alias that join_path() drops is kept *)
(* as a NoPath entry, which every reader of the list ignores.              *)
(***************************************************************************)
EXTENDS Paths

CONSTANTS
  Key,       \* segments of paths
  Types,     \* config types (the `ConfigMetadata` statics)
  Meta,      \* type -> [params : Seq, nested : Seq, tag], derived metadata
  Insertions,  \* <<prefix, type>> pairs the application inserts
  Aliases,   \* aliases the application pushes: [path, deprecated]
  Coercions  \* arguments of coerce_serde_enums()

VARIABLES
  configs,   \* <<prefix, type>> -> ConfigData
  byDepth,   \* {<<prefix, depth, type>>}: the iteration order of iter()
  mounts,    \* path -> mounting point
  coerce,    \* coerce_serde_enums of the schema
  patch,     \* [configs, byDepth, mounts] of the `PatchedSchema`
  pending,   \* stack of configs still to be inserted
  call,      \* the running insert() / push_alias(), or Idle
  outcome    \* result of the last finished call

base == <<configs, byDepth, mounts, coerce>>
vars == <<configs, byDepth, mounts, coerce, patch, pending, call, outcome>>

Idle == [op |-> "idle"]
NoDepth == -1
NoParent == [nested |-> 0]
EmptyPatch == [configs |-> <<>>, byDepth |-> {}, mounts |-> <<>>]
ConfigMount == [kind |-> "config", expecting |-> {}, canonical |-> FALSE]

\* BasicTypes of metadata/mod.rs.
BasicTypes == {"bool", "integer", "float", "string", "array", "object"}

NameEntry == [ref : Ref(Key), deprecated : BOOLEAN]

\* What the derive macro emits for a param and for a nested config; a
\* flattened config has no name, `variants` are the snake_case names of the
\* enum variant the field belongs to, if any.
\*
\* The last three fields of a param matter to the sources only: the suffixes
\* its type description defines, whether it contains secrets, and whether it
\* has a fallback.
ParamMeta ==
  [name : {<<key>> : key \in Key}, aliases : Seq(NameEntry),
   variants : Seq(Key), expecting : SUBSET BasicTypes,
   suffixes : SUBSET Key, secret : BOOLEAN, fallback : BOOLEAN]

NestedMeta ==
  [name : {<<>>} \cup {<<key>> : key \in Key}, aliases : Seq(NameEntry),
   variants : Seq(Key), meta : Types]

\* The tag of an enum config; `fields` are the snake_case names under which
\* serde would put the content of the variant.
NoTag == [variants |-> <<>>]
TagMeta == [param : Key, variants : Seq([name : Key, fields : Seq(Key)])]

ConfigMetadata ==
  [params : Seq(ParamMeta), nested : Seq(NestedMeta), tag : {NoTag} \cup TagMeta]

ASSUME ConstantsAssumption ==
  /\ NoKey \notin Key
  /\ Meta \in [Types -> ConfigMetadata]
  /\ Insertions \subseteq Path(Key) \X Types
  /\ Aliases \subseteq [path : Path(Key), deprecated : BOOLEAN]
  /\ Coercions \subseteq BOOLEAN

PathEntry == [path : Path(Key) \cup {NoPath}, deprecated : BOOLEAN]

Override(f, g) ==
  [x \in DOMAIN f \cup DOMAIN g |-> IF x \in DOMAIN f THEN f[x] ELSE g[x]]
-----------------------------------------------------------------------------
(* Paths of params and nested configs: ConfigData::all_paths_for_child() *)

LocalNames(child) ==
  <<[ref |-> NameRef(child.name), deprecated |-> FALSE]>> \o child.aliases

\* `variant.name` aliases of a child tagged with an enum variant.  Only
\* simple names and aliases get them, path aliases do not.
EnumNames(child) ==
  LET local == LocalNames(child)
  IN  [k \in 1..(Len(child.variants) * Len(local)) |->
         LET variant == child.variants[((k - 1) \div Len(local)) + 1]
             name    == local[((k - 1) % Len(local)) + 1]
         IN  [ref |-> IF name.ref.dots > 0
                      THEN NoRef
                      ELSE NameRef(<<variant>> \o name.ref.keys),
              deprecated |-> name.deprecated]]

ChildNames(child, coerced) ==
  IF coerced THEN LocalNames(child) \o EnumNames(child) ELSE LocalNames(child)

\* Every path of the config combined with every name of the child.
AllPathsForChild(data, child) ==
  LET names == ChildNames(child, data.coerce)
  IN  [k \in 1..(Len(data.paths) * Len(names)) |->
         LET entry == data.paths[((k - 1) \div Len(names)) + 1]
             name  == names[((k - 1) % Len(names)) + 1]
         IN  [path |-> JoinPath(entry.path, name.ref),
              deprecated |-> name.deprecated \/ entry.deprecated]]

PathSet(paths) == {paths[i].path : i \in DOMAIN paths} \ {NoPath}

PathsNamed(data, names) ==
  {JoinPath(data.paths[i].path, names[j].ref) :
     i \in DOMAIN data.paths, j \in DOMAIN names} \ {NoPath}

\* The set of ConfigData::all_paths_for_param().
ParamPaths(data, param) ==
  PathsNamed(data, ChildNames(param, data.coerce))

\* The paths of a param that do not depend on serde enum coercion.
PlainParamPaths(data, param) == PathsNamed(data, LocalNames(param))

\* Mutant: the last path.
LastParamPath(data, param) ==
  JoinPath(data.paths[Len(data.paths)].path, NameRef(param.name))

FirstParamPath(data, param) ==
  JoinPath(data.paths[1].path, NameRef(param.name))

\* Mutant: counts from the other end of the list.
ParentLinkFromEnd(item, i) ==
  [ty |-> item.ty, nested |-> Len(Meta[item.ty].nested) + 1 - i]

\* The ParentLink of the i-th config nested in the one being inserted.
ParentLink(item, i) == [ty |-> item.ty, nested |-> i]

\* PatchedSchema::list_nested_configs
NestedConfigs(item) ==
  LET nested == Meta[item.ty].nested
  IN  [i \in DOMAIN nested |->
         [prefix |-> Join(item.prefix, nested[i].name),
          ty     |-> nested[i].meta,
          depth  |-> IF item.depth = NoDepth THEN NoDepth ELSE item.depth + 1,
          data   |-> [parent |-> ParentLink(item, i),
                      top    |-> FALSE,
                      coerce |-> item.data.coerce,
                      paths  |-> AllPathsForChild(item.data, nested[i])]]]
-----------------------------------------------------------------------------
(* Mounting points *)

\* Mutant: sees no mounting point of the same call.
MountedInBase == mounts

\* PatchedSchema::mount
Mounted == Override(patch.mounts, mounts)

ConfigPaths(item) == {item.prefix} \cup PathSet(item.data.paths)

ParamsAt(item, path) ==
  {i \in DOMAIN Meta[item.ty].params :
     path \in ParamPaths(item.data, Meta[item.ty].params[i])}

AllParamPaths(item) ==
  UNION {ParamPaths(item.data, Meta[item.ty].params[i]) :
           i \in DOMAIN Meta[item.ty].params}

Expecting(item, path) ==
  Meta[item.ty].params[CHOOSE i \in ParamsAt(item, path) : TRUE].expecting

CanMountConfig(item) ==
  \A path \in ConfigPaths(item) \cap DOMAIN Mounted :
    Mounted[path].kind = "config"

\* Mutant: does not compare with the types expected at the mounting point.
CanMountParamsOfAnyType(item) ==
  \A path \in AllParamPaths(item) :
    /\ path \notin ConfigPaths(item)
    /\ path \in DOMAIN Mounted => Mounted[path].kind = "param"

CanMountParams(item) ==
  \A path \in AllParamPaths(item) :
    /\ path \notin ConfigPaths(item)
    /\ \A i \in ParamsAt(item, path) :
         Meta[item.ty].params[i].expecting = Expecting(item, path)
    /\ path \in DOMAIN Mounted =>
         /\ Mounted[path].kind = "param"
         /\ Mounted[path].expecting = Expecting(item, path)

CanMount(item) == CanMountConfig(item) /\ CanMountParams(item)

\* Mutant: replaces the flag of the previous mounting point.
IsCanonicalHere(item, path) ==
  \E i \in ParamsAt(item, path) :
    path = FirstParamPath(item.data, Meta[item.ty].params[i])

\* A param stays canonical once it is; the first path of a param in the
\* inserted data is canonical.
IsCanonical(item, path) ==
  \/ path \in DOMAIN Mounted /\ Mounted[path].canonical
  \/ \E i \in ParamsAt(item, path) :
       path = FirstParamPath(item.data, Meta[item.ty].params[i])

NewMounts(item) ==
  [path \in ConfigPaths(item) \cup AllParamPaths(item) |->
     IF path \in ConfigPaths(item)
     THEN ConfigMount
     ELSE [kind      |-> "param",
           expecting |-> Expecting(item, path),
           canonical |-> IsCanonical(item, path)]]

\* Mutant: forgets the previous data.
NewDataOnly(item) == item.data

\* New aliases go to the end: their order is their priority.  Only the base
\* schema is consulted for the previous data.
MergedData(item) ==
  LET key == <<item.prefix, item.ty>>
  IN  IF key \in DOMAIN configs
      THEN [item.data EXCEPT !.paths = configs[key].paths \o @]
      ELSE item.data

\* What a config adds to the iteration order; an alias adds nothing.
DepthEntry(item) ==
  IF item.depth = NoDepth
  THEN {} ELSE {<<item.prefix, item.depth, item.ty>>}
-----------------------------------------------------------------------------
Init ==
  /\ configs = <<>>
  /\ byDepth = {}
  /\ mounts = <<>>
  /\ coerce = FALSE
  /\ patch = EmptyPatch
  /\ pending = <<>>
  /\ call = Idle
  /\ outcome = "none"

\* ConfigSchema::coerce_serde_enums
CoerceSerdeEnums(b) ==
  /\ call = Idle
  /\ coerce' = b
  /\ UNCHANGED <<configs, byDepth, mounts, patch, pending, call, outcome>>

\* ConfigSchema::insert up to the walk over the nested configs.
Insert(key) ==
  /\ call = Idle
  /\ call' = [op |-> "insert", key |-> key]
  /\ patch' = EmptyPatch
  /\ pending' = <<[prefix |-> key[1], ty |-> key[2], depth |-> 0,
                   data |-> [parent |-> NoParent,
                             top    |-> TRUE,
                             coerce |-> coerce,
                             paths  |-> <<[path |-> key[1],
                                           deprecated |-> FALSE]>>]]>>
  /\ outcome' = "none"
  /\ UNCHANGED base

\* Mutant: takes the aliased config for one that is inserted.
PushAliasAsInsert(key, alias) ==
  /\ call = Idle
  /\ alias.path \notin PathSet(configs[key].paths)
  /\ call' = [op |-> "push_alias", key |-> key]
  /\ patch' = EmptyPatch
  /\ pending' = <<[prefix |-> key[1], ty |-> key[2], depth |-> NoDepth,
                   data |-> [configs[key] EXCEPT
                               !.parent = NoParent, !.top = TRUE,
                               !.paths = <<alias>>]]>>
  /\ outcome' = "none"
  /\ UNCHANGED base

\* ConfigMut::push_alias and push_deprecated_alias, up to the walk.
PushAlias(key, alias) ==
  /\ call = Idle
  /\ alias.path \notin PathSet(configs[key].paths)
  /\ call' = [op |-> "push_alias", key |-> key]
  /\ patch' = EmptyPatch
  /\ pending' = <<[prefix |-> key[1], ty |-> key[2], depth |-> NoDepth,
                   data |-> [configs[key] EXCEPT
                               !.paths = <<alias>>]]>>
  /\ outcome' = "none"
  /\ UNCHANGED base

\* The no-op shortcut of PatchedSchema::insert_alias.
PushKnownAlias(key, alias) ==
  /\ call = Idle
  /\ alias.path \in PathSet(configs[key].paths)
  /\ outcome' = "ok"
  /\ UNCHANGED <<base, patch, pending, call>>

Walking == call # Idle /\ pending # <<>>

Top == pending[Len(pending)]
Popped == SubSeq(pending, 1, Len(pending) - 1)

\* Mutant: inserts the configs of the base schema once more.
NeverPresent(item) == FALSE

AlreadyPresent(item) ==
  call.op = "insert" /\ <<item.prefix, item.ty>> \in DOMAIN configs

\* insert_recursively: a config of the base schema is not inserted again,
\* and neither are the configs nested in it.
SkipPresent ==
  /\ Walking
  /\ AlreadyPresent(Top)
  /\ pending' = Popped
  /\ UNCHANGED <<base, patch, call, outcome>>

\* insert_recursively and insert_inner for one config.
InsertInner ==
  /\ Walking
  /\ ~AlreadyPresent(Top)
  /\ CanMount(Top)
  /\ pending' = Popped \o NestedConfigs(Top)
  /\ patch' =
       [configs |-> Override([k \in {<<Top.prefix, Top.ty>>} |->
                                MergedData(Top)],
                             patch.configs),
        byDepth |-> patch.byDepth \cup DepthEntry(Top),
        mounts  |-> Override(NewMounts(Top), patch.mounts)]
  /\ UNCHANGED <<base, call, outcome>>

\* Mutant: what was inserted before the conflict stays.
StopAtConflict ==
  /\ Walking
  /\ ~AlreadyPresent(Top)
  /\ ~CanMount(Top)
  /\ pending' = <<>>
  /\ patch' = EmptyPatch
  /\ call' = Idle
  /\ outcome' = "err"
  /\ configs' = Override(patch.configs, configs)
  /\ byDepth' = byDepth \cup patch.byDepth
  /\ mounts' = Override(patch.mounts, mounts)
  /\ UNCHANGED coerce

\* Mutant: the mounting points of the patch stay.
KeepMountsAtConflict ==
  /\ Walking
  /\ ~AlreadyPresent(Top)
  /\ ~CanMount(Top)
  /\ pending' = <<>>
  /\ patch' = EmptyPatch
  /\ call' = Idle
  /\ outcome' = "err"
  /\ mounts' = Mounted
  /\ UNCHANGED <<configs, byDepth, coerce>>

\* A conflict aborts the call: the patch is dropped.
RejectConflict ==
  /\ Walking
  /\ ~AlreadyPresent(Top)
  /\ ~CanMount(Top)
  /\ pending' = <<>>
  /\ patch' = EmptyPatch
  /\ call' = Idle
  /\ outcome' = "err"
  /\ UNCHANGED base

\* PatchedSchema::commit
Commit ==
  /\ call # Idle
  /\ pending = <<>>
  /\ configs' = Override(patch.configs, configs)
  /\ byDepth' = byDepth \cup patch.byDepth
  /\ mounts' = Override(patch.mounts, mounts)
  /\ patch' = EmptyPatch
  /\ call' = Idle
  /\ outcome' = "ok"
  /\ UNCHANGED <<coerce, pending>>

Next ==
  \/ \E b \in Coercions : CoerceSerdeEnums(b)
  \/ \E key \in Insertions : Insert(key)
  \/ \E key \in DOMAIN configs, alias \in Aliases : PushAlias(key, alias)
  \/ \E key \in DOMAIN configs, alias \in Aliases : PushKnownAlias(key, alias)
  \/ SkipPresent
  \/ InsertInner
  \/ RejectConflict
  \/ Commit

Spec == Init /\ [][Next]_vars
-----------------------------------------------------------------------------
(* Properties *)

ConfigData ==
  [parent : {NoParent} \cup [ty : Types, nested : Nat \ {0}],
   top    : BOOLEAN,
   coerce : BOOLEAN,
   paths  : Seq(PathEntry)]

PendingItem ==
  [prefix : Path(Key), ty : Types, depth : Nat \cup {NoDepth},
   data : ConfigData]

IsConfigs(f) ==
  \A key \in DOMAIN f : key \in Path(Key) \X Types /\ f[key] \in ConfigData

ParamMount ==
  [kind : {"param"}, expecting : SUBSET BasicTypes, canonical : BOOLEAN]

IsMounts(f) == \A path \in DOMAIN f : f[path] \in {ConfigMount} \cup ParamMount

\* The state of the schema and of the patch under construction is well-formed.
TypeOK ==
  /\ IsConfigs(configs) /\ IsConfigs(patch.configs)
  /\ IsMounts(mounts) /\ IsMounts(patch.mounts)
  /\ \A entry \in byDepth \cup patch.byDepth :
       entry \in Path(Key) \X Nat \X Types
  /\ coerce \in BOOLEAN
  /\ pending \in Seq(PendingItem)
  /\ outcome \in {"none", "ok", "err"}

\* A config with this data is covered by the mounting points `m`: all its
\* paths are in `m` as configs, and all paths of its params as params that
\* expect the same types.
Covered(prefix, ty, data, m) ==
  /\ \A path \in {prefix} \cup PathSet(data.paths) :
       path \in DOMAIN m /\ m[path].kind = "config"
  /\ \A i \in DOMAIN Meta[ty].params :
       \A path \in PlainParamPaths(data, Meta[ty].params[i]) :
         /\ path \in DOMAIN m
         /\ m[path].kind = "param"
         /\ m[path].expecting = Meta[ty].params[i].expecting

\* Every path of a config of the schema, and every path of its params that
\* does not come from serde enum coercion, is mounted, the latter with the
\* types its param expects.  The merge, the nesting of env vars and all later
\* conflict checks look paths up among the mounting points only.
MountsCover ==
  \A key \in DOMAIN configs : Covered(key[1], key[2], configs[key], mounts)

\* All of m1 is still there in m2; a param may only have become canonical.
Extends(m1, m2) ==
  \A path \in DOMAIN m1 :
    /\ path \in DOMAIN m2
    /\ m2[path].kind = m1[path].kind
    /\ m2[path].expecting = m1[path].expecting
    /\ m1[path].canonical => m2[path].canonical

\* The inductive strengthening of MountsCover: the patch never contradicts
\* the schema, and its configs are covered by the two together.
IndInv ==
  /\ TypeOK
  /\ MountsCover
  /\ Extends(mounts, Mounted)
  /\ \A key \in DOMAIN patch.configs :
       Covered(key[1], key[2], patch.configs[key], Mounted)

\* What insert() promises about any two configs of the schema, however many
\* calls apart they were inserted or aliased: no param is mounted at the
\* location of a config, and params at one location expect the same types.
NoPathConflicts ==
  \A key1, key2 \in DOMAIN configs :
    \A i \in DOMAIN Meta[key1[2]].params :
      LET param1 == Meta[key1[2]].params[i]
          paths1 == PlainParamPaths(configs[key1], param1)
      IN  /\ paths1 \cap ({key2[1]} \cup PathSet(configs[key2].paths)) = {}
          /\ \A j \in DOMAIN Meta[key2[2]].params :
               LET param2 == Meta[key2[2]].params[j]
               IN  paths1 \cap PlainParamPaths(configs[key2], param2) # {}
                     => param1.expecting = param2.expecting

\* The config at `key` accounts for a mounting point of this kind at `path`.
ExplainedBy(path, kind, key, data) ==
  \/ kind = "config" /\ path \in {key[1]} \cup PathSet(data.paths)
  \/ kind = "param" /\ \E i \in DOMAIN Meta[key[2]].params :
                         path \in ParamPaths(data, Meta[key[2]].params[i])

AllExplained(m, cs) ==
  \A path \in DOMAIN m :
    \E key \in DOMAIN cs : ExplainedBy(path, m[path].kind, key, cs[key])

\* No mounting point is stale: each is a path of a config, or a path of a
\* param, of the schema.
MountsExplained == AllExplained(mounts, configs)

\* "Unlike with params, by design we never insert same config entries in the
\* same patch, so it's safe to *only* consult `base`": true unless the inserted
\* config leads to another one in two ways that end at the same prefix.
InsertedOnce ==
  Walking /\ ~AlreadyPresent(Top) => <<Top.prefix, Top.ty>> \notin DOMAIN patch.configs

\* The canonical paths of all params of the config are canonical in `m`.
ParamsMarked(key, m) ==
  \A i \in DOMAIN Meta[key[2]].params :
    LET path == Join(key[1], Meta[key[2]].params[i].name)
    IN  path \in DOMAIN m /\ m[path].canonical

\* The canonical path of every param of the schema is mounted as canonical:
\* otherwise garbage collection would drop the values of the param.
CanonicalParamsMarked == \A key \in DOMAIN configs : ParamsMarked(key, mounts)

\* Keys of the configs nested in this one.
NestedKeys(key) ==
  {<<Join(key[1], Meta[key[2]].nested[i].name), Meta[key[2]].nested[i].meta>> :
     i \in DOMAIN Meta[key[2]].nested}

\* A config of the schema is never without the configs nested in it, also
\* when some of them were there before it, and when a call has failed at one
\* of them.
NestedPresent == \A key \in DOMAIN configs : NestedKeys(key) \subseteq DOMAIN configs

\* The config that the link of the config at `key` leads to: at the same prefix
\* for a flattened config and one level up for others.
ParentKey(link, key) ==
  <<IF Meta[link.ty].nested[link.nested].name = <<>> THEN key[1]
    ELSE ParentOf(key[1]), link.ty>>

\* It is one of these configs, and nests that at `key`.
LinkResolves(link, key, keys) ==
  link # NoParent =>
    /\ link.nested \in DOMAIN Meta[link.ty].nested
    /\ LET nested == Meta[link.ty].nested[link.nested]
       IN  /\ nested.name # <<>> => key[1] # <<>>
           /\ ParentKey(link, key) \in keys
           /\ key = <<Join(ParentKey(link, key)[1], nested.name), nested.meta>>

\* parent_link() of a config returns a config of the schema and the metadata
\* with which that one really nests it, also if an alias pushed for an enclosing
\* config has overwritten the link.
ParentLinkResolves ==
  \A key \in DOMAIN configs : LinkResolves(configs[key].parent, key, DOMAIN configs)

\* is_top_level() is true only of a config that "was included into the schema
\* directly, rather than as a sub-config", whatever aliases were pushed for it;
\* and the flag that the preprocessing reads is the same.
TopLevelIsDirect ==
  \A key \in DOMAIN configs :
    /\ configs[key].top <=> configs[key].parent = NoParent
    /\ configs[key].top => <<key[1], 0, key[2]>> \in byDepth

KeysByDepth(entries) == {<<entry[1], entry[3]>> : entry \in entries}

OneDepth(entries) ==
  \A e1, e2 \in entries : e1[1] = e2[1] /\ e1[3] = e2[3] => e1 = e2

\* iter() goes by depth; it misses no config, invents none and lists none twice:
\* "A unique key for a config is its type + location; i.e., multiple returned
\* refs may have the same config type xor same location (never both)."  (The
\* second part needs InsertedOnce.)
IterCovers == KeysByDepth(byDepth) = DOMAIN configs /\ OneDepth(byDepth)

\* All paths of this data start those of the other.
PathsKept(old, new) ==
  /\ Len(old.paths) <= Len(new.paths)
  /\ \A i \in DOMAIN old.paths : new.paths[i] = old.paths[i]

\* Later calls never remove a config or reorder its paths; a new alias has
\* the lowest priority.
AliasPriorityKept ==
  [][\A key \in DOMAIN configs :
       key \in DOMAIN configs' /\ PathsKept(configs[key], configs'[key])]_vars

\* A mounting point is never unmounted or changed, except that a param may
\* become canonical.
MountsStable == [][Extends(mounts, mounts')]_vars

\* The configs of the schema and of the patch, and those still to be inserted.
Known == DOMAIN configs \cup DOMAIN patch.configs
Stacked == {pending[i] : i \in DOMAIN pending}
PendingKeys == {<<item.prefix, item.ty>> : item \in Stacked}

\* What insert() puts on the stack: its first path is the canonical one.
IsInserted(item) ==
  /\ item.depth # NoDepth
  /\ Len(item.data.paths) > 0
  /\ item.data.paths[1].path = item.prefix

\* Between two calls there is no work left.  An alias only goes to configs
\* that are there.
StackInv ==
  /\ call = Idle => pending = <<>> /\ patch = EmptyPatch
  /\ call.op = "insert" => \A item \in Stacked : IsInserted(item)
  /\ call.op # "insert" => PendingKeys \cup DOMAIN patch.configs \subseteq DOMAIN configs

\* The configs that a walk still owes to the schema are on its stack.
NestedInv ==
  /\ NestedPresent
  /\ \A key \in DOMAIN patch.configs : NestedKeys(key) \subseteq Known \cup PendingKeys

ParentInv ==
  /\ ParentLinkResolves
  /\ \A key \in DOMAIN patch.configs : LinkResolves(patch.configs[key].parent, key, Known)
  /\ \A item \in Stacked :
       LinkResolves(item.data.parent, <<item.prefix, item.ty>>, Known)

MarkedInv ==
  /\ CanonicalParamsMarked
  /\ \A key \in DOMAIN patch.configs : ParamsMarked(key, Mounted)

DepthInv ==
  /\ KeysByDepth(byDepth) = DOMAIN configs
  /\ KeysByDepth(byDepth \cup patch.byDepth) = Known

PriorityInv ==
  \A key \in DOMAIN patch.configs \cap DOMAIN configs :
    PathsKept(configs[key], patch.configs[key])

\* The inductive strengthening of NestedPresent, ParentLinkResolves,
\* CanonicalParamsMarked, the first part of IterCovers and AliasPriorityKept:
\* what a walk has done and what it still has to do add up to a schema of
\* which all this holds.
StructureInv ==
  StackInv /\ NestedInv /\ ParentInv /\ MarkedInv /\ DepthInv /\ PriorityInv
=============================================================================
