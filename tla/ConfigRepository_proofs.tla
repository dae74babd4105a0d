----------------------- MODULE ConfigRepository_proofs -----------------------
(***************************************************************************)
(* Proofs about the schema and the repository that borrows it.             *)
(*                                                                         *)
(* The schema, for every set of config types and metadata, and for every   *)
(* sequence of insert(), push_alias() and coerce_serde_enums() calls, some *)
(* of which may fail: first that the mounting points are those of the      *)
(* configs, then the structure of the schema that is left.                 *)
(*                                                                         *)
(* The repository, for every schema and all sources: it is a stack of      *)
(* layers, whatever the preprocessing makes of a source.                   *)
(***************************************************************************)
EXTENDS ConfigRepository, ValueTree_proofs, SequenceTheorems, TLAPS

LOCAL INSTANCE SequencesExt
LOCAL INSTANCE FiniteSetTheorems
-----------------------------------------------------------------------------
(* Lemmas about the operators *)

\* Position k of a product of n rows of m entries is in a row and a column.
LEMMA ProductIndex ==
  ASSUME NEW n \in Nat, NEW m \in Nat, NEW k \in 1..(n * m)
  PROVE  /\ ((k - 1) \div m) + 1 \in 1..n
         /\ ((k - 1) % m) + 1 \in 1..m
<1>1. m > 0 /\ n > 0
  BY SMT
<1>. DEFINE q == (k - 1) \div m
            r == (k - 1) % m
<1>2. q \in Int /\ r \in 0..(m - 1) /\ k - 1 = m * q + r
  BY <1>1, SMT
<1>3. q >= 0
  BY <1>1, <1>2, SMT
<1>4. q < n
  BY <1>1, <1>2, <1>3, SMT
<1>. QED
  BY <1>2, <1>3, <1>4, SMT

\* join_path() yields a path or nothing.
LEMMA JoinPathType ==
  ASSUME NEW path \in Path(Key) \cup {NoPath}, NEW ref \in Ref(Key) \cup {NoRef}
  PROVE  JoinPath(path, ref) \in Path(Key) \cup {NoPath}
<1>1. CASE \/ path = NoPath
           \/ ref.keys = NoPath
           \/ Climb(ref) > Len(path)
  BY <1>1 DEF JoinPath
<1>2. CASE ~ \/ path = NoPath
             \/ ref.keys = NoPath
             \/ Climb(ref) > Len(path)
  <2>1. path \in Seq(Key) /\ ref.keys \in Seq(Key) /\ ref.dots \in Nat
    BY <1>2 DEF Path, Ref, NoRef, NameRef
  <2>2. Climb(ref) \in Nat /\ Climb(ref) <= Len(path)
    BY <1>2, <2>1 DEF Climb
  <2>3. SubSeq(path, 1, Len(path) - Climb(ref)) \in Seq(Key)
    BY <2>1, <2>2
  <2>. QED
    BY <1>2, <2>1, <2>3 DEF JoinPath, Join, Path
<1>. QED
  BY <1>1, <1>2

ChildMeta == ParamMeta \cup NestedMeta

LEMMA LocalNamesType ==
  ASSUME NEW child \in ChildMeta
  PROVE  LocalNames(child) \in Seq(NameEntry) /\ Len(LocalNames(child)) > 0
<1>1. child.name \in Seq(Key)
  <2>1. CASE child \in ParamMeta
    <3>. PICK key \in Key : child.name = <<key>>
      BY <2>1 DEF ParamMeta
    <3>. QED
      OBVIOUS
  <2>2. CASE child \in NestedMeta
    <3>1. CASE child.name = <<>>
      BY <3>1
    <3>2. CASE child.name # <<>>
      <4>. PICK key \in Key : child.name = <<key>>
        BY <2>2, <3>2 DEF NestedMeta
      <4>. QED
        OBVIOUS
    <3>. QED
      BY <3>1, <3>2
  <2>. QED
    BY <2>1, <2>2 DEF ChildMeta
<1>2. [ref |-> NameRef(child.name), deprecated |-> FALSE] \in NameEntry
  BY <1>1 DEF NameRef, Ref, NameEntry
<1>3. child.aliases \in Seq(NameEntry)
  BY DEF ChildMeta, ParamMeta, NestedMeta
<1>. QED
  BY <1>2, <1>3 DEF LocalNames

\* Names with the references that are dropped.
MaybeNameEntry == [ref : Ref(Key) \cup {NoRef}, deprecated : BOOLEAN]

LEMMA EnumNamesType ==
  ASSUME NEW child \in ChildMeta
  PROVE  EnumNames(child) \in Seq(MaybeNameEntry)
<1>. DEFINE local == LocalNames(child)
            n == Len(child.variants)
            m == Len(local)
            name(k) == local[((k - 1) % m) + 1]
            variant(k) == child.variants[((k - 1) \div m) + 1]
            entry(k) == [ref |-> IF name(k).ref.dots > 0 THEN NoRef
                                 ELSE NameRef(<<variant(k)>> \o name(k).ref.keys),
                         deprecated |-> name(k).deprecated]
<1>1. local \in Seq(NameEntry) /\ child.variants \in Seq(Key)
  BY LocalNamesType DEF ChildMeta, ParamMeta, NestedMeta
<1>2. n \in Nat /\ m \in Nat
  BY <1>1
<1>3. ASSUME NEW k \in 1..(n * m)  PROVE entry(k) \in MaybeNameEntry
  <2>1. name(k) \in NameEntry /\ variant(k) \in Key
    <3>1. ((k - 1) \div m) + 1 \in 1..n /\ ((k - 1) % m) + 1 \in 1..m
      BY <1>2, ProductIndex
    <3>. QED
      BY <1>1, <3>1
  <2>2. NameRef(<<variant(k)>> \o name(k).ref.keys) \in Ref(Key)
    BY <2>1 DEF NameEntry, Ref, NameRef
  <2>. QED
    BY <2>1, <2>2 DEF MaybeNameEntry, NameEntry
<1>4. EnumNames(child) = [k \in 1..(n * m) |-> entry(k)]
  BY DEF EnumNames
<1>. HIDE DEF entry, n, m
<1>5. n * m \in Nat
  BY <1>2
<1>. QED
  BY <1>3, <1>4, <1>5

LEMMA ChildNamesType ==
  ASSUME NEW child \in ChildMeta, NEW coerced \in BOOLEAN
  PROVE  ChildNames(child, coerced) \in Seq(MaybeNameEntry)
<1>1. LocalNames(child) \in Seq(MaybeNameEntry)
  <2>1. NameEntry \subseteq MaybeNameEntry
    BY DEF NameEntry, MaybeNameEntry
  <2>. QED
    BY <2>1, LocalNamesType, SeqMonotonic
<1>. QED
  BY <1>1, EnumNamesType DEF ChildNames

LEMMA AllPathsType ==
  ASSUME NEW data \in ConfigData, NEW child \in ChildMeta
  PROVE  AllPathsForChild(data, child) \in Seq(PathEntry)
<1>. DEFINE names == ChildNames(child, data.coerce)
            n == Len(data.paths)
            m == Len(names)
            name(k) == names[((k - 1) % m) + 1]
            at(k) == data.paths[((k - 1) \div m) + 1]
            entry(k) == [path |-> JoinPath(at(k).path, name(k).ref),
                         deprecated |-> name(k).deprecated \/ at(k).deprecated]
<1>1. names \in Seq(MaybeNameEntry) /\ data.paths \in Seq(PathEntry)
  BY ChildNamesType DEF ConfigData
<1>2. n \in Nat /\ m \in Nat
  BY <1>1
<1>3. ASSUME NEW k \in 1..(n * m)  PROVE entry(k) \in PathEntry
  <2>1. name(k) \in MaybeNameEntry /\ at(k) \in PathEntry
    <3>1. ((k - 1) \div m) + 1 \in 1..n /\ ((k - 1) % m) + 1 \in 1..m
      BY <1>2, ProductIndex
    <3>. QED
      BY <1>1, <3>1
  <2>2. JoinPath(at(k).path, name(k).ref) \in Path(Key) \cup {NoPath}
    BY <2>1, JoinPathType DEF MaybeNameEntry, PathEntry
  <2>3. (name(k).deprecated \/ at(k).deprecated) \in BOOLEAN
    OBVIOUS
  <2>. QED
    BY <2>2, <2>3 DEF PathEntry
<1>4. AllPathsForChild(data, child) = [k \in 1..(n * m) |-> entry(k)]
  BY DEF AllPathsForChild
<1>. HIDE DEF entry, n, m
<1>5. n * m \in Nat
  BY <1>2
<1>. QED
  BY <1>3, <1>4, <1>5

LEMMA NestedConfigsType ==
  ASSUME NEW item \in PendingItem
  PROVE  NestedConfigs(item) \in Seq(PendingItem)
<1>. DEFINE nested == Meta[item.ty].nested
            n == Len(nested)
            entry(i) ==
              [prefix |-> Join(item.prefix, nested[i].name),
               ty     |-> nested[i].meta,
               depth  |-> IF item.depth = NoDepth THEN NoDepth
                          ELSE item.depth + 1,
               data   |-> [parent |-> [ty |-> item.ty, nested |-> i],
                           top    |-> FALSE,
                           coerce |-> item.data.coerce,
                           paths  |-> AllPathsForChild(item.data, nested[i])]]
<1>1. nested \in Seq(NestedMeta) /\ n \in Nat
  <2>1. item.ty \in Types
    BY DEF PendingItem
  <2>2. Meta[item.ty] \in ConfigMetadata
    BY <2>1, ConstantsAssumption
  <2>. QED
    BY <2>2 DEF ConfigMetadata
<1>2. ASSUME NEW i \in 1..n  PROVE entry(i) \in PendingItem
  <2>1. nested[i] \in NestedMeta
    BY <1>1
  <2>2. nested[i].name \in Seq(Key)
    <3>1. CASE nested[i].name = <<>>
      BY <3>1
    <3>2. CASE nested[i].name # <<>>
      <4>. PICK key \in Key : nested[i].name = <<key>>
        BY <2>1, <3>2 DEF NestedMeta
      <4>. QED
        OBVIOUS
    <3>. QED
      BY <3>1, <3>2
  <2>3. Join(item.prefix, nested[i].name) \in Path(Key)
    BY <2>2 DEF Join, Path, PendingItem
  <2>4. AllPathsForChild(item.data, nested[i]) \in Seq(PathEntry)
    BY <2>1, AllPathsType DEF PendingItem, ChildMeta
  <2>5. entry(i).depth \in Nat \cup {NoDepth}
    BY DEF PendingItem
  <2>6. entry(i).data \in ConfigData
    <3>1. i \in Nat \ {0} /\ item.ty \in Types /\ item.data.coerce \in BOOLEAN
      BY <1>1 DEF PendingItem, ConfigData
    <3>. QED
      BY <2>4, <3>1 DEF ConfigData
  <2>7. nested[i].meta \in Types
    BY <2>1 DEF NestedMeta
  <2>. HIDE DEF nested
  <2>. QED
    BY <2>3, <2>5, <2>6, <2>7 DEF PendingItem
<1>3. NestedConfigs(item) = [i \in 1..n |-> entry(i)]
  <2>1. DOMAIN nested = 1..n
    BY <1>1
  <2>. QED
    BY <2>1 DEF NestedConfigs, ParentLink
<1>. HIDE DEF entry, n
<1>. QED
  BY <1>1, <1>2, <1>3
-----------------------------------------------------------------------------
(* Lemmas about coverage *)

\* Names without enum coercion are among the names with it.
LEMMA PlainAreParamPaths ==
  ASSUME NEW data \in ConfigData, NEW param \in ParamMeta
  PROVE  PlainParamPaths(data, param) \subseteq ParamPaths(data, param)
<1>. DEFINE local == LocalNames(param)
            names == ChildNames(param, data.coerce)
<1>1. local \in Seq(NameEntry)
  BY LocalNamesType DEF ChildMeta
<1>2. EnumNames(param) \in Seq(MaybeNameEntry)
  BY EnumNamesType DEF ChildMeta
<1>3. ASSUME NEW j \in DOMAIN local
      PROVE  j \in DOMAIN names /\ names[j] = local[j]
  <2>1. local \in Seq(MaybeNameEntry)
    BY ChildNamesType DEF ChildNames, ChildMeta
  <2>2. CASE data.coerce
    BY <1>2, <2>1, <2>2 DEF ChildNames
  <2>3. CASE ~data.coerce
    BY <2>3 DEF ChildNames
  <2>. QED
    BY <2>2, <2>3
<1>. HIDE DEF local, names
<1>4. PathsNamed(data, local) \subseteq PathsNamed(data, names)
  BY <1>3 DEF PathsNamed
<1>. QED
  BY <1>4 DEF PlainParamPaths, ParamPaths, local, names

LEMMA CoveredByExtension ==
  ASSUME NEW prefix, NEW ty, NEW data, NEW m1, NEW m2,
         Covered(prefix, ty, data, m1), Extends(m1, m2)
  PROVE  Covered(prefix, ty, data, m2)
BY DEF Covered, Extends

LEMMA ExtendsTransitive ==
  ASSUME NEW m1, NEW m2, NEW m3, Extends(m1, m2), Extends(m2, m3)
  PROVE  Extends(m1, m3)
BY DEF Extends

\* Appending the new paths of a config to its previous ones adds no others.
LEMMA CoveredAppended ==
  ASSUME NEW prefix, NEW ty, NEW old \in ConfigData, NEW new \in ConfigData,
         NEW m, Covered(prefix, ty, old, m), Covered(prefix, ty, new, m)
  PROVE  Covered(prefix, ty, [new EXCEPT !.paths = old.paths \o @], m)
<1>. DEFINE all == old.paths \o new.paths
            data == [new EXCEPT !.paths = old.paths \o @]
<1>1. old.paths \in Seq(PathEntry) /\ new.paths \in Seq(PathEntry)
  BY DEF ConfigData
<1>2. data.paths = all
  BY DEF ConfigData
<1>3. ASSUME NEW i \in DOMAIN all
      PROVE  \/ \E k \in DOMAIN old.paths : all[i] = old.paths[k]
             \/ \E k \in DOMAIN new.paths : all[i] = new.paths[k]
  <2>1. CASE i <= Len(old.paths)
    BY <1>1, <2>1
  <2>2. CASE i > Len(old.paths)
    <3>1. i - Len(old.paths) \in DOMAIN new.paths
      <4>1. DOMAIN all = 1..(Len(old.paths) + Len(new.paths))
        BY <1>1, ConcatProperties
      <4>2. DOMAIN new.paths = 1..Len(new.paths) /\ Len(old.paths) \in Nat
               /\ Len(new.paths) \in Nat
        BY <1>1
      <4>3. i \in 1..(Len(old.paths) + Len(new.paths))
        BY <4>1
      <4>4. \A a, b \in Nat : \A k \in 1..(a + b) : k > a => k - a \in 1..b
        OBVIOUS
      <4>5. i - Len(old.paths) \in 1..Len(new.paths)
        BY <2>2, <4>2, <4>3, <4>4
      <4>. QED
        BY <4>2, <4>5
    <3>. QED
      BY <1>1, <2>2, <3>1
  <2>. QED
    BY <1>1, <2>1, <2>2
<1>. HIDE DEF all, data
<1>4. PathSet(data.paths) \subseteq PathSet(old.paths) \cup PathSet(new.paths)
  BY <1>2, <1>3 DEF PathSet
<1>5. ASSUME NEW param
      PROVE  PlainParamPaths(data, param) \subseteq
               PlainParamPaths(old, param) \cup PlainParamPaths(new, param)
  BY <1>2, <1>3 DEF PlainParamPaths, PathsNamed
<1>6. Covered(prefix, ty, data, m)
  BY <1>4, <1>5 DEF Covered
<1>. QED
  BY <1>6 DEF data

LEMMA MergedDataCovered ==
  ASSUME NEW item \in PendingItem, IsConfigs(configs), NEW m,
         Covered(item.prefix, item.ty, item.data, m),
         <<item.prefix, item.ty>> \in DOMAIN configs =>
           Covered(item.prefix, item.ty, configs[<<item.prefix, item.ty>>], m)
  PROVE  /\ MergedData(item) \in ConfigData
         /\ Covered(item.prefix, item.ty, MergedData(item), m)
<1>. DEFINE key == <<item.prefix, item.ty>>
<1>0. item.data \in ConfigData
  BY DEF PendingItem
<1>1. CASE key \in DOMAIN configs
  <2>1. configs[key] \in ConfigData
    BY <1>1 DEF IsConfigs
  <2>2. MergedData(item) = [item.data EXCEPT !.paths = configs[key].paths \o @]
    BY <1>1 DEF MergedData
  <2>3. configs[key].paths \o item.data.paths \in Seq(PathEntry)
    BY <1>0, <2>1 DEF ConfigData
  <2>4. MergedData(item) \in ConfigData
    BY <1>0, <2>2, <2>3 DEF ConfigData
  <2>5. Covered(item.prefix, item.ty, configs[key], m)
    BY <1>1
  <2>6. Covered(item.prefix, item.ty,
                [item.data EXCEPT !.paths = configs[key].paths \o @], m)
    BY <1>0, <2>1, <2>5, CoveredAppended
  <2>. QED
    BY <2>2, <2>4, <2>6
<1>2. CASE key \notin DOMAIN configs
  BY <1>0, <1>2 DEF MergedData
<1>. QED
  BY <1>1, <1>2
-----------------------------------------------------------------------------
(* Mounting the paths of one config *)

\* If a config can be mounted, its mounting points extend those that are
\* there, and they cover the config.
LEMMA MountingExtends ==
  ASSUME NEW item \in PendingItem, CanMount(item),
         IsMounts(mounts), IsMounts(patch.mounts)
  PROVE  LET m == Override(Override(NewMounts(item), patch.mounts), mounts)
         IN  /\ IsMounts(NewMounts(item))
             /\ Extends(Mounted, m)
             /\ Covered(item.prefix, item.ty, item.data, m)
<1>. DEFINE params == Meta[item.ty].params
            new == NewMounts(item)
            m == Override(Override(new, patch.mounts), mounts)
<1>1. params \in Seq(ParamMeta)
  <2>1. item.ty \in Types
    BY DEF PendingItem
  <2>2. Meta[item.ty] \in ConfigMetadata
    BY <2>1, ConstantsAssumption
  <2>. QED
    BY <2>2 DEF ConfigMetadata
<1>2. ASSUME NEW path \in AllParamPaths(item)
      PROVE  /\ path \notin ConfigPaths(item)
             /\ Expecting(item, path) \in SUBSET BasicTypes
             /\ \A i \in ParamsAt(item, path) :
                  params[i].expecting = Expecting(item, path)
             /\ path \in DOMAIN Mounted =>
                  /\ Mounted[path].kind = "param"
                  /\ Mounted[path].expecting = Expecting(item, path)
  <2>1. PICK i \in DOMAIN params : path \in ParamPaths(item.data, params[i])
    BY DEF AllParamPaths
  <2>2. i \in ParamsAt(item, path)
    BY <2>1 DEF ParamsAt
  <2>3. params[i] \in ParamMeta
    BY <1>1
  <2>4. params[i].expecting = Expecting(item, path)
    BY <2>2 DEF CanMount, CanMountParams
  <2>. QED
    BY <2>3, <2>4 DEF CanMount, CanMountParams, ParamMeta
<1>3. DOMAIN new = ConfigPaths(item) \cup AllParamPaths(item)
  BY DEF NewMounts
<1>4. \A path \in ConfigPaths(item) : new[path] = ConfigMount
  BY DEF NewMounts
<1>5. \A path \in AllParamPaths(item) :
        new[path] = [kind |-> "param", expecting |-> Expecting(item, path),
                     canonical |-> IsCanonical(item, path)]
  BY <1>2 DEF NewMounts
<1>6. IsMounts(Mounted)
  BY DEF IsMounts, Mounted, Override
<1>7. /\ DOMAIN m = DOMAIN new \cup DOMAIN Mounted
      /\ \A path \in DOMAIN new : m[path] = new[path]
      /\ \A path \in DOMAIN Mounted : path \notin DOMAIN new =>
           m[path] = Mounted[path]
  BY DEF Override, Mounted
<1>. HIDE DEF new, m
<1>8. IsMounts(new)
  <2>1. ASSUME NEW path \in ConfigPaths(item)
        PROVE  new[path] \in {ConfigMount} \cup ParamMount
    BY <1>4
  <2>2. ASSUME NEW path \in AllParamPaths(item)
        PROVE  new[path] \in {ConfigMount} \cup ParamMount
    <3>1. IsCanonical(item, path) \in BOOLEAN
      BY DEF IsCanonical
    <3>2. PICK c \in BOOLEAN : c = IsCanonical(item, path)
      BY <3>1
    <3>3. new[path] = [kind |-> "param", expecting |-> Expecting(item, path),
                       canonical |-> c]
      BY <1>5, <3>2, Zenon
    <3>. QED
      BY <1>2, <3>3 DEF ParamMount
  <2>. QED
    BY <1>3, <2>1, <2>2 DEF IsMounts
<1>9. Extends(Mounted, m)
  <2>. SUFFICES ASSUME NEW path \in DOMAIN Mounted
                PROVE  /\ path \in DOMAIN m
                       /\ m[path].kind = Mounted[path].kind
                       /\ m[path].expecting = Mounted[path].expecting
                       /\ Mounted[path].canonical => m[path].canonical
    BY DEF Extends
  <2>1. CASE path \notin DOMAIN new
    BY <1>7, <2>1
  <2>2. CASE path \in ConfigPaths(item)
    <3>1. Mounted[path].kind = "config"
      BY <2>2 DEF CanMount, CanMountConfig
    <3>2. Mounted[path] = ConfigMount
      BY <1>6, <3>1 DEF IsMounts, ParamMount
    <3>. QED
      BY <1>3, <1>4, <1>7, <2>2, <3>2
  <2>3. CASE path \in AllParamPaths(item)
    <3>1. Mounted[path].canonical => IsCanonical(item, path)
      BY DEF IsCanonical
    <3>. QED
      BY <1>2, <1>3, <1>5, <1>7, <2>3, <3>1
  <2>. QED
    BY <1>3, <2>1, <2>2, <2>3
<1>10. Covered(item.prefix, item.ty, item.data, m)
  <2>1. ASSUME NEW path \in {item.prefix} \cup PathSet(item.data.paths)
        PROVE  path \in DOMAIN m /\ m[path].kind = "config"
    BY <1>3, <1>4, <1>7 DEF ConfigPaths, ConfigMount
  <2>2. ASSUME NEW i \in DOMAIN params,
               NEW path \in PlainParamPaths(item.data, params[i])
        PROVE  /\ path \in DOMAIN m
               /\ m[path].kind = "param"
               /\ m[path].expecting = params[i].expecting
    <3>1. params[i] \in ParamMeta /\ item.data \in ConfigData
      BY <1>1 DEF PendingItem
    <3>2. path \in ParamPaths(item.data, params[i])
      BY <3>1, PlainAreParamPaths
    <3>3. path \in AllParamPaths(item) /\ i \in ParamsAt(item, path)
      BY <3>2 DEF AllParamPaths, ParamsAt
    <3>. QED
      BY <1>2, <1>3, <1>5, <1>7, <3>3
  <2>. QED
    BY <2>1, <2>2 DEF Covered
<1>. QED
  BY <1>8, <1>9, <1>10 DEF m, new
-----------------------------------------------------------------------------
(* The inductive invariant *)

LEMMA InitInv == Init => IndInv
<1>. SUFFICES ASSUME Init  PROVE IndInv
  OBVIOUS
<1>. USE DEF Init, EmptyPatch
<1>1. TypeOK
  <2>1. IsConfigs(configs) /\ IsConfigs(patch.configs)
    BY DEF IsConfigs
  <2>2. IsMounts(mounts) /\ IsMounts(patch.mounts)
    BY DEF IsMounts
  <2>3. byDepth \cup patch.byDepth = {} /\ pending \in Seq(PendingItem)
    OBVIOUS
  <2>. QED
    BY <2>1, <2>2, <2>3 DEF TypeOK
<1>2. MountsCover
  BY DEF MountsCover
<1>3. Extends(mounts, Mounted)
  BY DEF Extends
<1>. QED
  BY <1>1, <1>2, <1>3 DEF IndInv

\* The steps that leave the schema alone and start from, or fall back to, an
\* empty patch.
LEMMA EmptyPatchInv ==
  ASSUME IndInv, patch' = EmptyPatch, UNCHANGED <<configs, byDepth, mounts>>,
         coerce' \in BOOLEAN, outcome' \in {"none", "ok", "err"},
         pending' \in Seq(PendingItem)
  PROVE  IndInv'
<1>1. TypeOK'
  BY DEF IndInv, TypeOK, EmptyPatch, IsConfigs, IsMounts
<1>2. MountsCover'
  BY DEF IndInv, MountsCover
<1>3. Extends(mounts, Mounted)'
  BY DEF Extends, Mounted, Override, EmptyPatch
<1>4. DOMAIN patch'.configs = {}
  BY DEF EmptyPatch
<1>. QED
  BY <1>1, <1>2, <1>3, <1>4 DEF IndInv

\* The steps that touch neither the schema nor the patch.
LEMMA SamePatchInv ==
  ASSUME IndInv, UNCHANGED <<configs, byDepth, mounts, patch>>,
         coerce' \in BOOLEAN, outcome' \in {"none", "ok", "err"},
         pending' \in Seq(PendingItem)
  PROVE  IndInv'
<1>1. TypeOK'
  BY DEF IndInv, TypeOK, IsConfigs, IsMounts
<1>2. Mounted' = Mounted
  BY DEF Mounted
<1>3. MountsCover' /\ Extends(mounts, Mounted)'
  BY <1>2 DEF IndInv, MountsCover, Covered, Extends
<1>4. \A key \in DOMAIN patch.configs :
        Covered(key[1], key[2], patch.configs[key], Mounted)
  BY DEF IndInv
<1>5. \A key \in DOMAIN patch'.configs :
        Covered(key[1], key[2], patch'.configs[key], Mounted')
  BY <1>2, <1>4
<1>. QED
  BY <1>1, <1>3, <1>5 DEF IndInv, Covered

LEMMA PoppedType ==
  ASSUME IndInv, Walking
  PROVE  Top \in PendingItem /\ Popped \in Seq(PendingItem)
<1>1. pending \in Seq(PendingItem) /\ pending # <<>>
  BY DEF IndInv, TypeOK, Walking
<1>2. Len(pending) \in Nat /\ Len(pending) > 0
  BY <1>1
<1>. QED
  BY <1>1, <1>2 DEF Top, Popped

LEMMA InsertInnerInv == IndInv /\ InsertInner => IndInv'
<1>. SUFFICES ASSUME IndInv, InsertInner  PROVE IndInv'
  OBVIOUS
<1>. DEFINE key == <<Top.prefix, Top.ty>>
            one == [k \in {key} |-> MergedData(Top)]
<1>1. /\ Top \in PendingItem /\ Popped \in Seq(PendingItem)
      /\ CanMount(Top)
      /\ UNCHANGED <<configs, byDepth, mounts, coerce, outcome>>
      /\ pending' = Popped \o NestedConfigs(Top)
  BY PoppedType DEF InsertInner, base
<1>2. /\ patch'.configs = Override(one, patch.configs)
      /\ patch'.byDepth = patch.byDepth \cup
           (IF Top.depth = NoDepth THEN {}
            ELSE {<<Top.prefix, Top.depth, Top.ty>>})
      /\ patch'.mounts = Override(NewMounts(Top), patch.mounts)
  BY DEF InsertInner, DepthEntry
<1>3. /\ IsMounts(mounts) /\ IsMounts(patch.mounts)
      /\ IsConfigs(configs) /\ IsConfigs(patch.configs)
  BY DEF IndInv, TypeOK
<1>4. Mounted' = Override(Override(NewMounts(Top), patch.mounts), mounts)
  BY <1>1, <1>2 DEF Mounted
<1>5. /\ IsMounts(NewMounts(Top))
      /\ Extends(Mounted, Mounted')
      /\ Covered(Top.prefix, Top.ty, Top.data, Mounted')
  BY <1>1, <1>3, <1>4, MountingExtends
<1>6. Extends(mounts, Mounted)
  BY DEF IndInv
<1>7. Extends(mounts, Mounted')
  BY <1>5, <1>6, ExtendsTransitive
<1>8. key \in DOMAIN configs => Covered(Top.prefix, Top.ty, configs[key], Mounted')
  <2>1. key \in DOMAIN configs => Covered(Top.prefix, Top.ty, configs[key], mounts)
    BY DEF IndInv, MountsCover
  <2>. QED
    BY <1>7, <2>1, CoveredByExtension
<1>9. /\ MergedData(Top) \in ConfigData
      /\ Covered(Top.prefix, Top.ty, MergedData(Top), Mounted')
  BY <1>1, <1>3, <1>5, <1>8, MergedDataCovered
<1>10. TypeOK'
  <2>1. IsConfigs(configs') /\ IsMounts(mounts')
    BY <1>1, <1>3
  <2>2. IsConfigs(patch'.configs)
    <3>1. key \in Path(Key) \X Types
      BY <1>1 DEF PendingItem
    <3>. QED
      BY <1>2, <1>3, <1>9, <3>1 DEF IsConfigs, Override
  <2>3. IsMounts(patch'.mounts)
    BY <1>2, <1>3, <1>5 DEF IsMounts, Override
  <2>4. ASSUME NEW entry \in byDepth' \cup patch'.byDepth
        PROVE  entry \in Path(Key) \X Nat \X Types
    <3>1. CASE entry \in byDepth \cup patch.byDepth
      BY <3>1 DEF IndInv, TypeOK
    <3>2. CASE entry = <<Top.prefix, Top.depth, Top.ty>> /\ Top.depth # NoDepth
      BY <1>1, <3>2 DEF PendingItem
    <3>. QED
      BY <1>1, <1>2, <2>4, <3>1, <3>2
  <2>5. pending' \in Seq(PendingItem)
    BY <1>1, NestedConfigsType
  <2>. QED
    BY <1>1, <2>1, <2>2, <2>3, <2>4, <2>5 DEF TypeOK, IndInv
<1>11. MountsCover'
  <2>1. configs' = configs /\ mounts' = mounts
    BY <1>1
  <2>2. MountsCover
    BY DEF IndInv
  <2>. QED
    BY <2>1, <2>2 DEF MountsCover, Covered
<1>12. Extends(mounts, Mounted)'
  BY <1>1, <1>7 DEF Extends
<1>13. ASSUME NEW k \in DOMAIN patch'.configs
       PROVE  Covered(k[1], k[2], patch'.configs[k], Mounted')
  <2>1. CASE k = key
    BY <1>2, <1>9, <2>1 DEF Override
  <2>2. CASE k # key
    <3>1. k \in DOMAIN patch.configs /\ patch'.configs[k] = patch.configs[k]
      BY <1>2, <1>13, <2>2 DEF Override
    <3>2. Covered(k[1], k[2], patch.configs[k], Mounted)
      BY <3>1 DEF IndInv
    <3>. QED
      BY <1>5, <3>1, <3>2, CoveredByExtension
  <2>. QED
    BY <2>1, <2>2
<1>. QED
  BY <1>10, <1>11, <1>12, <1>13 DEF IndInv, Covered

LEMMA CommitInv == IndInv /\ Commit => IndInv'
<1>. SUFFICES ASSUME IndInv, Commit  PROVE IndInv'
  OBVIOUS
<1>1. /\ configs' = Override(patch.configs, configs)
      /\ mounts' = Mounted
      /\ byDepth' = byDepth \cup patch.byDepth
      /\ patch' = EmptyPatch
      /\ UNCHANGED <<coerce, pending>> /\ outcome' = "ok"
  BY DEF Commit, Mounted
<1>2. TypeOK'
  <2>1. IsConfigs(configs') /\ IsConfigs(patch'.configs)
    BY <1>1 DEF IndInv, TypeOK, IsConfigs, Override, EmptyPatch
  <2>2. IsMounts(mounts') /\ IsMounts(patch'.mounts)
    BY <1>1 DEF IndInv, TypeOK, IsMounts, Override, Mounted, EmptyPatch
  <2>3. byDepth' \cup patch'.byDepth = byDepth \cup patch.byDepth
    BY <1>1 DEF EmptyPatch
  <2>. QED
    BY <1>1, <2>1, <2>2, <2>3 DEF TypeOK, IndInv
<1>3. ASSUME NEW key \in DOMAIN configs'
      PROVE  Covered(key[1], key[2], configs'[key], mounts')
  <2>1. CASE key \in DOMAIN patch.configs
    BY <1>1, <2>1 DEF IndInv, Override
  <2>2. CASE key \notin DOMAIN patch.configs
    <3>1. key \in DOMAIN configs /\ configs'[key] = configs[key]
      BY <1>1, <1>3, <2>2 DEF Override
    <3>2. Covered(key[1], key[2], configs[key], mounts)
      BY <3>1 DEF IndInv, MountsCover
    <3>. QED
      BY <1>1, <3>1, <3>2, CoveredByExtension DEF IndInv
  <2>. QED
    BY <2>1, <2>2
<1>4. MountsCover'
  BY <1>3 DEF MountsCover, Covered
<1>5. Extends(mounts, Mounted)'
  BY <1>1 DEF Extends, Mounted, Override, EmptyPatch
<1>6. DOMAIN patch'.configs = {}
  BY <1>1 DEF EmptyPatch
<1>. QED
  BY <1>2, <1>4, <1>5, <1>6 DEF IndInv

LEMMA NextInv == IndInv /\ [Next]_vars => IndInv'
<1>. SUFFICES ASSUME IndInv, [Next]_vars  PROVE IndInv'
  OBVIOUS
<1>0. TypeOK /\ IsConfigs(configs) /\ pending \in Seq(PendingItem)
  BY DEF IndInv, TypeOK
<1>1. ASSUME NEW b \in Coercions, CoerceSerdeEnums(b)  PROVE IndInv'
  BY <1>0, <1>1, ConstantsAssumption, SamePatchInv DEF CoerceSerdeEnums, TypeOK
<1>2. ASSUME NEW key \in Insertions, Insert(key)  PROVE IndInv'
  <2>. DEFINE entry == [path |-> key[1], deprecated |-> FALSE]
              data == [parent |-> NoParent, top |-> TRUE, coerce |-> coerce,
                       paths |-> <<entry>>]
              item == [prefix |-> key[1], ty |-> key[2], depth |-> 0,
                       data |-> data]
  <2>1. key[1] \in Path(Key) /\ key[2] \in Types
    BY ConstantsAssumption
  <2>2. <<entry>> \in Seq(PathEntry)
    BY <2>1 DEF PathEntry
  <2>3. data \in ConfigData
    BY <1>0, <2>2 DEF ConfigData, TypeOK
  <2>4. item \in PendingItem
    BY <2>1, <2>3 DEF PendingItem
  <2>5. pending' = <<item>>
    BY <1>2 DEF Insert
  <2>6. pending' \in Seq(PendingItem)
    BY <2>4, <2>5
  <2>. QED
    BY <1>0, <1>2, <2>6, EmptyPatchInv DEF Insert, base, TypeOK
<1>3. ASSUME NEW key \in DOMAIN configs, NEW alias \in Aliases,
             PushAlias(key, alias)
      PROVE  IndInv'
  <2>. DEFINE data == [configs[key] EXCEPT !.paths = <<alias>>]
              item == [prefix |-> key[1], ty |-> key[2], depth |-> NoDepth,
                       data |-> data]
  <2>1. /\ key[1] \in Path(Key) /\ key[2] \in Types
        /\ configs[key] \in ConfigData
    BY <1>0 DEF IsConfigs
  <2>2. <<alias>> \in Seq(PathEntry)
    <3>1. alias \in [path : Path(Key), deprecated : BOOLEAN]
      BY ConstantsAssumption
    <3>2. alias \in PathEntry
      BY <3>1 DEF PathEntry
    <3>. QED
      BY <3>2
  <2>3. data \in ConfigData
    BY <2>1, <2>2 DEF ConfigData
  <2>4. item \in PendingItem
    BY <2>1, <2>3 DEF PendingItem
  <2>5. pending' = <<item>>
    BY <1>3 DEF PushAlias
  <2>6. pending' \in Seq(PendingItem)
    BY <2>4, <2>5
  <2>. QED
    BY <1>0, <1>3, <2>6, EmptyPatchInv DEF PushAlias, base, TypeOK
<1>4. ASSUME NEW key \in DOMAIN configs, NEW alias \in Aliases,
             PushKnownAlias(key, alias)
      PROVE  IndInv'
  BY <1>0, <1>4, SamePatchInv DEF PushKnownAlias, base, TypeOK
<1>5. CASE SkipPresent
  BY <1>0, <1>5, PoppedType, SamePatchInv DEF SkipPresent, base, TypeOK
<1>6. CASE InsertInner
  BY <1>6, InsertInnerInv
<1>7. CASE RejectConflict
  <2>1. <<>> \in Seq(PendingItem)
    OBVIOUS
  <2>. QED
    BY <1>0, <1>7, <2>1, EmptyPatchInv DEF RejectConflict, base, TypeOK
<1>8. CASE Commit
  BY <1>8, CommitInv
<1>9. CASE UNCHANGED vars
  BY <1>0, <1>9, SamePatchInv DEF vars, TypeOK
<1>. QED
  BY <1>1, <1>2, <1>3, <1>4, <1>5, <1>6, <1>7, <1>8, <1>9 DEF Next
-----------------------------------------------------------------------------
(* Theorems *)

\* The inductive invariant holds: every path of a config of the schema and of
\* the patch under construction is mounted.
THEOREM InductiveInvariant == Spec => []IndInv
<1>1. Init => IndInv
  BY InitInv
<1>2. IndInv /\ [Next]_vars => IndInv'
  BY NextInv
<1>. QED
  BY <1>1, <1>2, PTL DEF Spec

\* The state of ConfigSchema and PatchedSchema stays well-formed.
THEOREM TypeCorrect == Spec => []TypeOK
<1>1. IndInv => TypeOK
  BY DEF IndInv
<1>. QED
  BY <1>1, InductiveInvariant, PTL

\* Whatever configs are inserted and aliased in whatever order, all their
\* paths are among the mounting points that lookups consult.
THEOREM PathsAreMounted == Spec => []MountsCover
<1>1. IndInv => MountsCover
  BY DEF IndInv
<1>. QED
  BY <1>1, InductiveInvariant, PTL

\* The promise of insert() and push_alias(): no two configs of the schema
\* conflict, since their paths share one table of mounting points.
THEOREM NoConflicts == Spec => []NoPathConflicts
<1>1. MountsCover => NoPathConflicts
  <2>. SUFFICES ASSUME MountsCover,
                       NEW key1 \in DOMAIN configs, NEW key2 \in DOMAIN configs,
                       NEW i \in DOMAIN Meta[key1[2]].params
                PROVE
         LET param1 == Meta[key1[2]].params[i]
             paths1 == PlainParamPaths(configs[key1], param1)
         IN  /\ paths1 \cap ({key2[1]} \cup PathSet(configs[key2].paths)) = {}
             /\ \A j \in DOMAIN Meta[key2[2]].params :
                  LET param2 == Meta[key2[2]].params[j]
                  IN  paths1 \cap PlainParamPaths(configs[key2], param2) # {}
                        => param1.expecting = param2.expecting
    BY DEF NoPathConflicts
  <2>1. Covered(key1[1], key1[2], configs[key1], mounts)
        /\ Covered(key2[1], key2[2], configs[key2], mounts)
    BY DEF MountsCover
  <2>. QED
    BY <2>1 DEF Covered
<1>. QED
  BY <1>1, PathsAreMounted, PTL

\* No call ever unmounts or changes a mounting point of the schema.
THEOREM MountsOnlyGrow == Spec => MountsStable
<1>1. IndInv /\ [Next]_vars => Extends(mounts, mounts')
  <2>. SUFFICES ASSUME IndInv, [Next]_vars  PROVE Extends(mounts, mounts')
    OBVIOUS
  <2>1. CASE Commit
    BY <2>1 DEF Commit, Mounted, IndInv
  <2>2. CASE ~Commit
    <3>1. mounts' = mounts
      BY <2>2 DEF Next, CoerceSerdeEnums, Insert, PushAlias, PushKnownAlias,
                  SkipPresent, InsertInner, RejectConflict, base, vars
    <3>. QED
      BY <3>1 DEF Extends
  <2>. QED
    BY <2>1, <2>2
<1>. QED
  BY <1>1, InductiveInvariant, PTL DEF Spec, MountsStable
-----------------------------------------------------------------------------
(* Lemmas about names and paths *)

LEMMA MetaTypes ==
  ASSUME NEW ty \in Types
  PROVE  /\ Meta[ty].params \in Seq(ParamMeta)
         /\ Meta[ty].nested \in Seq(NestedMeta)
<1>. Meta[ty] \in ConfigMetadata
  BY ConstantsAssumption
<1>. QED
  BY DEF ConfigMetadata

LEMMA IsNoNoPath ==
  ASSUME NEW path \in Seq(Key)
  PROVE  path # NoPath
<1>. SUFFICES ASSUME path = NoPath  PROVE FALSE
  OBVIOUS
<1>1. Len(path) = 1 /\ path[1] = NoKey
  BY DEF NoPath
<1>2. path[1] \in Key
  BY <1>1
<1>. QED
  BY <1>1, <1>2, ConstantsAssumption

LEMMA ChildNameType ==
  ASSUME NEW child \in ChildMeta
  PROVE  /\ child.name \in Seq(Key)
         /\ child.name # <<>> => Len(child.name) = 1
         /\ child.name # NoPath
<1>0. child.name \in Seq(Key) => child.name # NoPath
  BY IsNoNoPath
<1>1. CASE child.name = <<>>
  BY <1>0, <1>1
<1>2. CASE child.name # <<>>
  <2>1. PICK key \in Key : child.name = <<key>>
    BY <1>2 DEF ChildMeta, ParamMeta, NestedMeta
  <2>. QED
    BY <1>0, <2>1
<1>. QED
  BY <1>1, <1>2

\* Joining a path with a name appends the name.
LEMMA JoinName ==
  ASSUME NEW path \in Path(Key), NEW name \in Seq(Key), name # NoPath
  PROVE  JoinPath(path, NameRef(name)) = Join(path, name)
<1>1. path # NoPath
  BY IsNoNoPath DEF Path
<1>2. Climb(NameRef(name)) = 0 /\ NameRef(name).keys = name
  BY DEF Climb, NameRef
<1>3. /\ Len(path) \in Nat /\ Len(path) - 0 = Len(path)
      /\ SubSeq(path, 1, Len(path)) = path
  BY DEF Path
<1>4. ~(Climb(NameRef(name)) > Len(path))
  BY <1>2, <1>3
<1>5. JoinPath(path, NameRef(name))
        = Join(SubSeq(path, 1, Len(path) - Climb(NameRef(name))), NameRef(name).keys)
  BY <1>1, <1>2, <1>4 DEF JoinPath
<1>. QED
  BY <1>2, <1>3, <1>5

\* The first path of a child: the first path of the config, and the name.
LEMMA FirstPathOfChild ==
  ASSUME NEW data \in ConfigData, Len(data.paths) > 0,
         data.paths[1].path \in Path(Key), NEW child \in ChildMeta
  PROVE  /\ Len(AllPathsForChild(data, child)) > 0
         /\ AllPathsForChild(data, child)[1].path = Join(data.paths[1].path, child.name)
         /\ Join(data.paths[1].path, child.name)
              \in PathsNamed(data, ChildNames(child, data.coerce))
<1>. DEFINE names == ChildNames(child, data.coerce)
            n == Len(data.paths)
            m == Len(names)
            at(k) == data.paths[((k - 1) \div m) + 1]
            name(k) == names[((k - 1) % m) + 1]
            entry(k) == [path |-> JoinPath(at(k).path, name(k).ref),
                         deprecated |-> name(k).deprecated \/ at(k).deprecated]
            first == Join(data.paths[1].path, child.name)
<1>1. /\ names \in Seq(MaybeNameEntry) /\ m \in Nat
      /\ data.paths \in Seq(PathEntry) /\ n \in Nat /\ n > 0
  BY ChildNamesType DEF ConfigData
<1>2. m > 0 /\ names[1] = [ref |-> NameRef(child.name), deprecated |-> FALSE]
  <2>1. LocalNames(child) \in Seq(NameEntry) /\ child.aliases \in Seq(NameEntry)
    BY LocalNamesType DEF ChildMeta, ParamMeta, NestedMeta
  <2>2. /\ Len(LocalNames(child)) > 0
        /\ LocalNames(child)[1] = [ref |-> NameRef(child.name), deprecated |-> FALSE]
    BY <2>1, LocalNamesType DEF LocalNames
  <2>3. EnumNames(child) \in Seq(MaybeNameEntry)
    BY EnumNamesType
  <2>. QED
    BY <2>1, <2>2, <2>3 DEF ChildNames
<1>3. JoinPath(data.paths[1].path, names[1].ref) = first
  BY <1>2, ChildNameType, JoinName
<1>4. n * m \in Nat /\ n * m > 0
  <2>1. \A a, b \in Nat : a > 0 /\ b > 0 => a * b \in Nat /\ a * b > 0
    BY SMT
  <2>. QED
    BY <1>1, <1>2, <2>1
<1>5. AllPathsForChild(data, child) = [k \in 1..(n * m) |-> entry(k)]
  BY DEF AllPathsForChild
<1>6. (1 - 1) \div m = 0 /\ (1 - 1) % m = 0
  BY <1>1, <1>2, SMT
<1>7. entry(1).path = first
  BY <1>3, <1>6
<1>8. first # NoPath
  <2>1. first \in Seq(Key)
    BY ChildNameType DEF Join, Path
  <2>. QED
    BY <2>1, IsNoNoPath
<1>9. first \in PathsNamed(data, names)
  BY <1>1, <1>2, <1>3, <1>8 DEF PathsNamed
<1>. HIDE DEF entry, n, m, names, first
<1>10. Len(AllPathsForChild(data, child)) = n * m
  BY <1>4, <1>5
<1>. QED
  BY <1>4, <1>5, <1>7, <1>9, <1>10 DEF names, first
-----------------------------------------------------------------------------
(* Steps *)

\* What the steps do that neither start a call nor work on the stack.
Unrelated == UNCHANGED <<configs, byDepth, mounts, patch, pending, call>>

LEMMA StepCases ==
  ASSUME [Next]_vars
  PROVE  \/ Unrelated
         \/ \E key \in Insertions : Insert(key)
         \/ \E key \in DOMAIN configs, alias \in Aliases : PushAlias(key, alias)
         \/ SkipPresent
         \/ InsertInner
         \/ RejectConflict
         \/ Commit
BY DEF Next, vars, Unrelated, CoerceSerdeEnums, PushKnownAlias, base

Items(seq) == {seq[i] : i \in DOMAIN seq}

LEMMA ItemsOfConcat ==
  ASSUME NEW S, NEW s \in Seq(S), NEW t \in Seq(S)
  PROVE  Items(s \o t) = Items(s) \cup Items(t)
<1>. DEFINE n == Len(s)
            m == Len(t)
<1>1. n \in Nat /\ m \in Nat /\ DOMAIN s = 1..n /\ DOMAIN t = 1..m
  OBVIOUS
<1>2. DOMAIN (s \o t) = 1..(n + m)
  BY <1>1, ConcatProperties
<1>3. \A i \in 1..n : (s \o t)[i] = s[i]
  BY <1>1
<1>4. \A i \in 1..m : (s \o t)[n + i] = t[i]
  BY <1>1
<1>5. \A a, b \in Nat : \A i \in 1..(a + b) :
        i \in 1..a \/ (i - a \in 1..b /\ i = a + (i - a))
  BY SMT
<1>6. \A a, b \in Nat : /\ \A i \in 1..a : i \in 1..(a + b)
                        /\ \A i \in 1..b : a + i \in 1..(a + b)
  BY SMT
<1>. HIDE DEF n, m
<1>7. ASSUME NEW i \in 1..(n + m)
      PROVE  (s \o t)[i] \in Items(s) \cup Items(t)
  <2>1. CASE i \in 1..n
    BY <1>1, <1>3, <2>1 DEF Items
  <2>2. CASE i - n \in 1..m /\ i = n + (i - n)
    BY <1>1, <1>4, <2>2 DEF Items
  <2>. QED
    BY <1>1, <1>5, <2>1, <2>2
<1>8. ASSUME NEW i \in 1..n  PROVE s[i] \in Items(s \o t)
  BY <1>1, <1>2, <1>3, <1>6 DEF Items
<1>9. ASSUME NEW i \in 1..m  PROVE t[i] \in Items(s \o t)
  BY <1>1, <1>2, <1>4, <1>6 DEF Items
<1>. QED
  BY <1>1, <1>2, <1>7, <1>8, <1>9 DEF Items

\* The stack is its top and what is below it.
LEMMA StackItems ==
  ASSUME IndInv, Walking
  PROVE  /\ Top \in PendingItem
         /\ Popped \in Seq(PendingItem)
         /\ Stacked = Items(Popped) \cup {Top}
<1>1. pending \in Seq(PendingItem) /\ pending # <<>>
  BY DEF IndInv, TypeOK, Walking
<1>. DEFINE n == Len(pending)
<1>2. n \in Nat /\ n > 0 /\ DOMAIN pending = 1..n
  BY <1>1
<1>3. Top \in PendingItem /\ Popped \in Seq(PendingItem)
  BY PoppedType
<1>4. DOMAIN Popped = 1..(n - 1) /\ \A i \in 1..(n - 1) : Popped[i] = pending[i]
  BY <1>1, <1>2 DEF Popped
<1>5. 1..n = 1..(n - 1) \cup {n}
  BY <1>2
<1>. HIDE DEF n
<1>. QED
  BY <1>2, <1>3, <1>4, <1>5 DEF Stacked, Items, Top, n

TopKey == <<Top.prefix, Top.ty>>

\* What an iteration of the walk does to the patch and the stack.
LEMMA InsertInnerFacts ==
  ASSUME IndInv, InsertInner
  PROVE  /\ Top \in PendingItem /\ TopKey \in Path(Key) \X Types
         /\ UNCHANGED <<configs, byDepth, mounts, call>>
         /\ ~AlreadyPresent(Top)
         /\ Stacked = Items(Popped) \cup {Top}
         /\ Stacked' = Items(Popped) \cup Items(NestedConfigs(Top))
         /\ DOMAIN patch'.configs = {TopKey} \cup DOMAIN patch.configs
         /\ patch'.configs[TopKey] = MergedData(Top)
         /\ \A key \in DOMAIN patch.configs \ {TopKey} :
              patch'.configs[key] = patch.configs[key]
         /\ patch'.byDepth = patch.byDepth \cup DepthEntry(Top)
         /\ Mounted' = Override(Override(NewMounts(Top), patch.mounts), mounts)
         /\ Extends(Mounted, Mounted')
<1>0. Walking /\ CanMount(Top) /\ ~AlreadyPresent(Top)
  BY DEF InsertInner
<1>1. /\ Top \in PendingItem /\ Popped \in Seq(PendingItem)
      /\ Stacked = Items(Popped) \cup {Top}
  BY <1>0, StackItems
<1>2. TopKey \in Path(Key) \X Types
  BY <1>1 DEF PendingItem, TopKey
<1>3. UNCHANGED <<configs, byDepth, mounts, call>>
  BY DEF InsertInner, base
<1>4. Stacked' = Items(Popped) \cup Items(NestedConfigs(Top))
  <2>1. pending' = Popped \o NestedConfigs(Top)
    BY DEF InsertInner
  <2>2. Items(Popped \o NestedConfigs(Top)) = Items(Popped) \cup Items(NestedConfigs(Top))
    BY <1>1, NestedConfigsType, ItemsOfConcat
  <2>. QED
    BY <2>1, <2>2 DEF Stacked, Items
<1>5. patch' = [configs |-> Override([k \in {TopKey} |-> MergedData(Top)], patch.configs),
                byDepth |-> patch.byDepth \cup DepthEntry(Top),
                mounts  |-> Override(NewMounts(Top), patch.mounts)]
  BY DEF InsertInner, TopKey
<1>6. /\ DOMAIN patch'.configs = {TopKey} \cup DOMAIN patch.configs
      /\ patch'.configs[TopKey] = MergedData(Top)
      /\ \A key \in DOMAIN patch.configs \ {TopKey} :
           patch'.configs[key] = patch.configs[key]
      /\ patch'.byDepth = patch.byDepth \cup DepthEntry(Top)
  BY <1>5 DEF Override
<1>7. Mounted' = Override(Override(NewMounts(Top), patch.mounts), mounts)
  BY <1>3, <1>5 DEF Mounted
<1>8. Extends(Mounted, Mounted')
  BY <1>0, <1>1, <1>7, MountingExtends DEF IndInv, TypeOK
<1>. QED
  BY <1>0, <1>1, <1>2, <1>3, <1>4, <1>6, <1>7, <1>8
-----------------------------------------------------------------------------
(* The stack *)

\* The keys and the data of what a config puts on the stack.
LEMMA NestedItems ==
  ASSUME NEW item \in PendingItem, NEW new \in Items(NestedConfigs(item))
  PROVE  \E i \in DOMAIN Meta[item.ty].nested :
           /\ Meta[item.ty].nested[i] \in NestedMeta
           /\ new = [prefix |-> Join(item.prefix, Meta[item.ty].nested[i].name),
                     ty     |-> Meta[item.ty].nested[i].meta,
                     depth  |-> IF item.depth = NoDepth THEN NoDepth
                                ELSE item.depth + 1,
                     data   |-> [parent |-> ParentLink(item, i),
                                 top    |-> FALSE,
                                 coerce |-> item.data.coerce,
                                 paths  |-> AllPathsForChild(item.data,
                                              Meta[item.ty].nested[i])]]
<1>1. Meta[item.ty].nested \in Seq(NestedMeta)
  BY MetaTypes DEF PendingItem
<1>2. DOMAIN NestedConfigs(item) = DOMAIN Meta[item.ty].nested
  BY DEF NestedConfigs
<1>3. PICK i \in DOMAIN Meta[item.ty].nested : new = NestedConfigs(item)[i]
  BY <1>2 DEF Items
<1>4. Meta[item.ty].nested[i] \in NestedMeta
  BY <1>1
<1>5. new = [prefix |-> Join(item.prefix, Meta[item.ty].nested[i].name),
             ty     |-> Meta[item.ty].nested[i].meta,
             depth  |-> IF item.depth = NoDepth THEN NoDepth
                        ELSE item.depth + 1,
             data   |-> [parent |-> ParentLink(item, i),
                         top    |-> FALSE,
                         coerce |-> item.data.coerce,
                         paths  |-> AllPathsForChild(item.data,
                                      Meta[item.ty].nested[i])]]
  BY <1>3 DEF NestedConfigs
<1>. QED
  BY <1>4, <1>5

\* They are the keys of the nested configs.
LEMMA NestedItemKeys ==
  ASSUME NEW item \in PendingItem
  PROVE  {<<new.prefix, new.ty>> : new \in Items(NestedConfigs(item))}
           = NestedKeys(<<item.prefix, item.ty>>)
<1>. DEFINE nested == Meta[item.ty].nested
            entry(i) == NestedConfigs(item)[i]
<1>1. DOMAIN NestedConfigs(item) = DOMAIN nested
  BY DEF NestedConfigs
<1>2. ASSUME NEW i \in DOMAIN nested
      PROVE  <<entry(i).prefix, entry(i).ty>>
               = <<Join(item.prefix, nested[i].name), nested[i].meta>>
  BY DEF NestedConfigs
<1>3. Items(NestedConfigs(item)) = {entry(i) : i \in DOMAIN nested}
  BY <1>1 DEF Items
<1>4. NestedKeys(<<item.prefix, item.ty>>)
        = {<<Join(item.prefix, nested[i].name), nested[i].meta>> : i \in DOMAIN nested}
  BY DEF NestedKeys
<1>. HIDE DEF entry
<1>5. {<<new.prefix, new.ty>> : new \in {entry(i) : i \in DOMAIN nested}}
        = {<<entry(i).prefix, entry(i).ty>> : i \in DOMAIN nested}
  OBVIOUS
<1>6. {<<entry(i).prefix, entry(i).ty>> : i \in DOMAIN nested}
        = {<<Join(item.prefix, nested[i].name), nested[i].meta>> : i \in DOMAIN nested}
  BY <1>2
<1>. QED
  BY <1>3, <1>4, <1>5, <1>6

\* What a config put there by insert() puts there in turn.
LEMMA NestedInserted ==
  ASSUME NEW item \in PendingItem, IsInserted(item),
         NEW new \in Items(NestedConfigs(item))
  PROVE  IsInserted(new)
<1>1. PICK i \in DOMAIN Meta[item.ty].nested :
        /\ Meta[item.ty].nested[i] \in NestedMeta
        /\ new = [prefix |-> Join(item.prefix, Meta[item.ty].nested[i].name),
                  ty     |-> Meta[item.ty].nested[i].meta,
                  depth  |-> IF item.depth = NoDepth THEN NoDepth
                             ELSE item.depth + 1,
                  data   |-> [parent |-> ParentLink(item, i),
                              top    |-> FALSE,
                              coerce |-> item.data.coerce,
                              paths  |-> AllPathsForChild(item.data,
                                           Meta[item.ty].nested[i])]]
  BY NestedItems
<1>. DEFINE child == Meta[item.ty].nested[i]
<1>2. item.data \in ConfigData /\ item.depth \in Nat /\ item.prefix \in Path(Key)
  BY DEF PendingItem, IsInserted
<1>3. /\ new.depth = item.depth + 1
      /\ new.prefix = Join(item.prefix, child.name)
      /\ new.data.paths = AllPathsForChild(item.data, child)
  BY <1>1 DEF IsInserted
<1>4. /\ Len(AllPathsForChild(item.data, child)) > 0
      /\ AllPathsForChild(item.data, child)[1].path = Join(item.prefix, child.name)
  BY <1>1, <1>2, FirstPathOfChild DEF IsInserted, ChildMeta
<1>. QED
  BY <1>2, <1>3, <1>4 DEF IsInserted, NoDepth

\* A prefix extended by one segment has the former prefix for its parent.
LEMMA NestedParent ==
  ASSUME NEW path \in Seq(Key), NEW name \in Seq(Key), Len(name) = 1
  PROVE  Join(path, name) # <<>> /\ ParentOf(Join(path, name)) = path
<1>. DEFINE n == Len(path)
            all == path \o name
<1>1. n \in Nat /\ DOMAIN path = 1..n /\ path = [i \in 1..n |-> path[i]]
  OBVIOUS
<1>2. all \in Seq(Key) /\ Len(all) = n + 1 /\ \A i \in 1..n : all[i] = path[i]
  <2>1. all \in Seq(Key) /\ Len(all) = Len(path) + Len(name)
    <3>1. path \o name \in Seq(Key)
      OBVIOUS
    <3>2. Len(path \o name) = Len(path) + Len(name)
      BY ConcatProperties
    <3>. QED
      BY <3>1, <3>2
  <2>2. \A i \in 1..Len(path) : (path \o name)[i] = path[i]
    OBVIOUS
  <2>. QED
    BY <2>1, <2>2
<1>. HIDE DEF n, all
<1>3. all # <<>>
  BY <1>1, <1>2
<1>4. SubSeq(all, 1, (n + 1) - 1) = [i \in 1..n |-> all[i]]
  BY <1>1, <1>2
<1>5. SubSeq(all, 1, (n + 1) - 1) = path
  BY <1>1, <1>2, <1>4
<1>. QED
  BY <1>2, <1>3, <1>5 DEF ParentOf, Join, all

LEMMA LinkMonotone ==
  ASSUME NEW link, NEW key, NEW keys1, NEW keys2, keys1 \subseteq keys2,
         LinkResolves(link, key, keys1)
  PROVE  LinkResolves(link, key, keys2)
BY DEF LinkResolves

\* Their parent links name the config.
LEMMA NestedLinks ==
  ASSUME NEW item \in PendingItem, NEW new \in Items(NestedConfigs(item)),
         NEW keys, <<item.prefix, item.ty>> \in keys
  PROVE  LinkResolves(new.data.parent, <<new.prefix, new.ty>>, keys)
<1>1. PICK i \in DOMAIN Meta[item.ty].nested :
        /\ Meta[item.ty].nested[i] \in NestedMeta
        /\ new = [prefix |-> Join(item.prefix, Meta[item.ty].nested[i].name),
                  ty     |-> Meta[item.ty].nested[i].meta,
                  depth  |-> IF item.depth = NoDepth THEN NoDepth
                             ELSE item.depth + 1,
                  data   |-> [parent |-> ParentLink(item, i),
                              top    |-> FALSE,
                              coerce |-> item.data.coerce,
                              paths  |-> AllPathsForChild(item.data,
                                           Meta[item.ty].nested[i])]]
  BY NestedItems
<1>. DEFINE name == Meta[item.ty].nested[i].name
            link == new.data.parent
            newKey == <<new.prefix, new.ty>>
<1>2. /\ newKey = <<Join(item.prefix, name), Meta[item.ty].nested[i].meta>>
      /\ link = [ty |-> item.ty, nested |-> i]
  BY <1>1 DEF ParentLink
<1>3. item.prefix \in Seq(Key)
  BY DEF PendingItem, Path
<1>4. /\ ParentKey(link, newKey) = <<item.prefix, item.ty>>
      /\ name # <<>> => newKey[1] # <<>>
  <2>1. CASE name = <<>>
    <3>1. newKey[1] = item.prefix
      BY <1>2, <1>3, <2>1 DEF Join
    <3>. QED
      BY <1>2, <2>1, <3>1 DEF ParentKey
  <2>2. CASE name # <<>>
    <3>1. name \in Seq(Key) /\ Len(name) = 1
      BY <1>1, <2>2, ChildNameType DEF ChildMeta
    <3>2. newKey[1] # <<>> /\ ParentOf(newKey[1]) = item.prefix
      BY <1>2, <1>3, <3>1, NestedParent
    <3>. QED
      BY <1>2, <2>2, <3>2 DEF ParentKey
  <2>. QED
    BY <2>1, <2>2
<1>. HIDE DEF newKey, link
<1>. QED
  BY <1>2, <1>4 DEF LinkResolves, newKey, link
-----------------------------------------------------------------------------
(* What each step does to the parts of the state that StructureInv is about *)

LEMMA InsertFacts ==
  ASSUME NEW key \in Insertions, Insert(key)
  PROVE  /\ UNCHANGED <<configs, byDepth, mounts>>
         /\ patch' = EmptyPatch
         /\ call'.op = "insert" /\ call' # Idle
         /\ \E item : /\ Stacked' = {item} /\ IsInserted(item)
                      /\ item.data.parent = NoParent
<1>. DEFINE item == [prefix |-> key[1], ty |-> key[2], depth |-> 0,
                     data |-> [parent |-> NoParent,
                               top    |-> TRUE,
                               coerce |-> coerce,
                               paths  |-> <<[path |-> key[1],
                                             deprecated |-> FALSE]>>]]
<1>1. pending' = <<item>>
  BY DEF Insert
<1>2. IsInserted(item) /\ item.data.parent = NoParent
  BY DEF IsInserted, NoDepth
<1>. HIDE DEF item
<1>3. Stacked' = {item}
  BY <1>1 DEF Stacked
<1>4. call'.op = "insert" /\ call' # Idle
  BY DEF Insert, Idle
<1>5. UNCHANGED <<configs, byDepth, mounts>> /\ patch' = EmptyPatch
  BY DEF Insert, base
<1>. QED
  BY <1>2, <1>3, <1>4, <1>5

LEMMA PushAliasFacts ==
  ASSUME IndInv, NEW key \in DOMAIN configs, NEW alias \in Aliases,
         PushAlias(key, alias)
  PROVE  /\ UNCHANGED <<configs, byDepth, mounts>>
         /\ patch' = EmptyPatch
         /\ call'.op = "push_alias" /\ call' # Idle
         /\ \E item : /\ Stacked' = {item}
                      /\ item.prefix = key[1] /\ item.ty = key[2]
                      /\ item.data.parent = configs[key].parent
<1>. DEFINE item == [prefix |-> key[1], ty |-> key[2], depth |-> NoDepth,
                     data |-> [configs[key] EXCEPT !.paths = <<alias>>]]
<1>1. pending' = <<item>>
  BY DEF PushAlias
<1>2. Stacked' = {item}
  BY <1>1 DEF Stacked
<1>3. item.data.parent = configs[key].parent
  BY DEF IndInv, TypeOK, IsConfigs, ConfigData
<1>4. call'.op = "push_alias" /\ call' # Idle
  BY DEF PushAlias, Idle
<1>. QED
  BY <1>2, <1>3, <1>4 DEF PushAlias, base

LEMMA SkipPresentFacts ==
  ASSUME IndInv, SkipPresent
  PROVE  /\ UNCHANGED <<configs, byDepth, mounts, patch, call>>
         /\ TopKey \in DOMAIN configs
         /\ Stacked = Stacked' \cup {Top}
<1>1. Walking /\ AlreadyPresent(Top) /\ pending' = Popped
  BY DEF SkipPresent
<1>2. Stacked' = Items(Popped)
  BY <1>1 DEF Stacked, Items
<1>. QED
  BY <1>1, <1>2, StackItems DEF SkipPresent, base, AlreadyPresent, TopKey

LEMMA RejectConflictFacts ==
  ASSUME RejectConflict
  PROVE  /\ UNCHANGED <<configs, byDepth, mounts>>
         /\ patch' = EmptyPatch /\ call' = Idle
         /\ pending' = <<>> /\ Stacked' = {}
BY DEF RejectConflict, base, Stacked

LEMMA CommitFacts ==
  ASSUME Commit
  PROVE  /\ DOMAIN configs' = Known
         /\ \A key \in DOMAIN patch.configs : configs'[key] = patch.configs[key]
         /\ \A key \in DOMAIN configs \ DOMAIN patch.configs :
              configs'[key] = configs[key]
         /\ byDepth' = byDepth \cup patch.byDepth
         /\ mounts' = Mounted
         /\ patch' = EmptyPatch /\ call' = Idle
         /\ pending' = <<>> /\ Stacked' = {}
<1>1. configs' = Override(patch.configs, configs)
  BY DEF Commit
<1>2. /\ DOMAIN configs' = Known
      /\ \A key \in DOMAIN patch.configs : configs'[key] = patch.configs[key]
      /\ \A key \in DOMAIN configs \ DOMAIN patch.configs :
           configs'[key] = configs[key]
  BY <1>1 DEF Override, Known
<1>3. pending' = <<>> /\ Stacked' = {}
  BY DEF Commit, Stacked
<1>. QED
  BY <1>2, <1>3 DEF Commit, Mounted

LEMMA EmptyPatchFacts ==
  /\ EmptyPatch.configs = <<>> /\ DOMAIN EmptyPatch.configs = {}
  /\ EmptyPatch.byDepth = {} /\ EmptyPatch.mounts = <<>>
BY DEF EmptyPatch

\* Steps that cannot disturb the invariant.
LEMMA UnrelatedStructure ==
  ASSUME StructureInv, Unrelated
  PROVE  StructureInv'
<1>1. /\ UNCHANGED <<configs, byDepth, mounts, patch, pending, call>>
      /\ Stacked' = Stacked /\ Known' = Known /\ Mounted' = Mounted
  BY DEF Unrelated, Stacked, Known, Mounted
<1>2. PendingKeys' = PendingKeys
  BY <1>1 DEF PendingKeys
<1>3. StackInv' /\ NestedInv'
  BY <1>1, <1>2 DEF StructureInv, StackInv, NestedInv, NestedPresent
<1>4. ParentInv'
  BY <1>1 DEF StructureInv, ParentInv, ParentLinkResolves
<1>5. MarkedInv'
  BY <1>1 DEF StructureInv, MarkedInv, CanonicalParamsMarked, ParamsMarked
<1>6. DepthInv' /\ PriorityInv'
  BY <1>1 DEF StructureInv, DepthInv, PriorityInv
<1>. QED
  BY <1>3, <1>4, <1>5, <1>6 DEF StructureInv
-----------------------------------------------------------------------------
(* StackInv *)

LEMMA StackInvNext ==
  ASSUME IndInv, StructureInv, [Next]_vars
  PROVE  StackInv'
<1>. USE DEF StructureInv
<1>1. CASE Unrelated
  BY <1>1, UnrelatedStructure
<1>2. ASSUME NEW key \in Insertions, Insert(key)  PROVE StackInv'
  BY <1>2, InsertFacts DEF StackInv
<1>3. ASSUME NEW key \in DOMAIN configs, NEW alias \in Aliases,
             PushAlias(key, alias)
      PROVE  StackInv'
  <2>1. PICK item : /\ Stacked' = {item}
                    /\ item.prefix = key[1] /\ item.ty = key[2]
    BY <1>3, PushAliasFacts
  <2>2. key = <<key[1], key[2]>>
    BY DEF IndInv, TypeOK, IsConfigs
  <2>3. PendingKeys' = {key}
    BY <2>1, <2>2 DEF PendingKeys
  <2>. QED
    BY <1>3, <2>3, PushAliasFacts, EmptyPatchFacts DEF StackInv
<1>4. CASE SkipPresent
  <2>1. PendingKeys' \subseteq PendingKeys /\ Stacked' \subseteq Stacked
    BY <1>4, SkipPresentFacts DEF PendingKeys
  <2>2. call # Idle
    BY <1>4 DEF SkipPresent, Walking
  <2>. QED
    BY <1>4, <2>1, <2>2, SkipPresentFacts DEF StackInv
<1>5. CASE InsertInner
  <2>1. call' = call /\ call # Idle
    BY <1>5 DEF InsertInner, Walking
  <2>2. ASSUME call.op = "insert", NEW item \in Stacked'  PROVE IsInserted(item)
    BY <1>5, <2>2, InsertInnerFacts, NestedInserted DEF StackInv
  <2>3. ASSUME call.op # "insert"
        PROVE  (PendingKeys \cup DOMAIN patch.configs)' \subseteq DOMAIN configs
    <3>1. TopKey \in DOMAIN configs /\ Top \in PendingItem
      BY <1>5, <2>3, InsertInnerFacts DEF StackInv, PendingKeys, TopKey
    <3>2. {<<new.prefix, new.ty>> : new \in Items(NestedConfigs(Top))}
            \subseteq DOMAIN configs
      BY <3>1, NestedItemKeys DEF NestedInv, NestedPresent, TopKey
    <3>3. PendingKeys' \subseteq DOMAIN configs
      BY <1>5, <2>3, <3>2, InsertInnerFacts DEF StackInv, PendingKeys
    <3>. QED
      BY <1>5, <2>3, <3>1, <3>3, InsertInnerFacts DEF StackInv
  <2>. QED
    BY <1>5, <2>1, <2>2, <2>3, InsertInnerFacts DEF StackInv
<1>6. CASE RejectConflict
  BY <1>6, RejectConflictFacts, EmptyPatchFacts DEF StackInv, PendingKeys, Idle
<1>7. CASE Commit
  BY <1>7, CommitFacts, EmptyPatchFacts DEF StackInv, PendingKeys, Idle
<1>. QED
  BY <1>1, <1>2, <1>3, <1>4, <1>5, <1>6, <1>7, StepCases
-----------------------------------------------------------------------------
(* NestedInv *)

LEMMA NestedInvNext ==
  ASSUME IndInv, StructureInv, [Next]_vars
  PROVE  NestedInv'
<1>. USE DEF StructureInv
<1>1. CASE Unrelated
  BY <1>1, UnrelatedStructure
<1>2. ASSUME UNCHANGED configs, patch' = EmptyPatch  PROVE NestedInv'
  BY <1>2, EmptyPatchFacts DEF NestedInv, NestedPresent
<1>3. CASE SkipPresent
  <2>1. PendingKeys = PendingKeys' \cup {TopKey}
    BY <1>3, SkipPresentFacts DEF PendingKeys, TopKey
  <2>2. Known' = Known /\ TopKey \in Known
    BY <1>3, SkipPresentFacts DEF Known
  <2>3. ASSUME NEW key \in DOMAIN patch'.configs
        PROVE  NestedKeys(key) \subseteq Known' \cup PendingKeys'
    BY <1>3, <2>1, <2>2, SkipPresentFacts DEF NestedInv
  <2>. QED
    BY <1>3, <2>3, SkipPresentFacts DEF NestedInv, NestedPresent
<1>4. CASE InsertInner
  <2>1. /\ PendingKeys \subseteq PendingKeys' \cup {TopKey}
        /\ NestedKeys(TopKey) \subseteq PendingKeys'
    BY <1>4, InsertInnerFacts, NestedItemKeys DEF PendingKeys, TopKey
  <2>2. Known' = Known \cup {TopKey}
    BY <1>4, InsertInnerFacts DEF Known
  <2>3. ASSUME NEW key \in DOMAIN patch'.configs
        PROVE  NestedKeys(key) \subseteq Known' \cup PendingKeys'
    <3>1. CASE key = TopKey
      BY <2>1, <3>1
    <3>2. CASE key \in DOMAIN patch.configs
      BY <2>1, <2>2, <3>2 DEF NestedInv
    <3>. QED
      BY <1>4, <3>1, <3>2, InsertInnerFacts
  <2>. QED
    BY <1>4, <2>3, InsertInnerFacts DEF NestedInv, NestedPresent
<1>5. CASE Commit
  <2>1. PendingKeys = {}
    BY <1>5 DEF Commit, PendingKeys, Stacked
  <2>2. ASSUME NEW key \in Known  PROVE NestedKeys(key) \subseteq Known
    BY <2>1 DEF NestedInv, NestedPresent, Known
  <2>. QED
    BY <1>5, <2>2, CommitFacts, EmptyPatchFacts DEF NestedInv, NestedPresent
<1>. QED
  BY <1>1, <1>2, <1>3, <1>4, <1>5, StepCases, InsertFacts, PushAliasFacts,
     RejectConflictFacts
-----------------------------------------------------------------------------
(* ParentInv *)

LEMMA ParentInvNext ==
  ASSUME IndInv, StructureInv, [Next]_vars
  PROVE  ParentInv'
<1>. USE DEF StructureInv
<1>1. CASE Unrelated
  BY <1>1, UnrelatedStructure
<1>2. ASSUME UNCHANGED configs, patch' = EmptyPatch,
             \A item \in Stacked' :
               LinkResolves(item.data.parent, <<item.prefix, item.ty>>, Known')
      PROVE  ParentInv'
  BY <1>2, EmptyPatchFacts DEF ParentInv, ParentLinkResolves
<1>3. ASSUME NEW key \in Insertions, Insert(key)  PROVE ParentInv'
  <2>1. \A item \in Stacked' :
         LinkResolves(item.data.parent, <<item.prefix, item.ty>>, Known')
    BY <1>3, InsertFacts DEF LinkResolves
  <2>. QED
    BY <1>2, <1>3, <2>1, InsertFacts
<1>4. ASSUME NEW key \in DOMAIN configs, NEW alias \in Aliases,
             PushAlias(key, alias)
      PROVE  ParentInv'
  <2>1. DOMAIN configs \subseteq Known'
    BY <1>4, PushAliasFacts DEF Known
  <2>2. LinkResolves(configs[key].parent, key, DOMAIN configs)
    BY DEF ParentInv, ParentLinkResolves
  <2>3. LinkResolves(configs[key].parent, key, Known')
    BY <2>1, <2>2, LinkMonotone
  <2>4. \A item \in Stacked' :
         LinkResolves(item.data.parent, <<item.prefix, item.ty>>, Known')
    <3>1. key = <<key[1], key[2]>>
      BY DEF IndInv, TypeOK, IsConfigs
    <3>. QED
      BY <1>4, <2>3, <3>1, PushAliasFacts
  <2>. QED
    BY <1>2, <1>4, <2>4, PushAliasFacts
<1>5. CASE SkipPresent
  <2>1. Known' = Known
    BY <1>5, SkipPresentFacts DEF Known
  <2>. QED
    BY <1>5, <2>1, SkipPresentFacts DEF ParentInv, ParentLinkResolves
<1>6. CASE InsertInner
  <2>1. Known' = Known \cup {TopKey}
    BY <1>6, InsertInnerFacts DEF Known
  <2>2. ASSUME NEW item \in Stacked'
        PROVE  LinkResolves(item.data.parent, <<item.prefix, item.ty>>, Known')
    <3>1. CASE item \in Items(NestedConfigs(Top))
      BY <1>6, <2>1, <3>1, InsertInnerFacts, NestedLinks DEF TopKey
    <3>2. CASE item \in Stacked
      BY <2>1, <3>2, LinkMonotone DEF ParentInv
    <3>. QED
      BY <1>6, <3>1, <3>2, InsertInnerFacts
  <2>3. ASSUME NEW key \in DOMAIN patch'.configs
        PROVE  LinkResolves(patch'.configs[key].parent, key, Known')
    <3>1. CASE key = TopKey
      <4>1. MergedData(Top).parent = Top.data.parent
        BY <1>6, InsertInnerFacts DEF MergedData, PendingItem, ConfigData
      <4>2. LinkResolves(Top.data.parent, TopKey, Known)
        BY <1>6, InsertInnerFacts DEF ParentInv, TopKey
      <4>. QED
        BY <1>6, <2>1, <3>1, <4>1, <4>2, InsertInnerFacts, LinkMonotone DEF TopKey
    <3>2. CASE key \in DOMAIN patch.configs \ {TopKey}
      BY <1>6, <2>1, <3>2, InsertInnerFacts, LinkMonotone DEF ParentInv
    <3>. QED
      BY <1>6, <3>1, <3>2, InsertInnerFacts
  <2>. QED
    BY <1>6, <2>2, <2>3, InsertInnerFacts DEF ParentInv, ParentLinkResolves
<1>7. CASE RejectConflict
  BY <1>2, <1>7, RejectConflictFacts
<1>8. CASE Commit
  <2>1. ASSUME NEW key \in DOMAIN configs'
        PROVE  LinkResolves(configs'[key].parent, key, DOMAIN configs')
    <3>1. CASE key \in DOMAIN patch.configs
      BY <1>8, <3>1, CommitFacts DEF ParentInv
    <3>2. CASE key \in DOMAIN configs \ DOMAIN patch.configs
      <4>1. LinkResolves(configs[key].parent, key, DOMAIN configs)
        BY <3>2 DEF ParentInv, ParentLinkResolves
      <4>2. DOMAIN configs \subseteq Known
        BY DEF Known
      <4>3. LinkResolves(configs[key].parent, key, Known)
        BY <4>1, <4>2, LinkMonotone
      <4>. QED
        BY <1>8, <3>2, <4>3, CommitFacts
    <3>. QED
      BY <1>8, <2>1, <3>1, <3>2, CommitFacts DEF Known
  <2>. QED
    BY <1>8, <2>1, CommitFacts, EmptyPatchFacts DEF ParentInv, ParentLinkResolves
<1>. QED
  BY <1>1, <1>3, <1>4, <1>5, <1>6, <1>7, <1>8, StepCases
-----------------------------------------------------------------------------
(* MarkedInv *)

LEMMA MarkedMonotone ==
  ASSUME NEW key, NEW m1, NEW m2, Extends(m1, m2), ParamsMarked(key, m1)
  PROVE  ParamsMarked(key, m2)
BY DEF ParamsMarked, Extends

\* A config that insert() mounts has the canonical paths of its params marked.
LEMMA InsertionMarks ==
  ASSUME NEW item \in PendingItem, IsInserted(item), CanMount(item)
  PROVE  ParamsMarked(<<item.prefix, item.ty>>,
                      Override(Override(NewMounts(item), patch.mounts), mounts))
<1>. DEFINE params == Meta[item.ty].params
            m == Override(Override(NewMounts(item), patch.mounts), mounts)
<1>. SUFFICES ASSUME NEW i \in DOMAIN params
              PROVE  LET path == Join(item.prefix, params[i].name)
                     IN  path \in DOMAIN m /\ m[path].canonical
  BY DEF ParamsMarked
<1>. DEFINE path == Join(item.prefix, params[i].name)
<1>1. params[i] \in ChildMeta /\ item.data \in ConfigData /\ item.prefix \in Path(Key)
  BY MetaTypes DEF PendingItem, ChildMeta
<1>2. path \in ParamPaths(item.data, params[i])
  BY <1>1, FirstPathOfChild DEF IsInserted, ParamPaths
<1>3. path = FirstParamPath(item.data, params[i])
  BY <1>1, ChildNameType, JoinName DEF IsInserted, FirstParamPath
<1>4. path \in AllParamPaths(item) /\ i \in ParamsAt(item, path)
  BY <1>2 DEF AllParamPaths, ParamsAt
<1>5. path \notin ConfigPaths(item)
  BY <1>4 DEF CanMount, CanMountParams
<1>6. IsCanonical(item, path)
  BY <1>3, <1>4 DEF IsCanonical
<1>7. path \in DOMAIN NewMounts(item) /\ NewMounts(item)[path].canonical
  BY <1>4, <1>5, <1>6 DEF NewMounts
<1>. HIDE DEF path
<1>8. path \in DOMAIN m /\ m[path].canonical
  BY <1>7 DEF Override
<1>. QED
  BY <1>8 DEF path

LEMMA MarkedInvNext ==
  ASSUME IndInv, StructureInv, [Next]_vars
  PROVE  MarkedInv'
<1>. USE DEF StructureInv
<1>1. CASE Unrelated
  BY <1>1, UnrelatedStructure
<1>2. ASSUME UNCHANGED <<configs, mounts>>, patch' = EmptyPatch  PROVE MarkedInv'
  BY <1>2, EmptyPatchFacts DEF MarkedInv, CanonicalParamsMarked, ParamsMarked
<1>3. CASE SkipPresent
  <2>1. Mounted' = Mounted
    BY <1>3, SkipPresentFacts DEF Mounted
  <2>. QED
    BY <1>3, <2>1, SkipPresentFacts DEF MarkedInv, CanonicalParamsMarked, ParamsMarked
<1>4. CASE InsertInner
  <2>1. ParamsMarked(TopKey, Mounted')
    <3>1. CASE call.op = "insert"
      <4>1. IsInserted(Top) /\ CanMount(Top)
        BY <1>4, <3>1, InsertInnerFacts DEF StackInv, InsertInner
      <4>. QED
        BY <1>4, <4>1, InsertInnerFacts, InsertionMarks DEF TopKey
    <3>2. CASE call.op # "insert"
      <4>1. TopKey \in DOMAIN configs
        BY <1>4, <3>2, InsertInnerFacts DEF StackInv, PendingKeys, TopKey
      <4>2. ParamsMarked(TopKey, mounts) /\ Extends(mounts, Mounted)
        BY <4>1 DEF MarkedInv, CanonicalParamsMarked, IndInv
      <4>. QED
        BY <1>4, <4>2, InsertInnerFacts, MarkedMonotone
    <3>. QED
      BY <3>1, <3>2
  <2>2. ASSUME NEW key \in DOMAIN patch.configs  PROVE ParamsMarked(key, Mounted')
    BY <1>4, <2>2, InsertInnerFacts, MarkedMonotone DEF MarkedInv
  <2>3. \A key \in DOMAIN patch'.configs : ParamsMarked(key, Mounted')
    BY <1>4, <2>1, <2>2, InsertInnerFacts
  <2>4. CanonicalParamsMarked'
    BY <1>4, InsertInnerFacts DEF MarkedInv, CanonicalParamsMarked, ParamsMarked
  <2>. QED
    BY <2>3, <2>4 DEF MarkedInv, ParamsMarked
<1>5. CASE Commit
  <2>1. ASSUME NEW key \in Known  PROVE ParamsMarked(key, Mounted)
    BY MarkedMonotone DEF MarkedInv, CanonicalParamsMarked, Known, IndInv
  <2>2. CanonicalParamsMarked'
    BY <1>5, <2>1, CommitFacts DEF CanonicalParamsMarked, ParamsMarked
  <2>. QED
    BY <1>5, <2>2, CommitFacts, EmptyPatchFacts DEF MarkedInv
<1>. QED
  BY <1>1, <1>2, <1>3, <1>4, <1>5, StepCases, InsertFacts, PushAliasFacts,
     RejectConflictFacts
-----------------------------------------------------------------------------
(* DepthInv *)

LEMMA DepthInvNext ==
  ASSUME IndInv, StructureInv, [Next]_vars
  PROVE  DepthInv'
<1>. USE DEF StructureInv
<1>1. CASE Unrelated
  BY <1>1, UnrelatedStructure
<1>2. ASSUME UNCHANGED <<configs, byDepth>>, patch' = EmptyPatch  PROVE DepthInv'
  BY <1>2, EmptyPatchFacts DEF DepthInv, Known
<1>3. CASE SkipPresent
  BY <1>3, SkipPresentFacts DEF DepthInv, Known
<1>4. CASE InsertInner
  <2>1. Known' = Known \cup {TopKey}
    BY <1>4, InsertInnerFacts DEF Known
  <2>2. (byDepth \cup patch.byDepth)' = byDepth \cup patch.byDepth \cup DepthEntry(Top)
    BY <1>4, InsertInnerFacts
  <2>3. KeysByDepth((byDepth \cup patch.byDepth)') = Known \cup KeysByDepth(DepthEntry(Top))
    BY <2>2 DEF DepthInv, KeysByDepth
  <2>4. CASE call.op = "insert"
    <3>1. Top.depth # NoDepth
      BY <1>4, <2>4, InsertInnerFacts DEF StackInv, IsInserted
    <3>2. KeysByDepth(DepthEntry(Top)) = {TopKey}
      BY <3>1 DEF DepthEntry, KeysByDepth, TopKey
    <3>. QED
      BY <1>4, <2>1, <2>3, <3>2, InsertInnerFacts DEF DepthInv, KeysByDepth
  <2>5. CASE call.op # "insert"
    <3>1. TopKey \in Known
      BY <1>4, <2>5, InsertInnerFacts DEF StackInv, PendingKeys, TopKey, Known
    <3>2. KeysByDepth(DepthEntry(Top)) \subseteq {TopKey}
      BY DEF DepthEntry, KeysByDepth, TopKey
    <3>. QED
      BY <1>4, <2>1, <2>3, <3>1, <3>2, InsertInnerFacts DEF DepthInv, KeysByDepth
  <2>. QED
    BY <2>4, <2>5
<1>5. CASE Commit
  BY <1>5, CommitFacts, EmptyPatchFacts DEF DepthInv, Known
<1>. QED
  BY <1>1, <1>2, <1>3, <1>4, <1>5, StepCases, InsertFacts, PushAliasFacts,
     RejectConflictFacts
-----------------------------------------------------------------------------
(* PriorityInv *)

LEMMA MergedPathsKept ==
  ASSUME NEW item \in PendingItem, IsConfigs(configs),
         <<item.prefix, item.ty>> \in DOMAIN configs
  PROVE  PathsKept(configs[<<item.prefix, item.ty>>], MergedData(item))
<1>. DEFINE old == configs[<<item.prefix, item.ty>>].paths
            new == item.data.paths
<1>1. old \in Seq(PathEntry) /\ new \in Seq(PathEntry)
  BY DEF IsConfigs, PendingItem, ConfigData
<1>2. MergedData(item).paths = old \o new
  BY DEF MergedData, PendingItem, ConfigData
<1>. HIDE DEF old, new
<1>3. /\ Len(old) \in Nat /\ Len(new) \in Nat /\ DOMAIN old = 1..Len(old)
      /\ Len(old \o new) = Len(old) + Len(new)
      /\ \A i \in 1..Len(old) : (old \o new)[i] = old[i]
  BY <1>1, ConcatProperties
<1>. QED
  BY <1>2, <1>3 DEF PathsKept, old

LEMMA PathsKeptReflexive ==
  ASSUME NEW data \in ConfigData
  PROVE  PathsKept(data, data)
<1>1. Len(data.paths) \in Nat
  BY DEF ConfigData
<1>. QED
  BY <1>1 DEF PathsKept

LEMMA PriorityInvNext ==
  ASSUME IndInv, StructureInv, [Next]_vars
  PROVE  PriorityInv'
<1>. USE DEF StructureInv
<1>1. CASE Unrelated
  BY <1>1, UnrelatedStructure
<1>2. ASSUME patch' = EmptyPatch  PROVE PriorityInv'
  BY <1>2, EmptyPatchFacts DEF PriorityInv
<1>3. CASE SkipPresent
  BY <1>3, SkipPresentFacts DEF PriorityInv
<1>4. CASE InsertInner
  <2>1. ASSUME NEW key \in DOMAIN patch'.configs \cap DOMAIN configs
        PROVE  PathsKept(configs[key], patch'.configs[key])
    <3>1. CASE key = TopKey
      BY <1>4, <3>1, InsertInnerFacts, MergedPathsKept DEF TopKey, IndInv, TypeOK
    <3>2. CASE key \in DOMAIN patch.configs \ {TopKey}
      BY <1>4, <3>2, InsertInnerFacts DEF PriorityInv
    <3>. QED
      BY <1>4, <3>1, <3>2, InsertInnerFacts
  <2>. QED
    BY <1>4, <2>1, InsertInnerFacts DEF PriorityInv
<1>. QED
  BY <1>1, <1>2, <1>3, <1>4, StepCases, InsertFacts, PushAliasFacts,
     RejectConflictFacts, CommitFacts

\* Only a commit changes the configs of the schema.
LEMMA ConfigsKept ==
  ASSUME IndInv, StructureInv, [Next]_vars, NEW key \in DOMAIN configs
  PROVE  key \in DOMAIN configs' /\ PathsKept(configs[key], configs'[key])
<1>0. PathsKept(configs[key], configs[key])
  BY PathsKeptReflexive DEF IndInv, TypeOK, IsConfigs
<1>1. CASE Commit
  <2>1. key \in DOMAIN configs'
    BY <1>1, CommitFacts DEF Known
  <2>2. CASE key \in DOMAIN patch.configs
    BY <1>1, <2>1, <2>2, CommitFacts DEF StructureInv, PriorityInv
  <2>3. CASE key \notin DOMAIN patch.configs
    BY <1>0, <1>1, <2>1, <2>3, CommitFacts
  <2>. QED
    BY <2>2, <2>3
<1>2. CASE UNCHANGED configs
  BY <1>0, <1>2
<1>. QED
  BY <1>1, <1>2, StepCases, InsertFacts, PushAliasFacts, SkipPresentFacts,
     InsertInnerFacts, RejectConflictFacts DEF Unrelated
-----------------------------------------------------------------------------
(* Theorems *)

LEMMA InitStructure == Init => StructureInv
<1>. SUFFICES ASSUME Init  PROVE StructureInv
  OBVIOUS
<1>1. /\ DOMAIN configs = {} /\ byDepth = {} /\ pending = <<>> /\ call = Idle
      /\ patch = EmptyPatch
  BY DEF Init
<1>2. Stacked = {} /\ PendingKeys = {} /\ Known = {}
  BY <1>1, EmptyPatchFacts DEF Stacked, PendingKeys, Known
<1>3. StackInv
  BY <1>1, <1>2, EmptyPatchFacts DEF StackInv, Idle
<1>4. NestedInv /\ ParentInv /\ MarkedInv /\ PriorityInv
  BY <1>1, <1>2, EmptyPatchFacts
     DEF NestedInv, NestedPresent, ParentInv, ParentLinkResolves, MarkedInv,
         CanonicalParamsMarked, PriorityInv
<1>5. DepthInv
  BY <1>1, <1>2, EmptyPatchFacts DEF DepthInv, KeysByDepth
<1>. QED
  BY <1>3, <1>4, <1>5 DEF StructureInv

\* What a walk over nested configs has done and what it still owes always add
\* up: the stack holds every config that is missing, and nothing that the
\* schema and the patch could not take.
THEOREM StructureHolds == Spec => []StructureInv
<1>1. Init => StructureInv
  BY InitStructure
<1>2. IndInv /\ StructureInv /\ [Next]_vars => StructureInv'
  BY StackInvNext, NestedInvNext, ParentInvNext, MarkedInvNext, DepthInvNext,
     PriorityInvNext DEF StructureInv
<1>. QED
  BY <1>1, <1>2, InductiveInvariant, PTL DEF Spec

\* Whatever calls are made, and wherever some of them fail, the schema never
\* has a config without the configs nested in it.
THEOREM NestedConfigsPresent == Spec => []NestedPresent
<1>1. StructureInv => NestedPresent
  BY DEF StructureInv, NestedInv
<1>. QED
  BY <1>1, StructureHolds, PTL

\* parent_link() of every config of the schema names a config of the schema.
THEOREM ParentLinksResolve == Spec => []ParentLinkResolves
<1>1. StructureInv => ParentLinkResolves
  BY DEF StructureInv, ParentInv
<1>. QED
  BY <1>1, StructureHolds, PTL

\* The canonical path of every param of the schema is mounted as canonical, so
\* that garbage collection keeps the values there.
THEOREM CanonicalPathsMarked == Spec => []CanonicalParamsMarked
<1>1. StructureInv => CanonicalParamsMarked
  BY DEF StructureInv, MarkedInv
<1>. QED
  BY <1>1, StructureHolds, PTL

\* iter() misses no config of the schema and invents none (the first part of
\* IterCovers; the second one needs that no config is reached at two depths).
THEOREM IterIsComplete == Spec => [](KeysByDepth(byDepth) = DOMAIN configs)
<1>1. StructureInv => KeysByDepth(byDepth) = DOMAIN configs
  BY DEF StructureInv, DepthInv
<1>. QED
  BY <1>1, StructureHolds, PTL

\* No call removes a config or reorders its paths: an alias pushed later never
\* takes precedence over an earlier one.
THEOREM AliasPrioritiesKept == Spec => AliasPriorityKept
<1>1. IndInv /\ StructureInv /\ [Next]_vars
        => [\A key \in DOMAIN configs :
              key \in DOMAIN configs' /\ PathsKept(configs[key], configs'[key])]_vars
  BY ConfigsKept
<1>. QED
  BY <1>1, InductiveInvariant, StructureHolds, PTL DEF Spec, AliasPriorityKept
-----------------------------------------------------------------------------
(* What holds if no walk inserts a config twice, as insert_inner() assumes *)

\* Only configs inserted for the first time enter the iteration order.
DepthsOnce ==
  /\ OneDepth(byDepth \cup patch.byDepth)
  /\ call.op # "insert" => \A item \in Stacked : item.depth = NoDepth

LEMMA DepthsOnceNext ==
  ASSUME IndInv, StructureInv, InsertedOnce, DepthsOnce, [Next]_vars
  PROVE  DepthsOnce'
<1>1. CASE Unrelated
  <2>1. Stacked' = Stacked
    BY <1>1 DEF Unrelated, Stacked
  <2>. QED
    BY <1>1, <2>1 DEF Unrelated, DepthsOnce
<1>2. ASSUME UNCHANGED byDepth, patch' = EmptyPatch
      PROVE  OneDepth((byDepth \cup patch.byDepth)')
  BY <1>2, EmptyPatchFacts DEF DepthsOnce, OneDepth
<1>3. ASSUME NEW key \in Insertions, Insert(key)  PROVE DepthsOnce'
  BY <1>2, <1>3, InsertFacts DEF DepthsOnce
<1>4. ASSUME NEW key \in DOMAIN configs, NEW alias \in Aliases,
             PushAlias(key, alias)
      PROVE  DepthsOnce'
  <2>1. \A item \in Stacked' : item.depth = NoDepth
    BY <1>4 DEF PushAlias, Stacked
  <2>. QED
    BY <1>2, <1>4, <2>1, PushAliasFacts DEF DepthsOnce
<1>5. CASE SkipPresent
  BY <1>5, SkipPresentFacts DEF DepthsOnce
<1>6. CASE InsertInner
  <2>1. (byDepth \cup patch.byDepth)' = byDepth \cup patch.byDepth \cup DepthEntry(Top)
    BY <1>6, InsertInnerFacts
  <2>2. CASE call.op = "insert"
    <3>1. TopKey \notin Known
      BY <1>6, <2>2 DEF InsertInner, InsertedOnce, AlreadyPresent, Known, TopKey
    <3>2. \A entry \in byDepth \cup patch.byDepth : <<entry[1], entry[3]>> \in Known
      BY DEF StructureInv, DepthInv, KeysByDepth
    <3>3. \A entry \in DepthEntry(Top) :
            /\ <<entry[1], entry[3]>> = TopKey
            /\ entry = <<Top.prefix, Top.depth, Top.ty>>
      BY DEF DepthEntry, TopKey
    <3>4. \A e1, e2 : e1[1] = e2[1] /\ e1[3] = e2[3]
                        => <<e1[1], e1[3]>> = <<e2[1], e2[3]>>
      OBVIOUS
    <3>5. OneDepth(byDepth \cup patch.byDepth \cup DepthEntry(Top))
      BY <3>1, <3>2, <3>3, <3>4 DEF DepthsOnce, OneDepth
    <3>. QED
      BY <1>6, <2>1, <2>2, <3>5, InsertInnerFacts DEF DepthsOnce
  <2>3. CASE call.op # "insert"
    <3>1. Top.depth = NoDepth
      BY <1>6, <2>3, InsertInnerFacts DEF DepthsOnce
    <3>2. DepthEntry(Top) = {}
      BY <3>1 DEF DepthEntry
    <3>3. ASSUME NEW item \in Items(NestedConfigs(Top))  PROVE item.depth = NoDepth
      BY <1>6, <3>1, <3>3, InsertInnerFacts, NestedItems
    <3>. QED
      BY <1>6, <2>1, <2>3, <3>2, <3>3, InsertInnerFacts DEF DepthsOnce
  <2>. QED
    BY <2>2, <2>3
<1>7. CASE RejectConflict
  BY <1>2, <1>7, RejectConflictFacts DEF DepthsOnce
<1>8. CASE Commit
  BY <1>8, CommitFacts, EmptyPatchFacts DEF DepthsOnce
<1>. QED
  BY <1>1, <1>3, <1>4, <1>5, <1>6, <1>7, <1>8, StepCases

\* iter() lists every config of the schema exactly once, unless some insert()
\* reached a config twice.
THEOREM IterListsEachOnce == Spec /\ []InsertedOnce => []IterCovers
<1>1. Init => DepthsOnce
  <2>1. ASSUME Init
        PROVE  /\ (byDepth \cup patch.byDepth) = {}
               /\ Stacked = {}
    BY <2>1 DEF Init, EmptyPatch, Stacked
  <2>. QED
    BY <2>1 DEF DepthsOnce, OneDepth
<1>2. IndInv /\ StructureInv /\ InsertedOnce /\ DepthsOnce /\ [Next]_vars => DepthsOnce'
  BY DepthsOnceNext
<1>3. StructureInv /\ DepthsOnce => IterCovers
  BY DEF StructureInv, DepthInv, DepthsOnce, IterCovers, OneDepth
<1>. QED
  BY <1>1, <1>2, <1>3, InductiveInvariant, StructureHolds, PTL DEF Spec
-----------------------------------------------------------------------------
(* Stale mounting points *)

\* Without enum coercion, the names of a param depend on nothing but the
\* param, so more paths of a config mean more paths of its params.
Uncoerced ==
  /\ coerce = FALSE
  /\ \A key \in DOMAIN configs : configs[key].coerce = FALSE
  /\ \A key \in DOMAIN patch.configs : patch.configs[key].coerce = FALSE
  /\ \A item \in Stacked : item.data.coerce = FALSE

\* The mounting points of a patch are explained by its own configs.
Explained ==
  /\ Uncoerced
  /\ MountsExplained
  /\ AllExplained(patch.mounts, patch.configs)

LEMMA MergedCoerce ==
  ASSUME NEW item \in PendingItem
  PROVE  MergedData(item).coerce = item.data.coerce
BY DEF MergedData, PendingItem, ConfigData

LEMMA UncoercedNext ==
  ASSUME IndInv, Uncoerced, Coercions \subseteq {FALSE}, [Next]_vars
  PROVE  Uncoerced'
<1>0. coerce' = FALSE
  BY DEF Next, vars, CoerceSerdeEnums, Insert, PushAlias, PushKnownAlias,
         SkipPresent, InsertInner, RejectConflict, Commit, base, Uncoerced
<1>1. CASE Unrelated
  BY <1>0, <1>1 DEF Unrelated, Uncoerced, Stacked
<1>2. ASSUME NEW key \in Insertions, Insert(key)  PROVE Uncoerced'
  <2>1. \A item \in Stacked' : item.data.coerce = FALSE
    BY <1>2 DEF Insert, Stacked, Uncoerced
  <2>. QED
    BY <1>0, <1>2, <2>1, InsertFacts, EmptyPatchFacts DEF Uncoerced
<1>3. ASSUME NEW key \in DOMAIN configs, NEW alias \in Aliases,
             PushAlias(key, alias)
      PROVE  Uncoerced'
  <2>1. configs[key] \in ConfigData /\ configs[key].coerce = FALSE
    BY DEF IndInv, TypeOK, IsConfigs, Uncoerced
  <2>2. \A item \in Stacked' : item.data.coerce = FALSE
    BY <1>3, <2>1 DEF PushAlias, Stacked, ConfigData
  <2>. QED
    BY <1>0, <1>3, <2>2, PushAliasFacts, EmptyPatchFacts DEF Uncoerced
<1>4. CASE SkipPresent
  BY <1>0, <1>4, SkipPresentFacts DEF Uncoerced
<1>5. CASE InsertInner
  <2>1. Top.data.coerce = FALSE
    BY <1>5, InsertInnerFacts DEF Uncoerced
  <2>2. MergedData(Top).coerce = FALSE
    BY <1>5, <2>1, InsertInnerFacts, MergedCoerce
  <2>3. ASSUME NEW item \in Items(NestedConfigs(Top))
        PROVE  item.data.coerce = FALSE
    BY <1>5, <2>1, <2>3, InsertInnerFacts, NestedItems
  <2>. QED
    BY <1>0, <1>5, <2>2, <2>3, InsertInnerFacts DEF Uncoerced
<1>6. CASE RejectConflict
  BY <1>0, <1>6, RejectConflictFacts, EmptyPatchFacts DEF Uncoerced
<1>7. CASE Commit
  BY <1>0, <1>7, CommitFacts, EmptyPatchFacts DEF Uncoerced, Known
<1>. QED
  BY <1>1, <1>2, <1>3, <1>4, <1>5, <1>6, <1>7, StepCases

\* Data with the same names and at least the same paths explains as much.
LEMMA ExplainedByMore ==
  ASSUME NEW path, NEW kind, NEW key, NEW old, NEW new,
         old.coerce = new.coerce,
         \A i \in DOMAIN old.paths :
           \E j \in DOMAIN new.paths : new.paths[j] = old.paths[i],
         ExplainedBy(path, kind, key, old)
  PROVE  ExplainedBy(path, kind, key, new)
<1>1. PathSet(old.paths) \subseteq PathSet(new.paths)
  BY DEF PathSet
<1>2. ASSUME NEW names  PROVE PathsNamed(old, names) \subseteq PathsNamed(new, names)
  BY DEF PathsNamed
<1>3. ASSUME NEW param  PROVE ParamPaths(old, param) \subseteq ParamPaths(new, param)
  BY <1>2 DEF ParamPaths
<1>. QED
  BY <1>1, <1>3 DEF ExplainedBy

\* The mounting points of a config are those of the data it ends up with.
LEMMA NewMountsExplained ==
  ASSUME NEW item \in PendingItem, IsConfigs(configs),
         NEW path \in DOMAIN NewMounts(item)
  PROVE  ExplainedBy(path, NewMounts(item)[path].kind, <<item.prefix, item.ty>>,
                     MergedData(item))
<1>. DEFINE key == <<item.prefix, item.ty>>
<1>1. ExplainedBy(path, NewMounts(item)[path].kind, key, item.data)
  <2>1. CASE path \in ConfigPaths(item)
    BY <2>1 DEF NewMounts, ConfigMount, ExplainedBy, ConfigPaths
  <2>2. CASE path \in AllParamPaths(item) \ ConfigPaths(item)
    BY <2>2 DEF NewMounts, ExplainedBy, AllParamPaths
  <2>. QED
    BY <2>1, <2>2 DEF NewMounts
<1>2. item.data \in ConfigData /\ item.data.paths \in Seq(PathEntry)
  BY DEF PendingItem, ConfigData
<1>3. \A i \in DOMAIN item.data.paths :
        \E j \in DOMAIN MergedData(item).paths :
          MergedData(item).paths[j] = item.data.paths[i]
  <2>1. CASE key \in DOMAIN configs
    <3>1. configs[key].paths \in Seq(PathEntry)
      BY <2>1 DEF IsConfigs, ConfigData
    <3>2. MergedData(item).paths = configs[key].paths \o item.data.paths
      BY <1>2, <2>1 DEF MergedData, ConfigData
    <3>3. Items(item.data.paths) \subseteq Items(MergedData(item).paths)
      BY <1>2, <3>1, <3>2, ItemsOfConcat
    <3>. QED
      BY <3>3 DEF Items
  <2>2. CASE key \notin DOMAIN configs
    BY <2>2 DEF MergedData
  <2>. QED
    BY <2>1, <2>2
<1>. QED
  BY <1>1, <1>3, MergedCoerce, ExplainedByMore

LEMMA ExplainedNext ==
  ASSUME IndInv, StructureInv, InsertedOnce, Explained, Coercions \subseteq {FALSE},
         [Next]_vars
  PROVE  Explained'
<1>0. Uncoerced'
  BY UncoercedNext DEF Explained
<1>1. CASE Unrelated
  BY <1>0, <1>1 DEF Unrelated, Explained, MountsExplained, AllExplained
<1>2. ASSUME UNCHANGED <<configs, mounts>>, patch' = EmptyPatch  PROVE Explained'
  BY <1>0, <1>2, EmptyPatchFacts DEF Explained, MountsExplained, AllExplained
<1>3. CASE SkipPresent
  BY <1>0, <1>3, SkipPresentFacts DEF Explained, MountsExplained, AllExplained
<1>4. CASE InsertInner
  <2>1. /\ TopKey \notin DOMAIN patch.configs
        /\ Top \in PendingItem /\ IsConfigs(configs)
    BY <1>4, InsertInnerFacts DEF InsertInner, InsertedOnce, TopKey, IndInv, TypeOK
  <2>2. patch'.mounts = Override(NewMounts(Top), patch.mounts)
    BY <1>4 DEF InsertInner
  <2>3. ASSUME NEW path \in DOMAIN patch'.mounts
        PROVE  \E key \in DOMAIN patch'.configs :
                 ExplainedBy(path, patch'.mounts[path].kind, key, patch'.configs[key])
    <3>1. CASE path \in DOMAIN NewMounts(Top)
      <4>1. patch'.mounts[path] = NewMounts(Top)[path]
        BY <2>2, <3>1 DEF Override
      <4>2. ExplainedBy(path, NewMounts(Top)[path].kind, TopKey, MergedData(Top))
        BY <2>1, <3>1, NewMountsExplained DEF TopKey
      <4>. QED
        BY <1>4, <4>1, <4>2, InsertInnerFacts
    <3>2. CASE path \in DOMAIN patch.mounts \ DOMAIN NewMounts(Top)
      <4>1. patch'.mounts[path] = patch.mounts[path]
        BY <2>2, <3>2 DEF Override
      <4>2. PICK key \in DOMAIN patch.configs :
              ExplainedBy(path, patch.mounts[path].kind, key, patch.configs[key])
        BY <3>2 DEF Explained, AllExplained
      <4>. QED
        BY <1>4, <2>1, <4>1, <4>2, InsertInnerFacts
    <3>. QED
      BY <2>2, <3>1, <3>2 DEF Override
  <2>4. MountsExplained'
    BY <1>4, InsertInnerFacts DEF Explained, MountsExplained, AllExplained
  <2>. QED
    BY <1>0, <2>3, <2>4 DEF Explained, AllExplained
<1>5. CASE Commit
  <2>1. ASSUME NEW path \in DOMAIN mounts'
        PROVE  \E key \in DOMAIN configs' :
                 ExplainedBy(path, mounts'[path].kind, key, configs'[key])
    <3>1. CASE path \in DOMAIN patch.mounts
      <4>1. mounts'[path] = patch.mounts[path]
        BY <1>5, <3>1 DEF Commit, Override
      <4>2. PICK key \in DOMAIN patch.configs :
              ExplainedBy(path, patch.mounts[path].kind, key, patch.configs[key])
        BY <3>1 DEF Explained, AllExplained
      <4>. QED
        BY <1>5, <4>1, <4>2, CommitFacts DEF Known
    <3>2. CASE path \in DOMAIN mounts \ DOMAIN patch.mounts
      <4>1. mounts'[path] = mounts[path]
        BY <1>5, <3>2 DEF Commit, Override
      <4>2. PICK key \in DOMAIN configs :
              ExplainedBy(path, mounts[path].kind, key, configs[key])
        BY <3>2 DEF Explained, MountsExplained, AllExplained
      <4>3. key \in DOMAIN configs' /\ PathsKept(configs[key], configs'[key])
        BY ConfigsKept
      <4>4. configs[key].coerce = configs'[key].coerce
        BY <1>0, <4>3 DEF Uncoerced, Explained
      <4>5. \A i \in DOMAIN configs[key].paths :
              \E j \in DOMAIN configs'[key].paths :
                configs'[key].paths[j] = configs[key].paths[i]
        <5>1. IsConfigs(configs) /\ IsConfigs(configs')
          BY NextInv DEF IndInv, TypeOK
        <5>2. configs[key].paths \in Seq(PathEntry) /\ configs'[key].paths \in Seq(PathEntry)
          BY <4>3, <5>1 DEF IsConfigs, ConfigData
        <5>3. DOMAIN configs[key].paths \subseteq DOMAIN configs'[key].paths
          BY <4>3, <5>2 DEF PathsKept
        <5>. QED
          BY <4>3, <5>3 DEF PathsKept
      <4>. QED
        BY <4>1, <4>2, <4>3, <4>4, <4>5, ExplainedByMore
    <3>. QED
      BY <1>5, <3>1, <3>2 DEF Commit, Override
  <2>. QED
    BY <1>0, <1>5, <2>1, CommitFacts, EmptyPatchFacts
       DEF Explained, MountsExplained, AllExplained
<1>. QED
  BY <1>1, <1>2, <1>3, <1>4, <1>5, StepCases, InsertFacts, PushAliasFacts,
     RejectConflictFacts

\* No mounting point outlives the reason for it, as long as enum coercion is
\* never switched on and no walk inserts a config twice; with either, a later
\* insertion may replace data whose mounting points stay.
THEOREM NoMountIsStale ==
  ASSUME Coercions \subseteq {FALSE}
  PROVE  Spec /\ []InsertedOnce => []MountsExplained
<1>1. Init => Explained
  <2>. SUFFICES ASSUME Init  PROVE Explained
    OBVIOUS
  <2>1. /\ DOMAIN configs = {} /\ DOMAIN mounts = {} /\ patch = EmptyPatch
        /\ coerce = FALSE /\ Stacked = {}
    BY DEF Init, Stacked
  <2>. QED
    BY <2>1, EmptyPatchFacts
       DEF Explained, Uncoerced, MountsExplained, AllExplained
<1>2. IndInv /\ StructureInv /\ InsertedOnce /\ Explained /\ [Next]_vars => Explained'
  BY ExplainedNext
<1>3. Explained => MountsExplained
  BY DEF Explained
<1>. QED
  BY <1>1, <1>2, <1>3, InductiveInvariant, StructureHolds, PTL DEF Spec
-----------------------------------------------------------------------------
(* The first path *)

StartsAt(data, prefix) == Len(data.paths) > 0 /\ data.paths[1].path = prefix

\* The first path of a config is the one it is mounted at, however it got
\* its aliases.
CanonicalFirst ==
  /\ \A key \in DOMAIN configs : StartsAt(configs[key], key[1])
  /\ \A key \in DOMAIN patch.configs : StartsAt(patch.configs[key], key[1])

LEMMA KeptStarts ==
  ASSUME NEW old, NEW new, old.paths \in Seq(PathEntry), Len(new.paths) \in Nat,
         PathsKept(old, new), NEW prefix, StartsAt(old, prefix)
  PROVE  StartsAt(new, prefix)
<1>1. Len(old.paths) \in Nat /\ 1 \in DOMAIN old.paths
  BY DEF StartsAt
<1>. QED
  BY <1>1 DEF StartsAt, PathsKept

LEMMA CanonicalFirstNext ==
  ASSUME IndInv, StructureInv, CanonicalFirst, [Next]_vars
  PROVE  CanonicalFirst'
<1>1. CASE Unrelated
  BY <1>1 DEF Unrelated, CanonicalFirst
<1>2. ASSUME patch' = EmptyPatch, UNCHANGED configs  PROVE CanonicalFirst'
  BY <1>2, EmptyPatchFacts DEF CanonicalFirst
<1>3. CASE SkipPresent
  BY <1>3, SkipPresentFacts DEF CanonicalFirst
<1>4. CASE InsertInner
  <2>1. /\ Top \in PendingItem /\ UNCHANGED <<configs, call>> /\ ~AlreadyPresent(Top)
        /\ DOMAIN patch'.configs = {TopKey} \cup DOMAIN patch.configs
        /\ patch'.configs[TopKey] = MergedData(Top)
        /\ \A key \in DOMAIN patch.configs \ {TopKey} :
             patch'.configs[key] = patch.configs[key]
        /\ Top \in Stacked
    BY <1>4, InsertInnerFacts
  <2>2. StartsAt(MergedData(Top), Top.prefix)
    <3>1. CASE TopKey \in DOMAIN configs
      <4>. DEFINE old == configs[TopKey]
      <4>1. old \in ConfigData /\ StartsAt(old, Top.prefix)
        BY <3>1 DEF CanonicalFirst, TopKey, IndInv, TypeOK, IsConfigs
      <4>2. PathsKept(old, MergedData(Top))
        BY <2>1, <3>1, MergedPathsKept DEF TopKey, IndInv, TypeOK
      <4>3. Len(MergedData(Top).paths) \in Nat
        <5>. DEFINE given == old.paths
                    added == Top.data.paths
        <5>1. MergedData(Top).paths = given \o added
          BY <2>1, <3>1 DEF MergedData, TopKey, PendingItem, ConfigData
        <5>2. given \in Seq(PathEntry) /\ added \in Seq(PathEntry)
          BY <2>1, <4>1 DEF PendingItem, ConfigData
        <5>. HIDE DEF given, added, old
        <5>3. given \o added \in Seq(PathEntry)
          BY <5>2, ConcatProperties
        <5>. QED
          BY <5>1, <5>3
      <4>4. old.paths \in Seq(PathEntry)
        BY <4>1 DEF ConfigData
      <4>. HIDE DEF old
      <4>. QED
        BY <4>1, <4>2, <4>3, <4>4, KeptStarts
    <3>2. CASE TopKey \notin DOMAIN configs
      <4>1. call.op = "insert"
        BY <2>1, <3>2 DEF TopKey, StructureInv, StackInv, PendingKeys
      <4>2. IsInserted(Top)
        BY <2>1, <4>1 DEF StructureInv, StackInv
      <4>. QED
        BY <3>2, <4>2 DEF TopKey, MergedData, IsInserted, StartsAt
    <3>. QED
      BY <3>1, <3>2
  <2>3. TopKey[1] = Top.prefix
    BY DEF TopKey
  <2>. QED
    BY <2>1, <2>2, <2>3 DEF CanonicalFirst
<1>5. CASE Commit
  BY <1>5, CommitFacts, EmptyPatchFacts DEF CanonicalFirst, Known
<1>. QED
  BY <1>1, <1>2, <1>3, <1>4, <1>5, StepCases, InsertFacts, PushAliasFacts,
     RejectConflictFacts

\* However a config got its aliases, its first path is the one it is mounted at.
THEOREM CanonicalPathsFirst == Spec => []CanonicalFirst
<1>1. Init => CanonicalFirst
  BY EmptyPatchFacts DEF Init, CanonicalFirst
<1>2. IndInv /\ StructureInv /\ CanonicalFirst /\ [Next]_vars => CanonicalFirst'
  BY CanonicalFirstNext
<1>. QED
  BY <1>1, <1>2, InductiveInvariant, StructureHolds, PTL DEF Spec
-----------------------------------------------------------------------------
(* Finite sets and sequences *)

\* What a function makes of a finite set is finite.
LEMMA ImageIsFinite ==
  ASSUME NEW S, IsFiniteSet(S), NEW f
  PROVE  IsFiniteSet({f[x] : x \in S})
<1>. DEFINE T == {f[x] : x \in S}
<1>1. PICK seq \in Seq(S) : \A x \in S : \E n \in 1..Len(seq) : seq[n] = x
  BY DEF IsFiniteSet
<1>. DEFINE seq2 == [n \in 1..Len(seq) |-> f[seq[n]]]
<1>2. seq2 \in Seq(T) /\ Len(seq2) = Len(seq)
  OBVIOUS
<1>3. ASSUME NEW y \in T  PROVE \E n \in 1..Len(seq2) : seq2[n] = y
  <2>1. PICK x \in S : y = f[x]
    OBVIOUS
  <2>2. PICK n \in 1..Len(seq) : seq[n] = x
    BY <1>1
  <2>. QED
    BY <1>2, <2>1, <2>2
<1>. HIDE DEF seq2, T
<1>4. IsFiniteSet(T)
  BY <1>2, <1>3 DEF IsFiniteSet
<1>. QED
  BY <1>4 DEF T

\* What a sequence has is finite, and so is what a function makes of it.
LEMMA ItemsAreFinite ==
  ASSUME NEW S, NEW s \in Seq(S), NEW f
  PROVE  IsFiniteSet({f[i] : i \in DOMAIN s})
<1>1. DOMAIN s = 1..Len(s) /\ Len(s) \in Nat
  OBVIOUS
<1>2. IsFiniteSet(1..Len(s))
  BY <1>1, FS_Interval
<1>. QED
  BY <1>1, <1>2, ImageIsFinite
\* The trees that sources are, with an object at the root.
SourceTree(t) == TreeOver(Seq(Word), t) /\ t[<<>>] = Object

\* What becomes of one.
GoodTree(t) == t = Panicked \/ SourceTree(t)

Copied == INSTANCE Visiting_proofs WITH Step <- CopyAliasesFor, Good <- GoodTree

\* Subsets of finite sets and unions of finitely many of them are finite.
LEMMA SubsetIsFinite ==
  ASSUME NEW S, IsFiniteSet(S), NEW T, T \subseteq S
  PROVE  IsFiniteSet(T)
BY FS_Subset

\* FlattenSeq chains sequences.
Flattens(f, seqs, m) ==
  f = [i \in 1..m |-> IF i = 1 THEN seqs[i] ELSE f[i - 1] \o seqs[i]]

LEMMA FlatteningExists ==
  ASSUME NEW seqs, NEW k \in Nat
  PROVE  \E f : Flattens(f, seqs, k)
<1>. DEFINE S == {m \in Nat : \E f : Flattens(f, seqs, m)}
<1>1. 0 \in S
  <2>1. Flattens([i \in 1..0 |-> 0], seqs, 0)
    BY DEF Flattens
  <2>. QED
    BY <2>1
<1>2. ASSUME NEW m \in Nat, m \in S  PROVE m + 1 \in S
  <2>1. PICK f : Flattens(f, seqs, m)
    BY <1>2
  <2>. DEFINE g == [i \in 1..(m + 1) |->
                      IF i # m + 1 THEN f[i]
                      ELSE IF i = 1 THEN seqs[i] ELSE f[m] \o seqs[i]]
  <2>2. ASSUME NEW i \in 1..(m + 1)
        PROVE  g[i] = IF i = 1 THEN seqs[i] ELSE g[i - 1] \o seqs[i]
    <3>1. CASE i = m + 1 /\ i # 1
      <4>1. i - 1 = m /\ m \in 1..(m + 1) /\ m # m + 1
        BY <3>1
      <4>2. g[m] = f[m]
        BY <4>1
      <4>. QED
        BY <3>1, <4>1, <4>2
    <3>2. CASE i = m + 1 /\ i = 1
      BY <3>2
    <3>3. CASE i # m + 1
      <4>1. i \in 1..m /\ g[i] = f[i]
        BY <3>3
      <4>2. i # 1 => i - 1 \in 1..(m + 1) /\ i - 1 # m + 1
        BY <4>1
      <4>3. i # 1 => g[i - 1] = f[i - 1]
        BY <4>2
      <4>4. f[i] = IF i = 1 THEN seqs[i] ELSE f[i - 1] \o seqs[i]
        BY <2>1, <4>1 DEF Flattens
      <4>. QED
        BY <4>1, <4>3, <4>4
    <3>. QED
      BY <3>1, <3>2, <3>3
  <2>3. g = [i \in 1..(m + 1) |-> g[i]]
    OBVIOUS
  <2>. HIDE DEF g
  <2>4. Flattens(g, seqs, m + 1)
    BY <2>2, <2>3 DEF Flattens
  <2>. QED
    BY <2>4
<1>3. Nat \subseteq S
  <2>. HIDE DEF S
  <2>. QED
    BY <1>1, <1>2, Copied!InductionOnSet
<1>. QED
  BY <1>3

LEMMA FlattenType ==
  ASSUME NEW S, NEW seqs \in Seq(Seq(S))
  PROVE  FlattenSeq(seqs) \in Seq(S)
<1>1. CASE Len(seqs) = 0
  <2>1. seqs = <<>>
    BY <1>1
  <2>2. FlattenSeq(seqs) = <<>>
    BY <1>1, <2>1 DEF FlattenSeq
  <2>. QED
    BY <2>2
<1>2. CASE Len(seqs) # 0
  <2>. DEFINE n == Len(seqs)
              flatten == CHOOSE f : Flattens(f, seqs, n)
              T == {m \in Nat : m + 1 <= n => flatten[m + 1] \in Seq(S)}
  <2>1. n \in Nat /\ n # 0
    BY <1>2
  <2>2. Flattens(flatten, seqs, n)
    BY <2>1, FlatteningExists
  <2>. HIDE DEF flatten
  <2>3. \A i \in 1..n : seqs[i] \in Seq(S)
    OBVIOUS
  <2>. HIDE DEF n
  <2>4. ASSUME NEW i \in 1..n
        PROVE  flatten[i] = IF i = 1 THEN seqs[i] ELSE flatten[i - 1] \o seqs[i]
    BY <2>2 DEF Flattens
  <2>5. 0 \in T
    <3>1. 1 \in 1..n
      BY <2>1
    <3>. QED
      BY <2>3, <2>4, <3>1
  <2>6. ASSUME NEW m \in Nat, m \in T  PROVE m + 1 \in T
    <3>. SUFFICES ASSUME m + 2 <= n  PROVE flatten[m + 2] \in Seq(S)
      BY <2>1
    <3>1. m + 2 \in 1..n /\ m + 2 # 1 /\ (m + 2) - 1 = m + 1
      BY <2>1
    <3>2. flatten[m + 2] = flatten[m + 1] \o seqs[m + 2]
      BY <2>4, <3>1
    <3>3. flatten[m + 1] \in Seq(S) /\ seqs[m + 2] \in Seq(S)
      BY <2>1, <2>3, <2>6, <3>1
    <3>. QED
      BY <3>2, <3>3
  <2>7. Nat \subseteq T
    <3>. HIDE DEF T
    <3>. QED
      BY <2>5, <2>6, Copied!InductionOnSet
  <2>8. n - 1 \in Nat /\ (n - 1) + 1 = n
    BY <2>1
  <2>9. flatten[n] \in Seq(S)
    <3>. DEFINE m == n - 1
    <3>1. m \in Nat /\ m + 1 = n /\ n <= n
      BY <2>1
    <3>. HIDE DEF m
    <3>2. m \in T
      BY <2>7, <3>1
    <3>. QED
      BY <3>1, <3>2
  <2>10. FlattenSeq(seqs) = flatten[n]
    BY <1>2 DEF FlattenSeq, flatten, Flattens, n
  <2>. QED
    BY <2>9, <2>10
<1>. QED
  BY <1>1, <1>2
\* A listing of a finite set is a sequence of its elements.
LEMMA ListingType ==
  ASSUME NEW S, IsFiniteSet(S), NEW s \in SetToSeqs(S)
  PROVE  s \in Seq(S) /\ \A i \in DOMAIN s : s[i] \in S
<1>1. Cardinality(S) \in Nat
  BY FS_CardinalityType
<1>2. s \in [1..Cardinality(S) -> S]
  BY DEF SetToSeqs
<1>. QED
  BY <1>1, <1>2

\* There is one that goes by rank.
ByRank(s, rank) == \A i, j \in DOMAIN s : i <= j => rank[s[i]] <= rank[s[j]]

LEMMA SortedListing ==
  ASSUME NEW S, IsFiniteSet(S), NEW rank, \A x \in S : rank[x] \in Nat
  PROVE  \E s \in SetToSeqs(S) : ByRank(s, rank)
<1>. DEFINE Sortable(R) == \E s \in SetToSeqs(R) : ByRank(s, rank)
            N == {n \in Nat : \A R : /\ IsFiniteSet(R) /\ Cardinality(R) = n
                                     /\ \A x \in R : rank[x] \in Nat
                                     => Sortable(R)}
<1>1. 0 \in N
  <2>. SUFFICES ASSUME NEW R, IsFiniteSet(R), Cardinality(R) = 0
                PROVE  Sortable(R)
    OBVIOUS
  <2>. DEFINE s == [i \in 1..0 |-> 0]
  <2>1. 1..0 = {}
    OBVIOUS
  <2>2. s \in [1..0 -> R]
    BY <2>1
  <2>3. s \in SetToSeqs(R)
    BY <2>1, <2>2 DEF SetToSeqs
  <2>4. ByRank(s, rank)
    BY <2>1 DEF ByRank
  <2>. QED
    BY <2>3, <2>4
<1>2. ASSUME NEW n \in Nat, n \in N  PROVE n + 1 \in N
  <2>. SUFFICES ASSUME NEW R, IsFiniteSet(R), Cardinality(R) = n + 1,
                       \A x \in R : rank[x] \in Nat
                PROVE  Sortable(R)
    OBVIOUS
  <2>1. PICK x \in R : \A y \in R : rank[x] <= rank[y]
    <3>. DEFINE M == {rank[y] : y \in R}
    <3>1. R # {}
      BY FS_EmptySet
    <3>2. M \in SUBSET Nat /\ M # {}
      BY <3>1
    <3>3. PICK m \in M : \A k \in M : m <= k
      BY <3>2, Copied!LeastNumber
    <3>. QED
      BY <3>3
  <2>. DEFINE Q == R \ {x}
  <2>2. IsFiniteSet(Q) /\ Cardinality(Q) = n
    <3>1. /\ IsFiniteSet(R \ {x})
          /\ Cardinality(R \ {x}) = IF x \in R THEN Cardinality(R) - 1 ELSE Cardinality(R)
      BY FS_RemoveElement
    <3>2. (n + 1) - 1 = n
      OBVIOUS
    <3>. QED
      BY <3>1, <3>2
  <2>3. PICK s \in SetToSeqs(Q) : ByRank(s, rank)
    BY <1>2, <2>2
  <2>. DEFINE t == [i \in 1..(n + 1) |-> IF i = 1 THEN x ELSE s[i - 1]]
  <2>4. /\ s \in [1..n -> Q]
        /\ \A i, j \in 1..n : i # j => s[i] # s[j]
        /\ \A i, j \in 1..n : i <= j => rank[s[i]] <= rank[s[j]]
    BY <2>2, <2>3 DEF SetToSeqs, ByRank
  <2>5. \A i \in 1..(n + 1) : i # 1 => i - 1 \in 1..n
    OBVIOUS
  <2>6. \A i \in 1..(n + 1) :
          t[i] = IF i = 1 THEN x ELSE s[i - 1]
    OBVIOUS
  <2>7. t \in [1..(n + 1) -> R]
    BY <2>4, <2>5
  <2>. HIDE DEF t
  <2>8. ASSUME NEW i \in 1..(n + 1), NEW j \in 1..(n + 1), i # j
        PROVE  t[i] # t[j]
    <3>1. CASE i # 1 /\ j # 1
      <4>1. i - 1 # j - 1
        BY <2>8
      <4>. QED
        BY <2>4, <2>5, <2>6, <3>1, <4>1
    <3>2. CASE i = 1 \/ j = 1
      BY <2>4, <2>5, <2>6, <2>8, <3>2
    <3>. QED
      BY <3>1, <3>2
  <2>9. ASSUME NEW i \in 1..(n + 1), NEW j \in 1..(n + 1), i <= j
        PROVE  rank[t[i]] <= rank[t[j]]
    <3>1. CASE i # 1
      <4>1. j # 1 /\ i - 1 <= j - 1
        BY <2>9, <3>1
      <4>. QED
        BY <2>4, <2>5, <2>6, <3>1, <4>1
    <3>2. CASE i = 1
      <4>1. t[i] = x /\ t[j] \in R
        BY <2>6, <2>7, <3>2
      <4>. QED
        BY <2>1, <4>1
    <3>. QED
      BY <3>1, <3>2
  <2>10. t \in SetToSeqs(R)
    BY <2>7, <2>8 DEF SetToSeqs
  <2>11. ByRank(t, rank)
    BY <2>7, <2>9 DEF ByRank
  <2>. QED
    BY <2>10, <2>11
<1>3. Nat \subseteq N
  <2>. HIDE DEF N
  <2>. QED
    BY <1>1, <1>2, Copied!InductionOnSet
<1>4. Cardinality(S) \in Nat
  BY FS_CardinalityType
<1>5. Cardinality(S) \in N
  BY <1>3, <1>4
<1>. QED
  BY <1>5
-----------------------------------------------------------------------------
(* The tables of the schema are finite; params are never at the root *)

LEMMA PathsNamedType ==
  ASSUME NEW data \in ConfigData, NEW names \in Seq(MaybeNameEntry)
  PROVE  PathsNamed(data, names) \subseteq Path(Key) /\ IsFiniteSet(PathsNamed(data, names))
<1>. DEFINE D == DOMAIN data.paths
            E == DOMAIN names
            f == [p \in D \X E |-> JoinPath(data.paths[p[1]].path, names[p[2]].ref)]
            T == {f[p] : p \in D \X E}
<1>1. data.paths \in Seq(PathEntry)
  BY DEF ConfigData
<1>2. IsFiniteSet(D) /\ IsFiniteSet(E)
  <2>1. D = 1..Len(data.paths) /\ E = 1..Len(names)
    BY <1>1
  <2>2. Len(data.paths) \in Nat /\ Len(names) \in Nat
    BY <1>1
  <2>. QED
    BY <2>1, <2>2, FS_Interval
<1>3. ASSUME NEW i \in D, NEW j \in E
      PROVE  JoinPath(data.paths[i].path, names[j].ref) \in Path(Key) \cup {NoPath}
  <2>1. data.paths[i] \in PathEntry /\ names[j] \in MaybeNameEntry
    BY <1>1
  <2>2. data.paths[i].path \in Path(Key) \cup {NoPath}
    BY <2>1 DEF PathEntry
  <2>3. names[j].ref \in Ref(Key) \cup {NoRef}
    BY <2>1 DEF MaybeNameEntry
  <2>. QED
    BY <2>2, <2>3, JoinPathType
<1>4. PathsNamed(data, names) \subseteq Path(Key)
  BY <1>3 DEF PathsNamed
<1>5. PathsNamed(data, names) \subseteq T
  <2>. SUFFICES ASSUME NEW path \in PathsNamed(data, names)  PROVE path \in T
    OBVIOUS
  <2>1. PICK i \in D, j \in E : path = JoinPath(data.paths[i].path, names[j].ref)
    BY DEF PathsNamed
  <2>2. <<i, j>> \in D \X E /\ f[<<i, j>>] = JoinPath(data.paths[i].path, names[j].ref)
    OBVIOUS
  <2>. HIDE DEF f, D, E
  <2>. QED
    BY <2>1, <2>2
<1>6. IsFiniteSet(T)
  <2>1. IsFiniteSet(D \X E)
    BY <1>2, FS_Product
  <2>. HIDE DEF f, D, E
  <2>. QED
    BY <2>1, ImageIsFinite
<1>. HIDE DEF T
<1>. QED
  BY <1>4, <1>5, <1>6, SubsetIsFinite

LEMMA ParamPathsType ==
  ASSUME NEW item \in PendingItem, NEW i \in DOMAIN Meta[item.ty].params
  PROVE  /\ ParamPaths(item.data, Meta[item.ty].params[i]) \subseteq Path(Key)
         /\ IsFiniteSet(ParamPaths(item.data, Meta[item.ty].params[i]))
<1>1. item.data \in ConfigData /\ item.ty \in Types
  BY DEF PendingItem
<1>2. Meta[item.ty].params[i] \in ParamMeta
  BY <1>1, MetaTypes
<1>3. item.data.coerce \in BOOLEAN
  BY <1>1 DEF ConfigData
<1>4. ChildNames(Meta[item.ty].params[i], item.data.coerce) \in Seq(MaybeNameEntry)
  BY <1>2, <1>3, ChildNamesType DEF ChildMeta
<1>. QED
  BY <1>1, <1>4, PathsNamedType DEF ParamPaths

\* Mounting points: as many as one can list, none of a canonical param at the root.
IsTable(m) ==
  /\ IsFiniteSet(DOMAIN m)
  /\ DOMAIN m \subseteq Path(Key)
  /\ \A path \in DOMAIN m : m[path].canonical => path # <<>>

LEMMA OverrideTable ==
  ASSUME NEW f, NEW g, IsTable(f), IsTable(g)
  PROVE  IsTable(Override(f, g))
<1>1. DOMAIN Override(f, g) = DOMAIN f \cup DOMAIN g
  BY DEF Override
<1>2. IsFiniteSet(DOMAIN f \cup DOMAIN g)
  BY FS_Union DEF IsTable
<1>3. \A path \in DOMAIN f \cup DOMAIN g :
        Override(f, g)[path] = IF path \in DOMAIN f THEN f[path] ELSE g[path]
  BY DEF Override
<1>. QED
  BY <1>1, <1>2, <1>3 DEF IsTable

LEMMA FirstParamPathBelow ==
  ASSUME NEW data \in ConfigData, Len(data.paths) > 0, NEW param \in ParamMeta
  PROVE  FirstParamPath(data, param) # <<>>
<1>. DEFINE at == data.paths[1].path
<1>1. at \in Path(Key) \cup {NoPath}
  <2>1. data.paths \in Seq(PathEntry)
    BY DEF ConfigData
  <2>2. data.paths[1] \in PathEntry
    BY <2>1
  <2>. QED
    BY <2>2 DEF PathEntry
<1>2. PICK key \in Key : param.name = <<key>>
  BY DEF ParamMeta
<1>3. param.name # NoPath
  BY <1>2, ConstantsAssumption DEF NoPath
<1>4. CASE at = NoPath
  <2>1. FirstParamPath(data, param) = NoPath
    BY <1>4 DEF FirstParamPath, JoinPath
  <2>2. NoPath # <<>>
    BY DEF NoPath
  <2>. QED
    BY <2>1, <2>2
<1>5. CASE at # NoPath
  <2>1. at \in Path(Key)
    BY <1>1, <1>5
  <2>3. at \in Seq(Key) /\ <<key>> \in Seq(Key) /\ Len(<<key>>) = 1
    BY <2>1 DEF Path
  <2>2. FirstParamPath(data, param) = Join(at, <<key>>)
    <3>. HIDE DEF at
    <3>1. JoinPath(at, NameRef(<<key>>)) = Join(at, <<key>>)
      BY <1>2, <1>3, <2>1, <2>3, JoinName
    <3>. QED
      BY <1>2, <3>1 DEF FirstParamPath, at
  <2>. HIDE DEF at
  <2>4. Join(at, <<key>>) # <<>>
    BY <2>3, NestedParent
  <2>. QED
    BY <2>2, <2>4
<1>. QED
  BY <1>4, <1>5

LEMMA NewMountsTable ==
  ASSUME NEW item \in PendingItem, IsTable(Mounted)
  PROVE  IsTable(NewMounts(item))
<1>. DEFINE P == ConfigPaths(item)
            Q == AllParamPaths(item)
            params == Meta[item.ty].params
            f == [i \in DOMAIN params |-> ParamPaths(item.data, params[i])]
<1>1. item.data \in ConfigData /\ item.ty \in Types /\ item.prefix \in Path(Key)
  BY DEF PendingItem
<1>2. item.data.paths \in Seq(PathEntry) /\ params \in Seq(ParamMeta)
  BY <1>1, MetaTypes DEF ConfigData
<1>3. P \subseteq Path(Key)
  <2>1. ASSUME NEW i \in DOMAIN item.data.paths
        PROVE  item.data.paths[i].path \in Path(Key) \cup {NoPath}
    <3>1. item.data.paths[i] \in PathEntry
      BY <1>2
    <3>. QED
      BY <3>1 DEF PathEntry
  <2>. QED
    BY <1>1, <2>1 DEF ConfigPaths, PathSet
<1>4. IsFiniteSet(P)
  <2>. DEFINE g == [i \in DOMAIN item.data.paths |-> item.data.paths[i].path]
  <2>1. IsFiniteSet({g[i] : i \in DOMAIN item.data.paths})
    <3>. HIDE DEF g
    <3>. QED
      BY <1>2, ItemsAreFinite
  <2>2. PathSet(item.data.paths) \subseteq {g[i] : i \in DOMAIN item.data.paths}
    BY DEF PathSet
  <2>. HIDE DEF g
  <2>3. IsFiniteSet(PathSet(item.data.paths))
    BY <2>1, <2>2, SubsetIsFinite
  <2>4. IsFiniteSet({item.prefix})
    BY FS_Singleton
  <2>. QED
    BY <2>3, <2>4, FS_Union DEF ConfigPaths
<1>5. \A i \in DOMAIN params : f[i] \subseteq Path(Key) /\ IsFiniteSet(f[i])
  BY ParamPathsType
<1>6. Q = UNION {f[i] : i \in DOMAIN params}
  BY DEF AllParamPaths
<1>7. IsFiniteSet({f[i] : i \in DOMAIN params})
  <2>. HIDE DEF f, params
  <2>. QED
    BY <1>2, ItemsAreFinite
<1>. HIDE DEF f
<1>8. Q \subseteq Path(Key)
  BY <1>5, <1>6
<1>9. IsFiniteSet(Q)
  <2>. DEFINE F == {f[i] : i \in DOMAIN params}
  <2>1. \A T \in F : IsFiniteSet(T)
    BY <1>5
  <2>2. IsFiniteSet(UNION F)
    <3>. HIDE DEF F
    <3>. QED
      BY <1>7, <2>1, FS_UNION DEF F
  <2>. QED
    BY <1>6, <2>2
<1>10. ASSUME NEW path \in P \cup Q, NewMounts(item)[path].canonical
       PROVE  path # <<>>
  <2>1. path \notin P /\ IsCanonical(item, path)
    BY <1>10 DEF NewMounts, ConfigMount
  <2>2. CASE path \in DOMAIN Mounted /\ Mounted[path].canonical
    BY <2>2 DEF IsTable
  <2>3. ASSUME NEW i \in ParamsAt(item, path), path = FirstParamPath(item.data, params[i])
        PROVE  path # <<>>
    <3>1. params[i] \in ParamMeta /\ path \in ParamPaths(item.data, params[i])
      BY <1>2, <2>3 DEF ParamsAt
    <3>2. DOMAIN item.data.paths # {}
      BY <3>1 DEF ParamPaths, PathsNamed
    <3>3. Len(item.data.paths) > 0
      BY <1>2, <3>2
    <3>. QED
      BY <1>1, <2>3, <3>1, <3>3, FirstParamPathBelow
  <2>. QED
    BY <2>1, <2>2, <2>3 DEF IsCanonical
<1>11. DOMAIN NewMounts(item) = P \cup Q
  BY DEF NewMounts
<1>. HIDE DEF P, Q
<1>12. IsFiniteSet(P \cup Q)
  BY <1>4, <1>9, FS_Union
<1>. QED
  BY <1>3, <1>8, <1>10, <1>11, <1>12 DEF IsTable

\* The tables of the schema and of the patch.
TablesInv ==
  /\ IsFiniteSet(DOMAIN configs) /\ IsFiniteSet(DOMAIN patch.configs)
  /\ IsFiniteSet(byDepth) /\ IsFiniteSet(patch.byDepth)
  /\ IsTable(mounts) /\ IsTable(patch.mounts)

LEMMA EmptyTables ==
  /\ IsFiniteSet({})
  /\ IsFiniteSet(DOMAIN EmptyPatch.configs) /\ IsFiniteSet(EmptyPatch.byDepth)
  /\ IsTable(EmptyPatch.mounts) /\ IsTable(<<>>) /\ IsFiniteSet(DOMAIN <<>>)
<1>1. DOMAIN <<>> = {}
  OBVIOUS
<1>2. IsFiniteSet({})
  BY FS_EmptySet
<1>. QED
  BY <1>1, <1>2, EmptyPatchFacts DEF IsTable

LEMMA TablesNext ==
  ASSUME IndInv, TablesInv, [Next]_vars
  PROVE  TablesInv'
<1>1. CASE UNCHANGED <<configs, byDepth, mounts>> /\ (patch' = patch \/ patch' = EmptyPatch)
  BY <1>1, EmptyTables DEF TablesInv, IsTable
<1>2. CASE InsertInner
  <2>1. /\ Top \in PendingItem
        /\ UNCHANGED <<configs, byDepth, mounts>>
        /\ DOMAIN patch'.configs = {TopKey} \cup DOMAIN patch.configs
        /\ patch'.byDepth = patch.byDepth \cup DepthEntry(Top)
    BY <1>2, InsertInnerFacts
  <2>2. patch'.mounts = Override(NewMounts(Top), patch.mounts)
    BY <1>2 DEF InsertInner
  <2>3. IsTable(Mounted)
    BY OverrideTable DEF TablesInv, Mounted
  <2>4. IsTable(patch'.mounts)
    BY <2>1, <2>2, <2>3, NewMountsTable, OverrideTable DEF TablesInv
  <2>5. IsFiniteSet(DOMAIN patch'.configs)
    <3>1. IsFiniteSet({TopKey}) /\ IsFiniteSet(DOMAIN patch.configs)
      BY FS_Singleton DEF TablesInv
    <3>2. IsFiniteSet({TopKey} \cup DOMAIN patch.configs)
      BY <3>1, FS_Union
    <3>. QED
      BY <2>1, <3>2
  <2>6. IsFiniteSet(DepthEntry(Top))
    BY FS_Singleton, FS_EmptySet DEF DepthEntry
  <2>7. IsFiniteSet(patch'.byDepth)
    BY <2>1, <2>6, FS_Union DEF TablesInv
  <2>. QED
    BY <2>1, <2>4, <2>5, <2>7 DEF TablesInv, IsTable
<1>3. CASE Commit
  <2>1. /\ DOMAIN configs' = DOMAIN configs \cup DOMAIN patch.configs
        /\ byDepth' = byDepth \cup patch.byDepth
        /\ mounts' = Override(patch.mounts, mounts)
        /\ patch' = EmptyPatch
    BY <1>3, CommitFacts DEF Known, Mounted
  <2>2. IsFiniteSet(DOMAIN configs') /\ IsFiniteSet(byDepth')
    BY <2>1, FS_Union DEF TablesInv
  <2>3. IsTable(mounts')
    BY <2>1, OverrideTable DEF TablesInv
  <2>. QED
    BY <2>1, <2>2, <2>3, EmptyTables DEF TablesInv, IsTable
<1>. QED
  BY <1>1, <1>2, <1>3, StepCases, InsertFacts, PushAliasFacts, SkipPresentFacts,
     RejectConflictFacts DEF Unrelated
-----------------------------------------------------------------------------
(* The orders in which configs are visited *)

LEMMA ChainedType ==
  ASSUME NEW S, NEW n \in Nat, NEW choices, DOMAIN choices = 1..n,
         \A i \in 1..n : choices[i] \subseteq Seq(S), NEW s \in Chained(choices)
  PROVE  s \in Seq(S)
<1>1. PICK f \in [DOMAIN choices -> UNION {choices[i] : i \in DOMAIN choices}] :
        s = FlattenSeq(f) /\ \A i \in DOMAIN choices : f[i] \in choices[i]
  BY DEF Chained
<1>2. f \in [1..n -> Seq(S)]
  BY <1>1
<1>3. f \in Seq(Seq(S))
  BY <1>2
<1>. QED
  BY <1>1, <1>3, FlattenType

LEMMA OrderType ==
  ASSUME TablesInv, NEW o \in Orders
  PROVE  o \in Seq(DOMAIN configs)
<1>. DEFINE n == Len(PrefixOrder)
            at(i) == {key \in DOMAIN configs : key[1] = PrefixOrder[i]}
            choices == [i \in DOMAIN PrefixOrder |-> SetToSeqs(at(i))]
<1>1. n \in Nat /\ DOMAIN PrefixOrder = 1..n
  BY RepositoryAssumption
<1>2. ASSUME NEW i \in 1..n  PROVE choices[i] \subseteq Seq(DOMAIN configs)
  <2>1. IsFiniteSet(at(i)) /\ at(i) \subseteq DOMAIN configs
    BY SubsetIsFinite DEF TablesInv
  <2>2. choices[i] = SetToSeqs(at(i))
    BY <1>1
  <2>. HIDE DEF at, choices
  <2>3. \A s \in SetToSeqs(at(i)) : s \in Seq(at(i))
    BY <2>1, ListingType
  <2>4. Seq(at(i)) \subseteq Seq(DOMAIN configs)
    BY <2>1, SeqMonotonic
  <2>. QED
    BY <2>2, <2>3, <2>4
<1>3. o \in Chained(choices)
  BY DEF Orders
<1>4. DOMAIN choices = 1..n
  BY <1>1
<1>. HIDE DEF choices, n
<1>. QED
  BY <1>1, <1>2, <1>3, <1>4, ChainedType

LEMMA ByDepthOrderType ==
  ASSUME IndInv, TablesInv, NEW o \in ByDepthOrders
  PROVE  o \in Seq(Path(Key) \X Types)
<1>. DEFINE n == Len(PrefixOrder)
            at(i) == {e \in byDepth : e[1] = PrefixOrder[i]}
            choices == [k \in DOMAIN PrefixOrder |->
                {s \in SetToSeqs(at(k)) :
                   \A i, j \in DOMAIN s : i <= j => s[i][2] <= s[j][2]}]
<1>1. n \in Nat /\ DOMAIN PrefixOrder = 1..n
  BY RepositoryAssumption
<1>2. ASSUME NEW i \in 1..n  PROVE choices[i] \subseteq Seq(byDepth)
  <2>1. IsFiniteSet(at(i)) /\ at(i) \subseteq byDepth
    BY SubsetIsFinite DEF TablesInv
  <2>2. choices[i] \subseteq SetToSeqs(at(i))
    BY <1>1
  <2>. HIDE DEF at, choices
  <2>3. \A s \in SetToSeqs(at(i)) : s \in Seq(at(i))
    BY <2>1, ListingType
  <2>4. Seq(at(i)) \subseteq Seq(byDepth)
    BY <2>1, SeqMonotonic
  <2>. QED
    BY <2>2, <2>3, <2>4
<1>3. PICK s \in Chained(choices) : o = [i \in DOMAIN s |-> <<s[i][1], s[i][3]>>]
  BY DEF ByDepthOrders
<1>4. DOMAIN choices = 1..n
  BY <1>1
<1>. HIDE DEF choices, n
<1>5. s \in Seq(byDepth)
  BY <1>1, <1>2, <1>3, <1>4, ChainedType
<1>6. \A i \in DOMAIN s : s[i] \in byDepth
  BY <1>5
<1>7. \A i \in DOMAIN s : <<s[i][1], s[i][3]>> \in Path(Key) \X Types
  BY <1>6 DEF IndInv, TypeOK
<1>8. DOMAIN s = 1..Len(s) /\ Len(s) \in Nat
  BY <1>5
<1>. QED
  BY <1>3, <1>7, <1>8
-----------------------------------------------------------------------------
(* Sources while they are preprocessed *)

LEMMA KeysAreNames ==
  /\ Key \subseteq Seq(Word)
  /\ Path(Key) \subseteq Seq(Seq(Word))
<1>1. Key \subseteq Seq(Word)
  BY WordsAssumption
<1>. QED
  BY <1>1, SeqMonotonic DEF Path

LEMMA SourceFacts ==
  ASSUME NEW t, SourceTree(t)
  PROVE  /\ TreeOver(Seq(Word), t) /\ t # Panicked
         /\ <<>> \in DOMAIN t /\ t[<<>>] = Object /\ IsObjectAt(t, <<>>)
         /\ DOMAIN t \subseteq Seq(Seq(Word))
BY RootIsThere DEF SourceTree, IsObjectAt, Object, TreeOver, Path

LEMMA SingleIsSource == SourceTree(Single(Object))
BY SingleIsTree DEF SourceTree

LEMMA EnsureSource ==
  ASSUME NEW t, SourceTree(t), NEW at \in Seq(Seq(Word)),
         NEW r, r = EnsureObject(t, at)
  PROVE  /\ ~IsLeafAt(t, at) => r # Panicked
         /\ r # Panicked => SourceTree(r) /\ IsObjectAt(r, at)
<1>1. CASE IsLeafAt(t, at)
  BY <1>1 DEF EnsureObject
<1>2. CASE ~IsLeafAt(t, at)
  <2>1. TreeOver(Seq(Word), t) /\ <<>> \in DOMAIN t /\ t[<<>>] = Object
    BY SourceFacts
  <2>2. /\ TreeOver(Seq(Word), r) /\ IsObjectAt(r, at)
        /\ \A path \in DOMAIN t : r[path] = t[path] \/ r[path] = Object
    <3>1. TreeOver(Seq(Word), r)
      BY <1>2, <2>1, EnsureObjectIsTree
    <3>2. IsObjectAt(r, at)
      BY <1>2, <2>1, EnsureObjectIsTree
    <3>3. \A path \in DOMAIN t : r[path] = t[path] \/ r[path] = Object
      BY <1>2 DEF EnsureObject
    <3>. QED
      BY <3>1, <3>2, <3>3
  <2>3. r[<<>>] = Object
    BY <2>1, <2>2
  <2>. QED
    BY <2>2, <2>3, RootIsThere DEF SourceTree
<1>. QED
  BY <1>1, <1>2

LEMMA ExtendSource ==
  ASSUME NEW t, SourceTree(t), NEW at \in Seq(Seq(Word)), IsObjectAt(t, at),
         NEW children, DOMAIN children \subseteq Seq(Word),
         \A key \in DOMAIN children : TreeOver(Seq(Word), children[key])
  PROVE  SourceTree(ExtendMap(t, at, children))
<1>. DEFINE r == ExtendMap(t, at, children)
<1>1. TreeOver(Seq(Word), t) /\ <<>> \in DOMAIN t /\ t[<<>>] = Object
  BY SourceFacts
<1>2. /\ TreeOver(Seq(Word), r)
      /\ \A path \in DOMAIN t :
           (\A key \in DOMAIN children : ~IsPrefix(Append(at, key), path))
             => path \in DOMAIN r /\ r[path] = t[path]
  BY <1>1, ExtendMapIsTree
<1>. HIDE DEF r
<1>3. ASSUME NEW key \in DOMAIN children  PROVE ~IsPrefix(Append(at, key), <<>>)
  <2>1. Append(at, key) \in Seq(Seq(Word)) /\ Append(at, key) # <<>>
    BY AppendIsPrefix
  <2>2. <<>> \in Seq(Seq(Word))
    OBVIOUS
  <2>. QED
    BY <2>1, <2>2, StrictPrefixOfParent
<1>4. r[<<>>] = Object
  BY <1>1, <1>2, <1>3
<1>. QED
  BY <1>2, <1>4 DEF SourceTree, r

LEMMA EntryType ==
  ASSUME NEW key \in Seq(Word), NEW value, TreeOver(Seq(Word), value)
  PROVE  /\ DOMAIN Entry(key, value) \subseteq Seq(Word)
         /\ \A k \in DOMAIN Entry(key, value) : TreeOver(Seq(Word), Entry(key, value)[k])
BY DEF Entry

\* A child of a location is there, in an object.
LEMMA ChildIsThere ==
  ASSUME NEW t, SourceTree(t), NEW at \in Seq(Seq(Word)), NEW k \in ChildKeys(t, at)
  PROVE  /\ k \in Seq(Word) /\ IsObjectAt(t, at)
         /\ Append(at, k) \in DOMAIN t
<1>1. PICK path \in Below(t, at) \ {at} : k = path[Len(at) + 1]
  BY DEF ChildKeys
<1>2. path \in DOMAIN t /\ IsPrefix(at, path) /\ at # path /\ path \in Seq(Seq(Word))
  BY <1>1, SourceFacts DEF Below
<1>3. Len(at) < Len(path) /\ Len(at) \in Nat /\ Len(path) \in Nat
  BY <1>2, StrictPrefixOfParent
<1>4. k \in Seq(Word)
  <2>1. Len(at) + 1 \in 1..Len(path)
    BY <1>3
  <2>. QED
    BY <1>1, <1>2, <2>1
<1>5. Append(at, k) \in Seq(Seq(Word)) /\ IsPrefix(Append(at, k), path)
  BY <1>1, <1>2, <1>4, AppendIsPrefix
<1>6. Append(at, k) \in DOMAIN t
  BY <1>2, <1>5, TreeAncestors, SourceFacts
<1>7. at \in DOMAIN t /\ t[at].kind = "object"
  BY <1>2, TreeAncestors, SourceFacts
<1>. QED
  BY <1>4, <1>6, <1>7 DEF IsObjectAt

LEMMA SubSource ==
  ASSUME NEW t, SourceTree(t), NEW at \in DOMAIN t
  PROVE  TreeOver(Seq(Word), Sub(t, at)) /\ Sub(t, at)[<<>>] = t[at]
<1>1. TreeOver(Seq(Word), t) /\ at \in Seq(Seq(Word))
  BY SourceFacts
<1>2. /\ TreeOver(Seq(Word), Sub(t, at))
      /\ \A p \in DOMAIN Sub(t, at) : Sub(t, at)[p] = t[Join(at, p)]
  BY <1>1, SubIsTree
<1>3. <<>> \in DOMAIN Sub(t, at)
  BY <1>2, RootIsThere
<1>4. Join(at, <<>>) = at
  BY <1>1 DEF Join
<1>. QED
  BY <1>2, <1>3, <1>4
-----------------------------------------------------------------------------
(* copy_aliased_values *)

ParamSource == [param : ParamMeta, path : Path(Key) \cup {NoPath}]

LEMMA AliasSourcesType ==
  ASSUME IndInv, NEW key \in DOMAIN configs
  PROVE  AliasSources(key) \in Seq(ParamSource)
<1>. DEFINE params == Meta[key[2]].params
            f == [i \in DOMAIN params |->
                    SourcesOfParam(AllPathsForChild(configs[key], params[i]), params[i])]
<1>1. configs[key] \in ConfigData /\ key[2] \in Types
  BY DEF IndInv, TypeOK, IsConfigs
<1>2. params \in Seq(ParamMeta)
  BY <1>1, MetaTypes
<1>3. ASSUME NEW i \in DOMAIN params
      PROVE  f[i] \in Seq(ParamSource)
  <2>. DEFINE paths == AllPathsForChild(configs[key], params[i])
  <2>1. params[i] \in ParamMeta
    BY <1>2
  <2>2. paths \in Seq(PathEntry)
    BY <1>1, <2>1, AllPathsType DEF ChildMeta
  <2>3. f[i] = [j \in DOMAIN paths |-> [param |-> params[i], path |-> paths[j].path]]
    BY DEF SourcesOfParam
  <2>. HIDE DEF paths, f
  <2>4. ASSUME NEW j \in DOMAIN paths
        PROVE  [param |-> params[i], path |-> paths[j].path] \in ParamSource
    <3>1. paths[j] \in PathEntry
      BY <2>2
    <3>2. paths[j].path \in Path(Key) \cup {NoPath}
      BY <3>1 DEF PathEntry
    <3>. QED
      BY <2>1, <3>2 DEF ParamSource
  <2>5. DOMAIN paths = 1..Len(paths) /\ Len(paths) \in Nat
    BY <2>2
  <2>. QED
    BY <2>3, <2>4, <2>5
<1>4. DOMAIN params = 1..Len(params) /\ Len(params) \in Nat
  BY <1>2
<1>5. f \in Seq(Seq(ParamSource))
  <2>1. f = [i \in 1..Len(params) |-> f[i]]
    BY <1>4
  <2>. HIDE DEF f
  <2>2. \A i \in 1..Len(params) : f[i] \in Seq(ParamSource)
    BY <1>3, <1>4
  <2>. HIDE DEF params
  <2>3. f \in [1..Len(params) -> Seq(ParamSource)]
    BY <2>1, <2>2
  <2>. QED
    BY <1>4, <2>3
<1>6. AliasSources(key) = FlattenSeq(f)
  BY DEF AliasSources
<1>. QED
  BY <1>5, <1>6, FlattenType

LEMMA AliasedValuesType ==
  ASSUME NEW t, NEW s \in Seq(ParamSource), NEW v \in AliasedValues(t, s)
  PROVE  v.rank \in Nat /\ v.key \in Seq(Word) /\ v.at \in DOMAIN t
<1>1. PICK k \in DOMAIN s :
        \E suffix \in {<<>>} \cup s[k].param.suffixes :
          /\ Suffixed(s[k].path, suffix) \in DOMAIN t
          /\ v = [rank |-> k, key |-> ParamKey(s[k].param) \o suffix,
                  at |-> Suffixed(s[k].path, suffix)]
  BY DEF AliasedValues
<1>2. PICK suffix \in {<<>>} \cup s[k].param.suffixes :
        /\ Suffixed(s[k].path, suffix) \in DOMAIN t
        /\ v = [rank |-> k, key |-> ParamKey(s[k].param) \o suffix,
                at |-> Suffixed(s[k].path, suffix)]
  BY <1>1
<1>3. v.rank = k /\ v.key = ParamKey(s[k].param) \o suffix
      /\ v.at = Suffixed(s[k].path, suffix)
  BY <1>2
<1>4. k \in Nat /\ s[k] \in ParamSource
  OBVIOUS
<1>5. s[k].param \in ParamMeta
  BY <1>4 DEF ParamSource
<1>6. ParamKey(s[k].param) \in Seq(Word) /\ s[k].param.suffixes \subseteq Seq(Word)
  <2>1. PICK name \in Key : s[k].param.name = <<name>>
    BY <1>5 DEF ParamMeta
  <2>2. s[k].param.suffixes \subseteq Key
    BY <1>5 DEF ParamMeta
  <2>. QED
    BY <2>1, <2>2, KeysAreNames DEF ParamKey
<1>7. suffix \in Seq(Word)
  <2>1. <<>> \in Seq(Word)
    OBVIOUS
  <2>. QED
    BY <1>6, <2>1
<1>. QED
  BY <1>2, <1>3, <1>4, <1>6, <1>7

LEMMA FirstForType ==
  ASSUME NEW t, NEW s \in Seq(ParamSource), NEW v \in AliasedValues(t, s)
  PROVE  FirstFor(AliasedValues(t, s), v.key) \in AliasedValues(t, s)
<1>. DEFINE values == AliasedValues(t, s)
            M == {w.rank : w \in {w \in values : w.key = v.key}}
<1>1. M \in SUBSET Nat /\ M # {}
  BY AliasedValuesType
<1>2. PICK m \in M : \A n \in M : m <= n
  BY <1>1, Copied!LeastNumber
<1>3. PICK w \in values : w.key = v.key /\ w.rank = m
  BY <1>2
<1>4. \E x \in values : x.key = v.key /\ \A y \in values : y.key = v.key => x.rank <= y.rank
  BY <1>2, <1>3
<1>. HIDE DEF values, M
<1>. QED
  BY <1>4 DEF FirstFor, values

LEMMA CopyAliasesGood ==
  ASSUME IndInv, NEW key \in DOMAIN configs, NEW t, GoodTree(t)
  PROVE  GoodTree(CopyAliasesFor(t, key))
<1>. DEFINE s == AliasSources(key)
            values == AliasedValues(t, s)
            missing == {v.key : v \in values} \ ChildKeys(t, key[1])
<1>0. CopyAliasesFor(t, key) =
        IF t = Panicked \/ IsLeafAt(t, key[1]) THEN t
        ELSE IF LeadsToRoot(s) THEN Panicked
        ELSE IF missing = {} THEN t
        ELSE CopyMissing(t, key[1], values, missing)
  BY DEF CopyAliasesFor
<1>1. SUFFICES ASSUME t # Panicked, ~IsLeafAt(t, key[1])
               PROVE  GoodTree(CopyMissing(t, key[1], values, missing))
  BY <1>0 DEF GoodTree
<1>2. SourceTree(t)
  BY <1>1 DEF GoodTree
<1>3. key[1] \in Seq(Seq(Word))
  BY KeysAreNames DEF IndInv, TypeOK, IsConfigs
<1>4. s \in Seq(ParamSource)
  BY AliasSourcesType
<1>. DEFINE children == [k \in missing |-> Sub(t, FirstFor(values, k).at)]
            ensured == EnsureObject(t, key[1])
<1>5. ASSUME NEW k \in missing
      PROVE  k \in Seq(Word) /\ TreeOver(Seq(Word), children[k])
  <2>1. PICK v \in values : k = v.key
    OBVIOUS
  <2>2. FirstFor(values, k) \in values
    BY <1>4, <2>1, FirstForType
  <2>3. FirstFor(values, k).at \in DOMAIN t /\ k \in Seq(Word)
    BY <1>4, <2>1, <2>2, AliasedValuesType
  <2>. HIDE DEF values
  <2>4. TreeOver(Seq(Word), Sub(t, FirstFor(values, k).at))
    BY <1>2, <2>3, SubSource
  <2>. QED
    BY <2>3, <2>4
<1>6. SourceTree(ensured) /\ IsObjectAt(ensured, key[1])
  BY <1>1, <1>2, <1>3, EnsureSource
<1>7. DOMAIN children = missing
  OBVIOUS
<1>8. CopyMissing(t, key[1], values, missing) = ExtendMap(ensured, key[1], children)
  BY DEF CopyMissing
<1>. HIDE DEF children, ensured, missing, values
<1>9. SourceTree(ExtendMap(ensured, key[1], children))
  BY <1>3, <1>5, <1>6, <1>7, ExtendSource
<1>. QED
  BY <1>8, <1>9 DEF GoodTree
-----------------------------------------------------------------------------
(* The other passes *)

LEMMA MarkSecretsGood ==
  ASSUME NEW t, GoodTree(t)
  PROVE  GoodTree(MarkSecrets(t))
<1>. DEFINE r == MarkSecrets(t)
<1>1. DOMAIN r = DOMAIN t
  BY DEF MarkSecrets
<1>2. CASE t = Panicked
  <2>1. DOMAIN t = {}
    BY <1>2 DEF Panicked
  <2>2. r = Panicked
    BY <2>1 DEF MarkSecrets, Panicked
  <2>. QED
    BY <2>2 DEF GoodTree
<1>3. CASE SourceTree(t)
  <2>1. /\ TreeOver(Seq(Word), t) /\ <<>> \in DOMAIN t
        /\ t[<<>>] = Object
    BY <1>3, SourceFacts
  <2>2. \A path \in DOMAIN t :
          r[path] = t[path] \/ (t[path].kind = "string" /\ r[path].kind = "string")
    BY DEF MarkSecrets
  <2>3. \A path \in DOMAIN t : r[path].kind = t[path].kind
    BY <2>2
  <2>4. r[<<>>] = Object
    <3>1. Object.kind # "string"
      BY DEF Object
    <3>. QED
      BY <2>1, <2>2, <3>1
  <2>. HIDE DEF r
  <2>5. TreeOver(Seq(Word), r)
    BY <1>1, <2>1, <2>3 DEF TreeOver, IsTree
  <2>. QED
    BY <2>4, <2>5 DEF SourceTree, GoodTree, r
<1>. QED
  BY <1>2, <1>3 DEF GoodTree

LEMMA ConvertGood ==
  ASSUME NEW key \in Path(Key) \X Types, NEW t, GoodTree(t)
  PROVE  GoodTree(ConvertSerdeEnum(t, key))
<1>. DEFINE tag == Meta[key[2]].tag
            ensured == EnsureObject(t, key[1])
<1>1. SUFFICES ASSUME t # Panicked, ensured # Panicked, tag # NoTag, NEW name
               PROVE  GoodTree(ExtendMap(ensured, key[1],
                                         Entry(tag.param, Single(Str(name)))))
  BY DEF ConvertSerdeEnum, GoodTree
<1>2. SourceTree(t)
  BY <1>1 DEF GoodTree
<1>3. key[1] \in Seq(Seq(Word))
  BY KeysAreNames
<1>4. SourceTree(ensured) /\ IsObjectAt(ensured, key[1])
  BY <1>1, <1>2, <1>3, EnsureSource
<1>5. tag.param \in Seq(Word)
  <2>1. Meta[key[2]] \in ConfigMetadata
    BY ConstantsAssumption
  <2>2. tag \in TagMeta
    BY <1>1, <2>1 DEF ConfigMetadata
  <2>. HIDE DEF tag
  <2>3. tag.param \in Key
    BY <2>2 DEF TagMeta
  <2>. QED
    BY <2>3, KeysAreNames
<1>6. TreeOver(Seq(Word), Single(Str(name)))
  BY SingleIsTree
<1>. HIDE DEF tag, ensured
<1>. QED
  BY <1>3, <1>4, <1>5, <1>6, EntryType, ExtendSource DEF GoodTree

\* A suffix of a field of an object, and the field.
LEMMA SuffixIsThere ==
  ASSUME NEW t, SourceTree(t), NEW at \in Seq(Seq(Word)), NEW name \in Seq(Word),
         NEW s \in SuffixesAt(t, at, name)
  PROVE  /\ s \in Seq(Word) /\ IsObjectAt(t, at)
         /\ Append(at, name \o s) \in DOMAIN t
<1>1. PICK key \in ChildKeys(t, at) : IsStrictPrefix(name, key) /\ s = Relative(name, key)
  BY DEF SuffixesAt
<1>2. key \in Seq(Word) /\ IsObjectAt(t, at) /\ Append(at, key) \in DOMAIN t
  BY <1>1, ChildIsThere
<1>3. IsPrefix(name, key)
  BY <1>1 DEF IsStrictPrefix
<1>4. s \in Seq(Word) /\ Join(name, s) = key
  BY <1>1, <1>2, <1>3, PrefixSplits
<1>. QED
  BY <1>2, <1>4 DEF Join

LEMMA NestingChildrenType ==
  ASSUME NEW key \in Path(Key) \X Types, NEW child \in NestingChildren(key)
  PROVE  child.key \in Seq(Word)
<1>. DEFINE meta == Meta[key[2]]
<1>1. meta.params \in Seq(ParamMeta) /\ meta.nested \in Seq(NestedMeta)
  BY MetaTypes
<1>. HIDE DEF meta
<1>2. ASSUME NEW i \in DOMAIN meta.params, child.key = ParamKey(meta.params[i])
      PROVE  child.key \in Key
  <2>1. meta.params[i] \in ParamMeta
    BY <1>1
  <2>2. PICK name \in Key : meta.params[i].name = <<name>>
    BY <2>1 DEF ParamMeta
  <2>. QED
    BY <1>2, <2>2 DEF ParamKey
<1>3. ASSUME NEW i \in DOMAIN meta.nested, meta.nested[i].name # <<>>,
             child.key = meta.nested[i].name[1]
      PROVE  child.key \in Key
  <2>1. meta.nested[i] \in NestedMeta
    BY <1>1
  <2>2. meta.nested[i].name \in {<<>>} \cup {<<k>> : k \in Key}
    BY <2>1 DEF NestedMeta
  <2>3. PICK name \in Key : meta.nested[i].name = <<name>>
    BY <1>3, <2>2
  <2>. QED
    BY <1>3, <2>3
<1>4. \/ \E i \in DOMAIN meta.params : child.key = ParamKey(meta.params[i])
      \/ \E i \in DOMAIN meta.nested : /\ meta.nested[i].name # <<>>
                                       /\ child.key = meta.nested[i].name[1]
  <2>. DEFINE ofParams ==
                {[key |-> ParamKey(meta.params[i]), suffixes |-> meta.params[i].suffixes] :
                   i \in {i \in DOMAIN meta.params : meta.params[i].suffixes # {}}}
              ofNested ==
                {[key |-> meta.nested[i].name[1], suffixes |-> Key] :
                   i \in {i \in DOMAIN meta.nested : meta.nested[i].name # <<>>}}
  <2>1. child \in ofParams \/ child \in ofNested
    <3>. HIDE DEF ofParams, ofNested
    <3>1. NestingChildren(key) = ofParams \cup ofNested
      BY Zenon DEF NestingChildren, meta, ofParams, ofNested
    <3>. QED
      BY <3>1
  <2>2. child \in ofParams => \E i \in DOMAIN meta.params : child.key = ParamKey(meta.params[i])
    BY SMT
  <2>3. child \in ofNested => \E i \in DOMAIN meta.nested : /\ meta.nested[i].name # <<>>
                                                            /\ child.key = meta.nested[i].name[1]
    BY SMT
  <2>. HIDE DEF ofParams, ofNested
  <2>. QED
    BY <2>1, <2>2, <2>3
<1>. QED
  BY <1>2, <1>3, <1>4, KeysAreNames

LEMMA NestObjectsGood ==
  ASSUME NEW key \in Path(Key) \X Types, NEW t, GoodTree(t)
  PROVE  GoodTree(NestObjectsFor(t, key))
<1>. DEFINE prefix == key[1]
            target(child) == Append(prefix, child.key)
            matching(child) == (SuffixesAt(t, prefix, child.key) \cap child.suffixes)
                                 \ ChildKeys(t, target(child))
            filled == {child \in NestingChildren(key) :
                         ~IsLeafAt(t, target(child)) /\ matching(child) # {}}
            field(child, s) == Sub(t, Append(prefix, child.key \o s))
            inner(child) == IF target(child) \in DOMAIN t
                            THEN Sub(t, target(child)) ELSE Single(Object)
            fields(child) == [s \in matching(child) |-> field(child, s)]
            value(child) == ExtendMap(inner(child), <<>>, fields(child))
            children == [k \in {child.key : child \in filled} |->
                           value(CHOOSE child \in filled : child.key = k)]
<1>0. NestObjectsFor(t, key) =
        IF t = Panicked \/ filled = {} THEN t ELSE ExtendMap(t, prefix, children)
  BY DEF NestObjectsFor
<1>1. SUFFICES ASSUME t # Panicked, filled # {}
               PROVE  GoodTree(ExtendMap(t, prefix, children))
  <2>. HIDE DEF children, filled
  <2>. QED
    BY <1>0 DEF GoodTree
<1>2. SourceTree(t)
  BY <1>1 DEF GoodTree
<1>3. prefix \in Seq(Seq(Word))
  BY KeysAreNames
<1>4. ASSUME NEW child \in filled
      PROVE  /\ child.key \in Seq(Word) /\ IsObjectAt(t, prefix)
             /\ TreeOver(Seq(Word), value(child))
  <2>1. child.key \in Seq(Word)
    BY NestingChildrenType
  <2>2. ASSUME NEW s \in matching(child)
        PROVE  /\ s \in Seq(Word) /\ IsObjectAt(t, prefix)
               /\ TreeOver(Seq(Word), field(child, s))
    <3>. HIDE DEF prefix
    <3>1. s \in Seq(Word) /\ IsObjectAt(t, prefix)
          /\ Append(prefix, child.key \o s) \in DOMAIN t
      BY <1>2, <1>3, <2>1, <2>2, SuffixIsThere
    <3>. QED
      BY <1>2, <3>1, SubSource
  <2>3. matching(child) # {}
    OBVIOUS
  <2>4. TreeOver(Seq(Word), inner(child)) /\ IsObjectAt(inner(child), <<>>)
    <3>1. CASE target(child) \in DOMAIN t
      <4>1. /\ TreeOver(Seq(Word), Sub(t, target(child)))
            /\ Sub(t, target(child))[<<>>] = t[target(child)]
        BY <1>2, <3>1, SubSource
      <4>2. ~IsLeafAt(t, target(child))
        OBVIOUS
      <4>3. inner(child) = Sub(t, target(child))
        BY <3>1
      <4>. HIDE DEF target, inner
      <4>4. t[target(child)].kind = "object"
        BY <3>1, <4>2 DEF IsLeafAt
      <4>. QED
        BY <4>1, <4>3, <4>4, RootIsThere DEF IsObjectAt
    <3>2. CASE target(child) \notin DOMAIN t
      <4>1. inner(child) = Single(Object)
        BY <3>2
      <4>. HIDE DEF inner
      <4>. QED
        BY <4>1, SingleIsSource, SourceFacts
    <3>. QED
      BY <3>1, <3>2
  <2>5. DOMAIN fields(child) = matching(child)
        /\ \A s \in matching(child) : fields(child)[s] = field(child, s)
    OBVIOUS
  <2>6. <<>> \in Seq(Seq(Word))
    OBVIOUS
  <2>. HIDE DEF prefix, matching, field, fields, inner, filled
  <2>7. DOMAIN fields(child) \subseteq Seq(Word)
        /\ \A s \in DOMAIN fields(child) : TreeOver(Seq(Word), fields(child)[s])
    BY <2>2, <2>5
  <2>8. TreeOver(Seq(Word), ExtendMap(inner(child), <<>>, fields(child)))
    BY <2>4, <2>6, <2>7, ExtendMapIsTree
  <2>. QED
    BY <2>1, <2>2, <2>3, <2>8
<1>5. IsObjectAt(t, prefix)
  BY <1>1, <1>4
<1>6. DOMAIN children = {child.key : child \in filled}
      /\ \A k \in DOMAIN children :
           children[k] = value(CHOOSE child \in filled : child.key = k)
  OBVIOUS
<1>. HIDE DEF prefix, filled, value, children
<1>7. ASSUME NEW k \in DOMAIN children
      PROVE  k \in Seq(Word) /\ TreeOver(Seq(Word), children[k])
  <2>. DEFINE child == CHOOSE child \in filled : child.key = k
  <2>1. child \in filled /\ child.key = k
    BY <1>6
  <2>. HIDE DEF child
  <2>2. children[k] = value(child)
    BY <1>6 DEF child
  <2>. QED
    BY <1>4, <2>1, <2>2
<1>8. SourceTree(ExtendMap(t, prefix, children))
  BY <1>2, <1>3, <1>5, <1>7, ExtendSource
<1>. QED
  BY <1>8 DEF GoodTree
ArraySite == [prefix : Path(Key), param : ParamMeta]

LEMMA NestArrayGood ==
  ASSUME NEW site \in ArraySite, NEW t, GoodTree(t)
  PROVE  GoodTree(NestArrayParam(t, site))
<1>. DEFINE name == ParamKey(site.param)
<1>1. SUFFICES ASSUME t # Panicked, IsObjectAt(t, site.prefix), NEW data
               PROVE  GoodTree(ExtendMap(t, site.prefix,
                                         Entry(name, Single(Array(data)))))
  BY DEF NestArrayParam, TakesItems, WithItems
<1>2. SourceTree(t)
  BY <1>1 DEF GoodTree
<1>3. site.prefix \in Seq(Seq(Word)) /\ site.param \in ParamMeta
  BY KeysAreNames DEF ArraySite
<1>4. name \in Seq(Word)
  <2>1. PICK key \in Key : site.param.name = <<key>>
    BY <1>3 DEF ParamMeta
  <2>. QED
    BY <2>1, KeysAreNames DEF ParamKey
<1>5. TreeOver(Seq(Word), Single(Array(data)))
  BY SingleIsTree
<1>. HIDE DEF name
<1>. QED
  BY <1>1, <1>2, <1>3, <1>4, <1>5, EntryType, ExtendSource DEF GoodTree

\* An entry of a flat source, or a fallback.
IsKvEntry(entry) ==
  /\ entry.parent \in Seq(Seq(Word)) /\ entry.field \in Seq(Word)
  /\ TreeOver(Seq(Word), entry.value)

LEMMA CopyKvGood ==
  ASSUME NEW entry, IsKvEntry(entry), NEW t, GoodTree(t)
  PROVE  GoodTree(CopyKvEntry(t, entry))
<1>. DEFINE ensured == EnsureObject(t, entry.parent)
<1>1. SUFFICES ASSUME t # Panicked, ensured # Panicked
               PROVE  GoodTree(ExtendMap(ensured, entry.parent,
                                         Entry(entry.field, entry.value)))
  BY DEF CopyKvEntry, GoodTree
<1>2. SourceTree(t)
  BY <1>1 DEF GoodTree
<1>3. SourceTree(ensured) /\ IsObjectAt(ensured, entry.parent)
  BY <1>1, <1>2, EnsureSource DEF IsKvEntry
<1>. HIDE DEF ensured
<1>. QED
  BY <1>3, EntryType, ExtendSource DEF GoodTree, IsKvEntry

Converted == INSTANCE Visiting_proofs WITH Step <- ConvertSerdeEnum, Good <- GoodTree
NestedObjects == INSTANCE Visiting_proofs WITH Step <- NestObjectsFor, Good <- GoodTree
NestedArrays == INSTANCE Visiting_proofs WITH Step <- NestArrayParam, Good <- GoodTree
CopiedKvs == INSTANCE Visiting_proofs WITH Step <- CopyKvEntry, Good <- GoodTree

LEMMA CopyAllGood ==
  ASSUME IndInv, NEW o \in Seq(DOMAIN configs), NEW t, GoodTree(t)
  PROVE  GoodTree(CopyAliasedValues(t, o))
<1>1. \A u : \A i \in DOMAIN o : GoodTree(u) => GoodTree(CopyAliasesFor(u, o[i]))
  BY CopyAliasesGood
<1>2. GoodTree(Copied!Visit(t, o))
  BY <1>1, Copied!VisitKeeps
<1>. QED
  BY <1>2 DEF CopyAliasedValues, Copying!Visit, Copied!Visit

LEMMA ConvertAllGood ==
  ASSUME NEW o \in Seq(Path(Key) \X Types), NEW t, GoodTree(t)
  PROVE  GoodTree(ConvertSerdeEnums(t, o))
<1>1. \A u : \A i \in DOMAIN o : GoodTree(u) => GoodTree(ConvertSerdeEnum(u, o[i]))
  BY ConvertGood
<1>2. GoodTree(Converted!Visit(t, o))
  BY <1>1, Converted!VisitKeeps
<1>. QED
  BY <1>2 DEF ConvertSerdeEnums, Converting!Visit, Converted!Visit

LEMMA NestAllObjectsGood ==
  ASSUME NEW o \in Seq(Path(Key) \X Types), NEW t, GoodTree(t)
  PROVE  GoodTree(NestObjects(t, o))
<1>1. \A u : \A i \in DOMAIN o : GoodTree(u) => GoodTree(NestObjectsFor(u, o[i]))
  BY NestObjectsGood
<1>2. GoodTree(NestedObjects!Visit(t, o))
  BY <1>1, NestedObjects!VisitKeeps
<1>. QED
  BY <1>2 DEF NestObjects, NestingObjects!Visit, NestedObjects!Visit

LEMMA NestAllArraysGood ==
  ASSUME NEW o \in Seq(Path(Key) \X Types), NEW t, GoodTree(t)
  PROVE  GoodTree(NestArrays(t, o))
<1>. DEFINE f == [i \in DOMAIN o |-> ParamSites(o[i])]
            sites == FlattenSeq(f)
<1>1. ASSUME NEW i \in DOMAIN o  PROVE ParamSites(o[i]) \in Seq(ArraySite)
  <2>. DEFINE params == Meta[o[i][2]].params
  <2>1. o[i] \in Path(Key) \X Types
    OBVIOUS
  <2>2. params \in Seq(ParamMeta)
    BY <2>1, MetaTypes
  <2>3. ParamSites(o[i]) = [k \in DOMAIN params |-> [prefix |-> o[i][1], param |-> params[k]]]
    BY DEF ParamSites
  <2>. HIDE DEF params
  <2>4. \A k \in DOMAIN params : [prefix |-> o[i][1], param |-> params[k]] \in ArraySite
    BY <2>1, <2>2 DEF ArraySite
  <2>5. DOMAIN params = 1..Len(params) /\ Len(params) \in Nat
    BY <2>2
  <2>. QED
    BY <2>3, <2>4, <2>5
<1>2. DOMAIN o = 1..Len(o) /\ Len(o) \in Nat
  OBVIOUS
<1>3. f \in Seq(Seq(ArraySite))
  BY <1>1, <1>2
<1>. HIDE DEF f
<1>4. sites \in Seq(ArraySite)
  BY <1>3, FlattenType
<1>. HIDE DEF sites
<1>5. \A u : \A i \in DOMAIN sites : GoodTree(u) => GoodTree(NestArrayParam(u, sites[i]))
  BY <1>4, NestArrayGood
<1>6. GoodTree(NestedArrays!Visit(t, sites))
  BY <1>4, <1>5, NestedArrays!VisitKeeps
<1>. QED
  BY <1>6 DEF NestArrays, NestingArrays!Visit, NestedArrays!Visit, sites, f

\* Entries of any type are a sequence: of what is in them.
LEMMA CopyAllKvsGood ==
  ASSUME NEW S, NEW entries \in Seq(S),
         \A i \in DOMAIN entries : IsKvEntry(entries[i])
  PROVE  GoodTree(CopyingKvs!Visit(Single(Object), entries))
<1>1. GoodTree(Single(Object))
  BY SingleIsSource DEF GoodTree
<1>2. \A u : \A i \in DOMAIN entries : GoodTree(u) => GoodTree(CopyKvEntry(u, entries[i]))
  BY CopyKvGood
<1>3. GoodTree(CopiedKvs!Visit(Single(Object), entries))
  BY <1>1, <1>2, CopiedKvs!VisitKeeps
<1>. QED
  BY <1>3 DEF CopyingKvs!Visit, CopiedKvs!Visit
-----------------------------------------------------------------------------
(* nest_kvs, and the fallbacks *)

\* Entries of a flat source are copied to places below params.
LEMMA KvTargetsType ==
  ASSUME TablesInv, NEW key \in Seq(Word)
  PROVE  /\ IsFiniteSet(KvTargets(key))
         /\ KvTargets(key) \subseteq Seq(Seq(Word)) \X Seq(Word)
<1>. DEFINE P == {path \in DOMAIN mounts \ {<<>>} :
                    /\ mounts[path].kind = "param"
                    /\ IsPrefix(Words(path), key)
                    /\ \/ Words(path) = key
                       \/ "object" \in mounts[path].expecting
                       \/ /\ "array" \in mounts[path].expecting
                          /\ Len(key) = Len(Words(path)) + 1
                          /\ key[Len(key)] \in DOMAIN Index}
            f == [path \in P |-> <<ParentOf(path), Relative(Words(ParentOf(path)), key)>>]
<1>1. KvTargets(key) = {f[path] : path \in P}
  <2>1. \A path \in P :
          f[path] = <<ParentOf(path), Relative(Words(ParentOf(path)), key)>>
    OBVIOUS
  <2>2. KvTargets(key) = {<<ParentOf(path), Relative(Words(ParentOf(path)), key)>> : path \in P}
    BY DEF KvTargets
  <2>. HIDE DEF f, P
  <2>. QED
    BY <2>1, <2>2
<1>2. P \subseteq DOMAIN mounts /\ \A path \in P : path # <<>>
  OBVIOUS
<1>3. ASSUME NEW path \in P
      PROVE  f[path] \in Seq(Seq(Word)) \X Seq(Word)
  <2>1. path \in Seq(Seq(Word)) /\ path # <<>>
    BY <1>2, KeysAreNames DEF TablesInv, IsTable
  <2>2. ParentOf(path) \in Seq(Seq(Word))
    BY <2>1, ParentSplits
  <2>. DEFINE words == Words(ParentOf(path))
  <2>3. words \in Seq(Word)
    BY <2>2, FlattenType DEF Words
  <2>. HIDE DEF words
  <2>4. Len(words) \in Nat /\ Len(key) \in Nat
    BY <2>3
  <2>5. SubSeq(key, Len(words) + 1, Len(key)) \in Seq(Word)
    BY <2>4
  <2>6. f[path] = <<ParentOf(path), SubSeq(key, Len(words) + 1, Len(key))>>
    BY DEF Relative, words
  <2>. DEFINE field == SubSeq(key, Len(words) + 1, Len(key))
              parent == ParentOf(path)
  <2>7. f[path] = <<parent, field>> /\ parent \in Seq(Seq(Word)) /\ field \in Seq(Word)
    BY <2>2, <2>5, <2>6
  <2>. HIDE DEF f, P, field, parent
  <2>. QED
    BY <2>7
<1>. HIDE DEF f, P
<1>4. IsFiniteSet(P)
  BY <1>2, SubsetIsFinite DEF TablesInv, IsTable
<1>. QED
  BY <1>1, <1>3, <1>4, ImageIsFinite

LEMMA KvEntriesType ==
  ASSUME TablesInv, NEW kvs, TreeOver(Seq(Word), kvs), NEW key \in ChildKeys(kvs, <<>>),
         key \in Seq(Word), <<key>> \in DOMAIN kvs
  PROVE  /\ KvEntries(kvs, key) \in
              Seq([parent : Seq(Seq(Word)), field : Seq(Word),
                   value : {Sub(kvs, <<k>>) : k \in ChildKeys(kvs, <<>>)}])
<1>. DEFINE targets == CHOOSE s \in SetToSeqs(KvTargets(key)) : TRUE
            V == {Sub(kvs, <<k>>) : k \in ChildKeys(kvs, <<>>)}
            E == [parent : Seq(Seq(Word)), field : Seq(Word), value : V]
<1>1. IsFiniteSet(KvTargets(key)) /\ KvTargets(key) \subseteq Seq(Seq(Word)) \X Seq(Word)
  BY KvTargetsType
<1>2. targets \in SetToSeqs(KvTargets(key))
  <2>. DEFINE rank == [x \in KvTargets(key) |-> 0]
  <2>1. \A x \in KvTargets(key) : rank[x] \in Nat
    OBVIOUS
  <2>. HIDE DEF rank
  <2>2. \E s \in SetToSeqs(KvTargets(key)) : ByRank(s, rank)
    BY <1>1, <2>1, SortedListing
  <2>. QED
    BY <2>2
<1>. HIDE DEF targets
<1>3. targets \in Seq(KvTargets(key))
  BY <1>1, <1>2, ListingType
<1>4. Sub(kvs, <<key>>) \in V
  OBVIOUS
<1>5. KvEntries(kvs, key) = [i \in DOMAIN targets |->
        [parent |-> targets[i][1], field |-> targets[i][2], value |-> Sub(kvs, <<key>>)]]
  BY DEF KvEntries, targets
<1>. HIDE DEF V
<1>6. ASSUME NEW i \in DOMAIN targets
      PROVE  [parent |-> targets[i][1], field |-> targets[i][2],
              value |-> Sub(kvs, <<key>>)] \in E
  <2>1. targets[i] \in Seq(Seq(Word)) \X Seq(Word)
    BY <1>1, <1>3
  <2>2. targets[i][1] \in Seq(Seq(Word)) /\ targets[i][2] \in Seq(Word)
    BY <2>1
  <2>. QED
    BY <1>4, <2>2
<1>7. DOMAIN targets = 1..Len(targets) /\ Len(targets) \in Nat
  BY <1>3
<1>. HIDE DEF E
<1>8. KvEntries(kvs, key) \in Seq(E)
  BY <1>5, <1>6, <1>7
<1>. QED
  BY <1>8 DEF E, V

\* What the loop of nest_kvs goes through: the entries of all keys, shorter
\* keys first.
KvEntrySet(kvs) ==
  [parent : Seq(Seq(Word)), field : Seq(Word),
   value : {Sub(kvs, <<k>>) : k \in ChildKeys(kvs, <<>>)}]

KvParts(kvs, keys) == [i \in DOMAIN keys |-> KvEntries(kvs, keys[i])]

ShortestFirst(keys) == \A i, j \in DOMAIN keys : i <= j => Len(keys[i]) <= Len(keys[j])

LEMMA KvKeysType ==
  ASSUME NEW kvs, SourceTree(kvs), NEW k \in ChildKeys(kvs, <<>>)
  PROVE  k \in Seq(Word) /\ <<k>> \in DOMAIN kvs /\ TreeOver(Seq(Word), Sub(kvs, <<k>>))
<1>1. <<>> \in Seq(Seq(Word)) /\ Append(<<>>, k) = <<k>>
  OBVIOUS
<1>2. k \in Seq(Word) /\ <<k>> \in DOMAIN kvs
  BY <1>1, ChildIsThere
<1>. QED
  BY <1>2, SubSource

LEMMA NestKvsParts ==
  ASSUME TablesInv, NEW kvs, SourceTree(kvs), IsFiniteSet(DOMAIN kvs)
  PROVE  /\ IsFiniteSet(ChildKeys(kvs, <<>>))
         /\ \E keys \in SetToSeqs(ChildKeys(kvs, <<>>)) :
              /\ ShortestFirst(keys)
              /\ keys \in Seq(ChildKeys(kvs, <<>>))
              /\ KvParts(kvs, keys) \in Seq(Seq(KvEntrySet(kvs)))
              /\ NestKvs(kvs) =
                   CopyingKvs!Visit(Single(Object), FlattenSeq(KvParts(kvs, keys)))
<1>. DEFINE C == ChildKeys(kvs, <<>>)
            keys == CHOOSE s \in SetToSeqs(C) : ShortestFirst(s)
<1>1. TreeOver(Seq(Word), kvs) /\ DOMAIN kvs \subseteq Seq(Seq(Word))
  BY SourceFacts
<1>3. IsFiniteSet(C)
  <2>. DEFINE B == Below(kvs, <<>>) \ {<<>>}
              g == [path \in B |-> path[1]]
  <2>1. B \subseteq DOMAIN kvs
    BY DEF Below
  <2>2. IsFiniteSet(B)
    BY <2>1, SubsetIsFinite
  <2>3. C = {g[path] : path \in B}
    <3>1. Len(<<>>) + 1 = 1
      OBVIOUS
    <3>2. C = {path[1] : path \in B}
      BY <3>1 DEF ChildKeys
    <3>3. \A path \in B : g[path] = path[1]
      OBVIOUS
    <3>. HIDE DEF B, C, g
    <3>. QED
      BY <3>2, <3>3
  <2>. HIDE DEF B, C, g
  <2>. QED
    BY <2>2, <2>3, ImageIsFinite
<1>5. NestKvs(kvs) = CopyingKvs!Visit(Single(Object), FlattenSeq(KvParts(kvs, keys)))
  BY DEF NestKvs, C, KvParts, ShortestFirst
<1>2. \A k \in C : k \in Seq(Word) /\ <<k>> \in DOMAIN kvs
  BY KvKeysType
<1>. HIDE DEF C
<1>4. keys \in SetToSeqs(C) /\ ShortestFirst(keys)
  <2>. DEFINE rank == [k \in C |-> Len(k)]
  <2>1. \A k \in C : rank[k] = Len(k) /\ rank[k] \in Nat
    BY <1>2
  <2>. HIDE DEF rank
  <2>2. PICK s \in SetToSeqs(C) : ByRank(s, rank)
    BY <1>3, <2>1, SortedListing
  <2>3. \A i \in DOMAIN s : s[i] \in C
    BY <1>3, ListingType
  <2>4. ShortestFirst(s)
    BY <2>1, <2>2, <2>3 DEF ByRank, ShortestFirst
  <2>. QED
    BY <2>4
<1>. HIDE DEF keys
<1>6. keys \in Seq(C) /\ \A i \in DOMAIN keys : keys[i] \in C
  BY <1>3, <1>4, ListingType
<1>7. ASSUME NEW i \in DOMAIN keys  PROVE KvEntries(kvs, keys[i]) \in Seq(KvEntrySet(kvs))
  <2>. DEFINE k == keys[i]
  <2>1. k \in C
    BY <1>6
  <2>. HIDE DEF k
  <2>2. KvEntries(kvs, k) \in Seq(KvEntrySet(kvs))
    BY <1>1, <1>2, <2>1, KvEntriesType DEF C, KvEntrySet
  <2>. QED
    BY <2>2 DEF k
<1>8. KvParts(kvs, keys) \in Seq(Seq(KvEntrySet(kvs)))
  <2>1. DOMAIN keys = 1..Len(keys) /\ Len(keys) \in Nat
    BY <1>6
  <2>. QED
    BY <1>7, <2>1 DEF KvParts
<1>. QED
  BY <1>3, <1>4, <1>5, <1>6, <1>8 DEF C

LEMMA KvSetEntries ==
  ASSUME NEW kvs, SourceTree(kvs), NEW entry \in KvEntrySet(kvs)  PROVE IsKvEntry(entry)
<1>1. /\ entry.parent \in Seq(Seq(Word)) /\ entry.field \in Seq(Word)
      /\ \E k \in ChildKeys(kvs, <<>>) : entry.value = Sub(kvs, <<k>>)
  BY DEF KvEntrySet
<1>. QED
  BY <1>1, KvKeysType DEF IsKvEntry

LEMMA NestKvsGood ==
  ASSUME TablesInv, NEW kvs, SourceTree(kvs), IsFiniteSet(DOMAIN kvs)
  PROVE  GoodTree(NestKvs(kvs))
<1>1. PICK keys \in SetToSeqs(ChildKeys(kvs, <<>>)) :
        /\ KvParts(kvs, keys) \in Seq(Seq(KvEntrySet(kvs)))
        /\ NestKvs(kvs) =
             CopyingKvs!Visit(Single(Object), FlattenSeq(KvParts(kvs, keys)))
  BY NestKvsParts
<1>. DEFINE entries == FlattenSeq(KvParts(kvs, keys))
<1>2. entries \in Seq(KvEntrySet(kvs))
  BY <1>1, FlattenType
<1>. HIDE DEF entries
<1>3. \A i \in DOMAIN entries : IsKvEntry(entries[i])
  BY <1>2, KvSetEntries
<1>4. GoodTree(CopyingKvs!Visit(Single(Object), entries))
  BY <1>2, <1>3, CopyAllKvsGood
<1>. QED
  BY <1>1, <1>4 DEF entries

LEMMA FallbacksGood ==
  ASSUME IndInv, NEW provided \in Provided,
         NEW paths \in SetToSeqs(FallbackPaths(provided))
  PROVE  GoodTree(FallbackContents(paths))
<1>. DEFINE F == FallbackPaths(provided)
            value == Single(Str(<<"fallback">>))
            E == [parent : Seq(Seq(Word)), field : Seq(Word), value : {value}]
            entries == [i \in DOMAIN paths |->
                          [parent |-> ParentOf(paths[i]),
                           field  |-> LastKey(paths[i]), value  |-> value]]
<1>1. IsFiniteSet(F)
  <2>1. F \subseteq provided
    BY DEF FallbackPaths
  <2>. QED
    BY <2>1, RepositoryAssumption, SubsetIsFinite
<1>2. paths \in Seq(F) /\ \A i \in DOMAIN paths : paths[i] \in F
  BY <1>1, ListingType
<1>3. ASSUME NEW path \in F  PROVE path \in Seq(Seq(Word)) /\ path # <<>>
  <2>1. PICK key \in DOMAIN configs :
          \E i \in DOMAIN Meta[key[2]].params : path = Join(key[1], Meta[key[2]].params[i].name)
    BY DEF FallbackPaths
  <2>2. PICK i \in DOMAIN Meta[key[2]].params : path = Join(key[1], Meta[key[2]].params[i].name)
    BY <2>1
  <2>3. key[1] \in Path(Key) /\ key[2] \in Types
    BY DEF IndInv, TypeOK, IsConfigs
  <2>4. Meta[key[2]].params \in Seq(ParamMeta)
    BY <2>3, MetaTypes
  <2>5. Meta[key[2]].params[i] \in ParamMeta
    BY <2>4
  <2>6. PICK k \in Key : Meta[key[2]].params[i].name = <<k>>
    BY <2>5 DEF ParamMeta
  <2>7. key[1] \in Seq(Key) /\ <<k>> \in Seq(Key) /\ <<k>> # <<>>
    BY <2>3 DEF Path
  <2>8. Join(key[1], <<k>>) \in Seq(Key) /\ Join(key[1], <<k>>) # <<>>
    BY <2>7, NestedParent, JoinType
  <2>. QED
    BY <2>2, <2>6, <2>8, KeysAreNames DEF Path
<1>4. ASSUME NEW i \in DOMAIN paths
      PROVE  [parent |-> ParentOf(paths[i]), field  |-> LastKey(paths[i]),
              value  |-> value] \in E
  <2>1. paths[i] \in Seq(Seq(Word)) /\ paths[i] # <<>>
    BY <1>2, <1>3
  <2>2. ParentOf(paths[i]) \in Seq(Seq(Word)) /\ LastKey(paths[i]) \in Seq(Word)
    BY <2>1, ParentSplits
  <2>. HIDE DEF value
  <2>. QED
    BY <2>2
<1>5. DOMAIN paths = 1..Len(paths) /\ Len(paths) \in Nat
  BY <1>2
<1>. HIDE DEF E
<1>6. entries \in Seq(E)
  BY <1>4, <1>5
<1>7. FallbackContents(paths) = CopyingKvs!Visit(Single(Object), entries)
  BY DEF FallbackContents
<1>8. TreeOver(Seq(Word), value)
  BY SingleIsTree
<1>. HIDE DEF entries, value
<1>9. ASSUME NEW i \in DOMAIN entries  PROVE IsKvEntry(entries[i])
  <2>1. entries[i] \in E
    BY <1>6
  <2>. QED
    BY <1>8, <2>1 DEF E, IsKvEntry
<1>. QED
  BY <1>6, <1>7, <1>9, CopyAllKvsGood
-----------------------------------------------------------------------------
(* collect_garbage *)

\* Every value has something to do with a terminal.
Settled(t) ==
  /\ SourceTree(t)
  /\ \A path \in DOMAIN t \ {<<>>} :
       \E end \in Terminals(t) : IsPrefix(path, end) \/ IsPrefix(end, path)

\* What the walk for terminals goes through.
LEMMA TerminalFacts ==
  ASSUME TablesInv, NEW t, SourceTree(t), NEW end \in Terminals(t)
  PROVE  /\ end \in DOMAIN t /\ end \in Seq(Seq(Word)) /\ end # <<>>
         /\ end \in CanonicalPaths \/ IsLeafAt(t, end)
         /\ \A path \in Seq(Seq(Word)) : IsPrefix(path, end) /\ path # end =>
              path \notin CanonicalPaths
<1>1. /\ end \in DOMAIN t
      /\ end \in CanonicalPaths \/ (end \in ConfigAncestors /\ IsLeafAt(t, end))
      /\ \A path \in ({<<>>} \cup WithAncestors(end)) \ {end} :
           path \in ConfigAncestors \ CanonicalPaths
  BY DEF Terminals
<1>2. end \in Seq(Seq(Word))
  BY <1>1, SourceFacts
<1>3. <<>> \notin CanonicalPaths
  BY DEF CanonicalPaths, TablesInv, IsTable
<1>4. ~IsLeafAt(t, <<>>)
  BY SourceFacts DEF IsLeafAt, IsObjectAt
<1>5. ASSUME NEW path \in Seq(Seq(Word)), IsPrefix(path, end), path # end
      PROVE  path \notin CanonicalPaths
  <2>1. path # <<>> => path \in WithAncestors(end)
    BY <1>2, <1>5, AncestorsArePrefixes
  <2>. QED
    BY <1>1, <1>5, <2>1
<1>. QED
  BY <1>1, <1>2, <1>3, <1>4, <1>5

\* A terminal is one in any tree that has the same node there.
LEMMA TerminalElsewhere ==
  ASSUME NEW t, NEW end \in Terminals(t), NEW u, end \in DOMAIN u, u[end] = t[end]
  PROVE  end \in Terminals(u)
BY DEF Terminals, IsLeafAt

LEMMA GarbageCollected ==
  ASSUME TablesInv, NEW t, GoodTree(t), NEW r, r = CollectGarbage(t), r # Panicked
  PROVE  Settled(r)
<1>1. SourceTree(t)
  BY DEF GoodTree, CollectGarbage
<1>. DEFINE R == Retained(t, Terminals(t))
<1>2. /\ DOMAIN r = R /\ R \subseteq DOMAIN t
      /\ \A path \in R : r[path] = t[path]
  <2>1. r = [path \in R |-> t[path]]
    BY <1>1, SourceFacts DEF CollectGarbage
  <2>2. R \subseteq DOMAIN t
    BY DEF Retained
  <2>. HIDE DEF R
  <2>. QED
    BY <2>1, <2>2
<1>3. DOMAIN t \subseteq Seq(Seq(Word)) /\ TreeOver(Seq(Word), t) /\ <<>> \in DOMAIN t
      /\ t[<<>>] = Object
  BY <1>1, SourceFacts
<1>4. \A path : path \in R <=>
        /\ path \in DOMAIN t
        /\ \/ path = <<>>
           \/ \E end \in Terminals(t) : IsPrefix(path, end) \/ IsPrefix(end, path)
  BY DEF Retained
<1>. HIDE DEF R
<1>5. Terminals(t) \subseteq R
  BY <1>3, <1>4, PrefixReflexive DEF Terminals
<1>6. Terminals(t) \subseteq Terminals(r)
  BY <1>2, <1>5, TerminalElsewhere
<1>7. \A path \in R \ {<<>>} :
        \E end \in Terminals(r) : IsPrefix(path, end) \/ IsPrefix(end, path)
  BY <1>4, <1>6
<1>8. ASSUME NEW path \in R, path # <<>>
      PROVE  ParentOf(path) \in R /\ r[ParentOf(path)].kind = "object"
  <2>1. path \in Seq(Seq(Word)) /\ path \in DOMAIN t
    BY <1>2, <1>3
  <2>2. ParentOf(path) \in DOMAIN t /\ t[ParentOf(path)].kind = "object"
    BY <1>3, <1>8, <2>1 DEF TreeOver, IsTree
  <2>3. ParentOf(path) \in Seq(Seq(Word)) /\ IsPrefix(ParentOf(path), path)
    BY <1>8, <2>1, ParentSplits
  <2>4. PICK end \in Terminals(t) : IsPrefix(path, end) \/ IsPrefix(end, path)
    BY <1>4, <1>8
  <2>5. end \in Seq(Seq(Word))
    BY <1>1, TerminalFacts
  <2>6. IsPrefix(ParentOf(path), end) \/ IsPrefix(end, ParentOf(path))
    BY <2>1, <2>3, <2>4, <2>5, PrefixTransitive, StrictPrefixOfParent
  <2>7. ParentOf(path) \in R
    BY <1>4, <2>2, <2>6
  <2>. QED
    BY <1>2, <2>2, <2>7
<1>9. <<>> \in R
  BY <1>3, <1>4
<1>10. TreeOver(Seq(Word), r)
  BY <1>2, <1>3, <1>8, <1>9 DEF TreeOver, IsTree, Path
<1>. QED
  BY <1>2, <1>3, <1>7, <1>9, <1>10 DEF Settled, SourceTree

\* What the repository merges: a source is a tree without garbage, unless
\* the program panics.
IsSource(source) ==
  /\ GoodTree(source.contents)
  /\ source.flat => SourceTree(source.contents) /\ IsFiniteSet(DOMAIN source.contents)

LEMMA PreprocessedIsSettled ==
  ASSUME IndInv, TablesInv, NEW source, IsSource(source),
         NEW o \in Seq(DOMAIN configs), NEW d \in Seq(Path(Key) \X Types),
         NEW r, r = Preprocess(source, o, d), r # Panicked
  PROVE  Settled(r)
<1>1. GoodTree(NestedForm(source))
  BY NestKvsGood DEF IsSource, NestedForm
<1>. DEFINE copied == CopyAliasedValues(NestedForm(source), o)
            marked == MarkSecrets(copied)
            converted == ConvertSerdeEnums(marked, d)
            objects == NestObjects(converted, o)
            arrays == NestArrays(objects, o)
<1>2. o \in Seq(Path(Key) \X Types)
  <2>1. DOMAIN configs \subseteq Path(Key) \X Types
    BY DEF IndInv, TypeOK, IsConfigs
  <2>. QED
    BY <2>1, SeqMonotonic
<1>3. GoodTree(copied)
  BY <1>1, CopyAllGood
<1>. HIDE DEF copied
<1>4. GoodTree(marked)
  BY <1>3, MarkSecretsGood
<1>. HIDE DEF marked
<1>5. GoodTree(converted)
  BY <1>4, ConvertAllGood
<1>. HIDE DEF converted
<1>6. GoodTree(objects)
  BY <1>2, <1>5, NestAllObjectsGood
<1>. HIDE DEF objects
<1>7. GoodTree(arrays)
  BY <1>2, <1>6, NestAllArraysGood
<1>8. r = CollectGarbage(arrays)
  BY DEF Preprocess, copied, marked, converted, objects
<1>. HIDE DEF arrays
<1>. QED
  BY <1>7, <1>8, GarbageCollected
-----------------------------------------------------------------------------
(* guided_merge *)

\* Terminals of one tree are not within each other.
LEMMA TerminalsApart ==
  ASSUME TablesInv, NEW t, SourceTree(t),
         NEW end1 \in Terminals(t), NEW end2 \in Terminals(t), IsPrefix(end1, end2)
  PROVE  end1 = end2
<1>. SUFFICES ASSUME end1 # end2  PROVE FALSE
  OBVIOUS
<1>1. /\ end1 \in Seq(Seq(Word)) /\ end2 \in Seq(Seq(Word)) /\ end2 \in DOMAIN t
      /\ IsLeafAt(t, end1)
  BY TerminalFacts
<1>2. t[end1].kind = "object"
  BY <1>1, SourceFacts, TreeAncestors
<1>. QED
  BY <1>1, <1>2 DEF IsLeafAt

\* Trees that are the same below a location have the same value there.
LEMMA SameBelowSameSub ==
  ASSUME NEW K, NEW t, NEW u, NEW at \in Seq(K), Below(t, at) = Below(u, at),
         Below(u, at) \subseteq Seq(K),
         \A path \in Below(u, at) : t[path] = u[path]
  PROVE  Sub(t, at) = Sub(u, at)
<1>. DEFINE D == {Relative(at, p) : p \in Below(u, at)}
<1>1. \A p \in Below(u, at) : Join(at, Relative(at, p)) = p
  BY PrefixSplits DEF Below
<1>2. \A q \in D : t[Join(at, q)] = u[Join(at, q)]
  BY <1>1
<1>3. Sub(t, at) = [q \in D |-> t[Join(at, q)]]
  BY DEF Sub
<1>4. Sub(u, at) = [q \in D |-> u[Join(at, q)]]
  BY DEF Sub
<1>. HIDE DEF D
<1>. QED
  BY <1>2, <1>3, <1>4

\* What is merged over a tree stays as it is.
LEMMA MergedUpper ==
  ASSUME TablesInv, NEW m, Settled(m), NEW o, Settled(o),
         NEW r, r = Merge(m, o, CanonicalPaths), NEW end \in Terminals(o)
  PROVE  end \in Terminals(r) /\ Sub(r, end) = Sub(o, end)
<1>1. \A path \in DOMAIN o : path \in DOMAIN r /\ r[path] = o[path]
  BY MergeWins
<1>2. /\ end \in DOMAIN o /\ end \in Seq(Seq(Word))
      /\ end \in CanonicalPaths \/ IsLeafAt(o, end)
  BY TerminalFacts DEF Settled
<1>3. end \in Terminals(r)
  BY <1>1, <1>2, TerminalElsewhere
<1>4. ASSUME NEW path \in DOMAIN r, IsPrefix(end, path)  PROVE path \in DOMAIN o
  <2>. SUFFICES ASSUME path \notin DOMAIN o  PROVE FALSE
    OBVIOUS
  <2>1. path \in DOMAIN m
    BY MergeRest
  <2>2. end \in DOMAIN m
    BY <1>2, <1>4, <2>1, TreeAncestors, SourceFacts DEF Settled
  <2>. QED
    BY <1>2, <1>4, <2>1, <2>2 DEF Merge
<1>5. Below(r, end) = Below(o, end)
  BY <1>1, <1>4 DEF Below
<1>6. \A path \in Below(o, end) : r[path] = o[path]
  BY <1>1 DEF Below
<1>7. Below(o, end) \subseteq Seq(Seq(Word))
  BY SourceFacts DEF Below, Settled
<1>. QED
  BY <1>2, <1>3, <1>5, <1>6, <1>7, SameBelowSameSub

\* What is below is not touched where what is above has nothing to say.
LEMMA MergedLower ==
  ASSUME TablesInv, NEW m, Settled(m), NEW o, Settled(o),
         NEW r, r = Merge(m, o, CanonicalPaths), NEW end \in Terminals(m),
         \A s \in Terminals(o) : ~IsPrefix(s, end) /\ ~IsPrefix(end, s)
  PROVE  end \in Terminals(r) /\ Sub(r, end) = Sub(m, end)
<1>1. /\ end \in DOMAIN m /\ end \in Seq(Seq(Word)) /\ end # <<>>
      /\ \A path \in Seq(Seq(Word)) : IsPrefix(path, end) /\ path # end =>
           path \notin CanonicalPaths
  BY TerminalFacts DEF Settled
<1>2. /\ TreeOver(Seq(Word), m) /\ TreeOver(Seq(Word), o)
      /\ DOMAIN m \subseteq Seq(Seq(Word)) /\ DOMAIN o \subseteq Seq(Seq(Word))
      /\ IsObjectAt(o, <<>>)
  BY SourceFacts DEF Settled
<1>3. end \notin DOMAIN o
  BY <1>1 DEF Settled
<1>4. ASSUME NEW path \in DOMAIN o  PROVE ~IsPrefix(end, path)
  BY <1>1, <1>2, <1>3, TreeAncestors
<1>5. ASSUME NEW path \in DOMAIN m, IsPrefix(end, path)
      PROVE  path \in DOMAIN r /\ r[path] = m[path]
  <2>1. path \notin DOMAIN o
    BY <1>4, <1>5
  <2>2. ASSUME path \notin DOMAIN r  PROVE FALSE
    <3>1. PICK p \in DOMAIN o :
            IsPrefix(p, path) /\ (IsLeafAt(o, p) \/ (p \in CanonicalPaths /\ p \in DOMAIN m))
      BY <1>2, <2>1, <2>2, MergeKeeps
    <3>2. p \in Seq(Seq(Word)) /\ path \in Seq(Seq(Word))
      BY <1>2
    <3>3. IsPrefix(p, end) /\ p # end
      BY <1>1, <1>3, <1>4, <1>5, <3>1, <3>2, PrefixesComparable
    <3>4. p \notin CanonicalPaths
      BY <1>1, <3>2, <3>3
    <3>5. IsLeafAt(o, p)
      BY <3>1, <3>4
    <3>6. p # <<>>
      BY <1>2, <3>5 DEF IsLeafAt, IsObjectAt
    <3>7. PICK s \in Terminals(o) : IsPrefix(p, s) \/ IsPrefix(s, p)
      BY <3>6 DEF Settled
    <3>8. s \in DOMAIN o /\ s \in Seq(Seq(Word))
      BY TerminalFacts DEF Settled
    <3>9. CASE IsPrefix(s, p)
      BY <1>1, <3>2, <3>3, <3>8, <3>9, PrefixTransitive
    <3>10. CASE IsPrefix(p, s) /\ p = s
      BY <3>3, <3>10
    <3>11. CASE IsPrefix(p, s) /\ p # s
      <4>1. o[p].kind = "object"
        BY <1>2, <3>2, <3>8, <3>11, TreeAncestors
      <4>. QED
        BY <3>5, <4>1 DEF IsLeafAt
    <3>. QED
      BY <3>7, <3>9, <3>10, <3>11
  <2>3. path \in DOMAIN r
    BY <2>2
  <2>. QED
    BY <2>1, <2>3, MergeRest
<1>6. end \in DOMAIN r /\ r[end] = m[end]
  BY <1>1, <1>5, PrefixReflexive
<1>7. end \in Terminals(r)
  BY <1>6, TerminalElsewhere
<1>8. \A path \in DOMAIN r : IsPrefix(end, path) => path \in DOMAIN m
  BY <1>4, MergeRest
<1>9. Below(r, end) = Below(m, end)
  BY <1>5, <1>8 DEF Below
<1>10. Below(m, end) \subseteq Seq(Seq(Word)) /\ \A path \in Below(m, end) : r[path] = m[path]
  BY <1>2, <1>5 DEF Below
<1>. QED
  BY <1>1, <1>7, <1>9, <1>10, SameBelowSameSub

\* There is nothing else.
LEMMA MergedRest ==
  ASSUME TablesInv, NEW m, Settled(m), NEW o, Settled(o),
         NEW r, r = Merge(m, o, CanonicalPaths), NEW end \in Terminals(r)
  PROVE  \/ end \in Terminals(o)
         \/ /\ end \in Terminals(m)
            /\ \A s \in Terminals(o) : ~IsPrefix(s, end) /\ ~IsPrefix(end, s)
<1>1. /\ TreeOver(Seq(Word), m) /\ TreeOver(Seq(Word), o) /\ TreeOver(Seq(Word), r)
      /\ <<>> \in DOMAIN o /\ o[<<>>] = Object
  BY SourceFacts, MergeIsTree DEF Settled
<1>2. SourceTree(r)
  BY <1>1, MergeWins DEF SourceTree
<1>3. /\ end \in DOMAIN r /\ end \in Seq(Seq(Word))
      /\ \A path \in Seq(Seq(Word)) : IsPrefix(path, end) /\ path # end =>
           path \notin CanonicalPaths
  BY <1>2, TerminalFacts
<1>4. CASE end \in DOMAIN o
  <2>1. r[end] = o[end]
    BY <1>4, MergeWins
  <2>. QED
    BY <1>4, <2>1, TerminalElsewhere
<1>5. CASE end \notin DOMAIN o
  <2>1. end \in DOMAIN m /\ r[end] = m[end]
    BY <1>3, <1>5, MergeRest
  <2>2. end \in Terminals(m)
    BY <2>1, TerminalElsewhere
  <2>3. ASSUME NEW s \in Terminals(o)  PROVE ~IsPrefix(s, end) /\ ~IsPrefix(end, s)
    <3>1. /\ s \in DOMAIN o /\ s \in Seq(Seq(Word))
          /\ s \in CanonicalPaths \/ IsLeafAt(o, s)
      BY TerminalFacts DEF Settled
    <3>2. ~IsPrefix(end, s)
      BY <1>1, <1>3, <1>5, <3>1, TreeAncestors
    <3>3. ASSUME IsPrefix(s, end)  PROVE FALSE
      <4>1. s # end
        BY <1>5, <3>1
      <4>2. IsLeafAt(o, s)
        BY <1>3, <3>1, <3>3, <4>1
      <4>3. r[s] = o[s]
        BY <3>1, MergeWins
      <4>4. r[s].kind = "object"
        BY <1>1, <1>3, <3>1, <3>3, <4>1, TreeAncestors
      <4>. QED
        BY <4>2, <4>3, <4>4 DEF IsLeafAt
    <3>. QED
      BY <3>2, <3>3
  <2>. QED
    BY <2>2, <2>3
<1>. QED
  BY <1>4, <1>5

\* It is free of garbage again.
LEMMA MergedIsSettled ==
  ASSUME TablesInv, NEW m, Settled(m), NEW o, Settled(o),
         NEW r, r = Merge(m, o, CanonicalPaths)
  PROVE  Settled(r)
<1>1. /\ TreeOver(Seq(Word), m) /\ TreeOver(Seq(Word), o) /\ TreeOver(Seq(Word), r)
      /\ <<>> \in DOMAIN o /\ o[<<>>] = Object
      /\ DOMAIN m \subseteq Seq(Seq(Word)) /\ DOMAIN o \subseteq Seq(Seq(Word))
  BY SourceFacts, MergeIsTree DEF Settled
<1>2. SourceTree(r)
  BY <1>1, MergeWins DEF SourceTree
<1>3. ASSUME NEW path \in DOMAIN r, path # <<>>
      PROVE  \E end \in Terminals(r) : IsPrefix(path, end) \/ IsPrefix(end, path)
  <2>1. CASE path \in DOMAIN o
    <3>1. PICK end \in Terminals(o) : IsPrefix(path, end) \/ IsPrefix(end, path)
      BY <1>3, <2>1 DEF Settled
    <3>. QED
      BY <3>1, MergedUpper
  <2>2. CASE path \notin DOMAIN o
    <3>1. path \in DOMAIN m /\ path \in Seq(Seq(Word))
      BY <1>1, <2>2, MergeRest
    <3>2. PICK end \in Terminals(m) : IsPrefix(path, end) \/ IsPrefix(end, path)
      BY <1>3, <3>1 DEF Settled
    <3>3. CASE \A s \in Terminals(o) : ~IsPrefix(s, end) /\ ~IsPrefix(end, s)
      BY <3>2, <3>3, MergedLower
    <3>4. CASE \E s \in Terminals(o) : IsPrefix(s, end) \/ IsPrefix(end, s)
      <4>1. PICK s \in Terminals(o) : IsPrefix(s, end) \/ IsPrefix(end, s)
        BY <3>4
      <4>2. s \in Terminals(r)
        BY MergedUpper
      <4>3. /\ end \in Seq(Seq(Word)) /\ end \in DOMAIN m
            /\ end \in CanonicalPaths \/ IsLeafAt(m, end)
        BY TerminalFacts DEF Settled
      <4>4. /\ s \in Seq(Seq(Word)) /\ s \in DOMAIN o
            /\ \A p \in Seq(Seq(Word)) : IsPrefix(p, s) /\ p # s => p \notin CanonicalPaths
        BY TerminalFacts DEF Settled
      <4>5. CASE IsPrefix(path, end)
        BY <3>1, <4>1, <4>2, <4>3, <4>4, <4>5, PrefixTransitive, PrefixesComparable
      <4>6. CASE IsPrefix(end, path) /\ IsPrefix(s, end)
        BY <3>1, <4>2, <4>3, <4>4, <4>6, PrefixTransitive
      <4>7. CASE IsPrefix(end, path) /\ IsPrefix(end, s) /\ end = s
        BY <4>2, <4>7
      <4>8. CASE IsPrefix(end, path) /\ IsPrefix(end, s) /\ end # s
        <5>1. IsLeafAt(m, end)
          BY <4>3, <4>4, <4>8
        <5>2. end # path => m[end].kind = "object"
          BY <1>1, <3>1, <4>3, <4>8, TreeAncestors
        <5>3. end = path
          BY <5>1, <5>2 DEF IsLeafAt
        <5>. QED
          BY <4>2, <4>8, <5>3
      <4>. QED
        BY <3>2, <4>1, <4>5, <4>6, <4>7, <4>8
    <3>. QED
      BY <3>3, <3>4
  <2>. QED
    BY <2>1, <2>2
<1>. QED
  BY <1>2, <1>3 DEF Settled
-----------------------------------------------------------------------------
(* Layers *)

LEMMA TerminalsType ==
  ASSUME IndInv, TablesInv, NEW t
  PROVE  Terminals(t) \subseteq Path(Key) /\ IsFiniteSet(Terminals(t))
<1>1. DOMAIN configs \subseteq Path(Key) \X Types
  BY DEF IndInv, TypeOK, IsConfigs
<1>. DEFINE f == [key \in DOMAIN configs |-> WithAncestors(key[1])]
            F == {f[key] : key \in DOMAIN configs}
<1>2. ASSUME NEW key \in DOMAIN configs
      PROVE  f[key] \subseteq Path(Key) /\ IsFiniteSet(f[key])
  <2>1. key[1] \in Seq(Key)
    BY <1>1 DEF Path
  <2>2. f[key] = WithAncestors(key[1])
    OBVIOUS
  <2>3. WithAncestors(key[1]) \subseteq Seq(Key)
    BY <2>1, AncestorsArePrefixes
  <2>. DEFINE path == key[1]
              g == [n \in 1..Len(path) |-> SubSeq(path, 1, n)]
  <2>4. Len(path) \in Nat
    BY <2>1
  <2>5. IsFiniteSet(1..Len(path))
    BY <2>4, FS_Interval
  <2>6. {g[n] : n \in 1..Len(path)} = WithAncestors(path)
    BY DEF WithAncestors
  <2>. HIDE DEF path, g, f
  <2>7. IsFiniteSet(WithAncestors(path))
    BY <2>5, <2>6, ImageIsFinite
  <2>. QED
    BY <2>2, <2>3, <2>7 DEF Path, path
<1>3. UNION {WithAncestors(key[1]) : key \in DOMAIN configs} = UNION F
  OBVIOUS
<1>. HIDE DEF f
<1>4. IsFiniteSet(F)
  BY ImageIsFinite DEF TablesInv
<1>5. \A T \in F : T \subseteq Path(Key) /\ IsFiniteSet(T)
  BY <1>2
<1>. HIDE DEF F
<1>6. IsFiniteSet(UNION F) /\ UNION F \subseteq Path(Key)
  BY <1>4, <1>5, FS_UNION
<1>7. <<>> \in Path(Key) /\ IsFiniteSet({<<>>})
  BY FS_Singleton DEF Path
<1>8. ConfigAncestors \subseteq Path(Key) /\ IsFiniteSet(ConfigAncestors)
  BY <1>3, <1>6, <1>7, FS_Union DEF ConfigAncestors
<1>9. CanonicalPaths \subseteq DOMAIN mounts
  BY DEF CanonicalPaths
<1>10. CanonicalPaths \subseteq Path(Key) /\ IsFiniteSet(CanonicalPaths)
  BY <1>9, SubsetIsFinite DEF TablesInv, IsTable
<1>11. IsFiniteSet(CanonicalPaths \cup ConfigAncestors)
  BY <1>8, <1>10, FS_Union
<1>12. Terminals(t) \subseteq CanonicalPaths \cup ConfigAncestors
  BY DEF Terminals
<1>. QED
  BY <1>8, <1>10, <1>11, <1>12, SubsetIsFinite

\* An empty tree gives no values.
LEMMA EmptyIsSettled ==
  ASSUME TablesInv
  PROVE  /\ Settled(Single(Object)) /\ Terminals(Single(Object)) = {}
         /\ LayerValues(Single(Object)) = Layered!Empty
<1>1. SourceTree(Single(Object)) /\ DOMAIN Single(Object) = {<<>>}
  BY SingleIsSource DEF Single
<1>2. Terminals(Single(Object)) = {}
  <2>. SUFFICES ASSUME NEW end \in Terminals(Single(Object))  PROVE FALSE
    OBVIOUS
  <2>. QED
    BY <1>1, TerminalFacts
<1>3. LayerValues(Single(Object)) = Layered!Empty
  <2>1. LayerValues(Single(Object)) = [site \in {} |-> Sub(Single(Object), site)]
    BY <1>2 DEF LayerValues
  <2>2. [site \in {} |-> Sub(Single(Object), site)] = [site \in {} |-> 0]
    OBVIOUS
  <2>. QED
    BY <2>1, <2>2 DEF Layered!Empty
<1>. QED
  BY <1>1, <1>2, <1>3 DEF Settled

LEMMA RelatedSites ==
  ASSUME NEW site1, NEW site2
  PROVE  Layered!Related(site1, site2) <=> IsPrefix(site1, site2) \/ IsPrefix(site2, site1)
BY DEF Layered!Related, Layered!IsPrefix, IsPrefix

\* The values of a source are a layer.
LEMMA TerminalsAreLayer ==
  ASSUME IndInv, TablesInv, NEW t, Settled(t)
  PROVE  Layered!IsLayer(LayerValues(t))
<1>1. DOMAIN LayerValues(t) = Terminals(t)
  BY DEF LayerValues
<1>2. Terminals(t) \subseteq Path(Key)
  BY TerminalsType
<1>3. ASSUME NEW end1 \in Terminals(t), NEW end2 \in Terminals(t),
             IsPrefix(end1, end2) \/ IsPrefix(end2, end1)
      PROVE  end1 = end2
  BY <1>3, TerminalsApart DEF Settled
<1>. QED
  BY <1>1, <1>2, <1>3, RelatedSites DEF Layered!IsLayer

\* guided_merge puts a layer on top of the others.
LEMMA MergeIsOverlay ==
  ASSUME TablesInv, NEW m, Settled(m), NEW o, Settled(o),
         NEW r, r = Merge(m, o, CanonicalPaths)
  PROVE  LayerValues(r) = Layered!Overlay(LayerValues(m), LayerValues(o))
<1>. DEFINE lower == LayerValues(m)
            upper == LayerValues(o)
            kept == {end \in Terminals(m) :
                       \A s \in Terminals(o) : ~IsPrefix(s, end) /\ ~IsPrefix(end, s)}
<1>1. /\ DOMAIN lower = Terminals(m) /\ DOMAIN upper = Terminals(o)
      /\ \A end \in Terminals(m) : lower[end] = Sub(m, end)
      /\ \A end \in Terminals(o) : upper[end] = Sub(o, end)
  BY DEF LayerValues
<1>2. Terminals(r) = kept \cup Terminals(o)
  BY MergedUpper, MergedLower, MergedRest
<1>3. \A end \in Terminals(o) : Sub(r, end) = upper[end]
  BY <1>1, MergedUpper
<1>4. \A end \in kept : Sub(r, end) = lower[end]
  BY <1>1, MergedLower
<1>5. kept = {site \in DOMAIN lower : \A s \in DOMAIN upper : ~Layered!Related(site, s)}
  BY <1>1, RelatedSites
<1>. HIDE DEF lower, upper, kept
<1>6. Layered!Overlay(lower, upper) =
        [site \in kept \cup DOMAIN upper |->
           IF site \in DOMAIN upper THEN upper[site] ELSE lower[site]]
  BY <1>5 DEF Layered!Overlay
<1>7. LayerValues(r) = [site \in kept \cup Terminals(o) |-> Sub(r, site)]
  BY <1>2 DEF LayerValues
<1>8. \A site \in kept \cup Terminals(o) :
        Sub(r, site) = IF site \in DOMAIN upper THEN upper[site] ELSE lower[site]
  BY <1>1, <1>3, <1>4
<1>. QED
  BY <1>1, <1>6, <1>7, <1>8 DEF lower, upper
-----------------------------------------------------------------------------
(* The repository *)

\* The sources added so far, and what became of them.
SourcesKept ==
  /\ sources \in Seq({sources[i] : i \in DOMAIN sources})
  /\ \A i \in DOMAIN sources :
       sources[i].params \in Nat /\ Settled(sources[i].layer)

\* Before it has a schema the repository is empty; it then visits the configs
\* of this schema only, and whatever it is given, what it has is a tree
\* without garbage.
RepoInv ==
  /\ IndInv /\ TablesInv
  /\ status \in {"none", "open", "panicked"}
  /\ status = "none" => merged = Single(Object) /\ sources = <<>>
  /\ status = "open" => /\ order \in Seq(DOMAIN configs)
                        /\ byDepthOrder \in Seq(Path(Key) \X Types)
  /\ Settled(merged)
  /\ SourcesKept

LEMMA NoSources ==
  ASSUME sources = <<>>  PROVE SourcesKept
<1>1. <<>> \in Seq({}) /\ DOMAIN <<>> = {}
  OBVIOUS
<1>2. {sources[i] : i \in DOMAIN sources} = {}
  BY <1>1
<1>. QED
  BY <1>1, <1>2 DEF SourcesKept

LEMMA RepoInitInv == RepoInit => RepoInv
<1>. SUFFICES ASSUME RepoInit  PROVE RepoInv
  OBVIOUS
<1>1. IndInv
  BY InitInv DEF RepoInit
<1>2. TablesInv
  <2>1. /\ DOMAIN configs = {} /\ byDepth = {} /\ mounts = <<>> /\ patch = EmptyPatch
    BY DEF RepoInit, Init
  <2>. QED
    BY <2>1, EmptyTables DEF TablesInv
<1>3. /\ status = "none" /\ sources = <<>> /\ merged = Single(Object)
  BY DEF RepoInit
<1>. QED
  BY <1>1, <1>2, <1>3, EmptyIsSettled, NoSources DEF RepoInv

\* The schema does not depend on the repository.
LEMMA SchemaStep == [RepoNext]_allVars => [Next]_vars
BY DEF RepoNext, ChangeSchema, New, NewWithFallbacks, With, allVars

\* Nothing of what the properties of a tree refer to changes with the
\* repository.
LEMMA SchemaUnchanged ==
  ASSUME UNCHANGED vars
  PROVE  /\ configs' = configs /\ byDepth' = byDepth /\ mounts' = mounts
         /\ CanonicalPaths' = CanonicalPaths /\ ConfigAncestors' = ConfigAncestors
         /\ \A t : Terminals(t)' = Terminals(t)
<1>1. /\ configs' = configs /\ byDepth' = byDepth /\ mounts' = mounts
  BY DEF vars
<1>2. CanonicalPaths' = CanonicalPaths /\ ConfigAncestors' = ConfigAncestors
  BY <1>1 DEF CanonicalPaths, ConfigAncestors
<1>. QED
  BY <1>1, <1>2 DEF Terminals
LEMMA OwnItems ==
  ASSUME NEW S, NEW s \in Seq(S)
  PROVE  s \in Seq({s[i] : i \in DOMAIN s})
<1>1. s = [i \in 1..Len(s) |-> s[i]] /\ Len(s) \in Nat /\ DOMAIN s = 1..Len(s)
  OBVIOUS
<1>2. s \in [1..Len(s) -> {s[i] : i \in DOMAIN s}]
  BY <1>1
<1>. QED
  BY <1>1, <1>2

LEMMA SettledNext ==
  ASSUME UNCHANGED vars, NEW t, Settled(t)
  PROVE  /\ merged' = t => Settled(merged)'
         /\ \A i : sources'[i].layer = t => Settled(sources[i].layer)'
<1>1. CanonicalPaths' = CanonicalPaths /\ ConfigAncestors' = ConfigAncestors
  BY SchemaUnchanged
<1>2. SourceTree(t)
  BY DEF Settled
<1>3. \A path \in DOMAIN t \ {<<>>} :
        \E end \in {p \in DOMAIN t :
                     /\ \/ p \in CanonicalPaths
                        \/ p \in ConfigAncestors /\ IsLeafAt(t, p)
                     /\ \A q \in ({<<>>} \cup WithAncestors(p)) \ {p} :
                          q \in ConfigAncestors \ CanonicalPaths} :
          IsPrefix(path, end) \/ IsPrefix(end, path)
  BY DEF Settled, Terminals
<1>4. ASSUME merged' = t  PROVE Settled(merged)'
  BY <1>1, <1>2, <1>3, <1>4 DEF Settled, Terminals, SourceTree
<1>5. ASSUME NEW i, sources'[i].layer = t  PROVE Settled(sources[i].layer)'
  BY <1>1, <1>2, <1>3, <1>5 DEF Settled, Terminals, SourceTree
<1>. QED
  BY <1>4, <1>5

\* A source is added: by with(), or for the fallbacks by new().
LEMMA InsertSourceInv ==
  ASSUME RepoInv, UNCHANGED vars, NEW source, NEW tree,
         tree # Panicked => Settled(tree), InsertSource(source, tree),
         status' = "open" => /\ order' \in Seq(DOMAIN configs)
                             /\ byDepthOrder' \in Seq(Path(Key) \X Types)
  PROVE  RepoInv'
<1>1. IndInv' /\ TablesInv' /\ DOMAIN configs' = DOMAIN configs
  <2>1. [Next]_vars
    OBVIOUS
  <2>. QED
    BY <2>1, NextInv, TablesNext, SchemaUnchanged DEF RepoInv
<1>2. CASE tree = Panicked
  <2>1. status' = "panicked" /\ merged' = merged /\ sources' = sources
    BY <1>2 DEF InsertSource
  <2>2. Settled(merged)'
    BY <2>1, SettledNext DEF RepoInv
  <2>3. SourcesKept'
    <3>1. \A i \in DOMAIN sources : Settled(sources[i].layer)'
      BY <2>1, SettledNext DEF RepoInv, SourcesKept
    <3>. QED
      BY <2>1, <3>1 DEF RepoInv, SourcesKept
  <2>. QED
    BY <1>1, <2>1, <2>2, <2>3 DEF RepoInv
<1>3. CASE tree # Panicked
  <2>. DEFINE entry == [source |-> source, layer |-> tree,
                        params |-> Cardinality(Terminals(tree))]
              S == {sources[i] : i \in DOMAIN sources}
  <2>1. /\ status' = "open" /\ merged' = Merge(merged, tree, CanonicalPaths)
        /\ sources' = Append(sources, entry)
    BY <1>3 DEF InsertSource, GuidedMerge
  <2>2. Settled(Merge(merged, tree, CanonicalPaths))
    BY <1>3, MergedIsSettled DEF RepoInv
  <2>3. Settled(merged)'
    BY <2>1, <2>2, SettledNext
  <2>4. entry.params \in Nat /\ entry.layer = tree
    BY TerminalsType, FS_CardinalityType DEF RepoInv
  <2>5. sources \in Seq(S) /\ sources \in Seq(S \cup {entry})
    <3>1. sources \in Seq(S)
      BY DEF RepoInv, SourcesKept
    <3>. HIDE DEF S, entry
    <3>. QED
      BY <3>1, SeqMonotonic
  <2>. HIDE DEF S, entry
  <2>6. /\ sources' \in Seq(S \cup {entry})
        /\ \A i \in DOMAIN sources' :
             \/ i \in DOMAIN sources /\ sources'[i] = sources[i]
             \/ sources'[i] = entry
    BY <2>1, <2>5
  <2>7. sources' \in Seq({sources'[i] : i \in DOMAIN sources'})
    BY <2>6, OwnItems
  <2>8. ASSUME NEW i \in DOMAIN sources'
        PROVE  sources'[i].params \in Nat /\ Settled(sources[i].layer)'
    <3>1. CASE i \in DOMAIN sources /\ sources'[i] = sources[i]
      <4>1. sources[i].params \in Nat /\ Settled(sources[i].layer)
        BY <3>1 DEF RepoInv, SourcesKept
      <4>. QED
        BY <3>1, <4>1, SettledNext
    <3>2. CASE sources'[i] = entry
      BY <1>3, <2>4, <3>2, SettledNext
    <3>. QED
      BY <2>6, <3>1, <3>2
  <2>9. SourcesKept'
    BY <2>7, <2>8 DEF SourcesKept
  <2>. QED
    BY <1>1, <2>1, <2>3, <2>9 DEF RepoInv
<1>. QED
  BY <1>2, <1>3

LEMMA GivenSource ==
  ASSUME NEW source \in Sources  PROVE IsSource(source)
<1>1. /\ TreeOver(Seq(Word), source.contents) /\ source.contents[<<>>] = Object
      /\ source.flat => IsFiniteSet(DOMAIN source.contents)
  BY RepositoryAssumption
<1>. QED
  BY <1>1 DEF IsSource, GoodTree, SourceTree

LEMMA RepoNextInv == RepoInv /\ [RepoNext]_allVars => RepoInv'
<1>. SUFFICES ASSUME RepoInv, [RepoNext]_allVars  PROVE RepoInv'
  OBVIOUS
<1>0. [Next]_vars
  BY SchemaStep
<1>1. IndInv' /\ TablesInv'
  BY <1>0, NextInv, TablesNext DEF RepoInv
<1>2. CASE ChangeSchema
  <2>1. status' = "none" /\ merged' = Single(Object) /\ sources' = <<>>
    BY <1>2 DEF ChangeSchema, repo, RepoInv
  <2>2. Settled(merged)'
    BY <2>1, SingleIsSource DEF Settled, SourceTree, Single
  <2>3. SourcesKept'
    <3>1. DOMAIN <<>> = {} /\ <<>> \in Seq({})
      OBVIOUS
    <3>2. {sources'[i] : i \in DOMAIN sources'} = {}
      BY <2>1, <3>1
    <3>. QED
      BY <2>1, <3>1, <3>2 DEF SourcesKept
  <2>. QED
    BY <1>1, <2>1, <2>2, <2>3 DEF RepoInv
<1>3. ASSUME NEW provided \in Provided, New(provided)  PROVE RepoInv'
  <2>1. /\ UNCHANGED vars /\ merged' = merged /\ sources' = sources
        /\ status' = "open" /\ order' \in Orders /\ byDepthOrder' \in ByDepthOrders
    BY <1>3 DEF New
  <2>2. DOMAIN configs' = DOMAIN configs
    BY <2>1, SchemaUnchanged
  <2>3. order' \in Seq(DOMAIN configs) /\ byDepthOrder' \in Seq(Path(Key) \X Types)
    BY <2>1, OrderType, ByDepthOrderType DEF RepoInv
  <2>4. Settled(merged)'
    BY <2>1, SettledNext DEF RepoInv
  <2>5. \A i \in DOMAIN sources : Settled(sources[i].layer)'
    BY <2>1, SettledNext DEF RepoInv, SourcesKept
  <2>6. SourcesKept'
    BY <2>1, <2>5 DEF RepoInv, SourcesKept
  <2>. QED
    BY <1>1, <2>1, <2>2, <2>3, <2>4, <2>6 DEF RepoInv
<1>4. ASSUME NEW provided \in Provided, NewWithFallbacks(provided)  PROVE RepoInv'
  <2>1. UNCHANGED vars /\ order' \in Orders /\ byDepthOrder' \in ByDepthOrders
    BY <1>4 DEF NewWithFallbacks
  <2>2. order' \in Seq(DOMAIN configs) /\ byDepthOrder' \in Seq(Path(Key) \X Types)
    BY <2>1, OrderType, ByDepthOrderType DEF RepoInv
  <2>3. PICK paths \in SetToSeqs(FallbackPaths(provided)) :
          LET source == [contents |-> FallbackContents(paths), flat |-> FALSE]
          IN  InsertSource(source, Preprocess(source, order', byDepthOrder'))
    BY <1>4 DEF NewWithFallbacks
  <2>. DEFINE source == [contents |-> FallbackContents(paths), flat |-> FALSE]
              tree == Preprocess(source, order', byDepthOrder')
  <2>4. InsertSource(source, tree)
    BY <2>3
  <2>5. IsSource(source)
    BY FallbacksGood DEF IsSource, RepoInv
  <2>. HIDE DEF source
  <2>6. tree # Panicked => Settled(tree)
    BY <2>2, <2>5, PreprocessedIsSettled DEF RepoInv
  <2>. HIDE DEF tree
  <2>. QED
    BY <2>1, <2>2, <2>4, <2>6, InsertSourceInv
<1>5. ASSUME NEW source \in Sources, With(source)  PROVE RepoInv'
  <2>. DEFINE tree == Preprocess(source, order, byDepthOrder)
  <2>1. /\ UNCHANGED vars /\ order' = order /\ byDepthOrder' = byDepthOrder
        /\ status = "open" /\ InsertSource(source, tree)
    BY <1>5 DEF With
  <2>2. order \in Seq(DOMAIN configs) /\ byDepthOrder \in Seq(Path(Key) \X Types)
    BY <2>1 DEF RepoInv
  <2>3. tree # Panicked => Settled(tree)
    BY <2>2, GivenSource, PreprocessedIsSettled DEF RepoInv
  <2>. HIDE DEF tree
  <2>. QED
    BY <2>1, <2>2, <2>3, InsertSourceInv
<1>6. CASE UNCHANGED allVars
  <2>1. UNCHANGED vars /\ UNCHANGED repo
    BY <1>6 DEF allVars
  <2>2. /\ merged' = merged /\ sources' = sources /\ status' = status
        /\ order' = order /\ byDepthOrder' = byDepthOrder
    BY <2>1 DEF repo
  <2>3. DOMAIN configs' = DOMAIN configs
    BY <2>1, SchemaUnchanged
  <2>4. Settled(merged)'
    BY <2>1, <2>2, SettledNext DEF RepoInv
  <2>5. \A i \in DOMAIN sources : Settled(sources[i].layer)'
    BY <2>1, <2>2, SettledNext DEF RepoInv, SourcesKept
  <2>6. SourcesKept'
    BY <2>2, <2>5 DEF RepoInv, SourcesKept
  <2>. QED
    BY <1>1, <2>2, <2>3, <2>4, <2>6 DEF RepoInv
<1>. QED
  BY <1>2, <1>3, <1>4, <1>5, <1>6 DEF RepoNext
-----------------------------------------------------------------------------
(* Theorems *)

\* The repository borrows the schema: whatever is proved of every state and
\* of every step of a schema is true of that of a repository.
THEOREM SchemaIsBorrowed == RepoSpec => Spec
<1>1. RepoInit => Init
  BY DEF RepoInit
<1>. QED
  BY <1>1, SchemaStep, PTL DEF RepoSpec, Spec

THEOREM RepositoryInvariant == RepoSpec => []RepoInv
BY RepoInitInv, RepoNextInv, PTL DEF RepoSpec

\* Whatever sources are added in whatever order, with whatever fallbacks, the
\* repository has a tree with an object at the root.
THEOREM RepositoryTypeCorrect == RepoSpec => []RepoTypeOK
<1>1. RepoInv => RepoTypeOK
  BY DEF RepoInv, RepoTypeOK, Settled, SourceTree, TreeOver, SourcesKept
<1>. QED
  BY <1>1, RepositoryInvariant, PTL

\* The state after a step in the terms of the state before it.
LEMMA LayersNext ==
  ASSUME UNCHANGED vars, NEW t
  PROVE  /\ merged' = t => LayerValues(merged)' = LayerValues(t)
         /\ NewestLayer' = t => LayerValues(NewestLayer)' = LayerValues(t)
<1>1. CanonicalPaths' = CanonicalPaths /\ ConfigAncestors' = ConfigAncestors
  BY SchemaUnchanged
<1>2. ASSUME merged' = t  PROVE LayerValues(merged)' = LayerValues(t)
  BY <1>1, <1>2 DEF LayerValues, Terminals
<1>3. ASSUME NewestLayer' = t  PROVE LayerValues(NewestLayer)' = LayerValues(t)
  BY <1>1, <1>3 DEF LayerValues, Terminals
<1>. QED
  BY <1>2, <1>3

LEMMA EmptyNext ==
  ASSUME TablesInv'
  PROVE  /\ merged' = Single(Object) => LayerValues(merged)' = Layered!Empty
         /\ NewestLayer' = Single(Object) => LayerValues(NewestLayer)' = Layered!Empty
<1>1. <<>> \notin CanonicalPaths'
  BY DEF CanonicalPaths, TablesInv, IsTable
<1>2. DOMAIN Single(Object) = {<<>>} /\ ~IsLeafAt(Single(Object), <<>>)
  BY DEF Single, IsLeafAt, Object
<1>3. merged' = Single(Object) => Terminals(merged)' = {}
  BY <1>1, <1>2 DEF Terminals
<1>4. NewestLayer' = Single(Object) => Terminals(NewestLayer)' = {}
  BY <1>1, <1>2 DEF Terminals
<1>5. \A f : [site \in {} |-> f[site]] = [site \in {} |-> 0]
  OBVIOUS
<1>. QED
  BY <1>3, <1>4 DEF LayerValues, Layered!Empty

\* Adding a source adds its layer.
LEMMA InsertSourceLayer ==
  ASSUME RepoInv, UNCHANGED vars, NEW source, NEW tree,
         tree # Panicked => Settled(tree), InsertSource(source, tree)
  PROVE  Layered!Next \/ UNCHANGED Layered!vars
<1>1. CASE tree = Panicked
  <2>1. merged' = merged /\ sources' = sources
    BY <1>1 DEF InsertSource
  <2>2. NewestLayer' = NewestLayer
    BY <2>1 DEF NewestLayer
  <2>. QED
    BY <2>1, <2>2, LayersNext DEF Layered!vars
<1>2. CASE tree # Panicked
  <2>. DEFINE entry == [source |-> source, layer |-> tree,
                        params |-> Cardinality(Terminals(tree))]
              r == Merge(merged, tree, CanonicalPaths)
  <2>1. merged' = r /\ sources' = Append(sources, entry)
    BY <1>2 DEF InsertSource, GuidedMerge
  <2>2. NewestLayer' = tree
    <3>. DEFINE S == {sources[i] : i \in DOMAIN sources}
    <3>1. sources \in Seq(S)
      BY DEF RepoInv, SourcesKept
    <3>2. entry.layer = tree
      OBVIOUS
    <3>. HIDE DEF S, entry
    <3>3. sources' # <<>> /\ sources'[Len(sources')] = entry
      BY <2>1, <3>1
    <3>. QED
      BY <3>2, <3>3 DEF NewestLayer
  <2>. HIDE DEF entry, r
  <2>3. LayerValues(merged)' = LayerValues(r) /\ LayerValues(NewestLayer)' = LayerValues(tree)
    BY <2>1, <2>2, LayersNext
  <2>4. LayerValues(r) = Layered!Overlay(LayerValues(merged), LayerValues(tree))
    BY <1>2, MergeIsOverlay DEF RepoInv, r
  <2>5. Layered!IsLayer(LayerValues(tree))
    BY <1>2, TerminalsAreLayer DEF RepoInv
  <2>. QED
    BY <2>3, <2>4, <2>5 DEF Layered!Next, Layered!AddLayer
<1>. QED
  BY <1>1, <1>2

\* "The new source has higher priority and will overwrite values defined in
\* old sources": each source is a layer on top of the others, which replaces
\* what they say about the same params, as a whole, and nothing else; whatever
\* the schema is, and whatever the preprocessing has made of the source.
THEOREM RepositoryIsLayered == RepoSpec => ImplementsLayers
<1>1. RepoInit => Layered!Init
  <2>. SUFFICES ASSUME RepoInit  PROVE Layered!Init
    OBVIOUS
  <2>1. TablesInv /\ merged = Single(Object) /\ sources = <<>>
    BY RepoInitInv DEF RepoInit, RepoInv
  <2>. QED
    BY <2>1, EmptyIsSettled DEF Layered!Init, NewestLayer
<1>2. RepoInv /\ RepoInv' /\ [RepoNext]_allVars => [Layered!Next]_(Layered!vars)
  <2>. SUFFICES ASSUME RepoInv, RepoInv', [RepoNext]_allVars
                PROVE  Layered!Next \/ UNCHANGED Layered!vars
    OBVIOUS
  <2>1. CASE ChangeSchema
    <3>1. /\ merged = Single(Object) /\ merged' = Single(Object)
          /\ sources = <<>> /\ sources' = <<>>
      BY <2>1 DEF ChangeSchema, repo, RepoInv
    <3>2. NewestLayer = Single(Object) /\ NewestLayer' = Single(Object)
      BY <3>1 DEF NewestLayer
    <3>3. LayerValues(merged) = Layered!Empty /\ LayerValues(NewestLayer) = Layered!Empty
      BY <3>1, <3>2, EmptyIsSettled DEF RepoInv
    <3>4. LayerValues(merged)' = Layered!Empty /\ LayerValues(NewestLayer)' = Layered!Empty
      BY <3>1, <3>2, EmptyNext DEF RepoInv
    <3>. QED
      BY <3>3, <3>4 DEF Layered!vars
  <2>2. CASE UNCHANGED vars /\ merged' = merged /\ sources' = sources
    <3>1. NewestLayer' = NewestLayer
      BY <2>2 DEF NewestLayer
    <3>. QED
      BY <2>2, <3>1, LayersNext DEF Layered!vars
  <2>3. ASSUME NEW provided \in Provided, NewWithFallbacks(provided)
        PROVE  Layered!Next \/ UNCHANGED Layered!vars
    <3>1. UNCHANGED vars /\ order' \in Orders /\ byDepthOrder' \in ByDepthOrders
      BY <2>3 DEF NewWithFallbacks
    <3>2. order' \in Seq(DOMAIN configs) /\ byDepthOrder' \in Seq(Path(Key) \X Types)
      BY <3>1, OrderType, ByDepthOrderType DEF RepoInv
    <3>3. PICK paths \in SetToSeqs(FallbackPaths(provided)) :
            LET source == [contents |-> FallbackContents(paths), flat |-> FALSE]
            IN  InsertSource(source, Preprocess(source, order', byDepthOrder'))
      BY <2>3 DEF NewWithFallbacks
    <3>. DEFINE source == [contents |-> FallbackContents(paths), flat |-> FALSE]
                tree == Preprocess(source, order', byDepthOrder')
    <3>4. InsertSource(source, tree)
      BY <3>3
    <3>5. IsSource(source)
      BY FallbacksGood DEF IsSource, RepoInv
    <3>. HIDE DEF source
    <3>6. tree # Panicked => Settled(tree)
      BY <3>2, <3>5, PreprocessedIsSettled DEF RepoInv
    <3>. HIDE DEF tree
    <3>. QED
      BY <3>1, <3>4, <3>6, InsertSourceLayer
  <2>4. ASSUME NEW source \in Sources, With(source)
        PROVE  Layered!Next \/ UNCHANGED Layered!vars
    <3>. DEFINE tree == Preprocess(source, order, byDepthOrder)
    <3>1. UNCHANGED vars /\ status = "open" /\ InsertSource(source, tree)
      BY <2>4 DEF With
    <3>2. order \in Seq(DOMAIN configs) /\ byDepthOrder \in Seq(Path(Key) \X Types)
      BY <3>1 DEF RepoInv
    <3>3. tree # Panicked => Settled(tree)
      BY <3>2, GivenSource, PreprocessedIsSettled DEF RepoInv
    <3>. HIDE DEF tree
    <3>. QED
      BY <3>1, <3>3, InsertSourceLayer
  <2>5. ASSUME NEW provided \in Provided, New(provided)
        PROVE  UNCHANGED vars /\ merged' = merged /\ sources' = sources
    BY <2>5 DEF New
  <2>6. ASSUME UNCHANGED allVars
        PROVE  UNCHANGED vars /\ merged' = merged /\ sources' = sources
    BY <2>6 DEF allVars, repo
  <2>. QED
    BY <2>1, <2>2, <2>3, <2>4, <2>5, <2>6 DEF RepoNext
<1>. QED
  BY <1>1, <1>2, RepositoryInvariant, PTL DEF RepoSpec, ImplementsLayers, Layered!Spec
-----------------------------------------------------------------------------
(* Garbage, as long as no aliases are pushed *)

\* The canonical paths of the params of configs.
ParamsOf(keys) ==
  UNION {{Join(key[1], Meta[key[2]].params[i].name) :
            i \in DOMAIN Meta[key[2]].params} : key \in keys}

OnlyMarked(m, keys) ==
  \A path \in DOMAIN m : m[path].canonical => path \in ParamsOf(keys)

\* Only params are mounted as canonical, and there is no call that would mount
\* one elsewhere.
OnlyParamsMarked ==
  /\ call # Idle => call.op = "insert"
  /\ OnlyMarked(mounts, DOMAIN configs)
  /\ OnlyMarked(Mounted, Known)

\* Without a patch these are the tables of the schema.
LEMMA NoPatchNext ==
  ASSUME patch' = EmptyPatch
  PROVE  /\ DOMAIN Mounted' = DOMAIN mounts' /\ Known' = DOMAIN configs'
         /\ \A path \in DOMAIN mounts' : Mounted'[path] = mounts'[path]
<1>1. patch'.mounts = <<>> /\ DOMAIN patch'.configs = {} /\ DOMAIN patch'.mounts = {}
  BY EmptyPatchFacts
<1>. QED
  BY <1>1 DEF Mounted, Known, Override

LEMMA OnlyParamsMarkedNext ==
  ASSUME Aliases = {}, IndInv, StructureInv, OnlyParamsMarked, [Next]_vars
  PROVE  OnlyParamsMarked'
<1>1. CASE Unrelated
  BY <1>1 DEF Unrelated, OnlyParamsMarked, Mounted, Known
<1>2. ASSUME NEW key \in Insertions, Insert(key)  PROVE OnlyParamsMarked'
  <2>1. /\ DOMAIN Mounted' = DOMAIN mounts' /\ Known' = DOMAIN configs'
        /\ \A path \in DOMAIN mounts' : Mounted'[path] = mounts'[path]
    BY <1>2, InsertFacts, NoPatchNext
  <2>. QED
    BY <1>2, <2>1, InsertFacts DEF OnlyParamsMarked, OnlyMarked
<1>3. CASE SkipPresent
  BY <1>3, SkipPresentFacts DEF OnlyParamsMarked, Mounted, Known
<1>4. CASE InsertInner
  <2>1. call # Idle /\ call' = call
    BY <1>4, InsertInnerFacts DEF InsertInner, Walking
  <2>2. IsInserted(Top) /\ Top \in PendingItem
    BY <1>4, <2>1, InsertInnerFacts
       DEF OnlyParamsMarked, StructureInv, StackInv
  <2>3. Top.data.paths[1].path = Top.prefix /\ Top.prefix \in Path(Key)
    BY <2>2 DEF IsInserted, PendingItem
  <2>4. Known' = Known \cup {TopKey}
    BY <1>4, InsertInnerFacts DEF Known
  <2>5. Mounted' = Override(Override(NewMounts(Top), patch.mounts), mounts)
    BY <1>4, InsertInnerFacts
  <2>6. ASSUME NEW i \in DOMAIN Meta[Top.ty].params
        PROVE  FirstParamPath(Top.data, Meta[Top.ty].params[i]) \in ParamsOf({TopKey})
    <3>. DEFINE param == Meta[Top.ty].params[i]
    <3>1. param \in ParamMeta
      BY <2>2, MetaTypes DEF PendingItem
    <3>2. param.name \in Seq(Key) /\ param.name # NoPath
      BY <3>1, ChildNameType DEF ChildMeta
    <3>3. FirstParamPath(Top.data, param) = Join(Top.prefix, param.name)
      <4>. HIDE DEF param
      <4>. QED
        BY <2>3, <3>2, JoinName DEF FirstParamPath
    <3>. QED
      BY <3>3 DEF ParamsOf, TopKey
  <2>7. ParamsOf({TopKey}) \subseteq ParamsOf(Known') /\ ParamsOf(Known) \subseteq ParamsOf(Known')
    BY <2>4 DEF ParamsOf
  <2>8. ASSUME NEW path \in DOMAIN NewMounts(Top), NewMounts(Top)[path].canonical
        PROVE  path \in ParamsOf(Known')
    <3>1. IsCanonical(Top, path)
      BY <2>8 DEF NewMounts, ConfigMount
    <3>2. CASE path \in DOMAIN Mounted /\ Mounted[path].canonical
      BY <2>7, <3>2 DEF OnlyParamsMarked, OnlyMarked
    <3>3. ASSUME NEW i \in ParamsAt(Top, path),
                 path = FirstParamPath(Top.data, Meta[Top.ty].params[i])
          PROVE  path \in ParamsOf(Known')
      <4>1. i \in DOMAIN Meta[Top.ty].params
        BY DEF ParamsAt
      <4>. QED
        BY <2>6, <2>7, <3>3, <4>1
    <3>. QED
      BY <3>1, <3>2, <3>3 DEF IsCanonical
  <2>9. ASSUME NEW path \in DOMAIN Mounted', Mounted'[path].canonical
        PROVE  path \in ParamsOf(Known')
    <3>1. CASE path \in DOMAIN NewMounts(Top)
      <4>1. Mounted'[path] = NewMounts(Top)[path]
        BY <2>5, <3>1 DEF Override
      <4>. QED
        BY <2>8, <2>9, <3>1, <4>1
    <3>2. CASE path \notin DOMAIN NewMounts(Top)
      <4>1. path \in DOMAIN Mounted /\ Mounted[path] = Mounted'[path]
        BY <2>5, <2>9, <3>2 DEF Override, Mounted
      <4>. QED
        BY <2>7, <2>9, <4>1 DEF OnlyParamsMarked, OnlyMarked
    <3>. QED
      BY <3>1, <3>2
  <2>10. mounts' = mounts /\ configs' = configs
    BY <1>4, InsertInnerFacts
  <2>. QED
    BY <2>1, <2>9, <2>10 DEF OnlyParamsMarked, OnlyMarked
<1>5. CASE RejectConflict
  <2>1. /\ DOMAIN Mounted' = DOMAIN mounts' /\ Known' = DOMAIN configs'
        /\ \A path \in DOMAIN mounts' : Mounted'[path] = mounts'[path]
    BY <1>5, RejectConflictFacts, NoPatchNext
  <2>. QED
    BY <1>5, <2>1, RejectConflictFacts DEF OnlyParamsMarked, OnlyMarked
<1>6. CASE Commit
  <2>1. /\ mounts' = Mounted /\ DOMAIN configs' = Known /\ call' = Idle
        /\ patch' = EmptyPatch
    BY <1>6, CommitFacts
  <2>2. /\ DOMAIN Mounted' = DOMAIN mounts' /\ Known' = DOMAIN configs'
        /\ \A path \in DOMAIN mounts' : Mounted'[path] = mounts'[path]
    BY <2>1, NoPatchNext
  <2>. QED
    BY <2>1, <2>2 DEF OnlyParamsMarked, OnlyMarked
<1>. QED
  BY <1>1, <1>2, <1>3, <1>4, <1>5, <1>6, StepCases

LEMMA OnlyParamsMarkedAlways ==
  ASSUME Aliases = {}
  PROVE  Spec => []OnlyParamsMarked
<1>1. Init => OnlyParamsMarked
  <2>. SUFFICES ASSUME Init  PROVE OnlyParamsMarked
    OBVIOUS
  <2>1. /\ call = Idle /\ DOMAIN mounts = {} /\ patch = EmptyPatch
    BY DEF Init
  <2>2. DOMAIN Mounted = {}
    BY <2>1, EmptyPatchFacts DEF Mounted, Override
  <2>. QED
    BY <2>1, <2>2 DEF OnlyParamsMarked, OnlyMarked
<1>2. IndInv /\ StructureInv /\ OnlyParamsMarked /\ [Next]_vars => OnlyParamsMarked'
  BY OnlyParamsMarkedNext
<1>. QED
  BY <1>1, <1>2, InductiveInvariant, StructureHolds, PTL DEF Spec

\* collect_garbage: "Removes all values that do not correspond to canonical
\* params or their ancestors", for every schema without aliases of whole
\* configs; one that is pushed later makes the params there canonical, too.
THEOREM GarbageIsCollected ==
  ASSUME Aliases = {}
  PROVE  RepoSpec => []NoGarbage
<1>1. RepoInv /\ OnlyParamsMarked => NoGarbage
  <2>. SUFFICES ASSUME RepoInv, OnlyParamsMarked, NEW path \in DOMAIN merged \ {<<>>}
                PROVE  \/ \E p \in ParamsInSchema : IsPrefix(p, path) \/ IsPrefix(path, p)
                       \/ \E q \in ConfigAncestors : IsLeafAt(merged, q) /\ IsPrefix(path, q)
    BY DEF NoGarbage
  <2>1. PICK end \in Terminals(merged) : IsPrefix(path, end) \/ IsPrefix(end, path)
    BY DEF RepoInv, Settled
  <2>2. CASE end \in CanonicalPaths
    <3>1. end \in ParamsOf(DOMAIN configs)
      BY <2>2 DEF CanonicalPaths, OnlyParamsMarked, OnlyMarked
    <3>2. end \in ParamsInSchema
      <4>1. PICK key \in DOMAIN configs :
              end \in {Join(key[1], Meta[key[2]].params[i].name) :
                         i \in DOMAIN Meta[key[2]].params}
        BY <3>1 DEF ParamsOf
      <4>2. PICK i \in DOMAIN Meta[key[2]].params :
              end = Join(key[1], Meta[key[2]].params[i].name)
        BY <4>1
      <4>. DEFINE own(k) == {[key |-> k, param |-> Meta[k[2]].params[j],
                              path |-> Join(k[1], Meta[k[2]].params[j].name)] :
                               j \in DOMAIN Meta[k[2]].params}
      <4>5. [key |-> key, param |-> Meta[key[2]].params[i], path |-> end] \in own(key)
        BY <4>2
      <4>6. Params = UNION {own(k) : k \in DOMAIN configs}
        BY DEF Params
      <4>3. [key |-> key, param |-> Meta[key[2]].params[i], path |-> end] \in Params
        <5>. HIDE DEF own
        <5>. QED
          BY <4>5, <4>6
      <4>4. [key |-> key, param |-> Meta[key[2]].params[i], path |-> end].path = end
        OBVIOUS
      <4>. QED
        BY <4>3, <4>4 DEF ParamsInSchema
    <3>. QED
      BY <2>1, <3>2
  <2>3. CASE end \notin CanonicalPaths
    <3>1. /\ SourceTree(merged) /\ TablesInv
      BY DEF RepoInv, Settled
    <3>2. IsLeafAt(merged, end) /\ end \in Seq(Seq(Word)) /\ end \in ConfigAncestors
      BY <2>3, <3>1, TerminalFacts DEF Terminals
    <3>3. path \in Seq(Seq(Word)) /\ TreeOver(Seq(Word), merged)
      BY <3>1, SourceFacts
    <3>4. CASE IsPrefix(path, end)
      BY <3>2, <3>4
    <3>5. CASE IsPrefix(end, path)
      <4>1. end # path => merged[end].kind = "object"
        BY <3>2, <3>3, <3>5, TreeAncestors
      <4>2. end = path
        BY <3>2, <4>1 DEF IsLeafAt
      <4>. QED
        BY <3>2, <3>3, <4>2, PrefixReflexive
    <3>. QED
      BY <2>1, <3>4, <3>5
  <2>. QED
    BY <2>2, <2>3
<1>2. Spec => []OnlyParamsMarked
  BY OnlyParamsMarkedAlways
<1>. QED
  BY <1>1, <1>2, SchemaIsBorrowed, RepositoryInvariant, PTL
=============================================================================
