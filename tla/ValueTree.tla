----------------------------- MODULE ValueTree -----------------------------
(***************************************************************************)
(* Values of configuration sources: `WithOrigin` / `Value` of value.rs.    *)
(*                                                                         *)
(* A value is a tree: a function from a prefix-closed set of paths to      *)
(* nodes.  The root is at <<>>.  A node has a kind; `data` stands for its  *)
(* scalar content, and for the contents of the items of an array.  Origins *)
(* only appear in messages and are left out.                               *)
(***************************************************************************)
EXTENDS Paths

LOCAL INSTANCE SequencesExt

Object == [kind |-> "object", data |-> <<>>, secret |-> FALSE]
Str(data) == [kind |-> "string", data |-> data, secret |-> FALSE]
Other(data) == [kind |-> "other", data |-> data, secret |-> FALSE]
Array(data) == [kind |-> "array", data |-> data, secret |-> FALSE]

\* A tree that is just the node.
Single(node) == [path \in {<<>>} |-> node]

\* What is left of a value whose owner has panicked.
Panicked == [path \in {} |-> Object]

IsTree(t) ==
  /\ <<>> \in DOMAIN t
  /\ \A path \in DOMAIN t \ {<<>>} :
       /\ ParentOf(path) \in DOMAIN t
       /\ t[ParentOf(path)].kind = "object"

\* A tree whose paths consist of these keys.
TreeOver(Key, t) == IsTree(t) /\ DOMAIN t \subseteq Path(Key)

IsObjectAt(t, path) == path \in DOMAIN t /\ t[path].kind = "object"
IsLeafAt(t, path) == path \in DOMAIN t /\ t[path].kind # "object"

Below(t, at) == {path \in DOMAIN t : IsPrefix(at, path)}

Relative(at, path) == SubSeq(path, Len(at) + 1, Len(path))

\* WithOrigin::get, the clone of the value.
Sub(t, at) ==
  [path \in {Relative(at, p) : p \in Below(t, at)} |-> t[Join(at, path)]]

\* The keys of the map of an object.
ChildKeys(t, at) == {path[Len(at) + 1] : path \in Below(t, at) \ {at}}

\* Map::extend (and Map::insert) on the object at `at`: `children` maps keys
\* to values, which replace those that are there.
ExtendMap(t, at, children) ==
  LET replaced == {path \in Below(t, at) \ {at} :
                     path[Len(at) + 1] \in DOMAIN children}
      new == UNION {{Join(Append(at, key), p) : p \in DOMAIN children[key]} :
                      key \in DOMAIN children}
  IN  [path \in (DOMAIN t \ replaced) \cup new |->
         LET key == path[Len(at) + 1]
         IN  IF path \in new
             THEN children[key][Relative(Append(at, key), path)]
             ELSE t[path]]

\* The children of ExtendMap() that insert one entry.
Entry(key, value) == [k \in {key} |-> value]

\* Mutant: takes no ancestor that is no object.
EnsureObjectStrictly(t, at) ==
  IF \E path \in WithAncestors(at) : IsLeafAt(t, path)
  THEN Panicked
  ELSE [path \in DOMAIN t \cup WithAncestors(at) |->
          IF path \notin DOMAIN t THEN Object ELSE t[path]]

\* WithOrigin::ensure_object.  Strict ancestors that are no objects are
\* replaced by objects, the location itself is not: the code takes that arm
\* for unreachable and panics.
EnsureObject(t, at) ==
  IF IsLeafAt(t, at)
  THEN Panicked
  ELSE [path \in DOMAIN t \cup WithAncestors(at) |->
          IF path \notin DOMAIN t \/ IsStrictPrefix(path, at)
          THEN Object
          ELSE t[path]]

\* Mutant: also goes into values that are no objects on one side.
MergeIntoLeaves(t, overrides, atoms) ==
  LET kept == {path \in DOMAIN t :
                 \A p \in atoms \cap DOMAIN t \cap DOMAIN overrides :
                   ~IsPrefix(p, path)}
  IN  [path \in kept \cup DOMAIN overrides |->
         IF path \in DOMAIN overrides THEN overrides[path] ELSE t[path]]

\* ConfigRepository's guided_merge: a deep merge of two objects that stops at
\* the paths in `atoms` and at everything that is no object on either side.
Merge(t, overrides, atoms) ==
  LET replaced == {path \in DOMAIN t \cap DOMAIN overrides :
                     \/ path \in atoms
                     \/ IsLeafAt(t, path)
                     \/ IsLeafAt(overrides, path)}
      kept == {path \in DOMAIN t :
                 \A p \in replaced : ~IsPrefix(p, path)}
  IN  [path \in kept \cup DOMAIN overrides |->
         IF path \in DOMAIN overrides THEN overrides[path] ELSE t[path]]

\* Mutant: keeps the previous value.
DeepMergeBelow(t, overrides) == Merge(overrides, t, {})

\* WithOrigin::deep_merge
DeepMerge(t, overrides) == Merge(t, overrides, {})
=============================================================================
