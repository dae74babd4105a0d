------------------------------- MODULE Paths -------------------------------
(***************************************************************************)
(* Configuration paths (`Pointer` in value.rs).  A path is the sequence of *)
(* its keys: "test.value" is <<"test", "value">> and "" is <<>>.           *)
(*                                                                         *)
(* A child of a config (a param or a nested config) is referred to by a    *)
(* name or by a path alias.  A path alias starts with dots: the first dot  *)
(* only says that it is a path, every further one climbs one level.  Such  *)
(* a reference is a record [dots |-> number of leading dots, keys |-> the  *)
(* keys after the dots].                                                   *)
(***************************************************************************)
EXTENDS Integers, Sequences

CONSTANT NoKey  \* a value that is no key

\* The `None` of join_path().
NoPath == <<NoKey>>

Path(Key) == Seq(Key)

Ref(Key) == [dots : Nat, keys : Seq(Key)]

NameRef(name) == [dots |-> 0, keys |-> name]

\* A reference that a filter_map() of the code drops.
NoRef == NameRef(NoPath)

\* How many levels a reference climbs before descending.
Climb(ref) == IF ref.dots = 0 THEN 0 ELSE ref.dots - 1

\* Pointer::join
Join(path, suffix) == path \o suffix

\* Pointer::join_path: NoPath if the path has too few segments to climb.
JoinPath(path, ref) ==
  IF \/ path = NoPath
     \/ ref.keys = NoPath
     \/ Climb(ref) > Len(path)
  THEN NoPath
  ELSE Join(SubSeq(path, 1, Len(path) - Climb(ref)), ref.keys)

\* Pointer::split_last: the parent and the last segment of a non-empty path.
ParentOf(path) == SubSeq(path, 1, Len(path) - 1)

LastKey(path) == path[Len(path)]

\* Pointer::with_ancestors: includes the path, excludes the empty one.
WithAncestors(path) == {SubSeq(path, 1, n) : n \in 1..Len(path)}
=============================================================================
