----------------------------- MODULE JsonSource -----------------------------
(***************************************************************************)
(* A JSON source that is edited in place: `Json::merge` of source/json.rs. *)
(***************************************************************************)
EXTENDS ValueTree

LOCAL INSTANCE SequencesExt

CONSTANTS
  Initial,   \* contents of the source
  Locations, \* paths merge() is called with
  Inserted   \* trees of the values it is called with

ASSUME JsonAssumption ==
  /\ \A t \in Initial : TreeOver(STRING, t) /\ IsObjectAt(t, <<>>)
  /\ \A t \in Inserted : TreeOver(STRING, t)
  /\ Locations \subseteq Path(STRING)

VARIABLES
  inner,     \* the tree
  panic,     \* "none", "documented", "unreachable"
  last       \* arguments of the last merge()

jsonVars == <<inner, panic, last>>

NoMerge == [at |-> NoPath]

\* The value with its location, and nothing else.
Placed(at, value) ==
  [path \in {<<>>} \cup WithAncestors(at)
              \cup {Join(at, p) : p \in DOMAIN value} |->
     IF IsPrefix(at, path) THEN value[Relative(at, path)] ELSE Object]

JsonInit ==
  /\ inner \in Initial
  /\ panic = "none"
  /\ last = NoMerge

\* The assertion at the start of merge().
RejectRoot(at, value) ==
  /\ panic = "none"
  /\ at = <<>> /\ IsLeafAt(value, <<>>)
  /\ panic' = "documented"
  /\ UNCHANGED <<inner, last>>

\* ensure_object() does not return.
PanicInEnsure(at, value) ==
  /\ panic = "none"
  /\ at # <<>>
  /\ EnsureObject(inner, ParentOf(at)) = Panicked
  /\ panic' = "unreachable"
  /\ UNCHANGED <<inner, last>>

\* Mutant: without the assertion.
MergeAnywhere(at, value) ==
  /\ panic = "none"
  /\ LET ensured == IF at = <<>> THEN inner
                    ELSE EnsureObject(inner, ParentOf(at))
     IN  /\ ensured # Panicked
         /\ inner' = DeepMerge(ensured, Placed(at, value))
  /\ last' = [at |-> at, value |-> value]
  /\ UNCHANGED panic

\* Json::merge
MergeAt(at, value) ==
  /\ panic = "none"
  /\ at = <<>> => IsObjectAt(value, <<>>)
  /\ LET ensured == IF at = <<>> THEN inner
                    ELSE EnsureObject(inner, ParentOf(at))
     IN  /\ ensured # Panicked
         /\ inner' = DeepMerge(ensured, Placed(at, value))
  /\ last' = [at |-> at, value |-> value]
  /\ UNCHANGED panic

JsonNext ==
  \/ \E at \in Locations, value \in Inserted : RejectRoot(at, value)
  \/ \E at \in Locations, value \in Inserted : PanicInEnsure(at, value)
  \/ \E at \in Locations, value \in Inserted : MergeAt(at, value)

JsonSpec == JsonInit /\ [][JsonNext]_jsonVars
-----------------------------------------------------------------------------
(* Properties *)

\* What was merged last is there, over whatever was there before.
LastMergeWins ==
  last # NoMerge =>
    \A path \in DOMAIN last.value :
      /\ Join(last.at, path) \in DOMAIN inner
      /\ inner[Join(last.at, path)] = last.value[path]

\* What was there stays, unless the new value has something at the same path
\* or something that is no object above it.
RestIsKept ==
  [][last' # last /\ last' # NoMerge =>
       LET placed == Placed(last'.at, last'.value)
       IN  \A path \in DOMAIN inner :
             \/ path \in DOMAIN placed
             \/ \E p \in DOMAIN placed : IsLeafAt(placed, p) /\ IsPrefix(p, path)
             \/ path \in DOMAIN inner' /\ inner'[path] = inner[path]]_jsonVars

\* Json::merge: "If any ancestors in `at` are not objects, they are replaced
\* with objects."  It lists the panics; this is none of them.
AncestorsReplaced == panic # "unreachable"
=============================================================================
