------------------------------- MODULE Sources -------------------------------
(***************************************************************************)
(* The sources a program prepares: a JSON document that is edited in place *)
(* or an environment, built by calls of its methods and pushed to a list   *)
(* of sources (`ConfigSource`, `Prefixed` and `ConfigSources` of           *)
(* source/mod.rs).  Pushing moves the source.                              *)
(***************************************************************************)
EXTENDS JsonSource, Environment

CONSTANTS
  PrefixesOfSources,  \* arguments of Prefixed::new()
  MaxPushed           \* bound: number of sources

ASSUME SourcesAssumption ==
  MaxPushed \in Nat /\ PrefixesOfSources \subseteq Path(STRING)

VARIABLES
  building,  \* what the program works on: "nothing", "json", "env"
  pushed     \* ConfigSources: <<contents, flat>>, the last one wins

sourcesVars == <<jsonVars, envVars, building, pushed>>

\* Prefixed::into_contents
WithPrefix(prefix, contents) ==
  IF prefix = <<>> THEN contents
  ELSE ExtendMap(EnsureObject(Single(Object), ParentOf(prefix)),
                 ParentOf(prefix), Entry(LastKey(prefix), contents))

Init ==
  /\ JsonInit /\ EnvInit
  /\ building = "nothing"
  /\ pushed = <<>>

MoreToPush == Len(pushed) < MaxPushed

EditJson ==
  /\ MoreToPush
  /\ building \in {"nothing", "json"}
  /\ JsonNext
  /\ building' = "json"
  /\ UNCHANGED <<envVars, pushed>>

EditEnv ==
  /\ MoreToPush
  /\ building \in {"nothing", "env"}
  /\ EnvNext
  /\ building' = "env"
  /\ UNCHANGED <<jsonVars, pushed>>

\* ConfigSources::push of a Json, or of one in a Prefixed.
PushJson(prefix) ==
  /\ MoreToPush
  /\ building = "json" /\ panic = "none"
  /\ pushed' = Append(pushed, <<WithPrefix(prefix, inner), FALSE>>)
  /\ building' = "nothing"
  /\ inner' \in Initial /\ panic' = "none" /\ last' = NoMerge
  /\ UNCHANGED envVars

\* ConfigSources::push of an Environment.
PushEnv ==
  /\ MoreToPush
  /\ building = "env"
  /\ pushed' = Append(pushed, <<map, TRUE>>)
  /\ building' = "nothing"
  /\ map' = [n \in {} |-> Plain("")] /\ outcome' = "none"
  /\ UNCHANGED jsonVars

Next ==
  \/ EditJson
  \/ EditEnv
  \/ \E prefix \in PrefixesOfSources : PushJson(prefix)
  \/ PushEnv

Spec == Init /\ [][Next]_sourcesVars
-----------------------------------------------------------------------------
\* What is pushed as a hierarchical source is a tree with an object at the
\* root, whatever was merged into it and however it is prefixed: "guaranteed
\* by `ensure_object`", says Prefixed, which panics otherwise.
PushedObjects ==
  \A i \in DOMAIN pushed :
    ~pushed[i][2] =>
      /\ pushed[i][1] # Panicked
      /\ IsTree(pushed[i][1]) /\ IsObjectAt(pushed[i][1], <<>>)
=============================================================================
