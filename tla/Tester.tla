------------------------------- MODULE Tester -------------------------------
(***************************************************************************)
(* Testers and the mock environment variables they set (testing.rs).       *)
(*                                                                         *)
(* The mock variables of a thread are a thread-local map; a tester owns a  *)
(* `MockEnvGuard` that clears the map of its thread when it is dropped.    *)
(* Testers cannot be sent to another thread.  Variables are read by        *)
(* environment sources and by fallbacks (source/env.rs, fallback.rs).      *)
(***************************************************************************)
EXTENDS Integers, FiniteSets

CONSTANTS
  Thread,      \* threads
  Id,          \* testers, over the life of the program
  Var,         \* names of environment variables
  ProcessVars, \* those of them that the process has
  Config       \* config types

ASSUME TesterAssumption == ProcessVars \subseteq Var

VARIABLES
  tester,  \* id -> tester
  mock,    \* thread -> MOCK_ENV_VARS, with the tester that set the variable
  lookup   \* the last lookup of a variable

vars == <<tester, mock, lookup>>

\* The configs of the schema are mapped to their `coerce_serde_enums`.
\* `alone` is auxiliary: no other tester was alive on the thread meanwhile.
Schema == UNION {[cs -> BOOLEAN] : cs \in SUBSET Config}

Absent == [status |-> "absent"]
Gone == [status |-> "gone"]

Alive(id) == tester[id].status = "alive"

AliveOn(thread) == {id \in Id : Alive(id) /\ tester[id].thread = thread}

NoVars == [v \in {} |-> Absent]
NoLookup == [by |-> Absent]
-----------------------------------------------------------------------------
Init ==
  /\ tester = [id \in Id |-> Absent]
  /\ mock = [thread \in Thread |-> NoVars]
  /\ lookup = NoLookup

\* Tester::new and Tester::default; MockEnvGuard::default does not panic.
Create(id, thread, configs) ==
  /\ tester[id] = Absent
  /\ mock[thread] = NoVars
  /\ tester' =
       [i \in Id |->
          IF i = id
          THEN [status  |-> "alive",
                thread  |-> thread,
                coerce  |-> FALSE,
                configs |-> [c \in configs |-> FALSE],
                alone   |-> AliveOn(thread) = {}]
          ELSE IF i \in AliveOn(thread)
          THEN [tester[i] EXCEPT !.alone = FALSE]
          ELSE tester[i]]
  /\ UNCHANGED <<mock, lookup>>

\* Mutant: the variables stay as long as a tester of the thread is alive.
MockAfterLastDrop(dropped) ==
  [thread \in Thread |->
     IF AliveOn(thread) \subseteq dropped THEN NoVars ELSE mock[thread]]

\* MockEnvGuard::drop for each of these testers.
MockAfterDrop(dropped) ==
  [thread \in Thread |->
     IF dropped \cap AliveOn(thread) = {} THEN mock[thread] ELSE NoVars]

DropAll(dropped) ==
  [i \in Id |-> IF i \in dropped THEN Gone ELSE tester[i]]

\* The assertion in MockEnvGuard::default fails.  There is no new guard, but
\* the panic may unwind through the owners of other testers of the thread.
CreatePanics(id, thread) ==
  /\ tester[id] = Absent
  /\ mock[thread] # NoVars
  /\ \E dropped \in SUBSET AliveOn(thread) :
       /\ tester' = DropAll(dropped \cup {id})
       /\ mock' = MockAfterDrop(dropped)
  /\ UNCHANGED lookup

Drop(id) ==
  /\ Alive(id)
  /\ tester' = DropAll({id})
  /\ mock' = MockAfterDrop({id})
  /\ UNCHANGED lookup

\* Tester::coerce_serde_enums
CoerceSerdeEnums(id) ==
  /\ Alive(id)
  /\ tester' = [tester EXCEPT ![id].coerce = TRUE]
  /\ UNCHANGED <<mock, lookup>>

\* Tester::insert; the config gets the flag of the schema.
Insert(id, config) ==
  /\ Alive(id)
  /\ config \notin DOMAIN tester[id].configs
  /\ tester' =
       [tester EXCEPT ![id].configs =
          [c \in DOMAIN @ \cup {config} |->
             IF c \in DOMAIN @ THEN @[c] ELSE tester[id].coerce]]
  /\ UNCHANGED <<mock, lookup>>

\* Mutant: the variables are those of the process.
SetEnvEverywhere(id, var) ==
  /\ Alive(id)
  /\ mock' = [thread \in Thread |->
                [v \in DOMAIN mock[thread] \cup {var} |->
                   IF v = var THEN id ELSE mock[thread][v]]]
  /\ UNCHANGED <<tester, lookup>>

\* Mutant: key and value swapped.
SetEnvSwapped(id, var) ==
  /\ Alive(id)
  /\ mock' = [mock EXCEPT ![tester[id].thread] =
                [v \in DOMAIN @ \cup {id} |-> IF v = id THEN var ELSE @[v]]]
  /\ UNCHANGED <<tester, lookup>>

\* Tester::set_env, MockEnvGuard::set_env
SetEnv(id, var) ==
  /\ Alive(id)
  /\ mock' = [mock EXCEPT ![tester[id].thread] =
                [v \in DOMAIN @ \cup {var} |-> IF v = var THEN id ELSE @[v]]]
  /\ UNCHANGED <<tester, lookup>>

Unset == [value |-> "unset"]
Process == [value |-> "process"]
SetBy(id) == [value |-> id]

ProcessValue(var) == IF var \in ProcessVars THEN Process ELSE Unset

\* Environment::prefixed (mock variables come last and win) and the fallback
\* Env::get_raw (they are tried first).
MockOrProcess(id, var) ==
  LET vs == mock[tester[id].thread]
  IN  IF var \in DOMAIN vs THEN SetBy(vs[var]) ELSE ProcessValue(var)

Lookup(id, var) ==
  /\ Alive(id)
  /\ lookup' = [by |-> id, var |-> var, found |-> MockOrProcess(id, var)]
  /\ UNCHANGED <<tester, mock>>

\* Environment::with_vars asks the process only.
LookupWithVars(id, var) ==
  /\ Alive(id)
  /\ lookup' = [by |-> id, var |-> var, found |-> ProcessValue(var)]
  /\ UNCHANGED <<tester, mock>>

Next ==
  \/ \E id \in Id, thread \in Thread, configs \in SUBSET Config :
       Create(id, thread, configs)
  \/ \E id \in Id, thread \in Thread : CreatePanics(id, thread)
  \/ \E id \in Id : Drop(id)
  \/ \E id \in Id : CoerceSerdeEnums(id)
  \/ \E id \in Id, config \in Config : Insert(id, config)
  \/ \E id \in Id, var \in Var : SetEnv(id, var)
  \/ \E id \in Id, var \in Var : Lookup(id, var)
  \/ \E id \in Id, var \in Var : LookupWithVars(id, var)

Spec == Init /\ [][Next]_vars
-----------------------------------------------------------------------------
(* Properties *)

AliveTester ==
  [status : {"alive"}, thread : Thread, coerce : BOOLEAN, configs : Schema,
   alone : BOOLEAN]

LookupResult ==
  [by : Id, var : Var, found : {Unset, Process} \cup {SetBy(id) : id \in Id}]

TypeOK ==
  /\ tester \in [Id -> {Absent, Gone} \cup AliveTester]
  /\ mock \in [Thread -> UNION {[vs -> Id] : vs \in SUBSET Var}]
  /\ lookup \in {NoLookup} \cup LookupResult

\* No variable outlives the tester that set it, whatever panicked in between:
\* testers that overlap on the thread do not see those of one that is gone, and
\* the next test starts from a clean environment.
MockVarsReclaimed ==
  \A thread \in Thread :
    \A v \in DOMAIN mock[thread] : mock[thread][v] \in AliveOn(thread)

\* A tester that has its thread to itself sees its own variables and no
\* variable of a tester elsewhere.
SoleTesterIsolated ==
  \A id \in Id :
    Alive(id) /\ tester[id].alone =>
      \A v \in DOMAIN mock[tester[id].thread] : mock[tester[id].thread][v] = id

\* A tester counts as alone only while no other one is alive on its thread.
AloneIsAlone ==
  \A id \in Id :
    Alive(id) /\ tester[id].alone => AliveOn(tester[id].thread) = {id}

\* The inductive invariant behind the two properties.
IndInv == TypeOK /\ MockVarsReclaimed /\ AloneIsAlone /\ SoleTesterIsolated
=============================================================================
