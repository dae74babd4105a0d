--------------------------- MODULE Tester_proofs ---------------------------
(***************************************************************************)
(* Proofs about Tester, for any number of threads, testers, variables and  *)
(* configs.                                                                *)
(***************************************************************************)
EXTENDS Tester, TLAPS

VarOwners == UNION {[vs -> Id] : vs \in SUBSET Var}

LEMMA NoVarsType == NoVars \in VarOwners
<1>1. NoVars \in [{} -> Id]
  BY DEF NoVars
<1>. QED
  BY <1>1 DEF VarOwners

\* The variables of a thread are owned by testers.
LEMMA MockType ==
  ASSUME TypeOK, NEW thread \in Thread
  PROVE  \E vs \in SUBSET Var : mock[thread] \in [vs -> Id]
<1>1. mock[thread] \in UNION {[vs -> Id] : vs \in SUBSET Var}
  BY DEF TypeOK
<1>. QED
  BY <1>1

\* Only testers that are alive have a thread.
LEMMA AliveType ==
  ASSUME TypeOK, NEW id \in Id, Alive(id)
  PROVE  tester[id] \in AliveTester
BY DEF TypeOK, Alive, Absent, Gone, AliveTester

\* Dropping testers clears the variables of their threads, and nobody else is
\* affected.
LEMMA DropInv ==
  ASSUME IndInv, NEW dropped, dropped \subseteq Id,
         NEW cleared, cleared \subseteq dropped,
         \A id \in dropped : Alive(id) => id \in cleared,
         tester' = DropAll(dropped), mock' = MockAfterDrop(cleared),
         UNCHANGED lookup
  PROVE  IndInv'
<1>1. TypeOK'
  <2>1. tester' \in [Id -> {Absent, Gone} \cup AliveTester]
    BY DEF IndInv, TypeOK, DropAll
  <2>2. mock' \in [Thread -> VarOwners]
    BY NoVarsType DEF IndInv, TypeOK, MockAfterDrop, VarOwners
  <2>. QED
    BY <2>1, <2>2 DEF IndInv, TypeOK, VarOwners, AliveTester, Schema,
                      LookupResult
<1>2. \A id \in Id : Alive(id)' <=> Alive(id) /\ id \notin dropped
  BY DEF Alive, DropAll, Gone
<1>3. \A id \in Id : Alive(id)' => tester'[id] = tester[id]
  BY DEF Alive, DropAll, Gone
<1>4. \A thread \in Thread : AliveOn(thread)' = AliveOn(thread) \ dropped
  BY <1>2, <1>3 DEF AliveOn, DropAll
<1>5. MockVarsReclaimed'
  <2>. SUFFICES ASSUME NEW thread \in Thread, NEW v \in DOMAIN mock'[thread]
                PROVE  mock'[thread][v] \in AliveOn(thread)'
    BY DEF MockVarsReclaimed
  <2>1. cleared \cap AliveOn(thread) = {} /\ mock'[thread] = mock[thread]
    BY DEF MockAfterDrop, NoVars
  <2>2. mock[thread][v] \in AliveOn(thread)
    BY <2>1 DEF IndInv, MockVarsReclaimed
  <2>3. AliveOn(thread) \cap dropped = {}
    BY <2>1 DEF AliveOn
  <2>. QED
    BY <1>4, <2>1, <2>2, <2>3
<1>6. AloneIsAlone'
  <2>. SUFFICES ASSUME NEW id \in Id, Alive(id)', tester'[id].alone
                PROVE  AliveOn(tester[id].thread)' = {id}
    BY DEF AloneIsAlone
  <2>1. Alive(id) /\ id \notin dropped /\ tester'[id] = tester[id]
    BY <1>2, <1>3
  <2>2. tester[id].thread \in Thread
    BY <2>1, AliveType DEF IndInv, AliveTester
  <2>3. AliveOn(tester[id].thread) = {id}
    BY <2>1 DEF IndInv, AloneIsAlone
  <2>4. \A i \in Id : Alive(i)' /\ tester'[i].thread = tester'[id].thread
                        <=> i = id
    BY <1>2, <1>3, <2>1, <2>3 DEF AliveOn
  <2>. QED
    BY <2>4 DEF AliveOn
<1>7. SoleTesterIsolated'
  <2>. SUFFICES ASSUME NEW id \in Id, Alive(id)', tester'[id].alone,
                       NEW v \in DOMAIN mock'[tester'[id].thread]
                PROVE  mock'[tester'[id].thread][v] = id
    BY DEF SoleTesterIsolated
  <2>1. Alive(id) /\ tester'[id] = tester[id]
    BY <1>2, <1>3
  <2>2. tester[id].thread \in Thread
    BY <2>1, AliveType DEF IndInv, AliveTester
  <2>3. mock'[tester[id].thread] = mock[tester[id].thread]
    BY <2>1, <2>2 DEF MockAfterDrop, NoVars
  <2>. QED
    BY <2>1, <2>3 DEF IndInv, SoleTesterIsolated
<1>. QED
  BY <1>1, <1>5, <1>6, <1>7 DEF IndInv

LEMMA CreateInv ==
  ASSUME IndInv, NEW id \in Id, NEW thread \in Thread,
         NEW cs \in SUBSET Config, Create(id, thread, cs)
  PROVE  IndInv'
<1>. DEFINE new == [status  |-> "alive", thread |-> thread, coerce |-> FALSE,
                    configs |-> [c \in cs |-> FALSE],
                    alone   |-> AliveOn(thread) = {}]
<1>1. tester'[id] = new /\ new \in AliveTester
  <2>1. [c \in cs |-> FALSE] \in [cs -> BOOLEAN]
    OBVIOUS
  <2>. QED
    BY <2>1 DEF Create, AliveTester, Schema
<1>2. \A i \in Id \ {id} :
        tester'[i] = IF i \in AliveOn(thread)
                     THEN [tester[i] EXCEPT !.alone = FALSE] ELSE tester[i]
  BY DEF Create
<1>3. ~Alive(id)
  BY DEF Create, Alive, Absent
<1>4. \A i \in Id \ {id} :
        /\ Alive(i)' <=> Alive(i)
        /\ Alive(i) => /\ tester'[i] \in AliveTester
                       /\ tester'[i].thread = tester[i].thread
                       /\ tester'[i].alone => tester[i].alone
                                                /\ tester[i].thread # thread
  <2>. SUFFICES ASSUME NEW i \in Id \ {id}
                PROVE  /\ Alive(i)' <=> Alive(i)
                       /\ Alive(i) =>
                            /\ tester'[i] \in AliveTester
                            /\ tester'[i].thread = tester[i].thread
                            /\ tester'[i].alone =>
                                 tester[i].alone /\ tester[i].thread # thread
    OBVIOUS
  <2>1. CASE i \in AliveOn(thread)
    <3>1. tester[i] \in AliveTester
      BY <2>1, AliveType DEF IndInv, AliveOn
    <3>. QED
      BY <1>2, <2>1, <3>1 DEF AliveOn, Alive, AliveTester
  <2>2. CASE i \notin AliveOn(thread)
    BY <1>2, <2>2, AliveType DEF IndInv, AliveOn, Alive
  <2>. QED
    BY <2>1, <2>2
<1>5. mock' = mock /\ lookup' = lookup /\ mock[thread] = NoVars
  BY DEF Create
<1>6. TypeOK'
  <2>1. \A i \in Id : tester'[i] \in {Absent, Gone} \cup AliveTester
    BY <1>1, <1>2, <1>4 DEF IndInv, TypeOK, AliveOn
  <2>2. tester' = [i \in Id |-> tester'[i]]
    BY DEF Create
  <2>3. tester' \in [Id -> {Absent, Gone} \cup AliveTester]
    BY <2>1, <2>2
  <2>. QED
    BY <1>5, <2>3 DEF IndInv, TypeOK, AliveTester, Schema, LookupResult
<1>7. MockVarsReclaimed'
  <2>1. \A t \in Thread : AliveOn(t) \subseteq AliveOn(t)'
    BY <1>3, <1>4 DEF AliveOn
  <2>. QED
    BY <1>5, <2>1 DEF IndInv, MockVarsReclaimed
<1>8. AloneIsAlone'
  <2>. SUFFICES ASSUME NEW i \in Id, Alive(i)', tester'[i].alone
                PROVE  AliveOn(tester[i].thread)' = {i}
    BY DEF AloneIsAlone
  <2>1. CASE i = id
    <3>1. AliveOn(thread) = {}
      <4>. HIDE DEF new
      <4>1. new.alone = TRUE => AliveOn(thread) = {}
        BY DEF new
      <4>2. new.alone \in BOOLEAN
        BY <1>1 DEF AliveTester
      <4>. QED
        BY <1>1, <2>1, <4>1, <4>2
    <3>2. \A j \in Id \ {id} : ~(Alive(j)' /\ tester'[j].thread = thread)
      BY <1>4, <3>1 DEF AliveOn
    <3>3. Alive(id)' /\ tester'[id].thread = thread
      BY <2>1, <1>1
    <3>. QED
      BY <2>1, <3>2, <3>3 DEF AliveOn
  <2>2. CASE i # id
    <3>1. /\ Alive(i) /\ tester[i].alone /\ tester[i].thread # thread
          /\ tester'[i].thread = tester[i].thread
      BY <1>4, <2>2
    <3>2. \A j \in Id : Alive(j) /\ tester[j].thread = tester[i].thread
                          <=> j = i
      BY <3>1 DEF IndInv, AloneIsAlone, AliveOn
    <3>3. \A j \in Id : Alive(j)' /\ tester'[j].thread = tester'[i].thread
                          <=> j = i
      BY <1>1, <1>4, <2>2, <3>1, <3>2
    <3>. QED
      BY <3>3 DEF AliveOn
  <2>. QED
    BY <2>1, <2>2
<1>9. SoleTesterIsolated'
  <2>. SUFFICES ASSUME NEW i \in Id, Alive(i)', tester'[i].alone,
                       NEW v \in DOMAIN mock'[tester'[i].thread]
                PROVE  mock'[tester'[i].thread][v] = i
    BY DEF SoleTesterIsolated
  <2>1. i # id
    BY <1>1, <1>5 DEF NoVars
  <2>. QED
    BY <1>4, <1>5, <2>1 DEF IndInv, SoleTesterIsolated
<1>. QED
  BY <1>6, <1>7, <1>8, <1>9 DEF IndInv

\* A step that keeps who is alive where, who is alone, and the variables.
LEMMA SameTestersInv ==
  ASSUME IndInv, TypeOK', mock' = mock,
         \A i \in Id :
           /\ Alive(i)' <=> Alive(i)
           /\ Alive(i) => /\ tester'[i].thread = tester[i].thread
                          /\ tester'[i].alone = tester[i].alone
  PROVE  IndInv'
<1>1. \A t \in Thread : AliveOn(t)' = AliveOn(t)
  BY DEF AliveOn
<1>2. MockVarsReclaimed'
  BY <1>1 DEF IndInv, MockVarsReclaimed
<1>3. AloneIsAlone'
  <2>. SUFFICES ASSUME NEW i \in Id, Alive(i)', tester'[i].alone
                PROVE  AliveOn(tester[i].thread)' = {i}
    BY DEF AloneIsAlone
  <2>1. AliveOn(tester[i].thread) = {i} /\ tester'[i].thread = tester[i].thread
    BY DEF IndInv, AloneIsAlone
  <2>2. \A j \in Id : Alive(j)' /\ tester'[j].thread = tester'[i].thread
                        <=> j = i
    BY <2>1 DEF AliveOn
  <2>. QED
    BY <2>2 DEF AliveOn
<1>4. SoleTesterIsolated'
  BY DEF IndInv, SoleTesterIsolated
<1>. QED
  BY <1>2, <1>3, <1>4 DEF IndInv

LEMMA CoerceSerdeEnumsInv ==
  ASSUME IndInv, NEW id \in Id, CoerceSerdeEnums(id)
  PROVE  IndInv'
<1>1. tester[id] \in AliveTester
  BY AliveType DEF CoerceSerdeEnums, IndInv
<1>2. tester' = [tester EXCEPT ![id] = [tester[id] EXCEPT !.coerce = TRUE]]
  BY DEF CoerceSerdeEnums
<1>3. [tester[id] EXCEPT !.coerce = TRUE] \in AliveTester
  BY <1>1 DEF AliveTester
<1>4. TypeOK'
  BY <1>2, <1>3 DEF IndInv, TypeOK, CoerceSerdeEnums, AliveTester, Schema,
                    LookupResult
<1>5. \A i \in Id :
        /\ Alive(i)' <=> Alive(i)
        /\ Alive(i) => /\ tester'[i].thread = tester[i].thread
                       /\ tester'[i].alone = tester[i].alone
  BY <1>1, <1>2 DEF IndInv, TypeOK, Alive, AliveTester
<1>. QED
  BY <1>4, <1>5, SameTestersInv DEF CoerceSerdeEnums

LEMMA InsertInv ==
  ASSUME IndInv, NEW id \in Id, NEW config \in Config, Insert(id, config)
  PROVE  IndInv'
<1>. DEFINE cs == tester[id].configs
            new == [c \in DOMAIN cs \cup {config} |->
                      IF c \in DOMAIN cs THEN cs[c] ELSE tester[id].coerce]
<1>1. tester[id] \in AliveTester
  BY AliveType DEF Insert, IndInv
<1>2. new \in Schema
  <2>1. PICK known \in SUBSET Config : cs \in [known -> BOOLEAN]
    BY <1>1 DEF AliveTester, Schema
  <2>2. new \in [known \cup {config} -> BOOLEAN]
    BY <1>1, <2>1 DEF AliveTester
  <2>. QED
    BY <2>2 DEF Schema
<1>3. tester' = [tester EXCEPT ![id] = [tester[id] EXCEPT !.configs = new]]
  BY DEF Insert
<1>. HIDE DEF new
<1>4. [tester[id] EXCEPT !.configs = new] \in AliveTester
  BY <1>1, <1>2 DEF AliveTester
<1>5. TypeOK'
  BY <1>3, <1>4 DEF IndInv, TypeOK, Insert, AliveTester, Schema, LookupResult
<1>6. \A i \in Id :
        /\ Alive(i)' <=> Alive(i)
        /\ Alive(i) => /\ tester'[i].thread = tester[i].thread
                       /\ tester'[i].alone = tester[i].alone
  BY <1>1, <1>3 DEF IndInv, TypeOK, Alive, AliveTester
<1>. QED
  BY <1>5, <1>6, SameTestersInv DEF Insert

LEMMA SetEnvInv ==
  ASSUME IndInv, NEW id \in Id, NEW var \in Var, SetEnv(id, var)
  PROVE  IndInv'
<1>. DEFINE thread == tester[id].thread
            old == mock[thread]
            new == [v \in DOMAIN old \cup {var} |-> IF v = var THEN id ELSE old[v]]
<1>1. tester[id] \in AliveTester /\ thread \in Thread
  BY AliveType DEF SetEnv, IndInv, AliveTester
<1>2. new \in VarOwners
  <2>1. PICK vs \in SUBSET Var : old \in [vs -> Id]
    BY <1>1, MockType DEF IndInv
  <2>2. new \in [vs \cup {var} -> Id]
    BY <2>1
  <2>. QED
    BY <2>2 DEF VarOwners
<1>3. mock' = [mock EXCEPT ![thread] = new] /\ UNCHANGED <<tester, lookup>>
  BY DEF SetEnv
<1>4. \A v \in DOMAIN new : v # var => v \in DOMAIN old /\ new[v] = old[v]
  <2>. SUFFICES ASSUME NEW v \in DOMAIN old \cup {var}, v # var
                PROVE  v \in DOMAIN old /\ new[v] = old[v]
    OBVIOUS
  <2>. QED
    OBVIOUS
<1>5. new[var] = id
  OBVIOUS
<1>. HIDE DEF new
<1>6. TypeOK'
  BY <1>1, <1>2, <1>3 DEF IndInv, TypeOK, VarOwners, AliveTester, Schema,
                          LookupResult
<1>7. \A i \in Id : Alive(i)' <=> Alive(i)
  BY <1>3 DEF Alive
<1>8. \A t \in Thread : AliveOn(t)' = AliveOn(t)
  BY <1>3, <1>7 DEF AliveOn
<1>9. id \in AliveOn(thread)
  BY DEF SetEnv, AliveOn
<1>10. MockVarsReclaimed'
  <2>. SUFFICES ASSUME NEW t \in Thread, NEW v \in DOMAIN mock'[t]
                PROVE  mock'[t][v] \in AliveOn(t)
    BY <1>8 DEF MockVarsReclaimed
  <2>1. CASE t = thread
    <3>1. mock'[t] = new
      BY <1>1, <1>3, <2>1 DEF IndInv, TypeOK
    <3>2. v # var => v \in DOMAIN old /\ new[v] = old[v]
      BY <1>4, <3>1
    <3>. QED
      BY <1>1, <1>5, <1>9, <2>1, <3>1, <3>2 DEF IndInv, MockVarsReclaimed
  <2>2. CASE t # thread
    <3>1. mock'[t] = mock[t]
      BY <1>3, <2>2 DEF IndInv, TypeOK
    <3>. QED
      BY <3>1 DEF IndInv, MockVarsReclaimed
  <2>. QED
    BY <2>1, <2>2
<1>11. AloneIsAlone'
  <2>. SUFFICES ASSUME NEW i \in Id, Alive(i)', tester'[i].alone
                PROVE  AliveOn(tester[i].thread)' = {i}
    BY <1>3 DEF AloneIsAlone
  <2>1. AliveOn(tester[i].thread) = {i} /\ tester[i].thread \in Thread
    BY <1>3, <1>7, AliveType DEF IndInv, AloneIsAlone, AliveTester
  <2>2. AliveOn(tester[i].thread)' = AliveOn(tester[i].thread)
    BY <1>3, <1>7 DEF AliveOn
  <2>. QED
    BY <2>1, <2>2
<1>12. SoleTesterIsolated'
  <2>. SUFFICES ASSUME NEW i \in Id, Alive(i), tester[i].alone,
                       NEW v \in DOMAIN mock'[tester[i].thread]
                PROVE  mock'[tester[i].thread][v] = i
    BY <1>3, <1>7 DEF SoleTesterIsolated
  <2>1. CASE tester[i].thread = thread
    <3>1. i = id
      BY <1>9, <2>1 DEF IndInv, AloneIsAlone
    <3>2. mock'[thread] = new
      BY <1>1, <1>3 DEF IndInv, TypeOK
    <3>3. new[v] = id
      BY <1>4, <1>5, <2>1, <3>1, <3>2 DEF IndInv, SoleTesterIsolated
    <3>. QED
      BY <2>1, <3>1, <3>2, <3>3
  <2>2. CASE tester[i].thread # thread
    <3>1. mock'[tester[i].thread] = mock[tester[i].thread]
      BY <1>3, <2>2, AliveType DEF IndInv, TypeOK, AliveTester
    <3>. QED
      BY <3>1 DEF IndInv, SoleTesterIsolated
  <2>. QED
    BY <2>1, <2>2
<1>. QED
  BY <1>6, <1>10, <1>11, <1>12 DEF IndInv

\* A lookup reports the tester that set the variable, or the process.
LEMMA LookupInv ==
  ASSUME IndInv, NEW id \in Id, NEW var \in Var,
         Lookup(id, var) \/ LookupWithVars(id, var)
  PROVE  IndInv'
<1>1. UNCHANGED <<tester, mock>>
  BY DEF Lookup, LookupWithVars
<1>2. tester[id].thread \in Thread
  BY AliveType DEF Lookup, LookupWithVars, IndInv, AliveTester
<1>3. ProcessValue(var) \in {Unset, Process}
  BY DEF ProcessValue
<1>4. MockOrProcess(id, var) \in {Unset, Process} \cup {SetBy(i) : i \in Id}
  <2>1. CASE var \in DOMAIN mock[tester[id].thread]
    <3>1. PICK vs \in SUBSET Var : mock[tester[id].thread] \in [vs -> Id]
      BY <1>2, MockType DEF IndInv
    <3>2. mock[tester[id].thread][var] \in Id
      BY <2>1, <3>1
    <3>. QED
      BY <2>1, <3>2 DEF MockOrProcess
  <2>2. CASE var \notin DOMAIN mock[tester[id].thread]
    BY <1>3, <2>2 DEF MockOrProcess
  <2>. QED
    BY <2>1, <2>2
<1>5. lookup' \in LookupResult
  BY <1>3, <1>4 DEF Lookup, LookupWithVars, LookupResult
<1>6. TypeOK'
  BY <1>1, <1>5 DEF IndInv, TypeOK, AliveTester, Schema
<1>. QED
  BY <1>1, <1>6, SameTestersInv DEF Alive

LEMMA NextInv == IndInv /\ [Next]_vars => IndInv'
<1>. SUFFICES ASSUME IndInv, [Next]_vars
              PROVE  IndInv'
  OBVIOUS
<1>1. ASSUME NEW id \in Id, NEW thread \in Thread, NEW cs \in SUBSET Config,
             Create(id, thread, cs)
      PROVE  IndInv'
  BY <1>1, CreateInv
<1>2. ASSUME NEW id \in Id, NEW thread \in Thread, CreatePanics(id, thread)
      PROVE  IndInv'
  <2>1. PICK dropped \in SUBSET AliveOn(thread) :
          /\ tester' = DropAll(dropped \cup {id})
          /\ mock' = MockAfterDrop(dropped)
    BY <1>2 DEF CreatePanics
  <2>2. ~Alive(id) /\ dropped \cup {id} \subseteq Id /\ UNCHANGED lookup
    BY <1>2 DEF CreatePanics, Alive, Absent, AliveOn
  <2>3. \A i \in dropped \cup {id} : Alive(i) => i \in dropped
    BY <2>2
  <2>. QED
    BY <2>1, <2>2, <2>3, DropInv
<1>3. ASSUME NEW id \in Id, Drop(id)
      PROVE  IndInv'
  BY <1>3, DropInv DEF Drop
<1>4. ASSUME NEW id \in Id, CoerceSerdeEnums(id)
      PROVE  IndInv'
  BY <1>4, CoerceSerdeEnumsInv
<1>5. ASSUME NEW id \in Id, NEW config \in Config, Insert(id, config)
      PROVE  IndInv'
  BY <1>5, InsertInv
<1>6. ASSUME NEW id \in Id, NEW var \in Var, SetEnv(id, var)
      PROVE  IndInv'
  BY <1>6, SetEnvInv
<1>7. ASSUME NEW id \in Id, NEW var \in Var,
             Lookup(id, var) \/ LookupWithVars(id, var)
      PROVE  IndInv'
  BY <1>7, LookupInv
<1>8. CASE UNCHANGED vars
  <2>1. TypeOK'
    BY <1>8 DEF vars, IndInv, TypeOK, AliveTester, Schema, LookupResult
  <2>. QED
    BY <1>8, <2>1, SameTestersInv DEF vars, Alive
<1>. QED
  BY <1>1, <1>2, <1>3, <1>4, <1>5, <1>6, <1>7, <1>8 DEF Next

LEMMA InitInv == Init => IndInv
<1>. SUFFICES ASSUME Init PROVE IndInv
  OBVIOUS
<1>1. \A id \in Id : ~Alive(id)
  BY DEF Init, Alive, Absent
<1>2. TypeOK
  BY NoVarsType DEF Init, TypeOK, VarOwners
<1>3. MockVarsReclaimed
  BY DEF Init, MockVarsReclaimed, NoVars
<1>. QED
  BY <1>1, <1>2, <1>3 DEF IndInv, AloneIsAlone, SoleTesterIsolated
-----------------------------------------------------------------------------
\* Testers, variables and lookups are well-formed, a variable is gone when the
\* tester that set it is, and testers alone on a thread stay isolated.
THEOREM InductiveInvariant == Spec => []IndInv
BY InitInv, NextInv, PTL DEF Spec

\* Every variable of every thread belongs to a tester; see TypeOK.
THEOREM TypeCorrect == Spec => []TypeOK
<1>1. IndInv => TypeOK
  BY DEF IndInv
<1>. QED
  BY <1>1, InductiveInvariant, PTL

\* MockEnvGuard: no mock variable is left when the tester that set it is dropped,
\* whether or not others overlap with it or their creation has panicked before.
THEOREM VarsReclaimed == Spec => []MockVarsReclaimed
<1>1. IndInv => MockVarsReclaimed
  BY DEF IndInv
<1>. QED
  BY <1>1, InductiveInvariant, PTL

\* A tester that has been alone on its thread sees no variable of another one.
THEOREM SoleTestersIsolated == Spec => []SoleTesterIsolated
<1>1. IndInv => SoleTesterIsolated
  BY DEF IndInv
<1>. QED
  BY <1>1, InductiveInvariant, PTL
=============================================================================
