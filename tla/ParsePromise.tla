---------------------------- MODULE ParsePromise ----------------------------
(***************************************************************************)
(* What a parser promises: one request, one answer that depends on the     *)
(* merged tree alone.                                                      *)
(***************************************************************************)
CONSTANTS
  Calls,               \* <<type, path>> pairs that may be asked for
  Outcome(_, _, _, _)  \* merged tree, type, path, whether the config is
                       \* optional -> [value, errors]

VARIABLES root, asked, errors, result

pvars == <<root, asked, errors, result>>

Nobody == [none |-> "nobody"]
None == [none |-> "None"]

Init ==
  /\ asked = Nobody
  /\ errors = {}
  /\ result = None

Ask(ty, path, opt) ==
  /\ asked = Nobody
  /\ asked' = [ty |-> ty, path |-> path, opt |-> opt]
  /\ errors' = {}
  /\ UNCHANGED <<root, result>>

Reply(outcome) ==
  /\ asked' = Nobody
  /\ errors' = outcome.errors
  /\ result' = outcome.value
  /\ UNCHANGED root

Answer ==
  /\ asked # Nobody
  /\ Reply(Outcome(root, asked.ty, asked.path, asked.opt))

\* There is nothing to parse.
AnswerAtOnce(ty, path) ==
  /\ asked = Nobody
  /\ path \notin DOMAIN root
  /\ Reply(Outcome(root, ty, path, TRUE))

Next ==
  \/ \E c \in Calls, opt \in BOOLEAN : Ask(c[1], c[2], opt)
  \/ \E c \in Calls : AnswerAtOnce(c[1], c[2])
  \/ Answer

\* That every request is answered is a property of its own of the detailed
\* specification.
Spec == Init /\ [][Next]_pvars
=============================================================================
