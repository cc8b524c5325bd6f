---------------------------- MODULE WaitContract ----------------------------
(***************************************************************************)
(* What a wait for a workspace promises its caller, whichever loop         *)
(* implements it: it polls the service at most Budget times; each poll     *)
(* sees the workspace running, sees something that ends the wait at once   *)
(* (a fatal answer), or sees something else and goes on; the wait         *)
(* succeeds on the first running poll, aborts on the first fatal one, and *)
(* gives up after Budget polls that all went on.  It always ends.  The     *)
(* service and the timing are abstracted away: only the sequence of what  *)
(* the polls saw is kept.                                                  *)
(***************************************************************************)
EXTENDS Naturals, Sequences

CONSTANT Budget   \* the number of polls after which the wait gives up

VARIABLES
  seen,     \* what each poll saw, in order
  result    \* "Waiting", then "Succeeded", "Aborted" or "GaveUp"

vars == <<seen, result>>

\* What a poll can see.
Sights == {"Running", "Fatal", "Other"}

\* The result after the n-th poll saw x: what the poll saw comes first,
\* the budget only decides a poll that went on.
Decide(x, n) ==
  IF x = "Running" THEN "Succeeded"
  ELSE IF x = "Fatal" THEN "Aborted"
  ELSE IF n = Budget THEN "GaveUp"
  ELSE "Waiting"

Init ==
  /\ seen = << >>
  /\ result = "Waiting"

\* One poll, while the wait is still waiting.
See(x) ==
  /\ result = "Waiting"
  /\ seen' = Append(seen, x)
  /\ result' = Decide(x, Len(seen) + 1)

Next == \E x \in Sights : See(x)

\* The safety part of the contract, and the contract with its promise that
\* a waiting wait goes on polling.
SafeSpec == Init /\ [][Next]_vars

Spec == SafeSpec /\ WF_vars(Next)

====
