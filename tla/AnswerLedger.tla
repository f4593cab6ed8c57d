---------------------------- MODULE AnswerLedger ----------------------------
(***************************************************************************)
(* What the execution of an audit promises to the reader of its results:   *)
(* executions are asked for, and each one that was asked for is answered   *)
(* at most once, for good.  Retries ask for new executions; cancellation,  *)
(* crashes and background jobs are invisible here.                         *)
(***************************************************************************)
CONSTANTS Key, Outcome

VARIABLES asked, answers

vars == <<asked, answers>>

Init ==
    /\ asked = {}
    /\ answers = [k \in Key |-> "absent"]

Ask(keys) ==
    /\ keys \subseteq Key
    /\ asked' = asked \cup keys
    /\ UNCHANGED answers

Answer(k, outcome) ==
    /\ k \in asked
    /\ answers[k] = "absent"
    /\ answers' = [answers EXCEPT ![k] = outcome]
    /\ UNCHANGED asked

Next ==
    \/ \E keys \in SUBSET Key : Ask(keys)
    \/ \E k \in Key, outcome \in Outcome : Answer(k, outcome)

Spec == Init /\ [][Next]_vars
=============================================================================
