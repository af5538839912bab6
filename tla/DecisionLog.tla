----------------------------- MODULE DecisionLog -----------------------------
(***************************************************************************)
(* What the review half of the workspace promises its readers: a current   *)
(* status for every candidate and an append-only log of the decisions that *)
(* led to it.  A decision enters both in one step.                         *)
(***************************************************************************)
EXTENDS Sequences

CONSTANTS Surfaces, Decisions, Unreviewed

VARIABLES
    current,  \* the latest decision for each candidate
    log       \* the decisions made, oldest first

Init ==
    /\ current = [s \in Surfaces |-> Unreviewed]
    /\ log = <<>>

\* To decide "unreviewed" is to withdraw a decision.
Decide(s, d) ==
    /\ current' = [current EXCEPT ![s] = d]
    /\ log' = Append(log, [surface |-> s, decision |-> d])

Next == \E s \in Surfaces, d \in Decisions \cup {Unreviewed} : Decide(s, d)

Spec == Init /\ [][Next]_<<current, log>>
=============================================================================
