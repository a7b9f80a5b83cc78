-------------------------- MODULE OneShotExecution --------------------------
(***************************************************************************)
(* What the approval path promises for each proposal: it is issued once,   *)
(* settled once, and executed at most once, only after it was approved.    *)
(***************************************************************************)
EXTENDS Naturals

CONSTANT Proposals

VARIABLES
    phase,       \* where the decision on each proposal stands
    executions   \* how many orders each proposal has led to

vars == <<phase, executions>>

Init ==
    /\ phase = [p \in Proposals |-> "none"]
    /\ executions = [p \in Proposals |-> 0]

Move(p, from, to) ==
    /\ phase[p] = from
    /\ phase' = [phase EXCEPT ![p] = to]
    /\ UNCHANGED executions

Issue(p) == Move(p, "none", "pending")
Approve(p) == Move(p, "pending", "approved")
Refuse(p) == Move(p, "pending", "refused")

Execute(p) ==
    /\ phase[p] = "approved"
    /\ executions[p] = 0
    /\ executions' = [executions EXCEPT ![p] = 1]
    /\ UNCHANGED phase

Next == \E p \in Proposals : Issue(p) \/ Approve(p) \/ Refuse(p) \/ Execute(p)

Spec == Init /\ [][Next]_vars
=============================================================================
