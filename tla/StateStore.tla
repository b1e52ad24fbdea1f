------------------------------ MODULE StateStore ------------------------------
(***************************************************************************)
(* What the deferred writes promise to the request loop: a store of the    *)
(* newest state of each subject, with what the loop reads (visible) and    *)
(* what a restart would find (durable).  Writing to the base is invisible  *)
(* to the loop; only a refusal makes a subject fall back to an older state *)
(* and be weak, that is rise again when an older write reaches the base.   *)
(***************************************************************************)
EXTENDS Naturals

CONSTANT Subject

VARIABLES visible, durable, weak

vars == <<visible, durable, weak>>

Init ==
    /\ visible = [s \in Subject |-> 0]
    /\ durable = [s \in Subject |-> 0]
    /\ weak = {}

\* A newer state of s is saved: read at once, durable later.
Accept(s) ==
    /\ visible'[s] > visible[s]
    /\ visible' = [visible EXCEPT ![s] = visible'[s]]
    /\ weak' = weak \ {s}
    /\ UNCHANGED durable

\* States reach the base.  The loop sees no difference, but for weak subjects.
Persist ==
    /\ \A s \in Subject :
        /\ durable'[s] >= durable[s]
        /\ s \notin weak => durable'[s] <= visible[s]
    /\ visible' = [s \in Subject |-> IF durable'[s] > visible[s] THEN durable'[s] ELSE visible[s]]
    /\ UNCHANGED weak

\* The newest states of some subjects are refused.
Refuse ==
    /\ \A s \in Subject :
        /\ visible'[s] \in durable[s]..visible[s]
        /\ visible'[s] # visible[s] => s \in weak'
    /\ weak \subseteq weak'
    /\ UNCHANGED durable

\* Expired states leave the base, and with it what was read from there only.
Purge ==
    /\ \A s \in Subject :
        \/ durable'[s] = durable[s] /\ visible'[s] = visible[s]
        \/ durable'[s] = 0 /\ visible'[s] \in {0, visible[s]}
    /\ UNCHANGED weak

\* A new process reads what the base holds.
Restart ==
    /\ visible' = durable
    /\ weak' = {}
    /\ UNCHANGED durable

Next ==
    \/ \E s \in Subject : Accept(s)
    \/ Persist \/ Refuse \/ Purge \/ Restart

Spec == Init /\ [][Next]_vars
=============================================================================
