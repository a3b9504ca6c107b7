------------------------------ MODULE AskLedger ------------------------------
(***************************************************************************)
(* What the journal of a run promises to the script, whatever engines,     *)
(* crashes and resumes lie behind it: a ledger in which an ask is entered  *)
(* once, with an identity that never changes, and settled at most once,    *)
(* and whose settled entries are the only answers the script is ever told. *)
(***************************************************************************)
EXTENDS Integers, FiniteSets

CONSTANT Outcomes        \* what an ask can come to

VARIABLES entered,       \* identity (actor, actorSeq, input hash) by entry
          settled,       \* outcome of each settled entry
          told           \* input hash and outcome of the answers given

vars == <<entered, settled, told>>

Init == entered = <<>> /\ settled = <<>> /\ told = {}

Extends(new, old, k) ==
    /\ k \in DOMAIN new \ DOMAIN old
    /\ new = [x \in DOMAIN old \union {k} |-> IF x = k THEN new[k] ELSE old[x]]

\* The same question is never entered in a second place.
Enter(k) ==
    /\ Extends(entered', entered, k)
    /\ \A j \in DOMAIN entered : entered[j].hash # entered'[k].hash
    /\ UNCHANGED <<settled, told>>

\* Settling an entry and answering its asker are one step.
Settle(k) ==
    /\ k \in DOMAIN entered
    /\ Extends(settled', settled, k)
    /\ settled'[k] \in Outcomes
    /\ told' = told \union {<<entered[k].hash, settled'[k]>>}
    /\ UNCHANGED entered

Repeat(k) ==
    /\ k \in DOMAIN settled
    /\ told' = told \union {<<entered[k].hash, settled[k]>>}
    /\ UNCHANGED <<entered, settled>>

Next ==
    \/ \E k \in DOMAIN entered' : Enter(k)
    \/ \E k \in DOMAIN settled' : Settle(k)
    \/ \E k \in DOMAIN settled : Repeat(k)

Spec == Init /\ [][Next]_vars

\* What makes replay possible: to one question there is one answer, however
\* often, and in however many lives, the script asks it.
OneStory == \A t, u \in told : t[1] = u[1] => t[2] = u[2]
=============================================================================
