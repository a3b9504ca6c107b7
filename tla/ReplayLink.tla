----------------------------- MODULE ReplayLink -----------------------------
(***************************************************************************)
(* What a pair of PersistentProtocol instances promises to the channel     *)
(* layer above it, whatever the sockets beneath it do.  A message is        *)
(* numbered when it is sent.  The other side is handed message i only when *)
(* i-1 has been handed to it before, and it may be handed a message again; *)
(* the sender forgets a message only when it has been handed over.         *)
(***************************************************************************)
EXTENDS Naturals, Sequences

CONSTANTS Peers

Other(p) == CHOOSE q \in Peers : q # p

VARIABLES
    sent,       \* sent[p]: how many messages p has sent
    fired,      \* fired[p]: the numbers handed to p's listeners, in order
    forgotten   \* forgotten[p]: p no longer holds messages 1..forgotten[p]

linkVars == <<sent, fired, forgotten>>

Seen(p) == {fired[p][i] : i \in DOMAIN fired[p]}

Init ==
    /\ sent = [p \in Peers |-> 0]
    /\ fired = [p \in Peers |-> <<>>]
    /\ forgotten = [p \in Peers |-> 0]

SendOne(p) ==
    /\ sent' = [sent EXCEPT ![p] = @ + 1]
    /\ UNCHANGED fired

Hand(p) ==
    /\ \E i \in 1..sent[Other(p)] :
          /\ i = 1 \/ i - 1 \in Seen(p)
          /\ fired' = [fired EXCEPT ![p] = Append(@, i)]
    /\ UNCHANGED sent

\* One frame both acknowledges messages of its receiver and brings one.
Forget(p) ==
    /\ forgotten' \in [Peers -> Nat]
    /\ \A q \in Peers \ {p} : forgotten'[q] = forgotten[q]
    /\ forgotten[p] <= forgotten'[p]
    /\ \A i \in 1..forgotten'[p] : i \in Seen(Other(p))

Next == \E p \in Peers :
    \/ SendOne(p) /\ UNCHANGED forgotten
    \/ Hand(p) /\ Forget(p)
    \/ Forget(p) /\ UNCHANGED <<sent, fired>>

Spec == Init /\ [][Next]_linkVars
=============================================================================
