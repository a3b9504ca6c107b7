--------------------------- MODULE MCAskScheduler ---------------------------
(***************************************************************************)
(* Instances of AskScheduler for TLC.                                      *)
(***************************************************************************)
EXTENDS AskScheduler

CONSTANTS s1, s2, s3, s4, r1, r2

Ask(site, actor, typed) == [site |-> site, actor |-> actor, typed |-> typed]

\* Three branches.  The first, a loop over one site, shares its actor with
\* the second, which comes to it after an ask elsewhere: when both first asks
\* are answered from the journal, the fresh ask of the loop may arrive before
\* the recorded one of the other.  Nobody waits for the third branch, whose
\* ask may be in flight at the end.
SharedActors == <<<<Ask(s1, 1, TRUE), Ask(s1, 1, TRUE)>>,
                  <<Ask(s2, 2, FALSE), Ask(s3, 1, FALSE)>>,
                  <<Ask(s4, 3, FALSE)>>>>

\* Two branches run the same two-ask pipeline, each with an actor of its own.
Pipeline == <<<<Ask(s1, 1, FALSE), Ask(s2, 1, FALSE)>>,
              <<Ask(s1, 2, FALSE), Ask(s2, 2, FALSE)>>>>
=============================================================================
