------------------------ MODULE ConcurrencyController ------------------------
(***************************************************************************)
(* The adaptive concurrency controller of one provider key, a pure         *)
(* additive-increase, multiplicative-decrease state machine.  Its methods  *)
(* are operators on the record of its fields.  It never reads a clock: the *)
(* instants it keeps are held here as the time that has passed since, or   *)
(* is left until, each of them, so that Elapse is the passing of time.     *)
(*                                                                         *)
(* An epoch is only ever compared with the one a request was admitted      *)
(* under, so a request carries whether its epoch is still the current one. *)
(* A throttle verdict turns the page for all of them.  An idle reset also  *)
(* does, but happens only when there is no request to notice.              *)
(***************************************************************************)
EXTENDS Integers

CONSTANTS
    Ceiling,        \* start value and upper bound of the cap
    IncreaseAfter,  \* successes in a row that prove a cap
    IdleReset       \* time without an admission after which all is forgotten

ASSUME ControllerAssumption ==
    /\ Ceiling \in Nat \ {0}
    /\ IncreaseAfter \in Nat \ {0}
    /\ IdleReset \in Nat \ {0}

NoCooldown == -1    \* cooldownUntil is undefined; 0 when it has passed
Unproved == 0       \* lastGood is undefined

Larger(x, y) == IF x > y THEN x ELSE y
Smaller(x, y) == IF x < y THEN x ELSE y

\* The streak is kept up to IncreaseAfter and idle up to IdleReset: further
\* values are told apart by nothing.
Controllers == [cap : 1 .. Ceiling, streak : 0 .. IncreaseAfter,
                lastGood : 0 .. Ceiling, waiters : Nat, inFlight : Nat,
                cooling : Nat \union {NoCooldown}, idle : 0 .. IdleReset]

NewController ==
    [cap |-> Ceiling, streak |-> 0, lastGood |-> Unproved, waiters |-> 0,
     inFlight |-> 0, cooling |-> NoCooldown, idle |-> IdleReset]

Elapse(c) ==
    [c EXCEPT !.cooling = IF @ > 0 THEN @ - 1 ELSE @,
              !.idle = Smaller(IdleReset, @ + 1)]

-----------------------------------------------------------------------------

\* idleReset, which every signal starts with.  Before the first admission
\* there is nothing it could forget.
Refresh(c) ==
    IF c.inFlight = 0 /\ c.idle = IdleReset
    THEN [c EXCEPT !.cap = Ceiling, !.streak = 0, !.lastGood = Unproved,
                   !.cooling = NoCooldown]
    ELSE c

CanAdmit(c) == c.inFlight < c.cap /\ c.cooling <= 0

Admitted(c) == [c EXCEPT !.inFlight = @ + 1, !.idle = 0]

CountWaiters(c, n) == [Refresh(c) EXCEPT !.waiters = n]

\* ended: the signal of a request that says nothing of the provider, and what
\* the other three do of it.  (Mutant: the place is not given back.)
EndedInPlace(c) == Refresh(c)
Ended(c) == [Refresh(c) EXCEPT !.inFlight = Larger(0, @ - 1)]

FailedTransient(c) == [Ended(c) EXCEPT !.streak = 0]

Succeeded(c, current) ==
    LET d == Ended(c)
        streak == Smaller(IncreaseAfter, d.streak + 1)
        proved == [d EXCEPT !.streak = streak,
                            !.lastGood = Larger(@, d.cap)]
    IN  CASE ~ current -> d
          [] current /\ streak < IncreaseAfter -> [d EXCEPT !.streak = streak]
          [] current /\ streak = IncreaseAfter ->
                 IF d.waiters = 0 \/ d.cap = Ceiling THEN proved
                 ELSE [proved EXCEPT !.cap = @ + 1, !.streak = 0]

\* A probe above the proved cap returns to it.  Otherwise the cap loses a
\* quarter and what was proved is disproved.  (Mutants: there is no floor; the
\* proof survives.)
CutBackToNothing(c) ==
    IF c.lastGood # Unproved /\ c.cap > c.lastGood
    THEN [c EXCEPT !.cap = c.lastGood]
    ELSE [c EXCEPT !.cap = (3 * @) \div 4, !.lastGood = Unproved]
CutBackBelowProof(c) ==
    IF c.lastGood # Unproved /\ c.cap > c.lastGood
    THEN [c EXCEPT !.cap = c.lastGood]
    ELSE [c EXCEPT !.cap = Larger(1, (3 * @) \div 4)]
CutBack(c) ==
    IF c.lastGood # Unproved /\ c.cap > c.lastGood
    THEN [c EXCEPT !.cap = c.lastGood]
    ELSE [c EXCEPT !.cap = Larger(1, (3 * @) \div 4), !.lastGood = Unproved]

Throttled(c, current, retryAfter) ==
    LET d == [FailedTransient(c) EXCEPT
                 !.cooling = IF retryAfter > 0 THEN Larger(@, retryAfter) ELSE @]
    IN  IF current THEN CutBack(d) ELSE d
=============================================================================
