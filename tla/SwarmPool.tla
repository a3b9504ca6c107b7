----------------------------- MODULE SwarmPool -----------------------------
(***************************************************************************)
(* packages/core, runSwarmPool: workers that take the items of an agent    *)
(* swarm one after the other.  The first launches are throttled, an item   *)
(* whose child is rate-limited is tried again after a back-off, and each   *)
(* item has a deadline.  Sleeps, deadlines and children are events that    *)
(* come in any order; what a worker does between two awaits is one step.   *)
(***************************************************************************)
EXTENDS Integers

CONSTANTS
    Items,              \* specs.length
    Concurrency,        \* resolveSwarmConcurrency
    LaunchLimit,        \* INITIAL_LAUNCH_LIMIT
    MaxRetries          \* SWARM_RATE_LIMIT_MAX_RETRIES

ASSUME PoolAssumption ==
    Items \in Nat /\ Concurrency \in Nat /\ LaunchLimit \in Nat /\ MaxRetries \in Nat

WorkerCount ==
    LET least == IF Concurrency < Items THEN Concurrency ELSE Items
    IN  IF least < 1 THEN 1 ELSE least

Item == 1..Items
Worker == 1..WorkerCount

VARIABLES
    started,            \* workers whose body has been entered
    next,               \* items taken
    launched,           \* items let through by the throttle
    pc,                 \* where worker w waits
    item,               \* the item worker w holds, 0 for none
    seen,               \* observation: launched when w began its throttle sleep
    attempt,            \* failed attempts at item i
    deadline,           \* the timer of item i
    result,             \* outcome of item i, "none" before it has one
    late                \* observation: launches of i after its deadline

poolVars == <<started, next, launched, pc, item, seen, attempt, deadline, result, late>>

PoolInit ==
    /\ started = 0 /\ next = 0 /\ launched = 0
    /\ pc = [w \in Worker |-> "new"]
    /\ item = [w \in Worker |-> 0]
    /\ seen = [w \in Worker |-> 0]
    /\ attempt = [i \in Item |-> 0]
    /\ deadline = [i \in Item |-> "unset"]
    /\ result = [i \in Item |-> "none"]
    /\ late = [i \in Item |-> 0]

AllStarted == started = WorkerCount

\* Entry of runOne: the deadline is set and the item's child is launched.
Begin(w, i) ==
    /\ launched' = launched + 1
    /\ pc' = [pc EXCEPT ![w] = "racing"]
    /\ item' = [item EXCEPT ![w] = i]
    /\ UNCHANGED seen

\* A turn of the worker's loop, up to its next await.
TakeNext(w, timers) ==
    IF next < Items
    THEN /\ next' = next + 1
         /\ IF launched < LaunchLimit /\ launched > 0
            THEN /\ pc' = [pc EXCEPT ![w] = "throttled"]
                 /\ item' = [item EXCEPT ![w] = next + 1]
                 /\ seen' = [seen EXCEPT ![w] = launched]
                 /\ deadline' = timers
                 /\ UNCHANGED launched
            ELSE /\ Begin(w, next + 1)
                 /\ deadline' = [timers EXCEPT ![next + 1] = "armed"]
    ELSE /\ pc' = [pc EXCEPT ![w] = "done"]
         /\ item' = [item EXCEPT ![w] = 0]
         /\ deadline' = timers
         /\ UNCHANGED <<next, launched, seen>>

\* Array.from enters the workers one after the other, before anything else.
StartWorker ==
    /\ ~AllStarted
    /\ started' = started + 1
    /\ TakeNext(started + 1, deadline)
    /\ UNCHANGED <<attempt, result, late>>

\* The throttle's sleep ends.
ThrottleEnds(w) ==
    /\ AllStarted /\ pc[w] = "throttled"
    /\ Begin(w, item[w])
    /\ deadline' = [deadline EXCEPT ![item[w]] = "armed"]
    /\ UNCHANGED <<started, next, attempt, result, late>>

\* The end of runOne: the deadline is cleared unless it has fired, the result is
\* filed under the item's index, and the worker goes on to the next item.
Finish(w, outcome, timer) ==
    /\ result' = [result EXCEPT ![item[w]] = outcome]
    /\ TakeNext(w, [deadline EXCEPT ![item[w]] = IF @ = "armed" THEN timer ELSE @])
    /\ UNCHANGED started

\* The child's promise is resolved, or rejected with an error that is not
\* retried.
ChildSettles(w, outcome) ==
    /\ AllStarted /\ pc[w] = "racing"
    /\ Finish(w, outcome, "cleared")
    /\ UNCHANGED <<attempt, late>>

\* The child's promise is rejected with a rate-limit error.
ChildRateLimited(w) ==
    /\ AllStarted /\ pc[w] = "racing"
    /\ IF attempt[item[w]] >= MaxRetries
       THEN Finish(w, "failed", "cleared") /\ UNCHANGED attempt
       ELSE /\ pc' = [pc EXCEPT ![w] = "suspended"]
            /\ attempt' = [attempt EXCEPT ![item[w]] = @ + 1]
            /\ UNCHANGED <<started, next, launched, item, seen, deadline, result>>
    /\ UNCHANGED late

\* (Mutant: the deadline aborts the child and does not end the race.)
DeadlineOnlyAborts(w) ==
    /\ AllStarted /\ pc[w] \in {"racing", "suspended"}
    /\ deadline[item[w]] = "armed"
    /\ deadline' = [deadline EXCEPT ![item[w]] = "fired"]
    /\ UNCHANGED <<started, next, launched, pc, item, seen, attempt, result, late>>

\* The deadline: it aborts the child and rejects the race; a worker that sleeps
\* before its next attempt does not notice.
DeadlineFires(w) ==
    /\ AllStarted /\ pc[w] \in {"racing", "suspended"}
    /\ deadline[item[w]] = "armed"
    /\ IF pc[w] = "racing"
       THEN Finish(w, "timeout", "fired")
       ELSE /\ deadline' = [deadline EXCEPT ![item[w]] = "fired"]
            /\ UNCHANGED <<started, next, launched, pc, item, seen, result>>
    /\ UNCHANGED <<attempt, late>>

\* (Mutant: each attempt races against a promise of its own.)
BackoffEndsFreshRace(w) ==
    LET i == item[w]
    IN  /\ AllStarted /\ pc[w] = "suspended"
        /\ late' = [late EXCEPT ![i] = IF deadline[i] = "fired" THEN @ + 1 ELSE @]
        /\ pc' = [pc EXCEPT ![w] = "racing"]
        /\ UNCHANGED <<started, next, launched, item, seen, attempt, deadline, result>>

\* The back-off ends and another child is launched.  If the deadline has fired
\* meanwhile the race is lost before the child can answer.
BackoffEnds(w) ==
    LET i == item[w]
    IN  /\ AllStarted /\ pc[w] = "suspended"
        /\ IF deadline[i] = "fired"
           THEN /\ Finish(w, "timeout", "fired")
                /\ late' = [late EXCEPT ![i] = @ + 1]
           ELSE /\ pc' = [pc EXCEPT ![w] = "racing"]
                /\ UNCHANGED <<started, next, launched, item, seen, deadline, result, late>>
        /\ UNCHANGED attempt

PoolNext ==
    \/ StartWorker
    \/ \E w \in Worker :
          \/ ThrottleEnds(w)
          \/ \E outcome \in {"completed", "failed"} : ChildSettles(w, outcome)
          \/ ChildRateLimited(w)
          \/ DeadlineFires(w)
          \/ BackoffEnds(w)

PoolSpec == PoolInit /\ [][PoolNext]_poolVars

\* Timers fire.  Children need not answer.
FairPoolSpec ==
    /\ PoolSpec
    /\ WF_poolVars(StartWorker)
    /\ \A w \in Worker :
          /\ WF_poolVars(ThrottleEnds(w))
          /\ WF_poolVars(DeadlineFires(w))
          /\ WF_poolVars(BackoffEnds(w))

-----------------------------------------------------------------------------
(* Properties.                                                              *)

Busy(w) == pc[w] \in {"throttled", "racing", "suspended"}

\* The types of the variables.
PoolTypeOK ==
    /\ started \in 0..WorkerCount /\ next \in 0..Items /\ launched \in 0..Items
    /\ pc \in [Worker -> {"new", "throttled", "racing", "suspended", "done"}]
    /\ item \in [Worker -> 0..Items]
    /\ seen \in [Worker -> 0..Items]
    /\ attempt \in [Item -> 0..MaxRetries]
    /\ deadline \in [Item -> {"unset", "armed", "fired", "cleared"}]
    /\ result \in [Item -> {"none", "completed", "failed", "timeout"}]
    /\ late \in [Item -> Nat]

\* An item that was taken has a result or one worker that holds it, never two
\* and never none, though the throttle's sleep lies between taking an item and
\* starting it; so no slot of the results is left empty or written twice.
EveryItemOnce ==
    /\ \A i \in Item : i <= next <=> (result[i] # "none" \/ \E w \in Worker : Busy(w) /\ item[w] = i)
    /\ \A w \in Worker : Busy(w) => item[w] \in Item /\ result[item[w]] = "none"
    /\ \A v, w \in Worker : Busy(v) /\ Busy(w) /\ item[v] = item[w] => v = w

\* The deadline decides: an item is reported as timed out exactly if its
\* deadline fired, also when it fired while the item slept before a retry
\* ("the deadline forces the classification timeout").
TimeoutClassified ==
    \A i \in Item : result[i] # "none" => (result[i] = "timeout" <=> deadline[i] = "fired")

\* After its deadline an item launches at most one more child, the one of the
\* back-off that was under way.
OneLateLaunch == \A i \in Item : late[i] <= 1

\* The first launches are an interval apart: whoever is let through among them
\* began to sleep after the launch before.
Throttled ==
    [][\A w \in Worker :
          pc[w] = "throttled" /\ pc'[w] = "racing" /\ launched < LaunchLimit
              => seen[w] = launched]_poolVars

\* The pool returns, whatever the children do, and then every item has a
\* result.
PoolReturns ==
    <>[]((\A w \in Worker : pc[w] = "done") /\ (\A i \in Item : result[i] # "none"))

\* Every item is taken once and settled once, as its deadline says, and once
\* the deadline has fired at most the child of a back-off is launched for it.
ItemsAccounted == PoolTypeOK /\ EveryItemOnce /\ TimeoutClassified /\ OneLateLaunch
=============================================================================
