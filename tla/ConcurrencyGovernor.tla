------------------------- MODULE ConcurrencyGovernor -------------------------
(***************************************************************************)
(* The process-wide concurrency governor, for one provider key: the bucket *)
(* that admits the model requests of all workflow runs, with its           *)
(* controller, its per-run queues, the round robin over them and the alarm *)
(* that wakes the waiters when a Retry-After has passed.  Requests of the  *)
(* main agent pass through it too, uncounted by the gate but in flight.    *)
(*                                                                         *)
(* Each handler runs to its end.  The loop of drain, in which most of them *)
(* end, is taken one iteration per action under pc.                        *)
(***************************************************************************)
EXTENDS ConcurrencyController, Sequences, SequencesExt

CONSTANTS
    Runs,           \* workflow runs of the process
    Observer,       \* the main agent
    MainAgent,      \* whether the main agent makes requests
    Aborting,       \* runs whose waiting requests may be aborted
    RetryAfters,    \* Retry-After values of a throttled request, 0 for none
    MaxRequests     \* bound: requests waiting or not yet released

ASSUME GovernorAssumption ==
    /\ Observer \notin Runs
    /\ IsFiniteSet(Runs)
    /\ MainAgent \in BOOLEAN
    /\ Aborting \subseteq Runs
    /\ RetryAfters \subseteq Nat
    /\ MaxRequests \in Nat \ {0}

Clients == Runs \union {Observer}
TicketIds == 1 .. MaxRequests

\* cap is the cap the request was admitted under, an observation.
Tickets == [run : Clients, current : BOOLEAN, cap : 1 .. Ceiling]

Unarmed == -1

VARIABLES
    ctl,            \* the controller
    tickets,        \* tickets of attempts that have not settled
    spent,          \* settled tickets the runner has yet to release
    waiting,        \* length of each run's queue
    lines,          \* runs with a queue, in the order of the map that holds it
    lastGranted,    \* the client that got the last ticket
    wake,           \* time left on the cooldown alarm
    pc,             \* the handler loop under way, if any
    asked           \* observation: time the provider still asks to wait

vars == <<ctl, tickets, spent, waiting, lines, lastGranted, wake, pc, asked>>

-----------------------------------------------------------------------------

Waiters == UNION {{r} \X (1 .. waiting[r]) : r \in Runs}
WaiterCount == Cardinality(Waiters)

\* The bound counts the requests that wait or hold a ticket.
Unused == TicketIds \ (DOMAIN tickets \union spent)
HasRoom == WaiterCount < Cardinality(Unused)
NewTicket == CHOOSE t \in Unused : TRUE

\* grant: observe, admit, note the run, mint the ticket.
Grant(c, r) ==
    LET d == Refresh(c)
        ticket == [run |-> r, current |-> TRUE, cap |-> d.cap]
    IN  /\ ctl' = Admitted(d)
        /\ tickets' = [t \in DOMAIN tickets \union {NewTicket} |->
                          IF t = NewTicket THEN ticket ELSE tickets[t]]
        /\ lastGranted' = r

\* nextRunWithWaiters: the run after the last one served, the first one when
\* that has no queue.  (Mutant: always the first one.)
Position(r) == CHOOSE i \in DOMAIN lines : lines[i] = r
HasLine(r) == \E i \in DOMAIN lines : lines[i] = r
Turn == IF HasLine(lastGranted) THEN Position(lastGranted) ELSE 0
FirstRun == lines[1]
NextRun == lines[(Turn % Len(lines)) + 1]

\* A request leaves the queue of run r, and an empty queue leaves the map.
LeaveQueue(r) ==
    /\ waiting' = [waiting EXCEPT ![r] = @ - 1]
    /\ lines' = IF waiting[r] = 1 THEN RemoveAt(lines, Position(r)) ELSE lines

\* armCooldownWake, after the controller has become c and n requests wait.
\* (Mutant: it is forgotten.)
NoAlarm(c, n) == Unarmed
Alarm(c, n) ==
    IF n = 0 \/ c.cooling = NoCooldown THEN Unarmed ELSE Larger(0, c.cooling)

\* drain begins with an observe.
StartDrain(c) == ctl' = Refresh(c) /\ pc' = "drain"

-----------------------------------------------------------------------------
\* Admission

\* tryAdmit, when it gives a ticket.
FastPath(r) ==
    /\ pc = "idle"
    /\ HasRoom
    /\ WaiterCount = 0
    /\ CanAdmit(Refresh(ctl))
    /\ Grant(Refresh(ctl), r)
    /\ UNCHANGED <<spent, waiting, lines, wake, pc, asked>>

Closed(c) == WaiterCount > 0 \/ ~ CanAdmit(c)

\* tryAdmit, when it does not.
Refused ==
    /\ pc = "idle"
    /\ Closed(Refresh(ctl))
    /\ ctl' = Refresh(ctl)
    /\ UNCHANGED <<tickets, spent, waiting, lines, lastGranted, wake, pc, asked>>

\* acquire: a refused tryAdmit, then admit.
Enqueue(r) ==
    /\ pc = "idle"
    /\ HasRoom
    /\ Closed(Refresh(ctl))
    /\ waiting' = [waiting EXCEPT ![r] = @ + 1]
    /\ lines' = IF waiting[r] = 0 THEN Append(lines, r) ELSE lines
    /\ StartDrain(Refresh(ctl))
    /\ UNCHANGED <<tickets, spent, lastGranted, wake, asked>>

\* The observer's acquire neither queues nor looks at the gate.
ObserverAcquire ==
    /\ pc = "idle"
    /\ MainAgent
    /\ HasRoom
    /\ Grant(ctl, Observer)
    /\ UNCHANGED <<spent, waiting, lines, wake, pc, asked>>

\* onAbort of a waiting request.  (Mutant: the demand is not told.)
AbortUntold(r) ==
    /\ pc = "idle"
    /\ waiting[r] > 0
    /\ LeaveQueue(r)
    /\ ctl' = Refresh(ctl)
    /\ wake' = Alarm(ctl', WaiterCount')
    /\ UNCHANGED <<tickets, spent, lastGranted, pc, asked>>
Abort(r) ==
    /\ pc = "idle"
    /\ waiting[r] > 0
    /\ LeaveQueue(r)
    /\ ctl' = CountWaiters(ctl, WaiterCount')
    /\ wake' = Alarm(ctl', WaiterCount')
    /\ UNCHANGED <<tickets, spent, lastGranted, pc, asked>>

-----------------------------------------------------------------------------
\* drain

GrantNext ==
    LET c == CountWaiters(ctl, WaiterCount) IN
    /\ pc = "drain"
    /\ CanAdmit(c)
    /\ lines # <<>>
    /\ LeaveQueue(NextRun)
    /\ Grant(c, NextRun)
    /\ UNCHANGED <<spent, wake, pc, asked>>

DrainEnds ==
    LET c == CountWaiters(ctl, WaiterCount) IN
    /\ pc = "drain"
    /\ ~ CanAdmit(c) \/ lines = <<>>
    /\ ctl' = CountWaiters(c, WaiterCount)
    /\ wake' = Alarm(ctl', WaiterCount)
    /\ pc' = "idle"
    /\ UNCHANGED <<tickets, spent, waiting, lines, lastGranted, asked>>

-----------------------------------------------------------------------------
\* The end of an attempt

Signal(kind, retryAfter) == [kind |-> kind, retryAfter |-> retryAfter]
Signals == [kind : {"succeeded", "transient", "ended"}, retryAfter : {0}]
           \union [kind : {"throttled"}, retryAfter : RetryAfters]

Apply(c, t, signal) ==
    CASE signal.kind = "succeeded" -> Succeeded(c, tickets[t].current)
      [] signal.kind = "throttled" ->
             Throttled(c, tickets[t].current, signal.retryAfter)
      [] signal.kind = "transient" -> FailedTransient(c)
      [] signal.kind = "ended" -> Ended(c)

\* A throttle verdict of the current epoch begins the next one.  (Mutant:
\* it does not.)
PageStays(t, signal) == FALSE
TurnsPage(t, signal) == signal.kind = "throttled" /\ tickets[t].current

\* settle: the ticket is of no further effect, its request gives its place
\* back, and those who wait are looked at.
Settle(t, signal) ==
    /\ tickets' = [u \in DOMAIN tickets \ {t} |->
                     [tickets[u] EXCEPT !.current = @ /\ ~ TurnsPage(t, signal)]]
    /\ StartDrain(Apply(ctl, t, signal))
    /\ asked' = Larger(asked, signal.retryAfter)
    /\ UNCHANGED <<waiting, lines, lastGranted, wake>>

\* publish of an event that says how the attempt ended.
Publish(t, signal) ==
    /\ pc = "idle"
    /\ t \in DOMAIN tickets
    /\ spent' = spent \union {t}
    /\ Settle(t, signal)

\* release, which the runner calls at the end of every attempt.
Release(t) ==
    /\ pc = "idle"
    /\ \/ /\ t \in DOMAIN tickets
          /\ Settle(t, Signal("ended", 0))
          /\ UNCHANGED spent
       \/ /\ t \in spent
          /\ spent' = spent \ {t}
          /\ UNCHANGED <<ctl, tickets, waiting, lines, lastGranted, wake, pc,
                         asked>>

-----------------------------------------------------------------------------
\* Time

WakeFires ==
    /\ pc = "idle"
    /\ wake = 0
    /\ wake' = Unarmed
    /\ StartDrain(ctl)
    /\ UNCHANGED <<tickets, spent, waiting, lines, lastGranted, asked>>

Tick ==
    /\ pc = "idle"
    /\ ctl' = Elapse(ctl)
    /\ wake' = IF wake > 0 THEN wake - 1 ELSE wake
    /\ asked' = Larger(0, asked - 1)
    /\ UNCHANGED <<tickets, spent, waiting, lines, lastGranted, pc>>

-----------------------------------------------------------------------------

Init ==
    /\ ctl = NewController
    /\ tickets = <<>>
    /\ spent = {}
    /\ waiting = [r \in Runs |-> 0]
    /\ lines = <<>>
    /\ lastGranted = Observer
    /\ wake = Unarmed
    /\ pc = "idle"
    /\ asked = 0

Next ==
    \/ \E r \in Runs : FastPath(r) \/ Enqueue(r)
    \/ \E r \in Aborting : Abort(r)
    \/ Refused
    \/ ObserverAcquire
    \/ GrantNext
    \/ DrainEnds
    \/ \E t \in TicketIds, signal \in Signals : Publish(t, signal)
    \/ \E t \in TicketIds : Release(t)
    \/ WakeFires
    \/ Tick

Spec == Init /\ [][Next]_vars

\* A handler runs to its end, and the event loop comes to everything that is
\* ready, however often other handlers run before: a timer that is due, the
\* passing of time and the end of an attempt, which the runner bounds by its
\* timeouts and whose ticket it releases in a finally block.
Fairness ==
    /\ WF_vars(GrantNext)
    /\ WF_vars(DrainEnds)
    /\ SF_vars(WakeFires)
    /\ SF_vars(Tick)
    /\ \A t \in TicketIds : SF_vars(Release(t))

FairSpec == Spec /\ Fairness

-----------------------------------------------------------------------------
\* Type

\* The values of the bucket.  A cooldown alarm never outlives its cooldown by
\* much: it is armed with the time that was left of it.
TypeOK ==
    /\ ctl \in Controllers
    /\ DOMAIN tickets \subseteq TicketIds
    /\ tickets \in [DOMAIN tickets -> Tickets]
    /\ spent \subseteq TicketIds \ DOMAIN tickets
    /\ waiting \in [Runs -> Nat]
    /\ lines \in Seq(Runs)
    /\ lastGranted \in Clients
    /\ wake \in Nat \union {Unarmed}
    /\ pc \in {"idle", "drain"}
    /\ asked \in Nat

-----------------------------------------------------------------------------
\* Safety

\* Every attempt gives its place back exactly once, however many events and
\* releases its ticket gets: what the controller counts as in flight are the
\* tickets whose attempt has not settled (mintTicket, settle).
TicketsAccounted == ctl.inFlight = Cardinality(DOMAIN tickets)

\* The round robin sees each run with waiting requests once, and no other:
\* the map of the queues has no empty queue (drain, admit, onAbort).
LinesMatchQueues ==
    /\ \A r \in Runs : HasLine(r) <=> waiting[r] > 0
    /\ \A i, j \in DOMAIN lines : lines[i] = lines[j] => i = j

\* Whenever no handler runs, the controller knows the demand it may raise the
\* cap for, so that it does not probe for nobody (waiters).
DemandKnown == pc = "idle" => ctl.waiters = WaiterCount

\* A cap once proved is not left behind: the controller never stands below
\* lastGood while it still believes in it, so that a throttled probe can only
\* lower the cap (throttled, succeeded).
ProvedCapStands == ctl.lastGood <= ctl.cap

\* Somebody will look at the queues again: while requests wait and no handler
\* runs, an attempt is in flight whose end drains them, or the alarm is set.
NoLostWakeup ==
    pc = "idle" /\ WaiterCount > 0 => ctl.inFlight > 0 \/ wake # Unarmed

\* The attempts that settle in a step.
Settling == DOMAIN tickets \ DOMAIN tickets'

\* The refusals of one batch of requests lower the cap once: an attempt
\* admitted under a higher cap than the present one never lowers it (throttled,
\* the epochs).
BatchCutOnce ==
    [][ctl'.cap < ctl.cap =>
          \A t \in Settling : tickets[t].cap <= ctl.cap]_vars

\* An attempt that lowers the cap was admitted under that cap, the one it is a
\* judgement of (the comments of the class and of throttled).
JudgedUnderOwnCap ==
    [][ctl'.cap < ctl.cap =>
          \A t \in Settling : tickets[t].cap = ctl.cap]_vars

\* Attempts of client r admitted in a step.
GrantedTo(r) ==
    \E t \in DOMAIN tickets' \ DOMAIN tickets : tickets'[t].run = r

\* No run is admitted before the time the provider asked for (admit waits
\* until the key is not in a Retry-After cooldown).
RetryAfterRespected == [][\A r \in Runs : GrantedTo(r) => asked = 0]_vars

\* The alarm is for the end of a cooldown: it is never set when that has
\* passed already, which would wake nobody and set it again.
AlarmAwaitsCooldown == [][wake' = 0 => wake = 1 \/ wake' = wake]_vars

-----------------------------------------------------------------------------
\* Liveness

Served(r) == []<><<GrantedTo(r)>>_vars
KeepsUp(r) == []<>(waiting[r] = 0) \/ Served(r)

\* A run whose requests wait is served in the end, when no main agent takes
\* the places: the queues move on, and the round robin leaves nobody out.
EveryRunServed == \A r \in Runs : KeepsUp(r)

\* However the main agent loads the key, no run is served again and again
\* while another one waits: a large fan-out does not starve a small run
\* (Bucket.queues, nextRunWithWaiters).
RoundRobin == \A r, s \in Runs : Served(s) => KeepsUp(r)
=============================================================================
