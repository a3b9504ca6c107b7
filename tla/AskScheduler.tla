---------------------------- MODULE AskScheduler ----------------------------
(***************************************************************************)
(* One dynamic-workflow run: the engine's ask scheduler, the run journal   *)
(* it writes, the sandboxed script that calls it and the driver that runs  *)
(* subagent turns for it, through settlements, crashes and resumes.        *)
(*                                                                         *)
(* The engine is single-threaded JavaScript: a handler runs to its end     *)
(* before another starts.  A handler that is straight-line code is one     *)
(* action; the two loops the handlers end in (drainAdmission and pumpAll)  *)
(* are taken one iteration per action under the program counter pc, and    *)
(* while pc is not idle only these iterations, or a crash, can happen.     *)
(***************************************************************************)
EXTENDS Integers, Sequences, FiniteSets

CONSTANTS
    NumActors,        \* subagents of the run, numbered in creation order
    NumFibers,        \* concurrent branches of the script (Promise.all arms)
    Sites,            \* ask sites of the script
    Script,           \* Script[f]: the asks branch f makes, one after another
    Awaited,          \* branches whose end the script waits for
    Uncaught,         \* branches that let a failed ask reject the script
    NoInstance,       \* stands for no instance
    Results,          \* values a subagent can answer with
    MaxConcurrency,   \* caps.maxConcurrency
    RepairAttempts,   \* rejected submissions an ask survives
    NudgeAttempts,    \* reminders a typed ask gets
    MaxLives          \* bound: engines built for the run, first one included

Actors == 1 .. NumActors
Fibers == 1 .. NumFibers
Step == [site : Sites, actor : Actors, typed : BOOLEAN]

ASSUME ScriptAssumption ==
    /\ NumActors \in Nat \ {0}
    /\ NumFibers \in Nat \ {0}
    /\ Script \in [Fibers -> Seq(Step) \ {<<>>}]
    /\ Awaited \subseteq Fibers
    /\ Awaited # {}
    /\ Uncaught \subseteq Awaited

ASSUME LimitAssumption ==
    /\ MaxConcurrency \in Nat \ {0}
    /\ RepairAttempts \in Nat
    /\ NudgeAttempts \in Nat
    /\ MaxLives \in Nat \ {0}

Failed == "failed"
NoResult == "no result"
ASSUME ResultAssumption == Failed \notin Results /\ NoResult \notin Results

Outcomes == Results \union {Failed}

(***************************************************************************)
(* An instance is a site and the how-manieth call of it this is.  The      *)
(* instructions of an ask are a function of what its branch has seen, and  *)
(* the input hash stands for them, so it is the branch and what it saw.    *)
(***************************************************************************)
Instances == Sites \X (Nat \ {0})
ASSUME NoInstanceAssumption == NoInstance \notin Instances

Hashes == Fibers \X Seq(Outcomes)

Asks == [inst : Instances, actor : Actors, hash : Hashes, typed : BOOLEAN]
Nodes == [inst : Instances, actor : Actors, hash : Hashes, typed : BOOLEAN,
          seq : Nat, repairs : Nat, nudges : Nat, dispatched : BOOLEAN]
Rows == {row \in [actor : Actors, seq : Nat, hash : Hashes,
                  status : {"running", "completed", "failed"},
                  result : Results \union {NoResult}] :
             row.status = "completed" <=> row.result \in Results}

VARIABLES
    \* durable: the run's row and its node rows
    runRow,           \* status of the run's journal row
    journal,          \* node rows by instance
    \* the engine of the present life
    engine,           \* "live", "settled", "none" or, process dead, "down"
    pc,               \* the handler loop under way, if any
    ordinals,         \* calls counted per site
    recordedCount,    \* node rows an actor had when it was registered
    nextAdmitSeq,     \* next actorSeq to admit, per actor
    pendingRecorded,  \* asks with a row that wait for their actorSeq
    pendingLive,      \* asks without a row that wait for the recorded ones
    liveNodes,        \* admitted, unsettled asks
    liveQueue,        \* admitted asks not yet pumped, per actor
    current,          \* the ask an actor is busy with
    activeAsks,       \* the counter that maxConcurrency bounds
    session,          \* the actor's session promise
    awaiting,         \* dispatches suspended on that promise
    \* the sandboxed script and the two ends of its pipe
    hist,             \* outcomes each branch has seen
    toEngine, toChild,
    \* the driver's turns in progress
    turns,
    \* observation: node events of this life, answers of all lives
    events, told, mismatch, lives

durable == <<runRow, journal>>
admission == <<recordedCount, nextAdmitSeq, pendingRecorded, pendingLive>>
dispatching == <<liveQueue, current, activeAsks, session, awaiting>>
child == <<hist, toEngine, toChild>>
ghosts == <<told, mismatch, lives>>
vars == <<durable, engine, pc, ordinals, admission, liveNodes, dispatching,
          child, turns, events, ghosts>>

-----------------------------------------------------------------------------
\* Partial functions

Put(f, x, v) == [y \in DOMAIN f \union {x} |-> IF y = x THEN v ELSE f[y]]
Without(f, x) == [y \in DOMAIN f \ {x} |-> f[y]]
IsMap(f, S, T) == DOMAIN f \subseteq S /\ f \in [DOMAIN f -> T]

-----------------------------------------------------------------------------
\* The script

StepOf(f, seen) == Script[f][Len(seen) + 1]

AskMessage(f, seen) == [kind |-> "ask", fiber |-> f, seen |-> seen]
EndMessage(kind) == [kind |-> kind, fiber |-> 1, seen |-> <<>>]
Messages == {m \in [kind : {"ask", "complete", "throw"}, fiber : Fibers,
                    seen : Seq(Outcomes)] :
                 m.kind = "ask" => Len(m.seen) < Len(Script[m.fiber])}
Answers == [fiber : Fibers, outcome : Outcomes]

FirstAsks == [f \in Fibers |-> AskMessage(f, <<>>)]

Rejects(f, outcome) == f \in Uncaught /\ outcome = Failed
Ended(f, seen) ==
    /\ Len(seen) = Len(Script[f])
    /\ ~ Rejects(f, seen[Len(seen)])

\* What the script writes after branch f has taken an answer.
Reaction(f, outcome, seen) ==
    IF Rejects(f, outcome) THEN <<EndMessage("throw")>>
    ELSE IF Len(seen[f]) < Len(Script[f]) THEN <<AskMessage(f, seen[f])>>
    ELSE IF f \in Awaited /\ \A g \in Awaited : Ended(g, seen[g])
         THEN <<EndMessage("complete")>>
    ELSE <<>>

-----------------------------------------------------------------------------
\* Building an engine over a journal

Idle == [op |-> "idle", actor |-> 1, fresh |-> FALSE]
Draining(a, fresh) == [op |-> "drain", actor |-> a, fresh |-> fresh]
Pumping(a) == [op |-> "pump", actor |-> a, fresh |-> FALSE]
Quiet == engine = "live" /\ pc = Idle

RowsOf(a) == {i \in DOMAIN journal : journal[i].actor = a}

\* A new engine and a new script over the journal as it stands: actors are
\* created before the first ask, so an actor counts its rows here.
RebuildEngine ==
    /\ ordinals' = [s \in Sites |-> 0]
    /\ recordedCount' = [a \in Actors |-> Cardinality(RowsOf(a))]
    /\ nextAdmitSeq' = [a \in Actors |-> 0]
    /\ pendingRecorded' = [a \in Actors |-> <<>>]
    /\ pendingLive' = [a \in Actors |-> <<>>]
    /\ liveNodes' = <<>>
    /\ liveQueue' = [a \in Actors |-> <<>>]
    /\ current' = [a \in Actors |-> NoInstance]
    /\ activeAsks' = 0
    /\ session' = [a \in Actors |-> "none"]
    /\ awaiting' = {}
    /\ hist' = [f \in Fibers |-> <<>>]
    /\ toEngine' = FirstAsks
    /\ toChild' = <<>>
    /\ turns' = {}
    /\ events' = <<>>

Init ==
    /\ runRow = "running"
    /\ journal = <<>>
    /\ engine = "live"
    /\ pc = Idle
    /\ ordinals = [s \in Sites |-> 0]
    /\ recordedCount = [a \in Actors |-> 0]
    /\ nextAdmitSeq = [a \in Actors |-> 0]
    /\ pendingRecorded = [a \in Actors |-> <<>>]
    /\ pendingLive = [a \in Actors |-> <<>>]
    /\ liveNodes = <<>>
    /\ liveQueue = [a \in Actors |-> <<>>]
    /\ current = [a \in Actors |-> NoInstance]
    /\ activeAsks = 0
    /\ session = [a \in Actors |-> "none"]
    /\ awaiting = {}
    /\ hist = [f \in Fibers |-> <<>>]
    /\ toEngine = FirstAsks
    /\ toChild = <<>>
    /\ turns = {}
    /\ events = <<>>
    /\ told = {}
    /\ mismatch = FALSE
    /\ lives = 1

-----------------------------------------------------------------------------
\* Ask lifecycle

Row(ask, seq, status, result) ==
    [actor |-> ask.actor, seq |-> seq, hash |-> ask.hash,
     status |-> status, result |-> result]
OutcomeOf(row) == IF row.status = "completed" THEN row.result ELSE Failed

\* Resolve or reject the ask's promise: the bridge writes the response.
Answer(ask, outcome) ==
    /\ toChild' = Append(toChild, [fiber |-> ask.hash[1], outcome |-> outcome])
    /\ told' = told \union {<<ask.hash, outcome>>}

\* Queues are first in, first out.  (Mutant: last in, first out.)
EnqueueInFront(queue, i) == <<i>> \o queue
Enqueue(queue, i) == Append(queue, i)

\* admitLive: the ask gets its running row and joins its actor's queue.
AdmitLive(ask, seq) ==
    /\ liveNodes' = Put(liveNodes, ask.inst,
           [inst |-> ask.inst, actor |-> ask.actor, hash |-> ask.hash,
            typed |-> ask.typed, seq |-> seq, repairs |-> RepairAttempts,
            nudges |-> NudgeAttempts, dispatched |-> FALSE])
    /\ journal' = Put(journal, ask.inst, Row(ask, seq, "running", NoResult))
    /\ liveQueue' = [liveQueue EXCEPT ![ask.actor] = Enqueue(@, ask.inst)]
    /\ events' = Put(events, ask.inst, "queued")

\* releaseCachedAsk: the row answers, the driver hears nothing of it.
ReleaseCached(ask) ==
    /\ events' = Put(events, ask.inst, "settled")
    /\ Answer(ask, OutcomeOf(journal[ask.inst]))

\* pumpActor: dispatch the head of the actor's queue if nothing forbids it.
\* (Mutant: the concurrency limit is not consulted.)
MayPumpUncapped(a) ==
    engine = "live" /\ current[a] = NoInstance /\ liveQueue[a] # <<>>
MayPump(a) ==
    /\ engine = "live"
    /\ current[a] = NoInstance
    /\ liveQueue[a] # <<>>
    /\ activeAsks < MaxConcurrency
PumpActor(a) ==
    IF MayPump(a)
    THEN /\ current' = [current EXCEPT ![a] = Head(liveQueue[a])]
         /\ liveQueue' = [liveQueue EXCEPT ![a] = Tail(@)]
         /\ activeAsks' = activeAsks + 1
         /\ session' = [session EXCEPT
                ![a] = IF @ = "none" THEN "creating" ELSE @]
         /\ awaiting' = awaiting \union {<<a, Head(liveQueue[a])>>}
    ELSE UNCHANGED dispatching

\* The settled row replaces the running one whole.  (Mutant: without its seq.)
RecordWithoutSeq(i, row) == Put(journal, i, [row EXCEPT !.seq = 0])
RecordSettled(i, row) == Put(journal, i, row)

\* pumpAll visits the actors from the first one on.  (Mutant: it is left out.)
PumpNone == Idle
PumpAll == Pumping(1)

\* settleOk / settleFailed and finishLiveNode; pumpAll follows.
Settle(i, status, result) ==
    LET node == liveNodes[i]
        row == Row(node, node.seq, status, result) IN
    /\ journal' = RecordSettled(i, row)
    /\ events' = Put(events, i, "settled")
    /\ liveNodes' = Without(liveNodes, i)
    /\ IF current[node.actor] = i
       THEN /\ current' = [current EXCEPT ![node.actor] = NoInstance]
            /\ activeAsks' = activeAsks - 1
       ELSE UNCHANGED <<current, activeAsks>>
    /\ pc' = PumpAll
    /\ Answer(node, OutcomeOf(row))
    /\ UNCHANGED <<runRow, engine, ordinals, admission, liveQueue, session,
                   hist, toEngine, mismatch, lives>>

\* abortInFlight(error, emitCancelled): all but a failed run's asks get their
\* node-settled.  (Mutant: only a stopped run's do.)
CancelledIfStopped(status) ==
    IF status \in {"stopped", "superseded"} THEN DOMAIN liveNodes ELSE {}
Cancelled(status) == IF status = "errored" THEN {} ELSE DOMAIN liveNodes
\* cancelAsk for every dispatched ask.
TurnsAfterAbort ==
    turns \ {i \in DOMAIN liveNodes : liveNodes[i].dispatched}
\* The three ends of a run (markSettled, abortInFlight, finishRun).  The
\* bridge kills the script's process as soon as the engine has settled.
SettleRun(status) ==
    /\ engine' = "settled"
    /\ runRow' = status
    /\ turns' = TurnsAfterAbort
    /\ events' = [i \in DOMAIN events |->
                      IF i \in Cancelled(status) THEN "settled" ELSE events[i]]
    /\ liveNodes' = <<>>
    /\ activeAsks' = 0
    /\ toEngine' = <<>>
    /\ toChild' = <<>>
    /\ UNCHANGED <<journal, pc, admission, liveQueue, current, session,
                   awaiting, hist, told, lives>>

-----------------------------------------------------------------------------
\* Messages of the script

\* nextOrdinal, the only place an instance gets its number from.  (Mutant:
\* the counter is read but not written back.)
CountCallLost(site) == ordinals
CountCall(site) == [ordinals EXCEPT ![site] = @ + 1]

\* The input hash check on a replay hit.
SameQuestion(row, ask) == row.hash = ask.hash

\* engine.ask and admitAsk up to the call of drainAdmission.
ReceiveAsk ==
    /\ Quiet
    /\ toEngine # <<>>
    /\ Head(toEngine).kind = "ask"
    /\ LET f == Head(toEngine).fiber
           seen == Head(toEngine).seen
           step == StepOf(f, seen)
           inst == <<step.site, ordinals[step.site] + 1>>
           ask == [inst |-> inst, actor |-> step.actor, hash |-> <<f, seen>>,
                   typed |-> step.typed]
       IN
       /\ ordinals' = CountCall(step.site)
       /\ \/ /\ inst \in DOMAIN journal
             /\ ~ SameQuestion(journal[inst], ask)
             /\ mismatch' = TRUE
             /\ SettleRun("errored")
          \/ /\ inst \in DOMAIN journal
             /\ SameQuestion(journal[inst], ask)
             /\ pendingRecorded' = [pendingRecorded EXCEPT
                    ![step.actor] = Put(@, journal[inst].seq, ask)]
             /\ pc' = Draining(step.actor, FALSE)
             /\ toEngine' = Tail(toEngine)
             /\ UNCHANGED <<durable, engine, recordedCount, nextAdmitSeq,
                            pendingLive, liveNodes, dispatching, hist,
                            toChild, turns, events, ghosts>>
          \/ /\ inst \notin DOMAIN journal
             /\ pendingLive' = [pendingLive EXCEPT
                    ![step.actor] = Append(@, ask)]
             /\ pc' = Draining(step.actor, TRUE)
             /\ toEngine' = Tail(toEngine)
             /\ UNCHANGED <<durable, engine, recordedCount, nextAdmitSeq,
                            pendingRecorded, liveNodes, dispatching, hist,
                            toChild, turns, events, ghosts>>

\* The script returned, or one of its branches let a failure through.
ReceiveEnd ==
    /\ Quiet
    /\ toEngine # <<>>
    /\ \/ Head(toEngine).kind = "complete" /\ SettleRun("completed")
       \/ Head(toEngine).kind = "throw" /\ SettleRun("errored")
    /\ UNCHANGED <<ordinals, mismatch>>

\* The script takes an answer and runs on to its next message.
ScriptTakesAnswer ==
    /\ Quiet
    /\ toChild # <<>>
    /\ LET f == Head(toChild).fiber
           outcome == Head(toChild).outcome
           seen == [hist EXCEPT ![f] = Append(@, outcome)]
       IN /\ hist' = seen
          /\ toEngine' = toEngine \o Reaction(f, outcome, seen)
    /\ toChild' = Tail(toChild)
    /\ UNCHANGED <<durable, engine, pc, ordinals, admission, liveNodes,
                   dispatching, turns, events, ghosts>>

-----------------------------------------------------------------------------
\* drainAdmission, one iteration at a time, then its pumpActor

RecordedIsNext(a) == nextAdmitSeq[a] \in DOMAIN pendingRecorded[a]
\* The hold rule: fresh asks wait for the recorded ones of their actor.
\* (Mutant: for one more.)
FreshHeldTooLong(a) == nextAdmitSeq[a] > recordedCount[a]
FreshMayEnter(a) == nextAdmitSeq[a] >= recordedCount[a]

\* A row to run again, as against one to answer from.  (Mutant: failures are
\* tried again.)
RunsUnlessCompleted(row) == row.status # "completed"
RunsAgain(row) == row.status = "running"

DrainRecorded(a) ==
    /\ pc.op = "drain" /\ pc.actor = a
    /\ RecordedIsNext(a)
    /\ LET seq == nextAdmitSeq[a]
           ask == pendingRecorded[a][seq]
       IN /\ pendingRecorded' = [pendingRecorded EXCEPT ![a] = Without(@, seq)]
          /\ nextAdmitSeq' = [nextAdmitSeq EXCEPT ![a] = @ + 1]
          /\ \/ /\ RunsAgain(journal[ask.inst])
                /\ AdmitLive(ask, seq)
                /\ UNCHANGED <<toChild, told>>
             \/ /\ ~ RunsAgain(journal[ask.inst])
                /\ ReleaseCached(ask)
                /\ UNCHANGED <<journal, liveNodes, liveQueue>>
    /\ UNCHANGED <<runRow, engine, pc, ordinals, recordedCount, pendingLive,
                   current, activeAsks, session, awaiting, hist, toEngine,
                   turns, mismatch, lives>>

DrainFresh(a) ==
    /\ pc.op = "drain" /\ pc.actor = a
    /\ ~ RecordedIsNext(a)
    /\ FreshMayEnter(a)
    /\ pendingLive[a] # <<>>
    /\ pendingLive' = [pendingLive EXCEPT ![a] = Tail(@)]
    /\ nextAdmitSeq' = [nextAdmitSeq EXCEPT ![a] = @ + 1]
    /\ AdmitLive(Head(pendingLive[a]), nextAdmitSeq[a])
    /\ UNCHANGED <<runRow, engine, pc, ordinals, recordedCount,
                   pendingRecorded, current, activeAsks, session, awaiting,
                   child, turns, ghosts>>

DrainEnds(a) ==
    /\ pc.op = "drain" /\ pc.actor = a
    /\ ~ RecordedIsNext(a)
    /\ ~ (FreshMayEnter(a) /\ pendingLive[a] # <<>>)
    /\ PumpActor(a)
    /\ pc' = IF pc.fresh THEN PumpAll ELSE Idle
    /\ UNCHANGED <<durable, engine, ordinals, admission, liveNodes, child,
                   turns, events, ghosts>>

\* pumpAll: the actors in the order of their creation.
PumpNext ==
    /\ pc.op = "pump"
    /\ PumpActor(pc.actor)
    /\ pc' = IF pc.actor < NumActors THEN Pumping(pc.actor + 1) ELSE Idle
    /\ UNCHANGED <<durable, engine, ordinals, admission, liveNodes, child,
                   turns, events, ghosts>>

-----------------------------------------------------------------------------
\* dispatch, suspended on the session promise and resumed by it

SessionSettles(a) ==
    /\ session[a] = "creating"
    /\ pc = Idle
    /\ engine \in {"live", "settled"}
    /\ \E outcome \in {"ready", "failed"} :
           session' = [session EXCEPT ![a] = outcome]
    /\ UNCHANGED <<durable, engine, pc, ordinals, admission, liveNodes,
                   liveQueue, current, activeAsks, awaiting, child, turns,
                   events, ghosts>>

\* What the continuation checks after the await.
StillWanted(i) == engine = "live" /\ i \in DOMAIN liveNodes

DispatchResumes(a, i) ==
    /\ pc = Idle
    /\ <<a, i>> \in awaiting
    /\ session[a] \in {"ready", "failed"}
    /\ awaiting' = awaiting \ {<<a, i>>}
    /\ \/ /\ ~ StillWanted(i)
          /\ UNCHANGED <<durable, engine, pc, ordinals, admission, liveNodes,
                         liveQueue, current, activeAsks, session, child,
                         turns, events, ghosts>>
       \/ /\ StillWanted(i)
          /\ session[a] = "ready"
          /\ events' = Put(events, i, "dispatched")
          /\ liveNodes' = [liveNodes EXCEPT ![i].dispatched = TRUE]
          /\ turns' = turns \union {i}
          /\ UNCHANGED <<durable, engine, pc, ordinals, admission, liveQueue,
                         current, activeAsks, session, child, ghosts>>
       \/ /\ StillWanted(i)
          /\ session[a] = "failed"
          /\ Settle(i, "failed", NoResult)
          /\ UNCHANGED turns

-----------------------------------------------------------------------------
\* What the driver reports of a turn.  A report on an instance that is not
\* live changes nothing, so only live ones are listed.

Reportable(i) == Quiet /\ i \in turns /\ i \in DOMAIN liveNodes

BudgetSpent(node) ==
    /\ liveNodes' = node
    /\ UNCHANGED <<durable, engine, pc, ordinals, admission, dispatching,
                   child, turns, events, ghosts>>

SubmitAccepted(i, r) ==
    /\ Reportable(i)
    /\ liveNodes[i].typed
    /\ turns' = turns \ {i}
    /\ Settle(i, "completed", r)
    /\ UNCHANGED awaiting

SubmitRejected(i) ==
    /\ Reportable(i)
    /\ liveNodes[i].typed
    /\ liveNodes[i].repairs > 0
    /\ BudgetSpent([liveNodes EXCEPT ![i].repairs = @ - 1])

SubmitHopeless(i) ==
    /\ Reportable(i)
    /\ liveNodes[i].typed
    /\ liveNodes[i].repairs = 0
    /\ turns' = turns \ {i}
    /\ Settle(i, "failed", NoResult)
    /\ UNCHANGED awaiting

TurnAnswers(i, r) ==
    /\ Reportable(i)
    /\ ~ liveNodes[i].typed
    /\ turns' = turns \ {i}
    /\ Settle(i, "completed", r)
    /\ UNCHANGED awaiting

TurnNudged(i) ==
    /\ Reportable(i)
    /\ liveNodes[i].typed
    /\ liveNodes[i].nudges > 0
    /\ BudgetSpent([liveNodes EXCEPT ![i].nudges = @ - 1])

TurnUnsubmitted(i) ==
    /\ Reportable(i)
    /\ liveNodes[i].typed
    /\ liveNodes[i].nudges = 0
    /\ turns' = turns \ {i}
    /\ Settle(i, "failed", NoResult)
    /\ UNCHANGED awaiting

AskFails(i) ==
    /\ Reportable(i)
    /\ turns' = turns \ {i}
    /\ Settle(i, "failed", NoResult)
    /\ UNCHANGED awaiting

DriverReports(i) ==
    \/ \E r \in Results : SubmitAccepted(i, r) \/ TurnAnswers(i, r)
    \/ SubmitRejected(i)
    \/ SubmitHopeless(i)
    \/ TurnNudged(i)
    \/ TurnUnsubmitted(i)
    \/ AskFails(i)

-----------------------------------------------------------------------------
\* The run from outside: stops, crashes, the restart's sweep, resumes

\* stop(reason): user, model, interrupted and provider leave a run that can
\* be resumed, superseded does not.
Stop ==
    /\ Quiet
    /\ \E status \in {"stopped", "superseded"} : SettleRun(status)
    /\ UNCHANGED <<ordinals, mismatch>>

\* The process dies, in the middle of a handler's loop if it likes.  Its
\* memory is gone; what stands in its place is what the next engine builds.
Crash ==
    /\ engine # "down"
    /\ engine' = "down"
    /\ pc' = Idle
    /\ UNCHANGED <<durable, ghosts>>
    /\ RebuildEngine

\* reconcileOrphanRuns, when the process is back.
Reopen ==
    /\ engine = "down"
    /\ engine' = "none"
    /\ runRow' = IF runRow = "running" THEN "stopped" ELSE runRow
    /\ UNCHANGED <<journal, pc, ordinals, admission, liveNodes, dispatching,
                   child, turns, events, ghosts>>

Resume ==
    /\ engine \in {"settled", "none"}
    /\ runRow = "stopped"
    /\ lives < MaxLives
    /\ lives' = lives + 1
    /\ engine' = "live"
    /\ pc' = Idle
    /\ runRow' = "running"
    /\ UNCHANGED <<journal, told, mismatch>>
    /\ RebuildEngine

\* A run without a live engine may stay as it is for ever.
Rest == engine \in {"settled", "none"} /\ UNCHANGED vars

-----------------------------------------------------------------------------
Drain(a) == DrainRecorded(a) \/ DrainFresh(a) \/ DrainEnds(a)

EngineStep ==
    \/ ReceiveAsk
    \/ ReceiveEnd
    \/ ScriptTakesAnswer
    \/ \E a \in Actors : Drain(a)
    \/ PumpNext

Dispatching == \E w \in awaiting : DispatchResumes(w[1], w[2])
Reporting == \E i \in turns : DriverReports(i)

Next ==
    \/ EngineStep
    \/ \E a \in Actors : SessionSettles(a)
    \/ Dispatching
    \/ Reporting
    \/ Stop
    \/ Crash
    \/ Reopen
    \/ Resume
    \/ Rest

Spec == Init /\ [][Next]_vars

\* The event loop serves what is queued, a session is created or refused in
\* the end, and a turn the driver was given ends in a report.  Nothing makes
\* anybody stop or resume a run.
Fairness ==
    /\ WF_vars(EngineStep)
    /\ \A a \in Actors : WF_vars(SessionSettles(a))
    /\ WF_vars(Dispatching)
    /\ WF_vars(Reporting)
FairSpec == Spec /\ Fairness

-----------------------------------------------------------------------------
\* Properties

TypeOK ==
    /\ runRow \in {"running", "completed", "stopped", "superseded", "errored"}
    /\ IsMap(journal, Instances, Rows) /\ IsFiniteSet(DOMAIN journal)
    /\ engine \in {"live", "settled", "none", "down"}
    /\ pc \in [op : {"idle", "drain", "pump"}, actor : Actors, fresh : BOOLEAN]
    /\ ordinals \in [Sites -> Nat]
    /\ recordedCount \in [Actors -> Nat]
    /\ nextAdmitSeq \in [Actors -> Nat]
    /\ DOMAIN pendingRecorded = Actors
    /\ \A a \in Actors : IsMap(pendingRecorded[a], Nat, Asks)
    /\ pendingLive \in [Actors -> Seq(Asks)]
    /\ IsMap(liveNodes, Instances, Nodes)
    /\ liveQueue \in [Actors -> Seq(Instances)]
    /\ current \in [Actors -> Instances \union {NoInstance}]
    /\ activeAsks \in Nat
    /\ session \in [Actors -> {"none", "creating", "ready", "failed"}]
    /\ awaiting \subseteq Actors \X Instances
    /\ hist \in [Fibers -> Seq(Outcomes)]
    /\ toEngine \in Seq(Messages)
    /\ toChild \in Seq(Answers)
    /\ turns \subseteq Instances
    /\ IsMap(events, Instances, {"queued", "dispatched", "settled"})
    /\ told \subseteq Hashes \X Outcomes
    /\ mismatch \in BOOLEAN
    /\ lives \in 1 .. MaxLives

\* What the proofs rest on: what the scheduler holds of an ask agrees with the
\* journal.  An admitted ask has a running row of its own, an ask held for its
\* turn has the row it was recognised by, and a fresh one has none and shares
\* its instance with nobody.
BelongsTo(ask, a) == a = StepOf(ask.hash[1], ask.hash[2]).actor

RowsOfScript ==
    \A i \in DOMAIN journal : BelongsTo(journal[i], journal[i].actor)

LiveNodesRecorded ==
    \A i \in DOMAIN liveNodes :
        /\ i \in DOMAIN journal
        /\ journal[i].status = "running"
        /\ journal[i].actor = liveNodes[i].actor
        /\ journal[i].seq = liveNodes[i].seq
        /\ journal[i].hash = liveNodes[i].hash

HeldAsksRecorded ==
    \A a \in Actors : \A seq \in DOMAIN pendingRecorded[a] :
        LET ask == pendingRecorded[a][seq] IN
        /\ ask.actor = a
        /\ BelongsTo(ask, a)
        /\ ask.inst \in DOMAIN journal
        /\ journal[ask.inst].seq = seq
        /\ journal[ask.inst].hash = ask.hash

FreshAsksUnrecorded ==
    \A a \in Actors : \A n \in DOMAIN pendingLive[a] :
        LET ask == pendingLive[a][n] IN
        /\ ask.actor = a
        /\ BelongsTo(ask, a)
        /\ ask.inst \notin DOMAIN journal
        /\ ask.inst[2] <= ordinals[ask.inst[1]]

FreshAsksDistinct ==
    \A a, b \in Actors :
        \A m \in DOMAIN pendingLive[a], n \in DOMAIN pendingLive[b] :
            pendingLive[a][m].inst = pendingLive[b][n].inst => a = b /\ m = n

JournalAgrees ==
    /\ RowsOfScript
    /\ LiveNodesRecorded
    /\ HeldAsksRecorded
    /\ FreshAsksUnrecorded
    /\ FreshAsksDistinct

\* The two together: what a state of the scheduler is, and that it is the one
\* its journal tells of.
JournalSound == TypeOK /\ JournalAgrees

\* The counter that the concurrency limit is checked against is the number of
\* busy actors, and the limit holds (scheduler.ts, pumpActor/finishLiveNode).
\* activeAsks is a separate variable, incremented and decremented far apart.
BusyActors == {a \in Actors : current[a] # NoInstance}
SlotsAccounted ==
    engine = "live" => /\ activeAsks = Cardinality(BusyActors)
                       /\ activeAsks <= MaxConcurrency

\* No wake-up is lost: between handlers, an actor with queued work is busy or
\* every slot is taken, although only some handlers end in pumpAll.
WorkConserving ==
    Quiet => \/ activeAsks = MaxConcurrency
             \/ \A a \in Actors : current[a] # NoInstance \/ liveQueue[a] = <<>>

\* The driver spends tokens only on turns whose answer can still be used: a
\* turn in progress is that of a live, dispatched ask of a live engine.
NoOrphanTurns ==
    turns = {i \in DOMAIN liveNodes : liveNodes[i].dispatched}

\* An actor's rows carry the actorSeqs 0, 1, ... without gap or repetition,
\* across lives: no fresh ask takes the number of one that is recorded.
SeqsDense ==
    \A a \in Actors :
        {journal[i].seq : i \in RowsOf(a)} = 0 .. Cardinality(RowsOf(a)) - 1

\* Replay is faithful: whatever life the script is in, the same branch with
\* the same past gets the same answer to its next ask.
ReplayFaithful ==
    \A t, u \in told : t[1] = u[1] => t[2] = u[2]

\* A run that completed or was stopped leaves no node on its event log
\* queued or dispatched for ever (engine-settlement.ts, settleCompleted).
NoDanglingNodes ==
    engine = "settled" /\ runRow # "errored"
        => \A i \in DOMAIN events : events[i] = "settled"

\* The script is a function of what it has seen, so replay never finds other
\* instructions behind a row than those it recorded (engine.ts 4-5).
ReplayNeverMismatches == ~ mismatch

\* A settled row is never touched again, in this life or a later one; only a
\* running row changes, and then only its status and result.
SettledRowsFrozen ==
    [][\A i \in DOMAIN journal :
           /\ i \in DOMAIN journal'
           /\ journal[i].status # "running" => journal'[i] = journal[i]
           /\ journal'[i].seq = journal[i].seq
           /\ journal'[i].hash = journal[i].hash
           /\ journal'[i].actor = journal[i].actor]_vars

\* An actor's turns start in the order of its actorSeqs, a re-dispatched one
\* included: when one starts, all its predecessors have settled.
StartsInOrder ==
    [][\A i \in turns' \ turns :
           \A j \in DOMAIN journal :
               /\ journal[j].actor = journal[i].actor
               /\ journal[j].seq < journal[i].seq
               => journal[j].status # "running"]_vars

\* Finished work is never done twice: the driver is not given an ask whose
\* answer, good or bad, the script was told in this life or a former one.
NothingRedone ==
    [][\A i \in turns' \ turns : \A t \in told : t[1] # journal[i].hash]_vars

\* The journal as the ledger of AskLedger: what the script is told of its
\* asks, over all lives, is what a ledger would tell it that is never crashed.
Ledger == INSTANCE AskLedger WITH
    entered <- [i \in DOMAIN journal |->
                    [actor |-> journal[i].actor, seq |-> journal[i].seq,
                     hash |-> journal[i].hash]],
    settled <- [i \in {j \in DOMAIN journal : journal[j].status # "running"} |->
                    OutcomeOf(journal[i])]
ImplementsLedger == Ledger!Spec

\* Every life ends: no mixture of held, queued and suspended asks leaves a
\* live engine waiting for ever.
EveryLifeEnds == engine = "live" ~> engine # "live"

\* What a run leaves behind when it is over: neither a turn the driver still
\* spends tokens on nor an open node on the event log.
NothingLeftBehind == NoOrphanTurns /\ NoDanglingNodes

\* Replay can be relied on: the recorded asks are numbered without a gap, are
\* found under the instructions they were recorded for, and answer as before.
ReplaySound == SeqsDense /\ ReplayNeverMismatches /\ ReplayFaithful

\* The driver is given the asks of an actor in their order, and none again
\* whose answer the script was told.
AskedInOrderOnce == StartsInOrder /\ NothingRedone
=============================================================================
