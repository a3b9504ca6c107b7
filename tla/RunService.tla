----------------------------- MODULE RunService -----------------------------
(***************************************************************************)
(* The workflow run service of one session: the registry of the runs it    *)
(* owns, the four entry points (submit, amend, resume, cancel), the        *)
(* bookkeeping of settled runs and the closing of the service              *)
(* (dynamic-workflow-run-submit.ts, -lifecycle.ts, -service.ts,            *)
(* -reconcile.ts).  The service outlives neither its App nor the process:  *)
(* the next one starts from the rows of the journal alone.                 *)
(*                                                                         *)
(* What matters here is where amend and resume wait.  Everything before    *)
(* an await and everything after it is one step, and any other step can    *)
(* come between.                                                           *)
(***************************************************************************)
EXTENDS Naturals, Sequences, FiniteSets

CONSTANTS
    Runs,           \* run ids; mintRunId takes one nobody used
    NoRun,          \* the absent run id
    Callers,        \* concurrent amend or resume calls
    TerminalLimit,  \* TERMINAL_REGISTRY_LIMIT
    MaxLaunches,    \* bound: engines ever started
    MaxServices,    \* bound: services ever constructed
    Ends            \* which ends of a service an instance explores

ASSUME RunServiceAssumption ==
    /\ NoRun \notin Runs
    /\ TerminalLimit \in Nat \ {0}
    /\ MaxLaunches \in Nat
    /\ MaxServices \in Nat \ {0}
    /\ Ends \subseteq {"close", "crash"}

VARIABLES
    status,         \* dwf_run: status and stop reason; "none" before createRun
    successor,      \* dwf_run: supersededBy
    resumedFrom,    \* dwf_run: resumed_from, written once
    engines,        \* every engine started: its run, its service, how far it is
    registry,       \* runs: the engine of the entry, 0 if there is no entry
    terminalOrder,  \* settled entries, oldest first
    phase,          \* of the current service: open, closing, closed
    service,        \* number of the current service
    waiting,        \* the engines close() waits for
    calls           \* amend and resume calls held at an await

rows == <<status, successor, resumedFrom>>
vars == <<status, successor, resumedFrom, engines, registry, terminalOrder,
          phase, service, waiting, calls>>

Terminal == {"completed", "errored", "stopped", "superseded"}
EngineIds == DOMAIN engines
Idle == [at |-> "idle", run |-> NoRun, pred |-> NoRun, engine |-> 0, home |-> 0]

TypeOK ==
    /\ status \in [Runs -> Terminal \cup {"none", "running"}]
    /\ successor \in [Runs -> Runs \cup {NoRun}]
    /\ resumedFrom \in [Runs -> Runs \cup {NoRun}]
    /\ engines \in Seq([run : Runs, home : 1..MaxServices,
                        state : {"running", "ended", "tracked", "dead"}])
    /\ registry \in [Runs -> {0} \cup EngineIds]
    /\ terminalOrder \in Seq(Runs) /\ Len(terminalOrder) <= TerminalLimit
    /\ phase \in {"open", "closing", "closed"}
    /\ service \in 1..MaxServices
    /\ waiting \subseteq EngineIds
    /\ calls \in [Callers ->
           [at : {"idle", "predecessor", "importing", "rebuilding"},
            run : Runs \cup {NoRun}, pred : Runs \cup {NoRun},
            engine : {0} \cup EngineIds, home : 0..MaxServices]]

-----------------------------------------------------------------------------
(* entry.terminal === undefined: the bookkeeping of the engine has not run. *)
Live(r) == registry[r] # 0 /\ engines[registry[r]].state # "tracked"

(* (Mutant: a superseded run is resumable too.) *)
ResumableIfStopped(r) == status[r] \in {"stopped", "superseded"}

(* isResumableRecord: stopped, and not by an amendment. *)
Resumable(r) == status[r] = "stopped"

(* mintRunId: an id that no row, entry, call or successor pointer has. *)
Minted(r) ==
    /\ status[r] = "none"
    /\ \A e \in EngineIds : engines[e].run # r
    /\ \A c \in Callers : calls[c].run # r
    /\ \A p \in Runs : successor[p] # r

(* Room for one more engine, with one kept for every call that waits. *)
Room ==
    Len(engines) + Cardinality({c \in Callers : calls[c] # Idle}) < MaxLaunches

(***************************************************************************)
(* Entry, launch and registration in one synchronous slice: the engine is  *)
(* built at once and writes its row "running", or its construction throws  *)
(* and the entry is booked as errored without a row.                       *)
(***************************************************************************)
Launch(r, pred, home) ==
    \E starts \in BOOLEAN :
        /\ engines' = Append(engines,
               [run |-> r, home |-> home,
                state |-> IF starts THEN "running" ELSE "ended"])
        /\ registry' = IF home = service
                       THEN [registry EXCEPT ![r] = Len(engines) + 1]
                       ELSE registry
        /\ status' = IF starts THEN [status EXCEPT ![r] = "running"] ELSE status
        /\ successor' = IF starts THEN [successor EXCEPT ![r] = NoRun] ELSE successor
        /\ resumedFrom' = IF starts /\ pred # NoRun
                          THEN [resumedFrom EXCEPT ![r] = pred] ELSE resumedFrom

(***************************************************************************)
(* The first of an engine's ends: the row's whole settlement is rewritten. *)
(* An abort reaches engine.stop within the same slice, and does nothing to *)
(* an engine that has ended.                                               *)
(***************************************************************************)
Settle(e, outcome, by) ==
    IF engines[e].state = "running"
    THEN /\ engines' = [engines EXCEPT ![e].state = "ended"]
         /\ status' = [status EXCEPT ![engines[e].run] = outcome]
         /\ successor' = [successor EXCEPT ![engines[e].run] = by]
    ELSE UNCHANGED <<engines, status, successor>>

-----------------------------------------------------------------------------
Init ==
    /\ status = [r \in Runs |-> "none"]
    /\ successor = [r \in Runs |-> NoRun]
    /\ resumedFrom = [r \in Runs |-> NoRun]
    /\ engines = <<>>
    /\ registry = [r \in Runs |-> 0]
    /\ terminalOrder = <<>>
    /\ phase = "open"
    /\ service = 1
    /\ waiting = {}
    /\ calls = [c \in Callers |-> Idle]

(* submit: no await between the gate and the launch. *)
Submit(r) ==
    /\ phase = "open" /\ Room /\ Minted(r)
    /\ Launch(r, NoRun, service)
    /\ UNCHANGED <<terminalOrder, phase, service, waiting, calls>>

(***************************************************************************)
(* amend of a run in flight: mint, stop the predecessor with the successor *)
(* as the reason, and wait for its settlement.                             *)
(***************************************************************************)
AmendLive(c, p, r) ==
    /\ phase = "open" /\ Room /\ calls[c] = Idle
    /\ status[p] # "none" /\ Minted(r) /\ Live(p)
    /\ Settle(registry[p], "superseded", r)
    /\ calls' = [calls EXCEPT ![c] = [at |-> "predecessor", run |-> r, pred |-> p,
                                      engine |-> registry[p], home |-> service]]
    /\ UNCHANGED <<resumedFrom, registry, terminalOrder, phase, service, waiting>>

(* amend of a run that is not in flight here: its row must be terminal. *)
AmendSettled(c, p, r) ==
    /\ phase = "open" /\ Room /\ calls[c] = Idle
    /\ status[p] \in Terminal /\ Minted(r) /\ ~Live(p)
    /\ calls' = [calls EXCEPT ![c] = [at |-> "importing", run |-> r, pred |-> p,
                                      engine |-> 0, home |-> service]]
    /\ UNCHANGED <<rows, engines, registry, terminalOrder, phase, service, waiting>>

(* The predecessor's settlement resolves; the import looks at its row again. *)
AmendPredecessorSettled(c) ==
    /\ calls[c].at = "predecessor"
    /\ engines[calls[c].engine].state = "tracked"
    /\ calls' = [calls EXCEPT ![c] =
           IF status[@.pred] \in Terminal
           THEN [@ EXCEPT !.at = "importing", !.engine = 0]
           ELSE Idle]
    /\ UNCHANGED <<rows, engines, registry, terminalOrder, phase, service, waiting>>

(* The cache is built: startNewRun, in the service the call came in by. *)
StartAmended(c) ==
    /\ calls[c].at = "importing"
    /\ Launch(calls[c].run, calls[c].pred, calls[c].home)
    /\ calls' = [calls EXCEPT ![c] = Idle]
    /\ UNCHANGED <<terminalOrder, phase, service, waiting>>

(* The import fails after the preflight passed: amend throws. *)
ImportRefused(c) ==
    /\ calls[c].at = "importing"
    /\ calls' = [calls EXCEPT ![c] = Idle]
    /\ UNCHANGED <<rows, engines, registry, terminalOrder, phase, service, waiting>>

(* resume of a run that is no amendment: no await before the launch. *)
Resume(r) ==
    /\ phase = "open" /\ Room
    /\ Resumable(r) /\ ~Live(r) /\ resumedFrom[r] = NoRun
    /\ Launch(r, NoRun, service)
    /\ UNCHANGED <<terminalOrder, phase, service, waiting, calls>>

(* resume of an amendment: it first rebuilds the imported cache. *)
ResumeAmended(c, r) ==
    /\ phase = "open" /\ Room /\ calls[c] = Idle
    /\ Resumable(r) /\ ~Live(r) /\ resumedFrom[r] # NoRun
    /\ calls' = [calls EXCEPT ![c] = [at |-> "rebuilding", run |-> r,
                                      pred |-> resumedFrom[r],
                                      engine |-> 0, home |-> service]]
    /\ UNCHANGED <<rows, engines, registry, terminalOrder, phase, service, waiting>>

(* The cache is rebuilt, or was refused: the entry is replaced, the run starts. *)
ResumeRebuilt(c) ==
    /\ calls[c].at = "rebuilding"
    /\ Launch(calls[c].run, NoRun, calls[c].home)
    /\ calls' = [calls EXCEPT ![c] = Idle]
    /\ UNCHANGED <<terminalOrder, phase, service, waiting>>

Cancel(r) ==
    /\ Live(r) /\ engines[registry[r]].state = "running"
    /\ Settle(registry[r], "stopped", NoRun)
    /\ UNCHANGED <<resumedFrom, registry, terminalOrder, phase, service, waiting, calls>>

-----------------------------------------------------------------------------
(* An engine settles on its own: complete, fail, or a fault of its host. *)
EngineEnds(e) ==
    /\ engines[e].state = "running"
    /\ \E outcome \in {"completed", "errored", "stopped"} : Settle(e, outcome, NoRun)
    /\ UNCHANGED <<resumedFrom, registry, terminalOrder, phase, service, waiting, calls>>

(***************************************************************************)
(* trackSettlement and rememberTerminal: the entry becomes terminal, and   *)
(* the oldest settled entry over the limit goes, unless it is live again.  *)
(* An engine of an earlier service books into a registry nobody reads.     *)
(***************************************************************************)
Tracked(e) ==
    /\ engines[e].state = "ended"
    /\ engines' = [engines EXCEPT ![e].state = "tracked"]
    /\ IF engines[e].home # service THEN UNCHANGED <<registry, terminalOrder>>
       ELSE LET order == Append(terminalOrder, engines[e].run)
                oldest == Head(order)
            IN  IF Len(order) <= TerminalLimit
                THEN terminalOrder' = order /\ UNCHANGED registry
                ELSE /\ terminalOrder' = Tail(order)
                     /\ registry' = IF registry[oldest] # 0
                                       /\ engines'[registry[oldest]].state = "tracked"
                                    THEN [registry EXCEPT ![oldest] = 0]
                                    ELSE registry
    /\ UNCHANGED <<rows, phase, service, waiting, calls>>

-----------------------------------------------------------------------------
LiveEngines == {registry[r] : r \in {q \in Runs : Live(q)}}

(* (Mutant: close waits for its runs and does not stop them.) *)
CloseWithoutStop ==
    /\ "close" \in Ends /\ phase = "open" /\ service < MaxServices
    /\ phase' = "closing"
    /\ waiting' = LiveEngines
    /\ UNCHANGED <<rows, engines, registry, terminalOrder, service, calls>>

(* close: the gate shuts and every live entry is aborted in the same slice. *)
Close ==
    /\ "close" \in Ends /\ phase = "open" /\ service < MaxServices
    /\ phase' = "closing"
    /\ waiting' = LiveEngines
    /\ LET stopped == {e \in LiveEngines : engines[e].state = "running"}
           halted == {engines[e].run : e \in stopped}
       IN  /\ engines' = [e \in EngineIds |->
                 IF e \in stopped THEN [engines[e] EXCEPT !.state = "ended"]
                 ELSE engines[e]]
           /\ status' = [r \in Runs |-> IF r \in halted THEN "stopped" ELSE status[r]]
           /\ successor' = [r \in Runs |-> IF r \in halted THEN NoRun ELSE successor[r]]
    /\ UNCHANGED <<resumedFrom, registry, terminalOrder, service, calls>>

Closed ==
    /\ phase = "closing"
    /\ \A e \in waiting : engines[e].state = "tracked"
    /\ phase' = "closed"
    /\ waiting' = {}
    /\ UNCHANGED <<rows, engines, registry, terminalOrder, service, calls>>

(* The process dies: engines, registry and calls are gone, the rows stay. *)
Crash ==
    /\ "crash" \in Ends /\ service < MaxServices
    /\ phase' = "closed"
    /\ engines' = [e \in EngineIds |->
           IF engines[e].state = "tracked" THEN engines[e]
           ELSE [engines[e] EXCEPT !.state = "dead"]]
    /\ registry' = [r \in Runs |-> 0]
    /\ terminalOrder' = <<>>
    /\ waiting' = {}
    /\ calls' = [c \in Callers |-> Idle]
    /\ UNCHANGED <<rows, service>>

(* (Mutant: the rows of the last process are left as they are.) *)
ReopenWithoutSweep ==
    /\ phase = "closed" /\ service < MaxServices
    /\ phase' = "open"
    /\ service' = service + 1
    /\ registry' = [r \in Runs |-> 0]
    /\ terminalOrder' = <<>>
    /\ UNCHANGED <<rows, engines, waiting, calls>>

(* A new service: reconcileOrphanRuns marks the rows nobody runs. *)
Reopen ==
    /\ phase = "closed" /\ service < MaxServices
    /\ phase' = "open"
    /\ service' = service + 1
    /\ registry' = [r \in Runs |-> 0]
    /\ terminalOrder' = <<>>
    /\ status' = [r \in Runs |-> IF status[r] = "running" THEN "stopped" ELSE status[r]]
    /\ UNCHANGED <<successor, resumedFrom, engines, waiting, calls>>

Next ==
    \/ \E r \in Runs : Submit(r) \/ Resume(r) \/ Cancel(r)
    \/ \E c \in Callers, p, r \in Runs : AmendLive(c, p, r) \/ AmendSettled(c, p, r)
    \/ \E c \in Callers, r \in Runs : ResumeAmended(c, r)
    \/ \E c \in Callers : \/ AmendPredecessorSettled(c) \/ StartAmended(c)
                          \/ ImportRefused(c) \/ ResumeRebuilt(c)
    \/ \E e \in EngineIds : EngineEnds(e) \/ Tracked(e)
    \/ Close \/ Closed \/ Crash \/ Reopen

Spec == Init /\ [][Next]_vars

(* What the event loop owes: settlements are booked, reads return. *)
Fairness ==
    /\ \A e \in 1..MaxLaunches : WF_vars(e \in EngineIds /\ Tracked(e))
    /\ \A c \in Callers :
           /\ WF_vars(AmendPredecessorSettled(c))
           /\ WF_vars(StartAmended(c) \/ ImportRefused(c))
           /\ WF_vars(ResumeRebuilt(c))
    /\ WF_vars(Closed)

LiveSpec == Spec /\ Fairness

-----------------------------------------------------------------------------
(***************************************************************************)
(* Every engine that runs belongs to the open service and is the one its   *)
(* registry has for that run, so that it can be cancelled, awaited and     *)
(* closed: invariant 7 of the service, and the same-slice flag of close(). *)
(***************************************************************************)
OwnedEngines ==
    \A e \in EngineIds : engines[e].state = "running" =>
        /\ phase # "closed"
        /\ engines[e].home = service
        /\ registry[engines[e].run] = e

(***************************************************************************)
(* No run is executed by two engines at once: resume refuses a run that is *)
(* in flight in this process (already_running).                            *)
(***************************************************************************)
OneEnginePerRun ==
    \A d, e \in EngineIds :
        /\ engines[d].state = "running" /\ engines[e].state = "running"
        /\ engines[d].run = engines[e].run
        => d = e

(***************************************************************************)
(* While a service is open or closing, a row says "running" only if some   *)
(* engine runs it, whatever a crash left behind (reconcileOrphanRuns).     *)
(***************************************************************************)
NoZombieRows ==
    phase # "closed" =>
        \A r \in Runs : status[r] = "running" =>
            \E e \in EngineIds : engines[e].run = r /\ engines[e].state = "running"

(***************************************************************************)
(* Within a service, the entry of a run in flight is never taken out of    *)
(* the registry, however often the run settled and was resumed before      *)
(* (rememberTerminal).                                                     *)
(***************************************************************************)
LiveRunsStayRegistered ==
    [][\A r \in Runs :
           /\ phase' # "closed" /\ service' = service
           /\ Live(r) /\ engines'[registry[r]].state # "tracked"
           => registry'[r] # 0]_vars

(***************************************************************************)
(* A run stopped for its amendment stays so: it is not resumed, and its    *)
(* row keeps the successor (isResumableRecord), unless a call that passed  *)
(* the test earlier still rebuilds its cache, or an engine that close left *)
(* behind still runs it.                                                   *)
(***************************************************************************)
SupersededFinal ==
    [][\A r \in Runs :
           /\ status[r] = "superseded"
           /\ \A e \in EngineIds : engines[e].run = r => engines[e].state # "running"
           /\ \A c \in Callers : calls[c].at = "rebuilding" => calls[c].run # r
           => status'[r] = "superseded" /\ successor'[r] = successor[r]]_vars

(***************************************************************************)
(* What the service knows of a run stands: a live run keeps its entry, a   *)
(* superseded one its row.                                                 *)
(***************************************************************************)
RecordsStand == LiveRunsStayRegistered /\ SupersededFinal

(***************************************************************************)
(* superseded_by and resumed_from are the two ends of one edge: the run a  *)
(* superseded row points at exists and points back, unless the call that   *)
(* creates it is still under way.                                          *)
(***************************************************************************)
LineageHasTwoEnds ==
    \A p \in Runs : successor[p] # NoRun =>
        \/ resumedFrom[successor[p]] = p
        \/ \E c \in Callers : calls[c].run = successor[p]

(***************************************************************************)
(* The registry keeps the last TerminalLimit settlements: every run among  *)
(* them still has its entry.                                               *)
(***************************************************************************)
RecentTerminalsKept ==
    \A i \in DOMAIN terminalOrder : registry[terminalOrder[i]] # 0

(* close() returns: it stops what it waits for and sets no timer. *)
CloseFinishes == (phase = "closing") ~> (phase = "closed")

(* Every amend and every resume returns, whoever cancels, closes or crashes. *)
CallsReturn == \A c \in Callers : (calls[c] # Idle) ~> (calls[c] = Idle)

(***************************************************************************)
(* The service answers: every amend and resume that waits returns, and so  *)
(* does close.                                                             *)
(***************************************************************************)
ServiceAnswers == CallsReturn /\ CloseFinishes

(***************************************************************************)
(* The state of the service in each of its parts, and the rows that no     *)
(* engine stands behind.                                                   *)
(***************************************************************************)
RowsBacked == TypeOK /\ NoZombieRows
=============================================================================
