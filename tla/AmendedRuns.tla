------------------------------ MODULE AmendedRuns ------------------------------
(***************************************************************************)
(* A chain of workflow runs, each an amendment of the one before: what a   *)
(* run imports of its predecessor's journal, how far each subagent follows *)
(* that import before it departs from it, and how the transcript of a      *)
(* departed subagent is rebuilt by copying a prefix of an ancestor's.      *)
(*                                                                         *)
(* The scheduler's own rules (slots, hold rule, budgets) are AskScheduler; *)
(* here the asks of one subagent run in the order of the script.  An       *)
(* answer is named by the run and the call that first produced it, so a    *)
(* transcript can be compared with the answers the journal gives.          *)
(***************************************************************************)
EXTENDS Integers, Sequences, FiniteSets, FiniteSetsExt, SequencesExt

CONSTANTS
    Actors,           \* the named subagents of every run
    Hashes,           \* input hashes of asks and world commands
    NoActor,          \* the actor of a world call
    Plans,            \* what the scripts of a chain may do, and what befalls it
    MaxLives          \* bound: lives of the process

Call == [op : {"ask", "read", "run"}, who : Actors \union {NoActor},
         hash : Hashes, typed : BOOLEAN, joins : BOOLEAN,
         tools : SUBSET {"look", "write"}]

ASSUME ChainAssumption ==
    /\ NoActor \notin Actors
    /\ MaxLives \in Nat
    /\ \A p \in Plans :
           /\ p.scripts \in Seq(Seq(Call)) /\ p.scripts # <<>>
           /\ \A r \in DOMAIN p.scripts : \A i \in DOMAIN p.scripts[r] :
                  (p.scripts[r][i].op = "ask") <=> (p.scripts[r][i].who # NoActor)
           /\ p.crashes \subseteq DOMAIN p.scripts
           /\ p.torn \in BOOLEAN

NoRun == 0
NoCall == 0
NoBoundary == 0
NoAnswer == <<NoRun, NoCall>>

VARIABLES
    plan,             \* the plan of this chain, fixed at the start
    \* durable: rows, actor rows, transcripts and the two events resume reads
    journal,          \* journal[r]: the rows of run r, by call
    sessionRow,       \* actors of a run whose row names a session
    transcript,       \* transcript[r][a]: messages of a's session in run r
    queuedEvents,     \* asks of a run that have a node-queued event
    closedEvent,      \* runs with an import-cache-closed event
    \* the engine of the present run
    run, engine,      \* its number; "live", "over" or, process dead, "down"
    issued, answered, \* calls made and answered in this life
    cache,            \* the injected import
    shut,             \* importClosed
    wasLive,          \* liveAskInstances
    cursor,           \* ImportedActorState per subagent
    used,             \* ImportedWorldQueue cursors
    queue, current,   \* per subagent: asks admitted, the one it is busy with
    worldBusy,        \* world commands under way
    \* the drivers of all runs of this process
    session,          \* session[r][a]: session promise, and the copy it began with
    turns,            \* turns[r][a]: the runtime's queue of turns, head running
    asked,            \* currentInstance
    counted,          \* whether the tool counter is above zero
    \* observation
    dirty,            \* the workspace was changed by this run
    touched,          \* answers whose exchange looked at the workspace
    stale,            \* an import was used that the change had made invalid
    split,            \* split[r][a]: actorSeq at which a first departed
    executed,         \* executed[r]: how often each world command ran
    lives

durable == <<journal, sessionRow, transcript, queuedEvents, closedEvent>>
imports == <<cache, shut, wasLive, cursor, used>>
working == <<queue, current, worldBusy>>
driver == <<session, turns, asked, counted>>
ghosts == <<dirty, touched, stale, split, executed, lives>>
progress == <<run, engine, issued, answered>>
vars == <<plan, durable, progress, imports, working, driver, ghosts>>

Scripts == plan.scripts         \* Scripts[r]: the calls of run r, in order
Persona == plan.persona         \* Persona[r][a]: the persona run r gives a
Runs == DOMAIN Scripts
Calls(r) == DOMAIN Scripts[r]
Answers == {NoAnswer} \union (Runs \X Nat)

-----------------------------------------------------------------------------
\* Rows

Put(f, x, v) == [y \in DOMAIN f \union {x} |-> IF y = x THEN v ELSE f[y]]

Row(status, answer, boundary, pure) ==
    [status |-> status, answer |-> answer, boundary |-> boundary, pure |-> pure]
Running == Row("running", NoAnswer, NoBoundary, FALSE)
FailedRow == Row("failed", NoAnswer, NoBoundary, FALSE)

Recorded(r, i) == i \in DOMAIN journal[r]
Completed(r, i) == Recorded(r, i) /\ journal[r][i].status = "completed"

\* The numbers of a finite set, in increasing order.
InOrder(S) == [n \in 1 .. Cardinality(S) |->
                  CHOOSE i \in S : Cardinality({j \in S : j <= i}) = n]

AsksOf(r, a) == InOrder({i \in Calls(r) : Scripts[r][i].who = a})
ActorSeq(r, i) ==
    Cardinality({j \in Calls(r) : j < i /\ Scripts[r][j].who = Scripts[r][i].who})

-----------------------------------------------------------------------------
\* What a run offers to the one that amends it

CompletedAskPrefix(r, a) ==
    LET asks == AsksOf(r, a)
        whole == {n \in 0 .. Len(asks) : \A k \in 1 .. n : Completed(r, asks[k])}
        Entry(k) == [hash |-> Scripts[r][asks[k]].hash,
                     answer |-> journal[r][asks[k]].answer,
                     boundary |-> journal[r][asks[k]].boundary,
                     pure |-> journal[r][asks[k]].pure]
    IN  [k \in 1 .. Max(whole) |-> Entry(k)]

\* (Mutant: the first run of the chain that had a session is taken.)
OldestSource(r, a) ==
    LET held == {q \in 1 .. r : a \in sessionRow[q]}
    IN  IF held = {} THEN NoRun ELSE Min(held)
TranscriptSource(r, a) == Max({NoRun} \union {q \in 1 .. r : a \in sessionRow[q]})

HonorsBoundary(r, a) ==
    LET entries == CompletedAskPrefix(r, a)
        source == TranscriptSource(r, a)
    IN  /\ entries # <<>>
        /\ source # NoRun
        /\ Len(transcript[source][a]) >= Last(entries).boundary

CandidateEntries(r, a) ==
    IF HonorsBoundary(r, a) THEN CompletedAskPrefix(r, a) ELSE <<>>

WorldQueue(r, h) ==
    LET rows == {i \in Calls(r) : /\ Scripts[r][i].op # "ask"
                                  /\ Scripts[r][i].hash = h
                                  /\ Completed(r, i)}
        order == InOrder(rows)
    IN  [n \in DOMAIN order |-> journal[r][order[n]].answer]

CompletedAsksHaveBoundaries(r) ==
    \A i \in Calls(r) :
        Scripts[r][i].op = "ask" /\ Completed(r, i) =>
            journal[r][i].boundary # NoBoundary

MatchedActor(r, a) == Persona[r][a] = Persona[r - 1][a]

CacheFor(r) ==
    IF r = 1 THEN [entries |-> [a \in Actors |-> <<>>],
                   source |-> [a \in Actors |-> NoRun],
                   world |-> [h \in Hashes |-> <<>>]]
    ELSE [entries |-> [a \in Actors |->
                          IF MatchedActor(r, a) THEN CandidateEntries(r - 1, a)
                          ELSE <<>>],
          source |-> [a \in Actors |-> TranscriptSource(r - 1, a)],
          world |-> [h \in Hashes |-> WorldQueue(r - 1, h)]]

-----------------------------------------------------------------------------
\* How far a subagent follows the import

Usable(entry, h) == entry.hash = h /\ (shut => entry.pure)

EntryAt(a, seq) == cache.entries[a][seq + 1]
HasEntry(a, seq) == seq < Len(cache.entries[a])
Follows(a, seq, h) ==
    ~ cursor[a].diverged /\ HasEntry(a, seq) /\ Usable(EntryAt(a, seq), h)

Diverge(a) == [cursor EXCEPT ![a].diverged = TRUE]
Consume(a, seq) == [cursor EXCEPT ![a].consumed = Max({@, seq + 1})]

\* (Mutant: what ran live is recognised by its hash alone.)
ReconciledByHash(a, seq, h, live) ==
    IF cursor[a].diverged THEN cursor
    ELSE IF HasEntry(a, seq) /\ EntryAt(a, seq).hash = h THEN Consume(a, seq)
    ELSE Diverge(a)
ReconcileRecorded(a, seq, h, live) ==
    IF cursor[a].diverged THEN cursor
    ELSE IF ~ live /\ HasEntry(a, seq) /\ EntryAt(a, seq).hash = h
    THEN Consume(a, seq)
    ELSE Diverge(a)

NoSeed == [source |-> NoRun, length |-> 0]
\* (Mutant: the copy reaches one exchange too far.)
SeedOneFurther(a) ==
    LET n == cursor[a].consumed
        last == IF n < Len(cache.entries[a]) THEN n + 1 ELSE n
    IN  IF n = 0 THEN NoSeed
        ELSE [source |-> cache.source[a], length |-> cache.entries[a][last].boundary]
Seed(a) ==
    LET n == cursor[a].consumed IN
    IF n = 0 THEN NoSeed
    ELSE [source |-> cache.source[a], length |-> cache.entries[a][n].boundary]

NoteSplit(a, seq, cursorNext) ==
    IF cursorNext[a].diverged /\ split[run][a] = -1
    THEN [split EXCEPT ![run][a] = seq] ELSE split

-----------------------------------------------------------------------------
\* Engines come and go

FreshCursor == [consumed |-> 0, diverged |-> FALSE]
Unopened == [state |-> "none", seed |-> NoSeed, copied |-> 0]
PerActor(x) == [a \in Actors |-> x]
PerRun(x) == [r \in Runs |-> PerActor(x)]

EngineState(r) ==
    /\ issued' = 0 /\ answered' = {}
    /\ cache' = CacheFor(r)
    /\ cursor' = PerActor(FreshCursor)
    /\ used' = [h \in Hashes |-> 0]
    /\ queue' = PerActor(<<>>)
    /\ current' = PerActor(NoCall)
    /\ worldBusy' = {}

Init ==
    /\ plan \in Plans
    /\ journal = [r \in Runs |-> <<>>]
    /\ sessionRow = [r \in Runs |-> {}]
    /\ transcript = PerRun(<<>>)
    /\ queuedEvents = [r \in Runs |-> {}]
    /\ closedEvent = {}
    /\ run = 1 /\ engine = "live"
    /\ issued = 0 /\ answered = {}
    /\ cache = CacheFor(1)
    /\ shut = FALSE /\ wasLive = {}
    /\ cursor = PerActor(FreshCursor)
    /\ used = [h \in Hashes |-> 0]
    /\ queue = PerActor(<<>>)
    /\ current = PerActor(NoCall)
    /\ worldBusy = {}
    /\ session = PerRun(Unopened)
    /\ turns = PerRun(<<>>)
    /\ asked = PerRun(NoCall)
    /\ counted = PerRun(FALSE)
    /\ dirty = FALSE /\ touched = {} /\ stale = FALSE
    /\ split = PerRun(-1)
    /\ executed = [r \in Runs |-> [i \in Calls(r) |-> 0]]
    /\ lives = 1

\* The script has its answers, or the run is stopped.  The turn of a settled
\* ask runs on, and so does a copy under way; the other turns are cancelled and
\* the driver's tables emptied.
RunEnds ==
    /\ engine = "live"
    /\ engine' = "over"
    /\ turns' = [turns EXCEPT ![run] = [a \in Actors |->
                    IF @[a] # <<>> /\ Head(@[a]).accepted THEN <<Head(@[a])>>
                    ELSE <<>>]]
    /\ asked' = [asked EXCEPT ![run] = [a \in Actors |->
                    IF turns'[run][a] = <<>> THEN NoCall ELSE @[a]]]
    /\ counted' = [counted EXCEPT ![run] = [a \in Actors |->
                    turns'[run][a] # <<>> /\ @[a]]]
    /\ session' = [session EXCEPT ![run] = [a \in Actors |->
                    IF @[a].state = "open" THEN Unopened ELSE @[a]]]
    /\ EngineState(1)
    /\ shut' = FALSE /\ wasLive' = {}
    /\ UNCHANGED <<durable, run, ghosts>>

Amend ==
    /\ engine = "over"
    /\ run + 1 \in Runs
    /\ CompletedAsksHaveBoundaries(run)
    /\ run' = run + 1
    /\ engine' = "live"
    /\ EngineState(run + 1)
    /\ dirty' = FALSE
    /\ UNCHANGED <<durable, shut, wasLive, driver,
                   touched, stale, split, executed, lives>>

ProcessDies ==
    /\ lives < MaxLives
    /\ run \in plan.crashes
    /\ lives' = lives + 1
    /\ engine' = IF engine = "live" THEN "down" ELSE engine
    /\ EngineState(1)
    /\ shut' = FALSE /\ wasLive' = {}
    /\ session' = PerRun(Unopened)
    /\ turns' = PerRun(<<>>)
    /\ asked' = PerRun(NoCall)
    /\ counted' = PerRun(FALSE)
    /\ UNCHANGED <<run, dirty, touched, stale, split, executed>>

Crash == engine # "down" /\ ProcessDies /\ UNCHANGED durable

WasClosed(r) == r \in closedEvent
Resume ==
    /\ engine = "down"
    /\ engine' = "live"
    /\ EngineState(run)
    /\ shut' = (run > 1 /\ WasClosed(run))
    /\ wasLive' = IF run = 1 THEN {} ELSE queuedEvents[run]
    /\ UNCHANGED <<durable, run, driver, ghosts>>

-----------------------------------------------------------------------------
\* Asks

NextCall == Scripts[run][issued + 1]
MayCall(op) ==
    /\ engine = "live"
    /\ issued + 1 \in Calls(run)
    /\ NextCall.op \in op
    /\ NextCall.joins => answered = 1 .. issued

Answered(i) == issued' = i /\ answered' = answered \union {i}
Pending(i) == issued' = i /\ UNCHANGED answered

\* pumpActor: an idle subagent takes the oldest ask admitted.
Pump(a, waiting) ==
    IF current[a] = NoCall
    THEN /\ current' = [current EXCEPT ![a] = Head(waiting)]
         /\ queue' = [queue EXCEPT ![a] = Tail(waiting)]
    ELSE /\ queue' = [queue EXCEPT ![a] = waiting]
         /\ UNCHANGED current

SetRow(i, row) == journal' = [journal EXCEPT ![run] = Put(@, i, row)]

AdmitLive(i, a) ==
    /\ SetRow(i, Running)
    /\ queuedEvents' = [queuedEvents EXCEPT ![run] = @ \union {i}]
    /\ Pump(a, Append(queue[a], i))
    /\ Pending(i)

AskReplayed ==
    LET i == issued + 1
        a == NextCall.who
        seq == ActorSeq(run, i)
        next == ReconcileRecorded(a, seq, NextCall.hash, i \in wasLive)
    IN  /\ MayCall({"ask"})
        /\ Recorded(run, i)
        /\ cursor' = next
        /\ split' = NoteSplit(a, seq, next)
        /\ IF journal[run][i].status = "running"
           THEN AdmitLive(i, a)
           ELSE Answered(i) /\ UNCHANGED <<journal, queuedEvents, queue, current>>
        /\ UNCHANGED <<sessionRow, transcript, closedEvent, run, engine, cache,
                       shut, wasLive, used, worldBusy, driver, dirty, touched,
                       stale, executed, lives>>

TryImportedSettle ==
    LET i == issued + 1
        a == NextCall.who
        seq == ActorSeq(run, i)
        entry == EntryAt(a, seq)
    IN  /\ MayCall({"ask"})
        /\ ~ Recorded(run, i)
        /\ Follows(a, seq, NextCall.hash)
        /\ cursor' = Consume(a, seq)
        /\ SetRow(i, Row("completed", entry.answer, entry.boundary, entry.pure))
        /\ stale' = (stale \/ (dirty /\ entry.answer \in touched))
        /\ Answered(i)
        /\ UNCHANGED <<sessionRow, transcript, queuedEvents, closedEvent, run,
                       engine, cache, shut, wasLive, used, working, driver,
                       dirty, touched, split, executed, lives>>

MissesImport ==
    LET i == issued + 1 IN
    /\ MayCall({"ask"})
    /\ ~ Recorded(run, i)
    /\ ~ Follows(NextCall.who, ActorSeq(run, i), NextCall.hash)

AskLive ==
    LET a == NextCall.who IN
    /\ MissesImport
    /\ cursor' = Diverge(a)
    /\ split' = NoteSplit(a, ActorSeq(run, issued + 1), Diverge(a))
    /\ AdmitLive(issued + 1, a)
    /\ UNCHANGED <<sessionRow, transcript, closedEvent, run, engine, cache, shut,
                   wasLive, used, worldBusy, driver, dirty, touched, stale,
                   executed, lives>>

\* The row of a live ask is written and the event that marks it live is not.
CrashInAdmission ==
    /\ plan.torn
    /\ MissesImport
    /\ SetRow(issued + 1, Running)
    /\ ProcessDies
    /\ UNCHANGED <<sessionRow, transcript, queuedEvents, closedEvent>>

-----------------------------------------------------------------------------
\* Sessions and turns

Busy(a) == engine = "live" /\ current[a] # NoCall
SetSession(r, a, value) == session' = [session EXCEPT ![r][a] = value]

\* ensureSession: the copy is decided on the subagent's first dispatch.
OpenSession(a) ==
    /\ Busy(a)
    /\ session[run][a].state = "none"
    /\ SetSession(run, a, [state |-> "seeding", seed |-> Seed(a), copied |-> 0])
    /\ UNCHANGED <<durable, progress, imports, working, turns, asked, counted,
                   ghosts>>

\* The id of a copied message is made of the session and the index.
CopyInPlace(target, k, message) ==
    IF k <= Len(target) THEN [target EXCEPT ![k] = message]
    ELSE Append(target, message)

Copying(r, a) ==
    LET s == session[r][a] IN
    /\ s.state = "seeding"
    /\ s.copied < s.seed.length
    /\ s.copied > 0 \/ Len(transcript[r][a]) < s.seed.length

SeedMessage(r, a) ==
    LET s == session[r][a]
        k == s.copied + 1
    IN  /\ Copying(r, a)
        /\ transcript' = [transcript EXCEPT ![r][a] =
               CopyInPlace(@, k, transcript[s.seed.source][a][k])]
        /\ SetSession(r, a, [s EXCEPT !.copied = k])
        /\ UNCHANGED <<journal, sessionRow, queuedEvents, closedEvent, progress,
                       imports, working, turns, asked, counted, ghosts>>

SessionOpens(r, a) ==
    /\ session[r][a].state = "seeding"
    /\ ~ Copying(r, a)
    /\ SetSession(r, a, [state |-> "open", seed |-> NoSeed, copied |-> 0])
    /\ sessionRow' = [sessionRow EXCEPT ![r] = @ \union {a}]
    /\ UNCHANGED <<journal, transcript, queuedEvents, closedEvent, progress,
                   imports, working, turns, asked, counted, ghosts>>

Turn(i) == [call |-> i, begun |-> FALSE, accepted |-> FALSE]

StartAsk(a) ==
    /\ Busy(a)
    /\ session[run][a].state = "open"
    /\ asked[run][a] # current[a]
    /\ asked' = [asked EXCEPT ![run][a] = current[a]]
    /\ counted' = [counted EXCEPT ![run][a] = FALSE]
    /\ turns' = [turns EXCEPT ![run][a] = Append(@, Turn(current[a]))]
    /\ UNCHANGED <<durable, progress, imports, working, session, ghosts>>

Message(r, i) == <<r, i>>
Says(r, a, i) == [transcript EXCEPT ![r][a] = Append(@, Message(r, i))]

TurnBegins(a) ==
    LET t == turns[run][a] IN
    /\ engine = "live"
    /\ t # <<>> /\ ~ Head(t).begun
    /\ transcript' = Says(run, a, Head(t).call)
    /\ turns' = [turns EXCEPT ![run][a][1].begun = TRUE]
    /\ UNCHANGED <<journal, sessionRow, queuedEvents, closedEvent, progress,
                   imports, working, session, asked, counted, ghosts>>

InTurn(a) ==
    /\ engine = "live"
    /\ turns[run][a] # <<>>
    /\ Head(turns[run][a]).begun
    /\ ~ Head(turns[run][a]).accepted
TurnCall(a) == Head(turns[run][a]).call

KeepImportCache == UNCHANGED <<shut, closedEvent>>
\* (Mutant: the event that a resume would find is left out.)
CloseWithoutEvent == shut' = TRUE /\ UNCHANGED closedEvent
CloseImportCache ==
    /\ shut' = TRUE
    /\ closedEvent' = IF shut \/ run = 1 THEN closedEvent
                      ELSE closedEvent \union {run}

ReadsWorkspace(a) ==
    /\ InTurn(a)
    /\ "look" \in Scripts[run][TurnCall(a)].tools
    /\ ~ counted[run][a]
    /\ counted' = [counted EXCEPT ![run][a] = TRUE]
    /\ touched' = touched \union {<<run, TurnCall(a)>>}
    /\ UNCHANGED <<durable, progress, imports, working, session, turns, asked,
                   dirty, stale, split, executed, lives>>

WritesWorkspace(a) ==
    /\ InTurn(a)
    /\ "write" \in Scripts[run][TurnCall(a)].tools
    /\ ~ (counted[run][a] /\ dirty /\ shut)
    /\ CloseImportCache
    /\ counted' = [counted EXCEPT ![run][a] = TRUE]
    /\ touched' = touched \union {<<run, TurnCall(a)>>}
    /\ dirty' = TRUE
    /\ UNCHANGED <<journal, sessionRow, transcript, queuedEvents, progress, cache,
                   wasLive, cursor, used, working, session, turns, asked,
                   stale, split, executed, lives>>

\* settleOk, settleFailed: the row, the answer, and the subagent's next ask.
Settle(i, a, row) ==
    /\ SetRow(i, row)
    /\ answered' = answered \union {i}
    /\ current' = [current EXCEPT ![a] = IF queue[a] = <<>> THEN NoCall
                                         ELSE Head(queue[a])]
    /\ queue' = [queue EXCEPT ![a] = IF @ = <<>> THEN @ ELSE Tail(@)]

SubmitAccepted(a) ==
    LET i == TurnCall(a) IN
    /\ InTurn(a)
    /\ Scripts[run][i].typed
    /\ transcript' = Says(run, a, i)
    /\ Settle(i, a, Row("completed", <<run, i>>, NoBoundary, FALSE))
    /\ turns' = [turns EXCEPT ![run][a][1].accepted = TRUE]
    /\ UNCHANGED <<sessionRow, queuedEvents, closedEvent, run, engine, issued,
                   imports, worldBusy, session, asked, counted, ghosts>>

StillAsked(r, a, i) == asked[r][a] = i

\* The tail of a turn whose answer was accepted: its statistics and, if the
\* session is still at this ask, its length are added to the settled row.
AcceptedTurnEnds(r, a) ==
    LET i == Head(turns[r][a]).call
        length == Len(transcript[r][a]) + 1
    IN  /\ turns[r][a] # <<>>
        /\ Head(turns[r][a]).accepted
        /\ transcript' = Says(r, a, i)
        /\ journal' = [journal EXCEPT ![r][i].pure = ~ counted[r][a],
               ![r][i].boundary = IF StillAsked(r, a, i) THEN length ELSE @]
        /\ turns' = [turns EXCEPT ![r][a] = Tail(@)]
        /\ UNCHANGED <<sessionRow, queuedEvents, closedEvent, progress, imports,
                       working, session, asked, counted, ghosts>>

\* The final text of an untyped ask is its answer.
UntypedTurnEnds(a) ==
    LET i == TurnCall(a)
        length == Len(transcript[run][a]) + 1
    IN  /\ InTurn(a)
        /\ ~ Scripts[run][i].typed
        /\ transcript' = Says(run, a, i)
        /\ Settle(i, a, Row("completed", <<run, i>>, length, ~ counted[run][a]))
        /\ turns' = [turns EXCEPT ![run][a] = Tail(@)]
        /\ UNCHANGED <<sessionRow, queuedEvents, closedEvent, run, engine, issued,
                       imports, worldBusy, session, asked, counted, ghosts>>

\* A model error, or a typed ask out of reminders.
TurnFails(a) ==
    /\ InTurn(a)
    /\ Settle(TurnCall(a), a, FailedRow)
    /\ turns' = [turns EXCEPT ![run][a] = Tail(@)]
    /\ UNCHANGED <<sessionRow, transcript, queuedEvents, closedEvent, run, engine,
                   issued, imports, worldBusy, session, asked, counted, ghosts>>

-----------------------------------------------------------------------------
\* World commands

WorldReplayed ==
    LET i == issued + 1 IN
    /\ MayCall({"read", "run"})
    /\ Recorded(run, i)
    /\ journal[run][i].status # "running"
    /\ Answered(i)
    /\ UNCHANGED <<durable, run, engine, imports, working, driver, ghosts>>

\* (Mutant: a command that failed is run again when the run is resumed.)
UnlessCompleted(i) == ~ Completed(run, i)
Unanswered(i) == Recorded(run, i) => journal[run][i].status = "running"
WorldImportLeft(h) == ~ shut /\ used[h] < Len(cache.world[h])

WorldImported ==
    LET i == issued + 1
        h == NextCall.hash
    IN  /\ MayCall({"read", "run"})
        /\ Unanswered(i)
        /\ WorldImportLeft(h)
        /\ used' = [used EXCEPT ![h] = @ + 1]
        /\ SetRow(i, Row("completed", cache.world[h][used[h] + 1], NoBoundary, FALSE))
        /\ stale' = (stale \/ dirty)
        /\ Answered(i)
        /\ UNCHANGED <<sessionRow, transcript, queuedEvents, closedEvent, run,
                       engine, cache, shut, wasLive, cursor, working, driver,
                       dirty, touched, split, executed, lives>>

WorldLive ==
    LET i == issued + 1
        effect == NextCall.op = "run"
    IN  /\ MayCall({"read", "run"})
        /\ Unanswered(i)
        /\ ~ WorldImportLeft(NextCall.hash)
        /\ IF effect THEN CloseImportCache ELSE KeepImportCache
        /\ dirty' = (dirty \/ effect)
        /\ SetRow(i, Running)
        /\ worldBusy' = worldBusy \union {i}
        /\ executed' = [executed EXCEPT ![run][i] = @ + 1]
        /\ Pending(i)
        /\ UNCHANGED <<sessionRow, transcript, queuedEvents, run, engine, cache,
                       wasLive, cursor, used, queue, current, driver,
                       touched, stale, split, lives>>

SettleWorldRead(i) ==
    /\ engine = "live"
    /\ i \in worldBusy
    /\ worldBusy' = worldBusy \ {i}
    /\ \E row \in {Row("completed", <<run, i>>, NoBoundary, FALSE), FailedRow} :
           SetRow(i, row)
    /\ answered' = answered \union {i}
    /\ UNCHANGED <<sessionRow, transcript, queuedEvents, closedEvent, run, engine,
                   issued, imports, queue, current, driver, ghosts>>

-----------------------------------------------------------------------------

Rest == engine = "over" /\ UNCHANGED vars

Asking == AskReplayed \/ TryImportedSettle \/ AskLive
InWorld == \/ WorldReplayed \/ WorldImported \/ WorldLive
           \/ \E i \in worldBusy : SettleWorldRead(i)
Turning(a) ==
    \/ OpenSession(a) \/ StartAsk(a) \/ TurnBegins(a)
    \/ ReadsWorkspace(a) \/ WritesWorkspace(a)
    \/ SubmitAccepted(a) \/ UntypedTurnEnds(a) \/ TurnFails(a)
Landing(r, a) == SeedMessage(r, a) \/ SessionOpens(r, a) \/ AcceptedTurnEnds(r, a)

Next ==
    /\ UNCHANGED plan
    /\ \/ Asking \/ InWorld
       \/ \E a \in Actors : Turning(a)
       \/ \E r \in Runs, a \in Actors : Landing(r, a)
       \/ RunEnds \/ Amend \/ Crash \/ CrashInAdmission \/ Resume \/ Rest

Spec == Init /\ [][Next]_vars

-----------------------------------------------------------------------------
\* Properties

TypeOK ==
    /\ run \in Runs /\ engine \in {"live", "over", "down"}
    /\ \A r \in Runs :
           /\ DOMAIN journal[r] \subseteq Calls(r)
           /\ \A i \in DOMAIN journal[r] :
                  journal[r][i] \in [status : {"running", "completed", "failed"},
                                     answer : Answers, boundary : Nat,
                                     pure : BOOLEAN]
           /\ sessionRow[r] \subseteq Actors
           /\ queuedEvents[r] \subseteq Calls(r)
           /\ \A a \in Actors :
                  /\ session[r][a].state \in {"none", "seeding", "open"}
                  /\ session[r][a].copied \in 0 .. session[r][a].seed.length
                  /\ asked[r][a] \in {NoCall} \union Calls(r)
    /\ closedEvent \subseteq Runs
    /\ issued \in 0 .. Len(Scripts[run])
    /\ answered \subseteq 1 .. issued
    /\ \A a \in Actors : cursor[a].consumed \in 0 .. Len(cache.entries[a])
    /\ \A h \in Hashes : used[h] \in 0 .. Len(cache.world[h])

\* The exchanges of a transcript that are in kept, each once, in the order they
\* first appear.
Exchanges(messages, kept) ==
    LET first == {k \in DOMAIN messages :
                      /\ messages[k] \in kept
                      /\ \A j \in 1 .. k - 1 : messages[j] # messages[k]}
        order == InOrder(first)
    IN  [n \in DOMAIN order |-> messages[order[n]]]
Succeeded(exchange) == Completed(exchange[1], exchange[2])

AnswersBefore(r, a, seq) ==
    LET done == {i \in Calls(r) : /\ Scripts[r][i].who = a
                                  /\ ActorSeq(r, i) < seq
                                  /\ Completed(r, i)}
        order == InOrder(done)
    IN  [n \in DOMAIN order |-> journal[r][order[n]].answer]

\* When a turn runs, the model has before it exactly the exchanges that gave
\* the answers the script got from this subagent so far, imported or not, in
\* their order, through copies, crashes and a chain of amendments.
ModelSeesItsHistory ==
    \A a \in Actors :
        InTurn(a) =>
            LET i == TurnCall(a)
                before == {x \in ToSet(transcript[run][a]) :
                               Succeeded(x) /\ x # <<run, i>>}
            IN  Exchanges(transcript[run][a], before)
                    = AnswersBefore(run, a, ActorSeq(run, i))

\* A boundary counts messages of whatever session the chain now leads to: that
\* many messages of it are the exchanges up to the ask, no more and no fewer.
BoundariesAddressTheSource ==
    \A r \in Runs : \A a \in Actors :
        LET source == TranscriptSource(r, a)
            prefix == CompletedAskPrefix(r, a)
            Cut(k) == SubSeq(transcript[source][a], 1, prefix[k].boundary)
        IN  source # NoRun =>
            \A k \in DOMAIN prefix :
                prefix[k].boundary # NoBoundary =>
                    /\ prefix[k].boundary <= Len(transcript[source][a])
                    /\ Exchanges(Cut(k), ToSet(Cut(k))) = AnswersBefore(r, a, k)

\* A resumed engine makes the decisions of the life that crashed: a subagent
\* has departed from its import exactly if that life had it depart by then, and
\* follows it as far.
DecisionsRebuilt ==
    engine = "live" =>
        \A a \in Actors :
            LET made == Cardinality({i \in 1 .. issued : Scripts[run][i].who = a})
            IN  /\ cursor[a].diverged <=> split[run][a] \in 0 .. made - 1
                /\ cursor[a].diverged => cursor[a].consumed = split[run][a]

\* No answer is imported that looked at the workspace, once this run changed it.
NoStaleImport == ~ stale

\* The import rebuilt at any moment is the one the engine was given.
ImportReproducible ==
    engine = "live" =>
        /\ cache.entries = CacheFor(run).entries
        /\ cache.world = CacheFor(run).world

\* An answer once recorded is never replaced, and a command whose end is
\* recorded is not run again, whatever crashes and whatever lands late.
AnswersFinal ==
    [][\A r \in Runs : \A i \in DOMAIN journal[r] :
           journal[r][i].status # "running" =>
               /\ i \in DOMAIN journal'[r]
               /\ journal'[r][i].status = journal[r][i].status
               /\ journal'[r][i].answer = journal[r][i].answer
               /\ executed'[r][i] = executed[r][i]]_vars

\* The n-th call of a world command that is answered from the import gets the
\* n-th answer the predecessor recorded for it.
WorldOccurrencesAligned ==
    \A r \in Runs \ {1} : \A i \in DOMAIN journal[r] :
        LET h == Scripts[r][i].hash
            nth == Cardinality({j \in Calls(r) :
                       j <= i /\ Scripts[r][j].op # "ask" /\ Scripts[r][j].hash = h})
        IN  /\ Scripts[r][i].op # "ask"
            /\ Completed(r, i)
            /\ journal[r][i].answer # <<r, i>>
            => /\ nth <= Len(WorldQueue(r - 1, h))
               /\ journal[r][i].answer = WorldQueue(r - 1, h)[nth]

\* A completed ask whose turn has ended has its boundary.
BoundaryByTurnEnd ==
    \A r \in Runs : \A i \in DOMAIN journal[r] :
        LET a == Scripts[r][i].who IN
        /\ Scripts[r][i].op = "ask"
        /\ Completed(r, i)
        /\ \A n \in DOMAIN turns[r][a] : turns[r][a][n].call # i
        => journal[r][i].boundary # NoBoundary

\* An ask recorded as pure did not look at the workspace.
PureMeansUntouched ==
    \A r \in Runs : \A i \in DOMAIN journal[r] :
        Completed(r, i) /\ journal[r][i].pure => journal[r][i].answer \notin touched

\* An amended run does not run a command its predecessor has an end of.
EffectsNotReplayed ==
    \A r \in Runs \ {1} : \A i \in Calls(r) :
        LET h == Scripts[r][i].hash
            nth == Cardinality({j \in Calls(r) :
                       j <= i /\ Scripts[r][j].op = "run" /\ Scripts[r][j].hash = h})
        IN  Scripts[r][i].op = "run" /\ nth <= Len(WorldQueue(r - 1, h))
                => executed[r][i] = 0

\* The engine's view of its import: well formed, what a resume rebuilds, and
\* followed as far as the life that crashed followed it.
ImportSound == TypeOK /\ ImportReproducible /\ DecisionsRebuilt
=============================================================================
