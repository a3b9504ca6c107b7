-------------------------- MODULE AskSchedulerProofs --------------------------
(***************************************************************************)
(* Theorems about AskScheduler, for every number of actors and every       *)
(* limit.  For every script (IInv): its types are right, its slot counter  *)
(* counts the busy actors, and rows of the journal are frozen once they    *)
(* are settled.  Also for every script (OInv): no wake-up is lost, nothing *)
(* is left behind, and an actor's rows are numbered densely and its asks   *)
(* started in that order.                                                  *)
(*                                                                         *)
(* For scripts no two branches of which share a site (RInv): a recorded    *)
(* ask is found again under its own instructions, answers are the same in  *)
(* every life, and the runs of an engine, its crashes and its resumes      *)
(* implement AskLedger.                                                    *)
(***************************************************************************)
EXTENDS AskScheduler, FiniteSetTheorems, SequenceTheorems, TLAPS

USE DEF Actors, Fibers

-----------------------------------------------------------------------------
\* Partial functions, queues and the script

LEMMA PutMap ==
    ASSUME NEW S, NEW T, NEW f, IsMap(f, S, T), NEW x \in S, NEW v \in T
    PROVE  IsMap(Put(f, x, v), S, T)
BY DEF IsMap, Put

LEMMA PutFinite ==
    ASSUME NEW f, IsFiniteSet(DOMAIN f), NEW x, NEW v
    PROVE  IsFiniteSet(DOMAIN Put(f, x, v))
<1>1. DOMAIN Put(f, x, v) = DOMAIN f \union {x}
  BY DEF Put
<1> QED
  BY <1>1, FS_AddElement

LEMMA WithoutMap ==
    ASSUME NEW S, NEW T, NEW f, IsMap(f, S, T), NEW x
    PROVE  IsMap(Without(f, x), S, T)
BY DEF IsMap, Without

LEMMA UpdateType ==
    ASSUME NEW S, NEW T, NEW f \in [S -> T], NEW x, NEW v \in T
    PROVE  [f EXCEPT ![x] = v] \in [S -> T]
OBVIOUS

LEMMA UpdateMap ==
    ASSUME NEW S, NEW T, NEW f, IsMap(f, S, T), NEW x \in DOMAIN f, NEW v \in T
    PROVE  IsMap([f EXCEPT ![x] = v], S, T)
BY DEF IsMap

LEMMA EmptyMap ==
    ASSUME NEW S, NEW T
    PROVE  IsMap(<<>>, S, T)
BY DEF IsMap

LEMMA EmptyDomain == DOMAIN <<>> = {}
OBVIOUS

LEMMA QueueHead ==
    ASSUME NEW S, NEW q \in Seq(S), q # <<>>
    PROVE  Head(q) \in S /\ Tail(q) \in Seq(S)
OBVIOUS

LEMMA StepType ==
    ASSUME NEW f \in Fibers, NEW seen \in Seq(Outcomes),
           Len(seen) < Len(Script[f])
    PROVE  StepOf(f, seen) \in Step
BY ScriptAssumption DEF StepOf

LEMMA EndMessageType ==
    ASSUME NEW kind \in {"complete", "throw"}
    PROVE  EndMessage(kind) \in Messages
<1>1. 1 \in Fibers /\ <<>> \in Seq(Outcomes)
  BY ScriptAssumption
<1> QED
  BY <1>1 DEF EndMessage, Messages

LEMMA AskMessageType ==
    ASSUME NEW f \in Fibers, NEW seen \in Seq(Outcomes),
           Len(seen) < Len(Script[f])
    PROVE  AskMessage(f, seen) \in Messages
BY DEF AskMessage, Messages

LEMMA ReactionType ==
    ASSUME NEW f \in Fibers, NEW outcome \in Outcomes,
           NEW seen \in [Fibers -> Seq(Outcomes)]
    PROVE  Reaction(f, outcome, seen) \in Seq(Messages)
<1>1. EndMessage("throw") \in Messages /\ EndMessage("complete") \in Messages
  BY EndMessageType
<1>2. Len(seen[f]) < Len(Script[f]) => AskMessage(f, seen[f]) \in Messages
  BY AskMessageType
<1> QED
  BY <1>1, <1>2 DEF Reaction

LEMMA FirstAsksType == FirstAsks \in Seq(Messages)
<1>1. \A f \in Fibers : AskMessage(f, <<>>) \in Messages
  <2> TAKE f \in Fibers
  <2>1. Script[f] \in Seq(Step) /\ Script[f] # <<>>
    BY ScriptAssumption
  <2>2. <<>> \in Seq(Outcomes) /\ Len(<<>>) < Len(Script[f])
    BY <2>1
  <2> QED
    BY <2>2, AskMessageType
<1>2. NumFibers \in Nat
  BY ScriptAssumption
<1>3. FirstAsks \in [1 .. NumFibers -> Messages]
  BY <1>1 DEF FirstAsks
<1> QED
  BY <1>2, <1>3, SeqDef

-----------------------------------------------------------------------------
\* Rows, answers and the shared pieces of the handlers keep their types

LEMMA RowType ==
    ASSUME NEW ask, ask.actor \in Actors, ask.hash \in Hashes, NEW seq \in Nat,
           NEW status \in {"running", "completed", "failed"},
           NEW result \in Results \union {NoResult},
           status = "completed" <=> result \in Results
    PROVE  Row(ask, seq, status, result) \in Rows
BY DEF Row, Rows

LEMMA OutcomeType ==
    ASSUME NEW row \in Rows
    PROVE  OutcomeOf(row) \in Outcomes
BY DEF Rows, OutcomeOf, Outcomes

LEMMA AnswerType ==
    ASSUME TypeOK, NEW ask, ask.hash \in Hashes, NEW outcome \in Outcomes,
           Answer(ask, outcome)
    PROVE  toChild' \in Seq(Answers) /\ told' \subseteq Hashes \X Outcomes
<1>1. ask.hash[1] \in Fibers
  BY DEF Hashes
<1>2. [fiber |-> ask.hash[1], outcome |-> outcome] \in Answers
  BY <1>1 DEF Answers
<1> QED
  BY <1>2 DEF Answer, TypeOK

LEMMA AdmitLiveType ==
    ASSUME TypeOK, NEW ask \in Asks, NEW seq \in Nat, AdmitLive(ask, seq)
    PROVE  /\ IsMap(journal', Instances, Rows) /\ IsFiniteSet(DOMAIN journal')
           /\ IsMap(liveNodes', Instances, Nodes)
           /\ liveQueue' \in [Actors -> Seq(Instances)]
           /\ IsMap(events', Instances, {"queued", "dispatched", "settled"})
<1>0. /\ ask.inst \in Instances /\ ask.actor \in Actors
      /\ ask.hash \in Hashes /\ ask.typed \in BOOLEAN
  BY DEF Asks
<1>1. Row(ask, seq, "running", NoResult) \in Rows
  BY <1>0, RowType, ResultAssumption
<1>2. [inst |-> ask.inst, actor |-> ask.actor, hash |-> ask.hash,
       typed |-> ask.typed, seq |-> seq, repairs |-> RepairAttempts,
       nudges |-> NudgeAttempts, dispatched |-> FALSE] \in Nodes
  BY <1>0, LimitAssumption DEF Nodes
<1>3. IsMap(journal', Instances, Rows) /\ IsFiniteSet(DOMAIN journal')
  BY <1>0, <1>1, PutMap, PutFinite DEF AdmitLive, TypeOK
<1>4. IsMap(liveNodes', Instances, Nodes)
  BY <1>0, <1>2, PutMap DEF AdmitLive, TypeOK
<1>5. liveQueue' \in [Actors -> Seq(Instances)]
  BY <1>0 DEF AdmitLive, TypeOK, Enqueue
<1>6. IsMap(events', Instances, {"queued", "dispatched", "settled"})
  BY <1>0, PutMap DEF AdmitLive, TypeOK
<1> QED
  BY <1>3, <1>4, <1>5, <1>6

LEMMA PumpActorType ==
    ASSUME TypeOK, NEW a \in Actors, PumpActor(a)
    PROVE  /\ liveQueue' \in [Actors -> Seq(Instances)]
           /\ current' \in [Actors -> Instances \union {NoInstance}]
           /\ activeAsks' \in Nat
           /\ session' \in [Actors -> {"none", "creating", "ready", "failed"}]
           /\ awaiting' \subseteq Actors \X Instances
<1>1. CASE MayPump(a)
  <2>1. Head(liveQueue[a]) \in Instances /\ Tail(liveQueue[a]) \in Seq(Instances)
    BY <1>1, QueueHead DEF MayPump, TypeOK
  <2>2. liveQueue' \in [Actors -> Seq(Instances)]
    BY <1>1, <2>1 DEF PumpActor, TypeOK
  <2>3. current' \in [Actors -> Instances \union {NoInstance}]
    BY <1>1, <2>1 DEF PumpActor, TypeOK
  <2>4. session' \in [Actors -> {"none", "creating", "ready", "failed"}]
    <3> DEFINE state == IF session[a] = "none" THEN "creating" ELSE session[a]
               States == {"none", "creating", "ready", "failed"}
    <3>1. session' = [session EXCEPT ![a] = state]
      BY <1>1 DEF PumpActor
    <3>2. session \in [Actors -> States] /\ state \in States
      BY DEF TypeOK
    <3> HIDE DEF state, States
    <3>3. session' \in [Actors -> States]
      BY <3>1, <3>2, UpdateType
    <3> QED
      BY <3>3 DEF States
  <2>5. awaiting' \subseteq Actors \X Instances /\ activeAsks' \in Nat
    <3>1. /\ activeAsks' = activeAsks + 1
          /\ awaiting' = awaiting \union {<<a, Head(liveQueue[a])>>}
      BY <1>1 DEF PumpActor
    <3>2. activeAsks \in Nat /\ awaiting \subseteq Actors \X Instances
      BY DEF TypeOK
    <3> QED
      BY <2>1, <3>1, <3>2
  <2> QED
    BY <2>2, <2>3, <2>4, <2>5
<1>2. CASE ~ MayPump(a)
  BY <1>2 DEF PumpActor, dispatching, TypeOK
<1> QED
  BY <1>1, <1>2

LEMMA BusyFinite == IsFiniteSet(BusyActors)
<1>1. IsFiniteSet(Actors)
  BY ScriptAssumption, FS_Interval
<1> QED
  BY <1>1, FS_Subset DEF BusyActors

LEMMA BusyCounted ==
    ASSUME TypeOK, SlotsAccounted, engine = "live",
           NEW a \in Actors, current[a] # NoInstance
    PROVE  activeAsks # 0
<1>1. a \in BusyActors
  BY DEF BusyActors
<1> QED
  BY <1>1, BusyFinite, FS_EmptySet DEF SlotsAccounted

LEMMA SettleRunType ==
    ASSUME TypeOK, SettleRun("errored") \/ SettleRun("completed") \/
                   SettleRun("stopped") \/ SettleRun("superseded"),
           ordinals' \in [Sites -> Nat], mismatch' \in BOOLEAN
    PROVE  TypeOK'
<1>1. PICK status \in {"errored", "completed", "stopped", "superseded"} :
          SettleRun(status)
  OBVIOUS
<1> USE <1>1 DEF SettleRun, durable, TypeOK
<1>2. /\ IsMap(journal', Instances, Rows) /\ IsFiniteSet(DOMAIN journal')
      /\ IsMap(liveNodes', Instances, Nodes)
  BY EmptyMap
<1>3. IsMap(events', Instances, {"queued", "dispatched", "settled"})
  BY DEF IsMap
<1>4. turns' \subseteq Instances
  BY DEF TurnsAfterAbort
<1>5. /\ runRow' \in {"running", "completed", "stopped", "superseded", "errored"}
      /\ engine' \in {"live", "settled", "none", "down"}
      /\ activeAsks' \in Nat
      /\ toEngine' \in Seq(Messages) /\ toChild' \in Seq(Answers)
  OBVIOUS
<1>6. /\ pc' = pc /\ recordedCount' = recordedCount
      /\ nextAdmitSeq' = nextAdmitSeq /\ pendingRecorded' = pendingRecorded
      /\ pendingLive' = pendingLive /\ liveQueue' = liveQueue
      /\ current' = current /\ session' = session /\ awaiting' = awaiting
      /\ hist' = hist /\ told' = told /\ lives' = lives
  BY DEF admission
<1> QED
  BY <1>2, <1>3, <1>4, <1>5, <1>6

LEMMA RebuildType ==
    ASSUME TypeOK, RebuildEngine, UNCHANGED <<journal, told, mismatch>>,
           runRow' \in {"running", "completed", "stopped", "superseded", "errored"},
           engine' \in {"live", "settled", "none", "down"},
           pc' = Idle, lives' \in 1 .. MaxLives
    PROVE  TypeOK'
<1> USE DEF RebuildEngine
<1>1. recordedCount' \in [Actors -> Nat]
  <2>1. \A a \in Actors : Cardinality(RowsOf(a)) \in Nat
    BY FS_Subset, FS_CardinalityType DEF RowsOf, TypeOK
  <2> QED
    BY <2>1
<1>2. IsMap(liveNodes', Instances, Nodes)
  BY EmptyMap
<1>3. IsMap(events', Instances, {"queued", "dispatched", "settled"})
  BY EmptyMap
<1>4. /\ DOMAIN pendingRecorded' = Actors
      /\ \A a \in Actors : IsMap(pendingRecorded'[a], Nat, Asks)
  BY EmptyMap
<1>5. /\ pendingLive' \in [Actors -> Seq(Asks)]
      /\ liveQueue' \in [Actors -> Seq(Instances)]
      /\ hist' \in [Fibers -> Seq(Outcomes)]
      /\ toChild' \in Seq(Answers)
  OBVIOUS
<1>6. toEngine' \in Seq(Messages)
  BY FirstAsksType
<1>7. /\ ordinals' \in [Sites -> Nat] /\ nextAdmitSeq' \in [Actors -> Nat]
      /\ current' \in [Actors -> Instances \union {NoInstance}]
      /\ activeAsks' \in Nat
      /\ session' \in [Actors -> {"none", "creating", "ready", "failed"}]
      /\ awaiting' \subseteq Actors \X Instances /\ turns' \subseteq Instances
  OBVIOUS
<1>8. pc' \in [op : {"idle", "drain", "pump"}, actor : Actors, fresh : BOOLEAN]
  BY ScriptAssumption DEF Idle
<1> QED
  BY <1>1, <1>2, <1>3, <1>4, <1>5, <1>6, <1>7, <1>8 DEF TypeOK

LEMMA SettleType ==
    ASSUME TypeOK, SlotsAccounted, engine = "live",
           NEW i \in DOMAIN liveNodes,
           NEW status \in {"completed", "failed"},
           NEW result \in Results \union {NoResult},
           status = "completed" <=> result \in Results,
           Settle(i, status, result),
           turns' \subseteq Instances, awaiting' \subseteq Actors \X Instances
    PROVE  TypeOK'
<1> DEFINE node == liveNodes[i]
           row == Row(node, node.seq, status, result)
<1>0. /\ i \in Instances /\ node \in Nodes
      /\ node.actor \in Actors /\ node.hash \in Hashes /\ node.seq \in Nat
  BY DEF TypeOK, IsMap, Nodes
<1>1. row \in Rows
  BY <1>0, RowType
<1>2. IsMap(journal', Instances, Rows) /\ IsFiniteSet(DOMAIN journal')
  BY <1>0, <1>1, PutMap, PutFinite DEF Settle, RecordSettled, TypeOK
<1>3. IsMap(events', Instances, {"queued", "dispatched", "settled"})
  BY <1>0, PutMap DEF Settle, TypeOK
<1>4. IsMap(liveNodes', Instances, Nodes)
  BY WithoutMap DEF Settle, TypeOK
<1>5. /\ current' \in [Actors -> Instances \union {NoInstance}]
      /\ activeAsks' \in Nat
  <2>1. CASE current[node.actor] = i
    <3>1. activeAsks # 0
      BY <1>0, <2>1, BusyCounted, NoInstanceAssumption
    <3>2. current' = [current EXCEPT ![node.actor] = NoInstance]
      BY <2>1 DEF Settle
    <3>3. activeAsks' = activeAsks - 1
      BY <2>1 DEF Settle
    <3>4. activeAsks \in Nat /\ current \in [Actors -> Instances \union {NoInstance}]
      BY DEF TypeOK
    <3>5. activeAsks' \in Nat
      BY <3>1, <3>3, <3>4
    <3> QED
      BY <1>0, <3>2, <3>4, <3>5
  <2>2. CASE current[node.actor] # i
    BY <2>2 DEF Settle, TypeOK
  <2> QED
    BY <2>1, <2>2
<1>6. pc' \in [op : {"idle", "drain", "pump"}, actor : Actors, fresh : BOOLEAN]
  BY ScriptAssumption DEF Settle, PumpAll, Pumping
<1>7. toChild' \in Seq(Answers) /\ told' \subseteq Hashes \X Outcomes
  BY <1>0, <1>1, AnswerType, OutcomeType DEF Settle
<1>8. /\ runRow' = runRow /\ engine' = engine /\ ordinals' = ordinals
      /\ recordedCount' = recordedCount
      /\ nextAdmitSeq' = nextAdmitSeq /\ pendingRecorded' = pendingRecorded
      /\ pendingLive' = pendingLive /\ liveQueue' = liveQueue
      /\ session' = session /\ hist' = hist /\ toEngine' = toEngine
      /\ mismatch' = mismatch /\ lives' = lives
  BY DEF Settle, admission
<1> QED
  BY <1>2, <1>3, <1>4, <1>5, <1>6, <1>7, <1>8 DEF TypeOK

-----------------------------------------------------------------------------
\* Types: one lemma per action that does more than call a shared piece

LEMMA ReceiveAskType ==
    ASSUME TypeOK, ReceiveAsk
    PROVE  TypeOK'
<1> DEFINE m == Head(toEngine)
           step == StepOf(m.fiber, m.seen)
           inst == <<step.site, ordinals[step.site] + 1>>
           ask == [inst |-> inst, actor |-> step.actor,
                   hash |-> <<m.fiber, m.seen>>, typed |-> step.typed]
<1>1. m \in Messages /\ Tail(toEngine) \in Seq(Messages) /\ m.kind = "ask"
  BY QueueHead DEF ReceiveAsk, TypeOK
<1>2. m.fiber \in Fibers /\ m.seen \in Seq(Outcomes)
      /\ Len(m.seen) < Len(Script[m.fiber])
  BY <1>1 DEF Messages
<1>3. step \in Step
  BY <1>2, StepType
<1>4. step.site \in Sites /\ step.actor \in Actors /\ step.typed \in BOOLEAN
  BY <1>3 DEF Step
<1>5. inst \in Instances
  <2>1. ordinals \in [Sites -> Nat]
    BY DEF TypeOK
  <2> HIDE DEF step
  <2>2. ordinals[step.site] + 1 \in Nat \ {0}
    BY <1>4, <2>1
  <2> QED
    BY <1>4, <2>2 DEF Instances
<1>6. ask \in Asks
  BY <1>2, <1>4, <1>5 DEF Asks, Hashes
<1>7. ordinals' \in [Sites -> Nat]
  <2>1. ordinals' = [ordinals EXCEPT ![step.site] = @ + 1]
    BY DEF ReceiveAsk, CountCall
  <2>2. step.site \in Sites /\ ordinals \in [Sites -> Nat]
    BY <1>4 DEF TypeOK
  <2> HIDE DEF step
  <2> QED
    BY <2>1, <2>2
<1>8. /\ Draining(step.actor, FALSE)
             \in [op : {"idle", "drain", "pump"}, actor : Actors, fresh : BOOLEAN]
      /\ Draining(step.actor, TRUE)
             \in [op : {"idle", "drain", "pump"}, actor : Actors, fresh : BOOLEAN]
  BY <1>4 DEF Draining
<1>9. CASE mismatch' = TRUE /\ SettleRun("errored")
  BY <1>7, <1>9, SettleRunType
<1> DEFINE Kept == UNCHANGED <<durable, engine, recordedCount, nextAdmitSeq,
                               liveNodes, dispatching, hist, toChild, turns,
                               events, ghosts>>
<1>10. ASSUME Kept, toEngine' = Tail(toEngine),
              pc' \in [op : {"idle", "drain", "pump"}, actor : Actors,
                       fresh : BOOLEAN],
              DOMAIN pendingRecorded' = Actors,
              \A a \in Actors : IsMap(pendingRecorded'[a], Nat, Asks),
              pendingLive' \in [Actors -> Seq(Asks)]
       PROVE  TypeOK'
  BY <1>1, <1>7, <1>10 DEF TypeOK, durable, dispatching, ghosts
<1>11. CASE /\ inst \in DOMAIN journal
            /\ pendingRecorded' = [pendingRecorded EXCEPT
                   ![step.actor] = Put(@, journal[inst].seq, ask)]
            /\ pc' = Draining(step.actor, FALSE)
            /\ toEngine' = Tail(toEngine)
            /\ pendingLive' = pendingLive
            /\ Kept
  <2>1. journal[inst].seq \in Nat
    BY <1>11 DEF TypeOK, IsMap, Rows
  <2>2. IsMap(Put(pendingRecorded[step.actor], journal[inst].seq, ask), Nat, Asks)
    BY <1>4, <1>6, <2>1, PutMap DEF TypeOK
  <2>3. /\ DOMAIN pendingRecorded' = Actors
        /\ \A a \in Actors : IsMap(pendingRecorded'[a], Nat, Asks)
    BY <1>4, <1>11, <2>2 DEF TypeOK
  <2>4. pendingLive' \in [Actors -> Seq(Asks)]
    BY <1>11 DEF TypeOK
  <2> QED
    BY <1>8, <1>10, <1>11, <2>3, <2>4
<1>12. CASE /\ pendingLive' = [pendingLive EXCEPT
                   ![step.actor] = Append(@, ask)]
            /\ pc' = Draining(step.actor, TRUE)
            /\ toEngine' = Tail(toEngine)
            /\ pendingRecorded' = pendingRecorded
            /\ Kept
  <2>1. pendingLive' \in [Actors -> Seq(Asks)]
    <3>1. pendingLive \in [Actors -> Seq(Asks)]
      BY DEF TypeOK
    <3> HIDE DEF step, ask
    <3> QED
      BY <1>4, <1>6, <1>12, <3>1
  <2>2. /\ DOMAIN pendingRecorded' = Actors
        /\ \A a \in Actors : IsMap(pendingRecorded'[a], Nat, Asks)
    BY <1>12 DEF TypeOK
  <2> QED
    BY <1>8, <1>10, <1>12, <2>1, <2>2
<1> QED
  BY <1>9, <1>11, <1>12 DEF ReceiveAsk

LEMMA ScriptTakesAnswerType ==
    ASSUME TypeOK, ScriptTakesAnswer
    PROVE  TypeOK'
<1> DEFINE f == Head(toChild).fiber
           outcome == Head(toChild).outcome
           seen == [hist EXCEPT ![f] = Append(@, outcome)]
<1>1. Head(toChild) \in Answers /\ Tail(toChild) \in Seq(Answers)
  BY QueueHead DEF ScriptTakesAnswer, TypeOK
<1>2. f \in Fibers /\ outcome \in Outcomes
  BY <1>1 DEF Answers
<1>3. seen \in [Fibers -> Seq(Outcomes)]
  BY <1>2 DEF TypeOK
<1>4. toEngine' \in Seq(Messages)
  <2>1. Reaction(f, outcome, seen) \in Seq(Messages)
    BY <1>2, <1>3, ReactionType
  <2>2. toEngine' = toEngine \o Reaction(f, outcome, seen)
    BY DEF ScriptTakesAnswer
  <2> HIDE DEF f, outcome, seen
  <2> QED
    BY <2>1, <2>2 DEF TypeOK
<1>5. hist' \in [Fibers -> Seq(Outcomes)]
  BY <1>3 DEF ScriptTakesAnswer
<1> QED
  BY <1>1, <1>4, <1>5
     DEF ScriptTakesAnswer, TypeOK, durable, admission, dispatching, ghosts

LEMMA DrainRecordedType ==
    ASSUME TypeOK, HeldAsksRecorded, NEW a \in Actors, DrainRecorded(a)
    PROVE  TypeOK'
<1> DEFINE seq == nextAdmitSeq[a]
           ask == pendingRecorded[a][seq]
<1>1. seq \in Nat /\ seq \in DOMAIN pendingRecorded[a]
  BY DEF DrainRecorded, RecordedIsNext, TypeOK
<1>2. IsMap(pendingRecorded[a], Nat, Asks)
  BY DEF TypeOK
<1>3. ask \in Asks
  BY <1>1, <1>2 DEF IsMap
<1>4. ask.inst \in DOMAIN journal /\ journal[ask.inst] \in Rows
  BY <1>1 DEF HeldAsksRecorded, TypeOK, IsMap
<1>5. ask.inst \in Instances /\ ask.hash \in Hashes
  BY <1>3 DEF Asks
<1>6. /\ DOMAIN pendingRecorded' = Actors
      /\ \A b \in Actors : IsMap(pendingRecorded'[b], Nat, Asks)
  <2>1. IsMap(Without(pendingRecorded[a], seq), Nat, Asks)
    BY <1>2, WithoutMap
  <2>2. pendingRecorded' = [pendingRecorded EXCEPT ![a] = Without(@, seq)]
    BY DEF DrainRecorded
  <2> QED
    BY <2>1, <2>2 DEF TypeOK
<1>7. nextAdmitSeq' \in [Actors -> Nat]
  BY <1>1 DEF DrainRecorded, TypeOK
<1> DEFINE Moved ==
               /\ IsMap(journal', Instances, Rows)
               /\ IsFiniteSet(DOMAIN journal')
               /\ IsMap(liveNodes', Instances, Nodes)
               /\ liveQueue' \in [Actors -> Seq(Instances)]
               /\ IsMap(events', Instances, {"queued", "dispatched", "settled"})
               /\ toChild' \in Seq(Answers)
               /\ told' \subseteq Hashes \X Outcomes
<1>8. ASSUME AdmitLive(ask, seq), UNCHANGED <<toChild, told>>
      PROVE  Moved
  <2>1. toChild' \in Seq(Answers) /\ told' \subseteq Hashes \X Outcomes
    BY <1>8 DEF TypeOK
  <2> QED
    BY <1>1, <1>3, <1>8, <2>1, AdmitLiveType DEF Moved
<1>9. ASSUME ReleaseCached(ask), UNCHANGED <<journal, liveNodes, liveQueue>>
      PROVE  Moved
  <2>1. OutcomeOf(journal[ask.inst]) \in Outcomes
    BY <1>4, OutcomeType
  <2>2. toChild' \in Seq(Answers) /\ told' \subseteq Hashes \X Outcomes
    BY <1>5, <1>9, <2>1, AnswerType DEF ReleaseCached
  <2>3. IsMap(events', Instances, {"queued", "dispatched", "settled"})
    BY <1>5, <1>9, PutMap DEF ReleaseCached, TypeOK
  <2> QED
    BY <1>9, <2>2, <2>3 DEF TypeOK
<1>10. Moved
  BY <1>8, <1>9 DEF DrainRecorded
<1> QED
  BY <1>6, <1>7, <1>10 DEF DrainRecorded, TypeOK

LEMMA DrainFreshType ==
    ASSUME TypeOK, NEW a \in Actors, DrainFresh(a)
    PROVE  TypeOK'
<1>1. Head(pendingLive[a]) \in Asks /\ Tail(pendingLive[a]) \in Seq(Asks)
  BY QueueHead DEF DrainFresh, TypeOK
<1>2. nextAdmitSeq[a] \in Nat
  BY DEF TypeOK
<1>3. /\ IsMap(journal', Instances, Rows) /\ IsFiniteSet(DOMAIN journal')
      /\ IsMap(liveNodes', Instances, Nodes)
      /\ liveQueue' \in [Actors -> Seq(Instances)]
      /\ IsMap(events', Instances, {"queued", "dispatched", "settled"})
  BY <1>1, <1>2, AdmitLiveType DEF DrainFresh
<1>4. pendingLive' \in [Actors -> Seq(Asks)]
  BY <1>1 DEF DrainFresh, TypeOK
<1>5. nextAdmitSeq' \in [Actors -> Nat]
  BY <1>2 DEF DrainFresh, TypeOK
<1> QED
  BY <1>3, <1>4, <1>5 DEF DrainFresh, TypeOK, child, ghosts

LEMMA DispatchingType ==
    ASSUME TypeOK, NEW a \in Actors, PumpActor(a),
           pc' \in [op : {"idle", "drain", "pump"}, actor : Actors, fresh : BOOLEAN],
           UNCHANGED <<durable, engine, ordinals, admission, liveNodes, child,
                       turns, events, ghosts>>
    PROVE  TypeOK'
BY PumpActorType DEF TypeOK, durable, admission, child, ghosts

LEMMA DrainEndsType ==
    ASSUME TypeOK, NEW a \in Actors, DrainEnds(a)
    PROVE  TypeOK'
<1>1. pc' \in [op : {"idle", "drain", "pump"}, actor : Actors, fresh : BOOLEAN]
  BY ScriptAssumption DEF DrainEnds, PumpAll, Pumping, Idle
<1> QED
  BY <1>1, DispatchingType DEF DrainEnds

LEMMA PumpNextType ==
    ASSUME TypeOK, PumpNext
    PROVE  TypeOK'
<1>1. pc.actor \in Actors
  BY DEF TypeOK
<1>2. pc' \in [op : {"idle", "drain", "pump"}, actor : Actors, fresh : BOOLEAN]
  BY <1>1, ScriptAssumption DEF PumpNext, Pumping, Idle
<1> QED
  BY <1>1, <1>2, DispatchingType DEF PumpNext

LEMMA SessionSettlesType ==
    ASSUME TypeOK, NEW a \in Actors, SessionSettles(a)
    PROVE  TypeOK'
<1>1. session' \in [Actors -> {"none", "creating", "ready", "failed"}]
  BY DEF SessionSettles, TypeOK
<1> QED
  BY <1>1 DEF SessionSettles, TypeOK, durable, admission, child, ghosts

LEMMA DispatchResumesType ==
    ASSUME TypeOK, SlotsAccounted, NEW w \in awaiting, DispatchResumes(w[1], w[2])
    PROVE  TypeOK'
<1> DEFINE i == w[2]
<1>1. awaiting' \subseteq Actors \X Instances
  BY DEF DispatchResumes, TypeOK
<1>2. CASE UNCHANGED <<durable, engine, pc, ordinals, admission, liveNodes,
                       liveQueue, current, activeAsks, session, child,
                       turns, events, ghosts>>
  BY <1>1, <1>2 DEF TypeOK, durable, admission, child, ghosts
<1>3. CASE /\ StillWanted(i)
           /\ events' = Put(events, i, "dispatched")
           /\ liveNodes' = [liveNodes EXCEPT ![i].dispatched = TRUE]
           /\ turns' = turns \union {i}
           /\ UNCHANGED <<durable, engine, pc, ordinals, admission, liveQueue,
                          current, activeAsks, session, child, ghosts>>
  <2>1. i \in DOMAIN liveNodes /\ i \in Instances /\ liveNodes[i] \in Nodes
    BY <1>3 DEF StillWanted, TypeOK, IsMap
  <2>2. [liveNodes[i] EXCEPT !.dispatched = TRUE] \in Nodes
    BY <2>1 DEF Nodes
  <2>3. IsMap(liveNodes', Instances, Nodes)
    BY <1>3, <2>1, <2>2 DEF TypeOK, IsMap
  <2>4. IsMap(events', Instances, {"queued", "dispatched", "settled"})
    BY <1>3, <2>1, PutMap DEF TypeOK
  <2>5. turns' \subseteq Instances
    BY <1>3, <2>1 DEF TypeOK
  <2> QED
    BY <1>1, <1>3, <2>3, <2>4, <2>5 DEF TypeOK, durable, admission, child, ghosts
<1>4. CASE /\ StillWanted(i)
           /\ Settle(i, "failed", NoResult)
           /\ UNCHANGED turns
  <2>1. turns' \subseteq Instances
    BY <1>4 DEF TypeOK
  <2>2. i \in DOMAIN liveNodes /\ engine = "live"
    BY <1>4 DEF StillWanted
  <2> QED
    BY <1>1, <1>4, <2>1, <2>2, SettleType, ResultAssumption
<1> QED
  BY <1>2, <1>3, <1>4 DEF DispatchResumes

LEMMA BudgetSpentType ==
    ASSUME TypeOK, NEW i \in DOMAIN liveNodes,
           \/ /\ liveNodes[i].repairs > 0
              /\ BudgetSpent([liveNodes EXCEPT ![i].repairs = @ - 1])
           \/ /\ liveNodes[i].nudges > 0
              /\ BudgetSpent([liveNodes EXCEPT ![i].nudges = @ - 1])
    PROVE  TypeOK'
<1>1. liveNodes[i] \in Nodes
  BY DEF TypeOK, IsMap
<1>2. CASE /\ liveNodes[i].repairs > 0
           /\ BudgetSpent([liveNodes EXCEPT ![i].repairs = @ - 1])
  <2> DEFINE spent == [liveNodes[i] EXCEPT !.repairs = @ - 1]
  <2>1. spent \in Nodes
    BY <1>1, <1>2 DEF Nodes
  <2>2. IsMap(liveNodes', Instances, Nodes)
    <3>1. liveNodes' = [liveNodes EXCEPT ![i] = spent]
      BY <1>2 DEF BudgetSpent
    <3>2. IsMap(liveNodes, Instances, Nodes)
      BY DEF TypeOK
    <3> HIDE DEF spent
    <3> QED
      BY <2>1, <3>1, <3>2, UpdateMap
  <2>3. UNCHANGED <<runRow, journal, engine, pc, ordinals, recordedCount,
                    nextAdmitSeq, pendingRecorded, pendingLive, liveQueue,
                    current, activeAsks, session, awaiting, hist, toEngine,
                    toChild, turns, events, told, mismatch, lives>>
    BY <1>2 DEF BudgetSpent, durable, admission, dispatching, child, ghosts
  <2> QED
    BY <2>2, <2>3 DEF TypeOK
<1>3. CASE /\ liveNodes[i].nudges > 0
           /\ BudgetSpent([liveNodes EXCEPT ![i].nudges = @ - 1])
  <2> DEFINE spent == [liveNodes[i] EXCEPT !.nudges = @ - 1]
  <2>1. spent \in Nodes
    BY <1>1, <1>3 DEF Nodes
  <2>2. IsMap(liveNodes', Instances, Nodes)
    <3>1. liveNodes' = [liveNodes EXCEPT ![i] = spent]
      BY <1>3 DEF BudgetSpent
    <3>2. IsMap(liveNodes, Instances, Nodes)
      BY DEF TypeOK
    <3> HIDE DEF spent
    <3> QED
      BY <2>1, <3>1, <3>2, UpdateMap
  <2>3. UNCHANGED <<runRow, journal, engine, pc, ordinals, recordedCount,
                    nextAdmitSeq, pendingRecorded, pendingLive, liveQueue,
                    current, activeAsks, session, awaiting, hist, toEngine,
                    toChild, turns, events, told, mismatch, lives>>
    BY <1>3 DEF BudgetSpent, durable, admission, dispatching, child, ghosts
  <2> QED
    BY <2>2, <2>3 DEF TypeOK
<1> QED
  BY <1>2, <1>3

\* A report on a turn either spends budget or settles the ask.
LEMMA ReportCases ==
    ASSUME TypeOK, NEW i \in turns, DriverReports(i)
    PROVE  /\ i \in DOMAIN liveNodes
           /\ Quiet
           /\ \/ /\ liveNodes[i].repairs > 0
                 /\ BudgetSpent([liveNodes EXCEPT ![i].repairs = @ - 1])
              \/ /\ liveNodes[i].nudges > 0
                 /\ BudgetSpent([liveNodes EXCEPT ![i].nudges = @ - 1])
              \/ /\ turns' = turns \ {i}
                 /\ UNCHANGED awaiting
                 /\ \/ Settle(i, "failed", NoResult)
                    \/ \E r \in Results : Settle(i, "completed", r)
BY DEF DriverReports, SubmitAccepted, SubmitRejected, SubmitHopeless,
       TurnAnswers, TurnNudged, TurnUnsubmitted, AskFails, Reportable

LEMMA DriverReportsType ==
    ASSUME TypeOK, SlotsAccounted, NEW i \in turns, DriverReports(i)
    PROVE  TypeOK'
<1>1. i \in DOMAIN liveNodes /\ engine = "live"
  BY ReportCases DEF Quiet
<1>2. CASE \/ /\ liveNodes[i].repairs > 0
              /\ BudgetSpent([liveNodes EXCEPT ![i].repairs = @ - 1])
           \/ /\ liveNodes[i].nudges > 0
              /\ BudgetSpent([liveNodes EXCEPT ![i].nudges = @ - 1])
  BY <1>1, <1>2, BudgetSpentType
<1>3. CASE /\ turns' = turns \ {i}
           /\ UNCHANGED awaiting
           /\ \/ Settle(i, "failed", NoResult)
              \/ \E r \in Results : Settle(i, "completed", r)
  <2>1. turns' \subseteq Instances /\ awaiting' \subseteq Actors \X Instances
    BY <1>3 DEF TypeOK
  <2>2. CASE Settle(i, "failed", NoResult)
    BY <1>1, <2>1, <2>2, SettleType, ResultAssumption
  <2>3. CASE \E r \in Results : Settle(i, "completed", r)
    BY <1>1, <2>1, <2>3, SettleType
  <2> QED
    BY <1>3, <2>2, <2>3
<1> QED
  BY <1>2, <1>3, ReportCases

\* Actions of the run as a whole.
LEMMA RunType ==
    ASSUME TypeOK, ReceiveEnd \/ Stop \/ Crash \/ Reopen \/ Resume
    PROVE  TypeOK'
<1>1. ordinals \in [Sites -> Nat] /\ mismatch \in BOOLEAN
      /\ lives \in 1 .. MaxLives
      /\ runRow \in {"running", "completed", "stopped", "superseded", "errored"}
  BY DEF TypeOK
<1>2. CASE ReceiveEnd
  BY <1>1, <1>2, SettleRunType DEF ReceiveEnd
<1>3. CASE Stop
  BY <1>1, <1>3, SettleRunType DEF Stop
<1>4. CASE Crash
  BY <1>1, <1>4, RebuildType DEF Crash, durable, ghosts
<1>5. CASE Reopen
  <2>1. runRow' \in {"running", "completed", "stopped", "superseded", "errored"}
    BY <1>1, <1>5 DEF Reopen
  <2> QED
    BY <1>5, <2>1
       DEF Reopen, TypeOK, admission, dispatching, child, ghosts
<1>6. CASE Resume
  <2>1. lives' \in 1 .. MaxLives
    BY <1>1, <1>6, LimitAssumption DEF Resume
  <2> QED
    BY <1>6, <2>1, RebuildType DEF Resume
<1> QED
  BY <1>2, <1>3, <1>4, <1>5, <1>6

LEMMA TypeStutter ==
    ASSUME TypeOK, UNCHANGED vars
    PROVE  TypeOK'
BY DEF TypeOK, vars, durable, admission, dispatching, child, ghosts

-----------------------------------------------------------------------------
\* The slot counter.  Only pumpActor, a settlement and a new engine touch it
\* while the engine is live.

LEMMA PumpSlots ==
    ASSUME TypeOK, SlotsAccounted, NEW a \in Actors, PumpActor(a),
           UNCHANGED engine
    PROVE  SlotsAccounted'
<1>1. CASE MayPump(a)
  <2>1. /\ current[a] = NoInstance /\ activeAsks < MaxConcurrency
        /\ engine = "live"
    BY <1>1 DEF MayPump
  <2>2. Head(liveQueue[a]) # NoInstance
    <3>1. liveQueue[a] \in Seq(Instances) /\ liveQueue[a] # <<>>
      BY <1>1 DEF MayPump, TypeOK
    <3>2. Head(liveQueue[a]) \in Instances
      BY <3>1, QueueHead
    <3> QED
      BY <3>2, NoInstanceAssumption
  <2>3. BusyActors' = BusyActors \union {a} /\ a \notin BusyActors
    <3>1. current' = [current EXCEPT ![a] = Head(liveQueue[a])]
      BY <1>1 DEF PumpActor
    <3>2. current \in [Actors -> Instances \union {NoInstance}]
      BY DEF TypeOK
    <3> QED
      BY <2>1, <2>2, <3>1, <3>2 DEF BusyActors
  <2>4. Cardinality(BusyActors') = Cardinality(BusyActors) + 1
    BY <2>3, BusyFinite, FS_AddElement
  <2>5. activeAsks' = activeAsks + 1
    BY <1>1 DEF PumpActor
  <2> QED
    BY <2>1, <2>4, <2>5, LimitAssumption DEF SlotsAccounted, TypeOK
<1>2. CASE ~ MayPump(a)
  BY <1>2 DEF PumpActor, dispatching, SlotsAccounted, BusyActors
<1> QED
  BY <1>1, <1>2

LEMMA SettleSlots ==
    ASSUME TypeOK, SlotsAccounted, NEW i \in DOMAIN liveNodes,
           NEW status, NEW result, Settle(i, status, result)
    PROVE  SlotsAccounted'
<1> DEFINE a == liveNodes[i].actor
<1>1. a \in Actors /\ i # NoInstance
  BY NoInstanceAssumption DEF TypeOK, IsMap, Nodes
<1>2. engine' = engine
  BY DEF Settle
<1>3. CASE current[a] = i
  <2>1. /\ current' = [current EXCEPT ![a] = NoInstance]
        /\ activeAsks' = activeAsks - 1
    BY <1>3 DEF Settle
  <2>2. BusyActors' = BusyActors \ {a} /\ a \in BusyActors
    <3>1. current \in [Actors -> Instances \union {NoInstance}]
      BY DEF TypeOK
    <3> HIDE DEF a
    <3> QED
      BY <1>1, <1>3, <2>1, <3>1 DEF BusyActors
  <2>3. /\ Cardinality(BusyActors') = Cardinality(BusyActors) - 1
        /\ Cardinality(BusyActors) \in Nat
    BY <2>2, BusyFinite, FS_RemoveElement, FS_CardinalityType
  <2> QED
    BY <1>2, <2>1, <2>3, LimitAssumption DEF SlotsAccounted, TypeOK
<1>4. CASE current[a] # i
  BY <1>2, <1>4 DEF Settle, SlotsAccounted, BusyActors
<1> QED
  BY <1>3, <1>4

LEMMA RebuildSlots ==
    ASSUME RebuildEngine
    PROVE  SlotsAccounted'
<1>1. BusyActors' = {} /\ activeAsks' = 0
  BY DEF RebuildEngine, BusyActors
<1> QED
  BY <1>1, FS_EmptySet, LimitAssumption DEF SlotsAccounted

LEMMA SlotsStep ==
    ASSUME TypeOK, SlotsAccounted, [Next]_vars
    PROVE  SlotsAccounted'
<1>1. CASE UNCHANGED <<engine, activeAsks, current>>
  BY <1>1 DEF SlotsAccounted, BusyActors
<1>2. CASE engine' # "live"
  BY <1>2 DEF SlotsAccounted
<1>3. CASE RebuildEngine
  BY <1>3, RebuildSlots
<1>4. ASSUME NEW i \in DOMAIN liveNodes, NEW status, NEW result,
             Settle(i, status, result)
      PROVE  SlotsAccounted'
  BY <1>4, SettleSlots
<1>5. CASE ReceiveAsk
  BY <1>1, <1>2, <1>5 DEF ReceiveAsk, SettleRun, dispatching
<1>6. CASE ReceiveEnd \/ Stop
  BY <1>2, <1>6 DEF ReceiveEnd, Stop, SettleRun
<1>7. CASE ScriptTakesAnswer
  BY <1>1, <1>7 DEF ScriptTakesAnswer, dispatching
<1>8. CASE \E a \in Actors : DrainRecorded(a) \/ DrainFresh(a)
  BY <1>1, <1>8 DEF DrainRecorded, DrainFresh
<1>9. CASE \E a \in Actors : DrainEnds(a)
  BY <1>9, PumpSlots DEF DrainEnds
<1>10. CASE PumpNext
  BY <1>10, PumpSlots DEF PumpNext, TypeOK
<1>11. CASE \E a \in Actors : SessionSettles(a)
  BY <1>1, <1>11 DEF SessionSettles
<1>12. CASE Dispatching
  BY <1>1, <1>4, <1>12 DEF Dispatching, DispatchResumes, StillWanted
<1>13. CASE Reporting
  BY <1>1, <1>4, <1>13, ReportCases DEF Reporting, BudgetSpent, dispatching
<1>14. CASE Crash \/ Resume
  BY <1>3, <1>14 DEF Crash, Resume
<1>15. CASE Reopen
  BY <1>2, <1>15 DEF Reopen
<1>16. CASE Rest \/ UNCHANGED vars
  BY <1>1, <1>16 DEF Rest, vars, dispatching
<1> QED
  BY <1>5, <1>6, <1>7, <1>8, <1>9, <1>10, <1>11, <1>12, <1>13, <1>14, <1>15,
     <1>16 DEF Next, EngineStep, Drain

-----------------------------------------------------------------------------
\* The journal and what the scheduler holds of the asks

LEMMA AgreesKept ==
    ASSUME JournalAgrees,
           UNCHANGED <<journal, liveNodes, pendingRecorded, pendingLive, ordinals>>
    PROVE  JournalAgrees'
BY DEF JournalAgrees, RowsOfScript, LiveNodesRecorded, HeldAsksRecorded,
       FreshAsksUnrecorded, FreshAsksDistinct, BelongsTo

\* A run that settles keeps its rows and its held asks and forgets the live
\* ones; a call that settles it may have been counted.
LEMMA SettleRunAgrees ==
    ASSUME TypeOK, JournalAgrees, NEW status, SettleRun(status),
           ordinals' \in [Sites -> Nat],
           \A s \in Sites : ordinals[s] <= ordinals'[s]
    PROVE  JournalAgrees'
<1>1. /\ journal' = journal /\ liveNodes' = <<>>
      /\ pendingRecorded' = pendingRecorded /\ pendingLive' = pendingLive
  BY DEF SettleRun, admission
<1>2. RowsOfScript' /\ HeldAsksRecorded' /\ FreshAsksDistinct'
  BY <1>1 DEF JournalAgrees, RowsOfScript, HeldAsksRecorded,
              FreshAsksDistinct, BelongsTo
<1>3. LiveNodesRecorded'
  BY <1>1 DEF LiveNodesRecorded
<1>4. FreshAsksUnrecorded'
  <2> SUFFICES ASSUME NEW a \in Actors, NEW n \in DOMAIN pendingLive[a]
               PROVE  pendingLive[a][n].inst[2]
                          <= ordinals'[pendingLive[a][n].inst[1]]
    BY <1>1 DEF JournalAgrees, FreshAsksUnrecorded, BelongsTo
  <2> DEFINE held == pendingLive[a][n].inst
  <2>1. pendingLive[a] \in Seq(Asks)
    BY DEF TypeOK
  <2>2. pendingLive[a][n] \in Asks
    BY <2>1
  <2>3. held[1] \in Sites /\ held[2] \in Nat
    BY <2>2 DEF Asks, Instances
  <2>4. held[2] <= ordinals[held[1]]
    BY DEF JournalAgrees, FreshAsksUnrecorded
  <2>5. ordinals \in [Sites -> Nat]
    BY DEF TypeOK
  <2> HIDE DEF held
  <2>6. held[2] <= ordinals'[held[1]]
    BY <2>3, <2>4, <2>5
  <2> QED
    BY <2>6 DEF held
<1> QED
  BY <1>2, <1>3, <1>4 DEF JournalAgrees

LEMMA RebuildAgrees ==
    ASSUME JournalAgrees, RebuildEngine, UNCHANGED journal
    PROVE  JournalAgrees'
<1>1. /\ liveNodes' = <<>>
      /\ \A a \in Actors : pendingRecorded'[a] = <<>> /\ pendingLive'[a] = <<>>
  BY DEF RebuildEngine
<1>2. RowsOfScript'
  BY DEF JournalAgrees, RowsOfScript, BelongsTo
<1>3. LiveNodesRecorded' /\ HeldAsksRecorded'
  BY <1>1 DEF LiveNodesRecorded, HeldAsksRecorded
<1>4. FreshAsksUnrecorded' /\ FreshAsksDistinct'
  BY <1>1 DEF FreshAsksUnrecorded, FreshAsksDistinct
<1> QED
  BY <1>2, <1>3, <1>4 DEF JournalAgrees

\* A settlement rewrites the row of its own ask, under the same identity.
LEMMA SettleAgrees ==
    ASSUME TypeOK, JournalAgrees, NEW i \in DOMAIN liveNodes,
           NEW status, NEW result, Settle(i, status, result)
    PROVE  /\ JournalAgrees'
           /\ DOMAIN journal' = DOMAIN journal
           /\ \A j \in DOMAIN journal : j # i => journal'[j] = journal[j]
           /\ journal[i].status = "running"
           /\ journal'[i].seq = journal[i].seq
           /\ journal'[i].hash = journal[i].hash
           /\ journal'[i].actor = journal[i].actor
<1> DEFINE node == liveNodes[i]
<1>1. /\ i \in DOMAIN journal
      /\ journal[i].status = "running"
      /\ journal[i].actor = node.actor
      /\ journal[i].seq = node.seq
      /\ journal[i].hash = node.hash
  BY DEF JournalAgrees, LiveNodesRecorded
<1>2. journal' = Put(journal, i, Row(node, node.seq, status, result))
  BY DEF Settle, RecordSettled
<1>3. /\ DOMAIN journal' = DOMAIN journal
      /\ \A j \in DOMAIN journal : j # i => journal'[j] = journal[j]
      /\ journal'[i].seq = journal[i].seq
      /\ journal'[i].hash = journal[i].hash
      /\ journal'[i].actor = journal[i].actor
  BY <1>1, <1>2 DEF Put, Row
<1>4. \A j \in DOMAIN journal : /\ journal'[j].seq = journal[j].seq
                                /\ journal'[j].hash = journal[j].hash
                                /\ journal'[j].actor = journal[j].actor
  BY <1>3
<1>5. /\ liveNodes' = Without(liveNodes, i)
      /\ pendingRecorded' = pendingRecorded
      /\ pendingLive' = pendingLive /\ ordinals' = ordinals
  BY DEF Settle, admission
<1>6. RowsOfScript'
  BY <1>3, <1>4 DEF JournalAgrees, RowsOfScript, BelongsTo
<1>7. LiveNodesRecorded'
  BY <1>3, <1>5 DEF JournalAgrees, LiveNodesRecorded, Without
<1>8. HeldAsksRecorded'
  BY <1>3, <1>4, <1>5 DEF JournalAgrees, HeldAsksRecorded, BelongsTo
<1>9. FreshAsksUnrecorded' /\ FreshAsksDistinct'
  BY <1>3, <1>5 DEF JournalAgrees, FreshAsksUnrecorded, FreshAsksDistinct,
                    BelongsTo
<1> QED
  BY <1>1, <1>3, <1>6, <1>7, <1>8, <1>9 DEF JournalAgrees

\* Marking a live ask changes nothing of its identity.
LEMMA MarkAgrees ==
    ASSUME TypeOK, JournalAgrees, NEW i \in DOMAIN liveNodes,
           \/ liveNodes' = [liveNodes EXCEPT ![i].repairs = @ - 1]
           \/ liveNodes' = [liveNodes EXCEPT ![i].nudges = @ - 1]
           \/ liveNodes' = [liveNodes EXCEPT ![i].dispatched = TRUE],
           UNCHANGED <<journal, pendingRecorded, pendingLive, ordinals>>
    PROVE  JournalAgrees'
<1>1. /\ DOMAIN liveNodes' = DOMAIN liveNodes
      /\ \A j \in DOMAIN liveNodes :
             /\ liveNodes'[j].actor = liveNodes[j].actor
             /\ liveNodes'[j].seq = liveNodes[j].seq
             /\ liveNodes'[j].hash = liveNodes[j].hash
  <2>1. liveNodes[i] \in Nodes
    BY DEF TypeOK, IsMap
  <2>2. CASE liveNodes' = [liveNodes EXCEPT ![i].repairs = @ - 1]
    BY <2>1, <2>2 DEF Nodes
  <2>3. CASE liveNodes' = [liveNodes EXCEPT ![i].nudges = @ - 1]
    BY <2>1, <2>3 DEF Nodes
  <2>4. CASE liveNodes' = [liveNodes EXCEPT ![i].dispatched = TRUE]
    BY <2>1, <2>4 DEF Nodes
  <2> QED
    BY <2>2, <2>3, <2>4
<1>2. LiveNodesRecorded'
  BY <1>1 DEF JournalAgrees, LiveNodesRecorded
<1>3. RowsOfScript'
  BY DEF JournalAgrees, RowsOfScript, BelongsTo
<1>4. HeldAsksRecorded'
  BY DEF JournalAgrees, HeldAsksRecorded, BelongsTo
<1>5. FreshAsksUnrecorded'
  BY DEF JournalAgrees, FreshAsksUnrecorded, BelongsTo
<1>6. FreshAsksDistinct'
  BY DEF JournalAgrees, FreshAsksDistinct
<1> QED
  BY <1>2, <1>3, <1>4, <1>5, <1>6 DEF JournalAgrees

\* A replayed ask is held under the actorSeq and the hash of its row; a fresh
\* one is held under an instance number that no earlier call has got.
LEMMA ReceiveAskAgrees ==
    ASSUME TypeOK, JournalAgrees, ReceiveAsk
    PROVE  JournalAgrees'
<1> DEFINE m == Head(toEngine)
           step == StepOf(m.fiber, m.seen)
           a == step.actor
           inst == <<step.site, ordinals[step.site] + 1>>
           ask == [inst |-> inst, actor |-> a,
                   hash |-> <<m.fiber, m.seen>>, typed |-> step.typed]
<1>1. m \in Messages /\ m.kind = "ask"
  BY QueueHead DEF ReceiveAsk, TypeOK
<1>2. m.fiber \in Fibers /\ m.seen \in Seq(Outcomes)
      /\ Len(m.seen) < Len(Script[m.fiber])
  BY <1>1 DEF Messages
<1>3. step \in Step
  BY <1>2, StepType
<1>4. step.site \in Sites /\ a \in Actors
  BY <1>3 DEF Step
<1>5. ordinals' = [ordinals EXCEPT ![step.site] = @ + 1]
  BY DEF ReceiveAsk, CountCall
<1>6. ordinals \in [Sites -> Nat]
  BY DEF TypeOK
<1>7. /\ ordinals' \in [Sites -> Nat]
      /\ \A s \in Sites : ordinals[s] <= ordinals'[s]
      /\ ordinals'[step.site] = ordinals[step.site] + 1
  <2> HIDE DEF step
  <2> QED
    BY <1>4, <1>5, <1>6
<1>8. ask.actor = a /\ BelongsTo(ask, a) /\ ask.inst = inst
      /\ ask.hash = <<m.fiber, m.seen>>
  BY DEF BelongsTo
<1> DEFINE Kept == journal' = journal /\ liveNodes' = liveNodes
<1>9. CASE SettleRun("errored")
  BY <1>7, <1>9, SettleRunAgrees
<1>10. ASSUME Kept PROVE RowsOfScript' /\ LiveNodesRecorded'
  BY <1>10 DEF JournalAgrees, RowsOfScript, LiveNodesRecorded, BelongsTo
<1>11. FreshAsksUnrecorded
  BY DEF JournalAgrees
<1>12. ASSUME NEW b \in Actors, NEW n \in DOMAIN pendingLive[b]
       PROVE  /\ pendingLive[b][n].inst[2] <= ordinals'[pendingLive[b][n].inst[1]]
              /\ pendingLive[b][n].inst # inst
  <2> DEFINE old == pendingLive[b][n]
  <2>1. old \in Asks
    <3>1. pendingLive[b] \in Seq(Asks)
      BY DEF TypeOK
    <3> QED
      BY <3>1
  <2>2. old.inst[1] \in Sites /\ old.inst[2] \in Nat
    BY <2>1 DEF Asks, Instances
  <2>3. old.inst[2] <= ordinals[old.inst[1]]
    BY <1>11 DEF FreshAsksUnrecorded
  <2>4. old.inst[2] <= ordinals'[old.inst[1]]
    <3> HIDE DEF old
    <3> QED
      BY <1>6, <1>7, <2>2, <2>3
  <2>5. old.inst # inst
    <3> HIDE DEF old, step
    <3> QED
      BY <1>4, <1>6, <2>2, <2>3
  <2> QED
    BY <2>4, <2>5
<1>13. CASE /\ inst \in DOMAIN journal
            /\ SameQuestion(journal[inst], ask)
            /\ pendingRecorded' = [pendingRecorded EXCEPT
                   ![a] = Put(@, journal[inst].seq, ask)]
            /\ pendingLive' = pendingLive
            /\ Kept
  <2>1. HeldAsksRecorded'
    <3> SUFFICES ASSUME NEW b \in Actors, NEW seq \in DOMAIN pendingRecorded'[b]
                 PROVE  LET held == pendingRecorded'[b][seq] IN
                        /\ held.actor = b
                        /\ BelongsTo(held, b)
                        /\ held.inst \in DOMAIN journal
                        /\ journal[held.inst].seq = seq
                        /\ journal[held.inst].hash = held.hash
      <4>1. journal' = journal
        BY <1>13
      <4> HIDE DEF m, step, a, inst, ask
      <4> QED
        BY <4>1 DEF HeldAsksRecorded, BelongsTo
    <3>1. CASE b = a /\ seq = journal[inst].seq
      <4>1. pendingRecorded'[b][seq] = ask
        BY <1>4, <1>13, <3>1 DEF Put, TypeOK
      <4>2. journal[inst].hash = ask.hash
        BY <1>13 DEF SameQuestion
      <4> HIDE DEF ask, inst, a
      <4> QED
        BY <1>8, <1>13, <3>1, <4>1, <4>2
    <3>2. CASE b # a \/ seq # journal[inst].seq
      <4>1. /\ seq \in DOMAIN pendingRecorded[b]
            /\ pendingRecorded'[b][seq] = pendingRecorded[b][seq]
        BY <1>4, <1>13, <3>2 DEF Put, TypeOK
      <4> QED
        BY <4>1 DEF JournalAgrees, HeldAsksRecorded
    <3> QED
      BY <3>1, <3>2
  <2>2. FreshAsksUnrecorded'
    BY <1>11, <1>12, <1>13 DEF FreshAsksUnrecorded, BelongsTo
  <2>3. FreshAsksDistinct'
    <3>1. pendingLive' = pendingLive
      BY <1>13
    <3> QED
      BY <3>1 DEF JournalAgrees, FreshAsksDistinct
  <2> QED
    BY <1>10, <1>13, <2>1, <2>2, <2>3 DEF JournalAgrees
<1>14. CASE /\ inst \notin DOMAIN journal
            /\ pendingLive' = [pendingLive EXCEPT ![a] = Append(@, ask)]
            /\ pendingRecorded' = pendingRecorded
            /\ Kept
  <2>1. HeldAsksRecorded'
    <3>1. journal' = journal /\ pendingRecorded' = pendingRecorded
      BY <1>14
    <3> QED
      BY <3>1 DEF JournalAgrees, HeldAsksRecorded, BelongsTo
  <2>2. ASSUME NEW b \in Actors, NEW n \in DOMAIN pendingLive'[b]
        PROVE  \/ /\ n \in DOMAIN pendingLive[b]
                  /\ pendingLive'[b][n] = pendingLive[b][n]
               \/ /\ b = a /\ n = Len(pendingLive[a]) + 1
                  /\ pendingLive'[b][n] = ask
    <3>1. pendingLive \in [Actors -> Seq(Asks)]
      BY DEF TypeOK
    <3> HIDE DEF ask, a
    <3>2. CASE b # a
      BY <1>14, <3>1, <3>2
    <3>3. CASE b = a
      <4>1. pendingLive'[b] = Append(pendingLive[b], ask)
        BY <1>14, <3>1, <3>3
      <4>2. pendingLive[b] \in Seq(Asks)
        BY <3>1
      <4> QED
        BY <3>3, <4>1, <4>2
    <3> QED
      BY <3>2, <3>3
  <2>3. FreshAsksUnrecorded'
    <3> SUFFICES ASSUME NEW b \in Actors, NEW n \in DOMAIN pendingLive'[b]
                 PROVE  LET held == pendingLive'[b][n] IN
                        /\ held.actor = b
                        /\ BelongsTo(held, b)
                        /\ held.inst \notin DOMAIN journal
                        /\ held.inst[2] <= ordinals'[held.inst[1]]
      BY <1>14 DEF FreshAsksUnrecorded, BelongsTo
    <3>1. CASE /\ n \in DOMAIN pendingLive[b]
               /\ pendingLive'[b][n] = pendingLive[b][n]
      BY <1>11, <1>12, <3>1 DEF FreshAsksUnrecorded
    <3>2. CASE b = a /\ pendingLive'[b][n] = ask
      <4>1. inst[1] = step.site /\ inst[2] = ordinals[step.site] + 1
        OBVIOUS
      <4>2. inst[2] <= ordinals'[inst[1]]
        <5> HIDE DEF step
        <5> QED
          BY <1>4, <1>6, <1>7, <4>1
      <4> HIDE DEF ask, inst, a
      <4> QED
        BY <1>8, <1>14, <3>2, <4>2
    <3> QED
      BY <2>2, <3>1, <3>2
  <2>4. FreshAsksDistinct'
    <3> SUFFICES ASSUME NEW b \in Actors, NEW c \in Actors,
                        NEW k \in DOMAIN pendingLive'[b],
                        NEW n \in DOMAIN pendingLive'[c],
                        pendingLive'[b][k].inst = pendingLive'[c][n].inst
                 PROVE  b = c /\ k = n
      BY DEF FreshAsksDistinct
    <3> HIDE DEF ask, inst, a
    <3> QED
      BY <1>8, <1>12, <2>2 DEF JournalAgrees, FreshAsksDistinct
  <2> QED
    BY <1>10, <1>14, <2>1, <2>3, <2>4 DEF JournalAgrees
<1> QED
  BY <1>9, <1>13, <1>14 DEF ReceiveAsk, durable

\* What a step may do to the rows there are: SettledRowsFrozen of one step.
RowsFrozen ==
    \A i \in DOMAIN journal :
        /\ i \in DOMAIN journal'
        /\ journal[i].status # "running" => journal'[i] = journal[i]
        /\ journal'[i].seq = journal[i].seq
        /\ journal'[i].hash = journal[i].hash
        /\ journal'[i].actor = journal[i].actor

\* A recorded ask is admitted under the row it was recognised by: a running
\* row is written again as it was, the actor included, because the actor is
\* a function of the hash.
LEMMA DrainRecordedAgrees ==
    ASSUME TypeOK, JournalAgrees, NEW a \in Actors, DrainRecorded(a)
    PROVE  JournalAgrees' /\ RowsFrozen
<1> DEFINE seq == nextAdmitSeq[a]
           ask == pendingRecorded[a][seq]
<1>1. seq \in DOMAIN pendingRecorded[a]
  BY DEF DrainRecorded, RecordedIsNext
<1>2. /\ ask.actor = a
      /\ BelongsTo(ask, a)
      /\ ask.inst \in DOMAIN journal
      /\ journal[ask.inst].seq = seq
      /\ journal[ask.inst].hash = ask.hash
  BY <1>1 DEF JournalAgrees, HeldAsksRecorded
<1>3. journal[ask.inst].actor = a
  BY <1>2 DEF JournalAgrees, RowsOfScript, BelongsTo
<1>4. /\ pendingRecorded' = [pendingRecorded EXCEPT ![a] = Without(@, seq)]
      /\ pendingLive' = pendingLive /\ ordinals' = ordinals
  BY DEF DrainRecorded
<1>5. \A b \in Actors : \A n \in DOMAIN pendingRecorded'[b] :
          /\ n \in DOMAIN pendingRecorded[b]
          /\ pendingRecorded'[b][n] = pendingRecorded[b][n]
  <2> HIDE DEF seq
  <2> QED
    BY <1>4 DEF Without, TypeOK
<1>6. /\ DOMAIN journal' = DOMAIN journal
      /\ \A i \in DOMAIN journal :
             /\ journal[i].status # "running" => journal'[i] = journal[i]
             /\ journal'[i].seq = journal[i].seq
             /\ journal'[i].hash = journal[i].hash
             /\ journal'[i].actor = journal[i].actor
             /\ journal[i].status = "running" => journal'[i].status = "running"
  <2>1. CASE RunsAgain(journal[ask.inst]) /\ AdmitLive(ask, seq)
    <3>1. journal' = Put(journal, ask.inst, Row(ask, seq, "running", NoResult))
      BY <2>1 DEF AdmitLive
    <3>2. journal[ask.inst].status = "running"
      BY <2>1 DEF RunsAgain
    <3> HIDE DEF ask, seq
    <3> QED
      BY <1>2, <1>3, <3>1, <3>2 DEF Put, Row
  <2>2. CASE journal' = journal
    BY <2>2
  <2> QED
    BY <2>1, <2>2 DEF DrainRecorded
<1>7. RowsOfScript'
  BY <1>6 DEF JournalAgrees, RowsOfScript, BelongsTo
<1>8. LiveNodesRecorded'
  <2>1. CASE RunsAgain(journal[ask.inst]) /\ AdmitLive(ask, seq)
    <3>1. /\ DOMAIN liveNodes' = DOMAIN liveNodes \union {ask.inst}
          /\ \A j \in DOMAIN liveNodes : j # ask.inst
                 => liveNodes'[j] = liveNodes[j]
          /\ liveNodes'[ask.inst].actor = ask.actor
          /\ liveNodes'[ask.inst].hash = ask.hash
          /\ liveNodes'[ask.inst].seq = seq
      <4> HIDE DEF ask, seq
      <4> QED
        BY <2>1 DEF AdmitLive, Put
    <3>2. journal[ask.inst].status = "running"
      BY <2>1 DEF RunsAgain
    <3> HIDE DEF ask, seq
    <3> QED
      BY <1>2, <1>3, <1>6, <3>1, <3>2 DEF JournalAgrees, LiveNodesRecorded
  <2>2. CASE journal' = journal /\ liveNodes' = liveNodes
    BY <2>2 DEF JournalAgrees, LiveNodesRecorded
  <2> QED
    BY <2>1, <2>2 DEF DrainRecorded
<1>9. HeldAsksRecorded'
  BY <1>5, <1>6 DEF JournalAgrees, HeldAsksRecorded, BelongsTo
<1>10. FreshAsksUnrecorded' /\ FreshAsksDistinct'
  BY <1>4, <1>6 DEF JournalAgrees, FreshAsksUnrecorded, FreshAsksDistinct,
                    BelongsTo
<1>11. RowsFrozen
  BY <1>6 DEF RowsFrozen
<1> QED
  BY <1>7, <1>8, <1>9, <1>10, <1>11 DEF JournalAgrees

\* A fresh ask gets a row of its own, where there was none.
LEMMA DrainFreshAgrees ==
    ASSUME TypeOK, JournalAgrees, NEW a \in Actors, DrainFresh(a)
    PROVE  JournalAgrees' /\ RowsFrozen
<1> DEFINE seq == nextAdmitSeq[a]
           ask == Head(pendingLive[a])
<1>0. pendingLive[a] \in Seq(Asks) /\ pendingLive[a] # <<>>
      /\ pendingLive \in [Actors -> Seq(Asks)]
  BY DEF DrainFresh, TypeOK
<1>1. 1 \in DOMAIN pendingLive[a] /\ ask = pendingLive[a][1]
  BY <1>0
<1>2. /\ ask.actor = a
      /\ BelongsTo(ask, a)
      /\ ask.inst \notin DOMAIN journal
  BY <1>1 DEF JournalAgrees, FreshAsksUnrecorded
<1>3. /\ pendingLive' = [pendingLive EXCEPT ![a] = Tail(@)]
      /\ pendingRecorded' = pendingRecorded /\ ordinals' = ordinals
      /\ journal' = Put(journal, ask.inst, Row(ask, seq, "running", NoResult))
  BY DEF DrainFresh, AdmitLive
<1>4. /\ DOMAIN journal' = DOMAIN journal \union {ask.inst}
      /\ \A i \in DOMAIN journal : journal'[i] = journal[i]
      /\ journal'[ask.inst] = Row(ask, seq, "running", NoResult)
  <2> HIDE DEF ask, seq
  <2> QED
    BY <1>2, <1>3 DEF Put
<1>5. /\ journal'[ask.inst].actor = a /\ journal'[ask.inst].hash = ask.hash
      /\ journal'[ask.inst].seq = seq
      /\ journal'[ask.inst].status = "running"
  BY <1>2, <1>4 DEF Row
<1>6. /\ DOMAIN liveNodes' = DOMAIN liveNodes \union {ask.inst}
      /\ \A j \in DOMAIN liveNodes : j # ask.inst
             => liveNodes'[j] = liveNodes[j]
      /\ liveNodes'[ask.inst].actor = ask.actor
      /\ liveNodes'[ask.inst].hash = ask.hash
      /\ liveNodes'[ask.inst].seq = seq
  <2>1. AdmitLive(ask, seq)
    BY DEF DrainFresh
  <2> HIDE DEF ask, seq
  <2> QED
    BY <2>1 DEF AdmitLive, Put
\* The asks still held are those that were held, but for the first of a.
<1>7. ASSUME NEW b \in Actors, NEW n \in DOMAIN pendingLive'[b]
      PROVE  /\ b # a => /\ n \in DOMAIN pendingLive[b]
                         /\ pendingLive'[b][n] = pendingLive[b][n]
             /\ b = a => /\ n \in Nat
                         /\ n + 1 \in DOMAIN pendingLive[b]
                         /\ n + 1 # 1
                         /\ pendingLive'[b][n] = pendingLive[b][n + 1]
  <2>1. CASE b # a
    BY <1>0, <1>3, <2>1
  <2>2. CASE b = a
    <3>1. pendingLive'[b] = Tail(pendingLive[a])
      BY <1>0, <1>3, <2>2
    <3> QED
      BY <1>0, <2>2, <3>1
  <2> QED
    BY <2>1, <2>2
<1>8. ASSUME NEW b \in Actors, NEW n \in DOMAIN pendingLive'[b]
      PROVE  /\ pendingLive'[b][n].inst # ask.inst
             /\ pendingLive'[b][n].inst \notin DOMAIN journal
             /\ pendingLive'[b][n].actor = b
             /\ BelongsTo(pendingLive'[b][n], b)
             /\ pendingLive'[b][n].inst[2]
                    <= ordinals[pendingLive'[b][n].inst[1]]
  <2> HIDE DEF ask
  <2>1. CASE b # a
    BY <1>1, <1>7, <2>1
       DEF JournalAgrees, FreshAsksUnrecorded, FreshAsksDistinct
  <2>2. CASE b = a
    BY <1>1, <1>7, <2>2
       DEF JournalAgrees, FreshAsksUnrecorded, FreshAsksDistinct
  <2> QED
    BY <2>1, <2>2
<1> HIDE DEF ask, seq
<1>9. RowsOfScript'
  <2>1. BelongsTo(journal'[ask.inst], a)
    BY <1>2, <1>5 DEF BelongsTo
  <2> QED
    BY <1>4, <1>5, <2>1 DEF JournalAgrees, RowsOfScript, BelongsTo
<1>10. LiveNodesRecorded'
  BY <1>2, <1>4, <1>5, <1>6 DEF JournalAgrees, LiveNodesRecorded
<1>11. HeldAsksRecorded'
  <2>1. HeldAsksRecorded
    BY DEF JournalAgrees
  <2>2. \A i \in DOMAIN journal : i \in DOMAIN journal' /\ journal'[i] = journal[i]
    BY <1>4
  <2>3. pendingRecorded' = pendingRecorded
    BY DEF DrainFresh
  <2> SUFFICES ASSUME NEW b \in Actors, NEW n \in DOMAIN pendingRecorded[b]
               PROVE  LET held == pendingRecorded[b][n] IN
                      /\ held.actor = b
                      /\ BelongsTo(held, b)
                      /\ held.inst \in DOMAIN journal'
                      /\ journal'[held.inst].seq = n
                      /\ journal'[held.inst].hash = held.hash
    BY <2>3 DEF HeldAsksRecorded, BelongsTo
  <2> QED
    BY <2>1, <2>2 DEF HeldAsksRecorded
<1>12. FreshAsksUnrecorded'
  <2> SUFFICES ASSUME NEW b \in Actors, NEW n \in DOMAIN pendingLive'[b]
               PROVE  LET held == pendingLive'[b][n] IN
                      /\ held.actor = b
                      /\ BelongsTo(held, b)
                      /\ held.inst \notin DOMAIN journal'
                      /\ held.inst[2] <= ordinals'[held.inst[1]]
    BY DEF FreshAsksUnrecorded, BelongsTo
  <2> QED
    BY <1>3, <1>4, <1>8
<1>13. FreshAsksDistinct'
  <2> SUFFICES ASSUME NEW b \in Actors, NEW c \in Actors,
                      NEW k \in DOMAIN pendingLive'[b],
                      NEW n \in DOMAIN pendingLive'[c],
                      pendingLive'[b][k].inst = pendingLive'[c][n].inst
               PROVE  b = c /\ k = n
    BY DEF FreshAsksDistinct
  <2>1. FreshAsksDistinct
    BY DEF JournalAgrees
  <2>2. CASE b = a /\ c = a
    BY <1>7, <2>1, <2>2 DEF FreshAsksDistinct
  <2>3. CASE b # a /\ c # a
    BY <1>7, <2>1, <2>3 DEF FreshAsksDistinct
  <2>4. CASE b = a /\ c # a
    BY <1>7, <2>1, <2>4 DEF FreshAsksDistinct
  <2>5. CASE b # a /\ c = a
    BY <1>7, <2>1, <2>5 DEF FreshAsksDistinct
  <2> QED
    BY <2>2, <2>3, <2>4, <2>5
<1>14. RowsFrozen
  BY <1>4 DEF RowsFrozen
<1> QED
  BY <1>9, <1>10, <1>11, <1>12, <1>13, <1>14 DEF JournalAgrees

LEMMA AgreesStep ==
    ASSUME TypeOK, JournalAgrees, [Next]_vars
    PROVE  JournalAgrees' /\ RowsFrozen
<1>1. CASE UNCHANGED <<journal, liveNodes, pendingRecorded, pendingLive, ordinals>>
  BY <1>1, AgreesKept DEF RowsFrozen
<1>2. ASSUME NEW status, SettleRun(status), ordinals' = ordinals
      PROVE  JournalAgrees' /\ RowsFrozen
  <2>1. ordinals' \in [Sites -> Nat] /\ \A s \in Sites : ordinals[s] <= ordinals'[s]
    BY <1>2 DEF TypeOK
  <2>2. JournalAgrees'
    BY <1>2, <2>1, SettleRunAgrees
  <2>3. journal' = journal
    BY <1>2 DEF SettleRun
  <2> QED
    BY <2>2, <2>3 DEF RowsFrozen
<1>3. CASE RebuildEngine /\ UNCHANGED journal
  BY <1>3, RebuildAgrees DEF RowsFrozen
<1>4. ASSUME NEW i \in DOMAIN liveNodes, NEW status, NEW result,
             Settle(i, status, result)
      PROVE  JournalAgrees' /\ RowsFrozen
  BY <1>4, SettleAgrees DEF RowsFrozen
<1>5. ASSUME NEW i \in DOMAIN liveNodes,
             \/ liveNodes' = [liveNodes EXCEPT ![i].repairs = @ - 1]
             \/ liveNodes' = [liveNodes EXCEPT ![i].nudges = @ - 1]
             \/ liveNodes' = [liveNodes EXCEPT ![i].dispatched = TRUE],
             UNCHANGED <<journal, pendingRecorded, pendingLive, ordinals>>
      PROVE  JournalAgrees' /\ RowsFrozen
  BY <1>5, MarkAgrees DEF RowsFrozen
<1>6. CASE ReceiveAsk
  <2>1. journal' = journal
    BY <1>6 DEF ReceiveAsk, SettleRun, durable
  <2> QED
    BY <1>6, <2>1, ReceiveAskAgrees DEF RowsFrozen
<1>7. CASE ReceiveEnd \/ Stop
  BY <1>2, <1>7 DEF ReceiveEnd, Stop
<1>8. CASE ScriptTakesAnswer
  BY <1>1, <1>8 DEF ScriptTakesAnswer, durable, admission
<1>9. CASE \E a \in Actors : DrainRecorded(a)
  BY <1>9, DrainRecordedAgrees
<1>10. CASE \E a \in Actors : DrainFresh(a)
  BY <1>10, DrainFreshAgrees
<1>11. CASE PumpNext \/ \E a \in Actors : DrainEnds(a) \/ SessionSettles(a)
  BY <1>1, <1>11 DEF PumpNext, DrainEnds, SessionSettles, durable, admission
<1>12. CASE Dispatching
  BY <1>1, <1>4, <1>5, <1>12
     DEF Dispatching, DispatchResumes, StillWanted, durable, admission
<1>13. CASE Reporting
  BY <1>4, <1>5, <1>13, ReportCases
     DEF Reporting, BudgetSpent, durable, admission
<1>14. CASE Crash \/ Resume
  BY <1>3, <1>14 DEF Crash, Resume, durable
<1>15. CASE Reopen \/ Rest \/ UNCHANGED vars
  BY <1>1, <1>15 DEF Reopen, Rest, vars, durable, admission
<1> QED
  BY <1>6, <1>7, <1>8, <1>9, <1>10, <1>11, <1>12, <1>13, <1>14, <1>15
     DEF Next, EngineStep, Drain

-----------------------------------------------------------------------------
\* The inductive invariant and what follows from it

\* Types need the journal (a held ask has a row to be answered from) and the
\* slot counter (it is decremented only when it is not zero); the journal's
\* agreement needs the types.  Together they are inductive.
IInv == TypeOK /\ JournalAgrees /\ SlotsAccounted

LEMMA InitIInv == Init => IInv
<1> SUFFICES ASSUME Init PROVE IInv
  OBVIOUS
<1>1. TypeOK
  <2>1. /\ IsMap(journal, Instances, Rows) /\ IsFiniteSet(DOMAIN journal)
        /\ IsMap(liveNodes, Instances, Nodes)
        /\ IsMap(events, Instances, {"queued", "dispatched", "settled"})
    BY EmptyMap, EmptyDomain, FS_EmptySet DEF Init
  <2>2. /\ DOMAIN pendingRecorded = Actors
        /\ \A a \in Actors : IsMap(pendingRecorded[a], Nat, Asks)
    BY EmptyMap DEF Init
  <2>3. /\ pendingLive \in [Actors -> Seq(Asks)]
        /\ liveQueue \in [Actors -> Seq(Instances)]
        /\ hist \in [Fibers -> Seq(Outcomes)]
        /\ toChild \in Seq(Answers)
    BY DEF Init
  <2>4. toEngine \in Seq(Messages)
    BY FirstAsksType DEF Init
  <2>5. pc \in [op : {"idle", "drain", "pump"}, actor : Actors, fresh : BOOLEAN]
    BY ScriptAssumption DEF Init, Idle
  <2>6. lives \in 1 .. MaxLives
    BY LimitAssumption DEF Init
  <2>7. /\ runRow \in {"running", "completed", "stopped", "superseded", "errored"}
        /\ engine \in {"live", "settled", "none", "down"}
        /\ ordinals \in [Sites -> Nat]
        /\ recordedCount \in [Actors -> Nat]
        /\ nextAdmitSeq \in [Actors -> Nat]
        /\ current \in [Actors -> Instances \union {NoInstance}]
        /\ activeAsks \in Nat
        /\ session \in [Actors -> {"none", "creating", "ready", "failed"}]
        /\ awaiting \subseteq Actors \X Instances
        /\ turns \subseteq Instances
        /\ told \subseteq Hashes \X Outcomes
        /\ mismatch \in BOOLEAN
    BY DEF Init
  <2> QED
    BY <2>1, <2>2, <2>3, <2>4, <2>5, <2>6, <2>7 DEF TypeOK
<1>2. JournalAgrees
  BY EmptyDomain
     DEF Init, JournalAgrees, RowsOfScript, LiveNodesRecorded, HeldAsksRecorded,
         FreshAsksUnrecorded, FreshAsksDistinct
<1>3. SlotsAccounted
  <2>1. BusyActors = {} /\ activeAsks = 0
    BY DEF Init, BusyActors
  <2> QED
    BY <2>1, FS_EmptySet, LimitAssumption DEF SlotsAccounted
<1> QED
  BY <1>1, <1>2, <1>3 DEF IInv

LEMMA TypeStep ==
    ASSUME IInv, [Next]_vars
    PROVE  TypeOK'
<1>1. TypeOK /\ SlotsAccounted /\ HeldAsksRecorded
  BY DEF IInv, JournalAgrees
<1>2. CASE ReceiveAsk
  BY <1>1, <1>2, ReceiveAskType
<1>3. CASE ReceiveEnd \/ Stop \/ Crash \/ Reopen \/ Resume
  BY <1>1, <1>3, RunType
<1>4. CASE ScriptTakesAnswer
  BY <1>1, <1>4, ScriptTakesAnswerType
<1>5. CASE \E a \in Actors : Drain(a)
  BY <1>1, <1>5, DrainRecordedType, DrainFreshType, DrainEndsType DEF Drain
<1>6. CASE PumpNext
  BY <1>1, <1>6, PumpNextType
<1>7. CASE \E a \in Actors : SessionSettles(a)
  BY <1>1, <1>7, SessionSettlesType
<1>8. CASE Dispatching
  BY <1>1, <1>8, DispatchResumesType DEF Dispatching
<1>9. CASE Reporting
  BY <1>1, <1>9, DriverReportsType DEF Reporting
<1>10. CASE Rest \/ UNCHANGED vars
  BY <1>1, <1>10, TypeStutter DEF Rest
<1> QED
  BY <1>2, <1>3, <1>4, <1>5, <1>6, <1>7, <1>8, <1>9, <1>10 DEF Next, EngineStep

LEMMA NextIInv == IInv /\ [Next]_vars => IInv' /\ RowsFrozen
<1> SUFFICES ASSUME IInv, [Next]_vars PROVE IInv' /\ RowsFrozen
  OBVIOUS
<1>1. TypeOK /\ JournalAgrees /\ SlotsAccounted
  BY DEF IInv
<1>2. TypeOK'
  BY TypeStep
<1>3. JournalAgrees' /\ RowsFrozen
  BY <1>1, AgreesStep
<1>4. SlotsAccounted'
  BY <1>1, SlotsStep
<1> QED
  BY <1>2, <1>3, <1>4 DEF IInv

LEMMA AlwaysIInv == Spec => []IInv
<1>1. Init => IInv
  BY InitIInv
<1>2. IInv /\ [Next]_vars => IInv'
  BY NextIInv
<1> QED
  BY <1>1, <1>2, PTL DEF Spec

\* Whatever the script, the limits and the crashes, every variable keeps its
\* type; in particular neither an ask's budgets nor the counter of active asks
\* fall below zero, and a resumed ask is answered only from a row it has.
THEOREM TypeCorrect == Spec => []TypeOK
<1>1. IInv => TypeOK
  BY DEF IInv
<1> QED
  BY <1>1, AlwaysIInv, PTL

\* What the scheduler holds of an ask agrees with its row in the journal: an
\* admitted ask has a running row of its own, a replayed one the row it was
\* recognised by, a fresh one none (scheduler.ts, admitAsk to finishLiveNode).
THEOREM JournalAlwaysAgrees == Spec => []JournalAgrees
<1>1. IInv => JournalAgrees
  BY DEF IInv
<1> QED
  BY <1>1, AlwaysIInv, PTL

\* Both facts as the runs check them: a scheduler built over any journal that a
\* crash can leave is well formed and agrees with it in every later state.
THEOREM JournalAlwaysSound == Spec => []JournalSound
BY TypeCorrect, JournalAlwaysAgrees, PTL DEF JournalSound

\* The counter that dispatch and finishLiveNode keep is the number of busy
\* actors, and never more than caps.maxConcurrency of them are busy.
THEOREM ConcurrencyBounded == Spec => []SlotsAccounted
<1>1. IInv => SlotsAccounted
  BY DEF IInv
<1> QED
  BY <1>1, AlwaysIInv, PTL

\* No step of any life rewrites a settled row or changes a row's identity:
\* replay answers from what was recorded, for every script and every crash.
THEOREM SettledRowsStayFrozen == Spec => SettledRowsFrozen
<1>1. IInv /\ [Next]_vars => [RowsFrozen]_vars
  BY NextIInv
<1> QED
  BY <1>1, AlwaysIInv, PTL DEF Spec, SettledRowsFrozen, RowsFrozen

-----------------------------------------------------------------------------
\* What the scheduler owes every actor: numbers, order, a turn and an end

\* The instance has been asked for in this life.
CalledIn(counts, i) == i[2] <= counts[i[1]]

\* An actor's rows are as many as it had when it was registered, or as it has
\* admitted since; they are numbered from 0 on, and no number is used twice.
RowsNumbered ==
    \A a \in Actors :
        /\ Cardinality(RowsOf(a)) = IF nextAdmitSeq[a] > recordedCount[a]
                                    THEN nextAdmitSeq[a] ELSE recordedCount[a]
        /\ {journal[i].seq : i \in RowsOf(a)} = 0 .. Cardinality(RowsOf(a)) - 1
        /\ \A i, j \in RowsOf(a) : journal[i].seq = journal[j].seq => i = j

\* An instance is asked for once in a life: what the actor has admitted was
\* called, and a recorded ask that is held has its turn still to come.
AskedOnce ==
    /\ \A i \in DOMAIN journal :
           journal[i].seq < nextAdmitSeq[journal[i].actor] => CalledIn(ordinals, i)
    /\ \A a \in Actors : \A seq \in DOMAIN pendingRecorded[a] :
           seq >= nextAdmitSeq[a] /\ CalledIn(ordinals, pendingRecorded[a][seq].inst)

\* Only a live engine has a loop under way.
LoopsLive == pc # Idle => engine = "live"

\* Every admitted ask is its actor's current one or stands in its queue, which
\* is in the order of the actorSeqs and behind the current ask.
CurrentIsLive ==
    \A a \in Actors : current[a] # NoInstance =>
        current[a] \in DOMAIN liveNodes /\ liveNodes[current[a]].actor = a

QueueInOrder ==
    \A a \in Actors : \A n \in DOMAIN liveQueue[a] :
        LET i == liveQueue[a][n] IN
        /\ i \in DOMAIN liveNodes
        /\ liveNodes[i].actor = a
        /\ ~ liveNodes[i].dispatched
        /\ current[a] # NoInstance => liveNodes[current[a]].seq < liveNodes[i].seq
        /\ \A m \in DOMAIN liveQueue[a] :
               m < n => liveNodes[liveQueue[a][m]].seq < liveNodes[i].seq

NodesPlaced ==
    \A i \in DOMAIN liveNodes :
        LET a == liveNodes[i].actor IN
        /\ liveNodes[i].seq < nextAdmitSeq[a]
        /\ liveNodes[i].dispatched => current[a] = i
        /\ current[a] # i => \E n \in DOMAIN liveQueue[a] : liveQueue[a][n] = i

\* Of an actor's rows, those that are running and were admitted in this life are
\* admitted still.
RunningRowsLive ==
    \A i \in DOMAIN journal :
        /\ journal[i].status = "running"
        /\ journal[i].seq < nextAdmitSeq[journal[i].actor]
        => i \in DOMAIN liveNodes

\* A suspended dispatch is that of the actor's current ask.
AwaitedIsCurrent ==
    \A w \in awaiting :
        /\ current[w[1]] = w[2]
        /\ w[2] \in DOMAIN liveNodes
        /\ ~ liveNodes[w[2]].dispatched

QueuesSound ==
    engine = "live" =>
        CurrentIsLive /\ QueueInOrder /\ NodesPlaced /\ RunningRowsLive /\ AwaitedIsCurrent

\* An open node on the event log of a live engine is that of an admitted ask.
OpenEventsLive ==
    engine = "live" =>
        \A i \in DOMAIN events : events[i] # "settled" => i \in DOMAIN liveNodes

\* Whatever actor could be served and is not, the loop under way comes to it.
PumpDue ==
    engine = "live" =>
        \/ activeAsks = MaxConcurrency
        \/ \A a \in Actors :
              \/ current[a] # NoInstance
              \/ liveQueue[a] = <<>>
              \/ pc.op = "drain" /\ (pc.fresh \/ pc.actor = a)
              \/ pc.op = "pump" /\ pc.actor <= a

OInv == /\ RowsNumbered /\ AskedOnce /\ LoopsLive /\ QueuesSound /\ NoOrphanTurns
        /\ OpenEventsLive /\ NoDanglingNodes /\ PumpDue

-----------------------------------------------------------------------------
\* The numbers of an actor's rows

\* Which steps add a row, hold an ask or let an actor admit one.
LEMMA RowSteps ==
    ASSUME TypeOK, JournalAgrees, [Next]_vars
    PROVE  \/ DOMAIN journal' = DOMAIN journal /\ UNCHANGED <<admission, ordinals>>
           \/ ReceiveAsk
           \/ RebuildEngine /\ UNCHANGED journal
           \/ \E a \in Actors : DrainRecorded(a) \/ DrainFresh(a)
<1>1. ASSUME NEW i \in DOMAIN liveNodes, NEW status, NEW result,
             Settle(i, status, result)
      PROVE  DOMAIN journal' = DOMAIN journal /\ UNCHANGED <<admission, ordinals>>
  BY <1>1, SettleAgrees DEF Settle, admission
<1>2. CASE ReceiveEnd \/ Stop \/ ScriptTakesAnswer
  BY <1>2 DEF ReceiveEnd, Stop, ScriptTakesAnswer, SettleRun, durable, admission
<1>3. CASE PumpNext \/ \E a \in Actors : DrainEnds(a) \/ SessionSettles(a)
  BY <1>3 DEF PumpNext, DrainEnds, SessionSettles, durable, admission
<1>4. CASE Dispatching
  BY <1>1, <1>4 DEF Dispatching, DispatchResumes, StillWanted, durable, admission
<1>5. CASE Reporting
  BY <1>1, <1>5, ReportCases DEF Reporting, BudgetSpent, durable, admission
<1>6. CASE Crash \/ Resume
  BY <1>6 DEF Crash, Resume, durable
<1>7. CASE Reopen \/ Rest \/ UNCHANGED vars
  BY <1>7 DEF Reopen, Rest, vars, durable, admission
<1> QED
  BY <1>2, <1>3, <1>4, <1>5, <1>6, <1>7 DEF Next, EngineStep, Drain

\* A recorded ask is released or readmitted without a new row.
LEMMA DrainRecordedRows ==
    ASSUME TypeOK, JournalAgrees, NEW a \in Actors, DrainRecorded(a)
    PROVE  LET seq == nextAdmitSeq[a]
               ask == pendingRecorded[a][seq]
           IN  /\ seq \in DOMAIN pendingRecorded[a]
               /\ ask \in Asks
               /\ ask.actor = a /\ ask.inst \in DOMAIN journal
               /\ journal[ask.inst].actor = a
               /\ journal[ask.inst].seq = seq
               /\ journal[ask.inst].hash = ask.hash
               /\ DOMAIN journal' = DOMAIN journal
               /\ recordedCount' = recordedCount
               /\ nextAdmitSeq' = [nextAdmitSeq EXCEPT ![a] = @ + 1]
<1> DEFINE seq == nextAdmitSeq[a]
           ask == pendingRecorded[a][seq]
<1>1. seq \in DOMAIN pendingRecorded[a]
  BY DEF DrainRecorded, RecordedIsNext
<1>2. ask \in Asks
  BY <1>1 DEF TypeOK, IsMap
<1>3. /\ ask.actor = a /\ ask.inst \in DOMAIN journal /\ BelongsTo(ask, a)
      /\ journal[ask.inst].seq = seq /\ journal[ask.inst].hash = ask.hash
  BY <1>1 DEF JournalAgrees, HeldAsksRecorded
<1>4. journal[ask.inst].actor = a
  BY <1>3 DEF JournalAgrees, RowsOfScript, BelongsTo
<1>5. /\ recordedCount' = recordedCount
      /\ nextAdmitSeq' = [nextAdmitSeq EXCEPT ![a] = @ + 1]
      /\ AdmitLive(ask, seq) \/ journal' = journal
  BY DEF DrainRecorded
<1>6. DOMAIN journal' = DOMAIN journal
  <2> HIDE DEF ask, seq
  <2> QED
    BY <1>3, <1>5 DEF AdmitLive, Put
<1> QED
  BY <1>1, <1>2, <1>3, <1>4, <1>5, <1>6

\* A fresh ask gets a row of its own, under the next number.
LEMMA DrainFreshRows ==
    ASSUME TypeOK, JournalAgrees, NEW a \in Actors, DrainFresh(a)
    PROVE  LET seq == nextAdmitSeq[a]
               ask == Head(pendingLive[a])
           IN  /\ ask \in Asks /\ ask = pendingLive[a][1] /\ 1 \in DOMAIN pendingLive[a]
               /\ ask.actor = a /\ ask.inst \notin DOMAIN journal
               /\ CalledIn(ordinals, ask.inst)
               /\ DOMAIN journal' = DOMAIN journal \union {ask.inst}
               /\ \A i \in DOMAIN journal : journal'[i] = journal[i]
               /\ journal'[ask.inst] = Row(ask, seq, "running", NoResult)
               /\ recordedCount' = recordedCount /\ recordedCount[a] <= seq
               /\ nextAdmitSeq' = [nextAdmitSeq EXCEPT ![a] = @ + 1]
<1> DEFINE seq == nextAdmitSeq[a]
           ask == Head(pendingLive[a])
<1>1. pendingLive[a] \in Seq(Asks) /\ pendingLive[a] # <<>>
  BY DEF DrainFresh, TypeOK
<1>2. ask \in Asks /\ 1 \in DOMAIN pendingLive[a] /\ ask = pendingLive[a][1]
  BY <1>1
<1>3. ask.actor = a /\ ask.inst \notin DOMAIN journal /\ CalledIn(ordinals, ask.inst)
  BY <1>2 DEF JournalAgrees, FreshAsksUnrecorded, CalledIn
<1>4. /\ recordedCount' = recordedCount /\ recordedCount[a] <= seq
      /\ nextAdmitSeq' = [nextAdmitSeq EXCEPT ![a] = @ + 1]
      /\ AdmitLive(ask, seq)
  BY DEF DrainFresh, FreshMayEnter, TypeOK
<1>5. /\ DOMAIN journal' = DOMAIN journal \union {ask.inst}
      /\ \A i \in DOMAIN journal : journal'[i] = journal[i]
      /\ journal'[ask.inst] = Row(ask, seq, "running", NoResult)
  <2> HIDE DEF ask, seq
  <2> QED
    BY <1>3, <1>4 DEF AdmitLive, Put
<1> QED
  BY <1>2, <1>3, <1>4, <1>5

LEMMA RowsFinite ==
    ASSUME TypeOK, NEW a \in Actors
    PROVE  IsFiniteSet(RowsOf(a)) /\ Cardinality(RowsOf(a)) \in Nat
BY FS_Subset, FS_CardinalityType DEF RowsOf, TypeOK

\* Rows that keep their actor and their number.
LEMMA RowsSame ==
    ASSUME RowsFrozen, DOMAIN journal' = DOMAIN journal, NEW a \in Actors
    PROVE  /\ RowsOf(a)' = RowsOf(a)
           /\ \A i \in RowsOf(a) : journal'[i].seq = journal[i].seq
           /\ {journal'[i].seq : i \in RowsOf(a)'} = {journal[i].seq : i \in RowsOf(a)}
<1>1. \A i \in DOMAIN journal :
          journal'[i].seq = journal[i].seq /\ journal'[i].actor = journal[i].actor
  BY DEF RowsFrozen
<1>2. RowsOf(a)' = RowsOf(a)
  BY <1>1 DEF RowsOf
<1> QED
  BY <1>1, <1>2 DEF RowsOf

LEMMA RowsNumberedStep ==
    ASSUME TypeOK, JournalAgrees, RowsNumbered, [Next]_vars
    PROVE  RowsNumbered'
<1>1. RowsFrozen
  BY AgreesStep
<1>2. CASE DOMAIN journal' = DOMAIN journal /\ UNCHANGED <<recordedCount, nextAdmitSeq>>
  <2> SUFFICES ASSUME NEW a \in Actors
               PROVE  /\ Cardinality(RowsOf(a)') =
                             IF nextAdmitSeq'[a] > recordedCount'[a]
                             THEN nextAdmitSeq'[a] ELSE recordedCount'[a]
                      /\ {journal'[i].seq : i \in RowsOf(a)'} = 0 .. Cardinality(RowsOf(a)') - 1
                      /\ \A i, j \in RowsOf(a)' : journal'[i].seq = journal'[j].seq => i = j
    BY DEF RowsNumbered
  <2> QED
    BY <1>1, <1>2, RowsSame DEF RowsNumbered
<1>3. CASE RebuildEngine /\ UNCHANGED journal
  <2> SUFFICES ASSUME NEW a \in Actors
               PROVE  /\ Cardinality(RowsOf(a)') =
                             IF nextAdmitSeq'[a] > recordedCount'[a]
                             THEN nextAdmitSeq'[a] ELSE recordedCount'[a]
                      /\ {journal'[i].seq : i \in RowsOf(a)'} = 0 .. Cardinality(RowsOf(a)') - 1
                      /\ \A i, j \in RowsOf(a)' : journal'[i].seq = journal'[j].seq => i = j
    BY DEF RowsNumbered
  <2>1. nextAdmitSeq'[a] = 0 /\ recordedCount'[a] = Cardinality(RowsOf(a))
    BY <1>3 DEF RebuildEngine
  <2> QED
    BY <1>1, <1>3, <2>1, RowsSame, RowsFinite DEF RowsNumbered
<1>4. ASSUME NEW b \in Actors, DrainRecorded(b) PROVE RowsNumbered'
  <2> DEFINE ask == pendingRecorded[b][nextAdmitSeq[b]]
  <2>1. /\ ask.inst \in RowsOf(b) /\ journal[ask.inst].seq = nextAdmitSeq[b]
        /\ DOMAIN journal' = DOMAIN journal
        /\ recordedCount' = recordedCount
        /\ nextAdmitSeq' = [nextAdmitSeq EXCEPT ![b] = @ + 1]
    BY <1>4, DrainRecordedRows DEF RowsOf
  <2> SUFFICES ASSUME NEW a \in Actors
               PROVE  /\ Cardinality(RowsOf(a)') =
                             IF nextAdmitSeq'[a] > recordedCount'[a]
                             THEN nextAdmitSeq'[a] ELSE recordedCount'[a]
                      /\ {journal'[i].seq : i \in RowsOf(a)'} = 0 .. Cardinality(RowsOf(a)') - 1
                      /\ \A i, j \in RowsOf(a)' : journal'[i].seq = journal'[j].seq => i = j
    BY DEF RowsNumbered
  <2> HIDE DEF ask
  <2>2. /\ Cardinality(RowsOf(a)') = Cardinality(RowsOf(a))
        /\ {journal'[i].seq : i \in RowsOf(a)'} = 0 .. Cardinality(RowsOf(a)') - 1
        /\ \A i, j \in RowsOf(a)' : journal'[i].seq = journal'[j].seq => i = j
    BY <1>1, <2>1, RowsSame DEF RowsNumbered
  <2>3. nextAdmitSeq[b] < recordedCount[b]
    <3>1. nextAdmitSeq[b] \in 0 .. Cardinality(RowsOf(b)) - 1
      BY <2>1 DEF RowsNumbered
    <3>2. Cardinality(RowsOf(b)) = IF nextAdmitSeq[b] > recordedCount[b]
                                   THEN nextAdmitSeq[b] ELSE recordedCount[b]
      BY DEF RowsNumbered
    <3>3. nextAdmitSeq[b] \in Nat /\ recordedCount[b] \in Nat
      BY DEF TypeOK
    <3> QED
      BY <3>1, <3>2, <3>3
  <2>4. CASE a = b
    <3>1. nextAdmitSeq'[a] = nextAdmitSeq[a] + 1
      BY <2>1, <2>4 DEF TypeOK
    <3>2. Cardinality(RowsOf(b)) = recordedCount[b]
          /\ ~ nextAdmitSeq'[a] > recordedCount'[a]
      <4>1. Cardinality(RowsOf(b)) = IF nextAdmitSeq[b] > recordedCount[b]
                                     THEN nextAdmitSeq[b] ELSE recordedCount[b]
        BY DEF RowsNumbered
      <4>2. nextAdmitSeq[b] \in Nat /\ recordedCount[b] \in Nat
        BY DEF TypeOK
      <4> QED
        BY <2>1, <2>3, <2>4, <3>1, <4>1, <4>2
    <3> QED
      BY <2>1, <2>2, <2>4, <3>2
  <2>5. CASE a # b
    <3>1. nextAdmitSeq'[a] = nextAdmitSeq[a]
      BY <2>1, <2>5 DEF TypeOK
    <3> QED
      BY <2>1, <2>2, <3>1 DEF RowsNumbered
  <2> QED
    BY <2>4, <2>5
<1>5. ASSUME NEW b \in Actors, DrainFresh(b) PROVE RowsNumbered'
  <2> DEFINE ask == Head(pendingLive[b])
  <2>1. /\ ask.inst \notin DOMAIN journal
        /\ DOMAIN journal' = DOMAIN journal \union {ask.inst}
        /\ \A i \in DOMAIN journal : journal'[i] = journal[i]
        /\ journal'[ask.inst].seq = nextAdmitSeq[b]
        /\ journal'[ask.inst].actor = b
        /\ recordedCount' = recordedCount /\ recordedCount[b] <= nextAdmitSeq[b]
        /\ nextAdmitSeq' = [nextAdmitSeq EXCEPT ![b] = @ + 1]
    <3>1. journal'[ask.inst] = Row(ask, nextAdmitSeq[b], "running", NoResult) /\ ask.actor = b
      BY <1>5, DrainFreshRows
    <3>2. /\ ask.inst \notin DOMAIN journal
          /\ DOMAIN journal' = DOMAIN journal \union {ask.inst}
          /\ \A i \in DOMAIN journal : journal'[i] = journal[i]
          /\ recordedCount' = recordedCount /\ recordedCount[b] <= nextAdmitSeq[b]
          /\ nextAdmitSeq' = [nextAdmitSeq EXCEPT ![b] = @ + 1]
      BY <1>5, DrainFreshRows
    <3> HIDE DEF ask
    <3> QED
      BY <3>1, <3>2 DEF Row
  <2> SUFFICES ASSUME NEW a \in Actors
               PROVE  /\ Cardinality(RowsOf(a)') =
                             IF nextAdmitSeq'[a] > recordedCount'[a]
                             THEN nextAdmitSeq'[a] ELSE recordedCount'[a]
                      /\ {journal'[i].seq : i \in RowsOf(a)'} = 0 .. Cardinality(RowsOf(a)') - 1
                      /\ \A i, j \in RowsOf(a)' : journal'[i].seq = journal'[j].seq => i = j
    BY DEF RowsNumbered
  <2> HIDE DEF ask
  <2>2. CASE a # b
    <3>1. RowsOf(a)' = RowsOf(a) /\ \A i \in RowsOf(a) : journal'[i] = journal[i]
      BY <2>1, <2>2 DEF RowsOf
    <3>2. {journal'[i].seq : i \in RowsOf(a)'} = {journal[i].seq : i \in RowsOf(a)}
      BY <3>1
    <3>3. nextAdmitSeq'[a] = nextAdmitSeq[a]
      BY <2>1, <2>2 DEF TypeOK
    <3> QED
      BY <2>1, <3>1, <3>2, <3>3 DEF RowsNumbered
  <2>3. CASE a = b
    <3> DEFINE n == Cardinality(RowsOf(b))
    <3>1. /\ RowsOf(b)' = RowsOf(b) \union {ask.inst} /\ ask.inst \notin RowsOf(b)
          /\ \A i \in RowsOf(b) : journal'[i] = journal[i]
      BY <2>1 DEF RowsOf
    <3>2. n \in Nat /\ n = nextAdmitSeq[b]
      <4>1. n = IF nextAdmitSeq[b] > recordedCount[b]
                THEN nextAdmitSeq[b] ELSE recordedCount[b]
        BY DEF RowsNumbered
      <4>2. nextAdmitSeq[b] \in Nat /\ recordedCount[b] \in Nat
        BY DEF TypeOK
      <4> QED
        BY <2>1, <4>1, <4>2, RowsFinite
    <3>3. Cardinality(RowsOf(b)') = n + 1
      BY <3>1, RowsFinite, FS_AddElement
    <3>4. nextAdmitSeq'[b] = n + 1
      BY <2>1, <3>2 DEF TypeOK
    <3>5. /\ {journal[i].seq : i \in RowsOf(b)} = 0 .. n - 1
          /\ \A i, j \in RowsOf(b) : journal[i].seq = journal[j].seq => i = j
      BY DEF RowsNumbered
    <3> HIDE DEF n
    <3>6. {journal'[i].seq : i \in RowsOf(b)'} = 0 .. n
      <4>1. {journal'[i].seq : i \in RowsOf(b)'} =
                {journal[i].seq : i \in RowsOf(b)} \union {n}
        BY <2>1, <3>1, <3>2
      <4> QED
        BY <3>2, <3>5, <4>1
    <3>7. \A i, j \in RowsOf(b)' : journal'[i].seq = journal'[j].seq => i = j
      <4>1. \A i \in RowsOf(b) : journal'[i].seq \in 0 .. n - 1
        BY <3>1, <3>5
      <4>2. \A i \in RowsOf(b) : journal'[i].seq # n
        BY <3>2, <4>1
      <4>3. journal'[ask.inst].seq = n
        BY <2>1, <3>2
      <4>4. \A i, j \in RowsOf(b) : journal'[i].seq = journal'[j].seq => i = j
        BY <3>1, <3>5
      <4> SUFFICES ASSUME NEW i \in RowsOf(b)', NEW j \in RowsOf(b)',
                          journal'[i].seq = journal'[j].seq
                   PROVE  i = j
        OBVIOUS
      <4>5. /\ i = ask.inst \/ i \in RowsOf(b)
            /\ j = ask.inst \/ j \in RowsOf(b)
        BY <3>1
      <4> QED
        BY <4>2, <4>3, <4>4, <4>5
    <3>8. recordedCount'[b] \in Nat /\ recordedCount'[b] <= n
      BY <2>1, <3>2 DEF TypeOK
    <3>9. Cardinality(RowsOf(b)') = IF nextAdmitSeq'[b] > recordedCount'[b]
                                    THEN nextAdmitSeq'[b] ELSE recordedCount'[b]
      BY <3>2, <3>3, <3>4, <3>8
    <3>10. {journal'[i].seq : i \in RowsOf(b)'} = 0 .. Cardinality(RowsOf(b)') - 1
      BY <3>2, <3>3, <3>6
    <3> QED
      BY <2>3, <3>7, <3>9, <3>10
  <2> QED
    BY <2>2, <2>3
<1>6. CASE DOMAIN journal' = DOMAIN journal /\ UNCHANGED <<admission, ordinals>>
  BY <1>2, <1>6 DEF admission
<1>7. CASE ReceiveAsk
  BY <1>2, <1>7 DEF ReceiveAsk, SettleRun, durable, admission
<1> QED
  BY <1>3, <1>4, <1>5, <1>6, <1>7, RowSteps
-----------------------------------------------------------------------------
\* One call of an instance in a life

\* What becomes of a message with an ask: it is refused, recognised by its row
\* or held as a fresh one.
AskTaken(ask) ==
    /\ Quiet
    /\ toEngine # <<>>
    /\ Head(toEngine) \in Messages
    /\ Head(toEngine).kind = "ask"
    /\ ask.hash = <<Head(toEngine).fiber, Head(toEngine).seen>>
    /\ Len(ask.hash[2]) < Len(Script[ask.hash[1]])
    /\ BelongsTo(ask, ask.actor)
    /\ ask.inst = <<StepOf(ask.hash[1], ask.hash[2]).site, ordinals[ask.inst[1]] + 1>>
    /\ ask.inst[1] \in Sites
    /\ ordinals' = [ordinals EXCEPT ![ask.inst[1]] = @ + 1]
Refused(ask) ==
    /\ ask.inst \in DOMAIN journal
    /\ journal[ask.inst].hash # ask.hash
    /\ mismatch' = TRUE
    /\ SettleRun("errored")
Recognised(ask) ==
    /\ ask.inst \in DOMAIN journal
    /\ journal[ask.inst].hash = ask.hash
    /\ journal[ask.inst].actor = ask.actor
    /\ pendingRecorded' = [pendingRecorded EXCEPT
           ![ask.actor] = Put(@, journal[ask.inst].seq, ask)]
    /\ pc' = Draining(ask.actor, FALSE)
    /\ toEngine' = Tail(toEngine)
    /\ UNCHANGED <<durable, engine, recordedCount, nextAdmitSeq, pendingLive,
                   liveNodes, dispatching, hist, toChild, turns, events, ghosts>>
HeldAsFresh(ask) ==
    /\ ask.inst \notin DOMAIN journal
    /\ pendingLive' = [pendingLive EXCEPT ![ask.actor] = Append(@, ask)]
    /\ pc' = Draining(ask.actor, TRUE)
    /\ toEngine' = Tail(toEngine)
    /\ UNCHANGED <<durable, engine, recordedCount, nextAdmitSeq, pendingRecorded,
                   liveNodes, dispatching, hist, toChild, turns, events, ghosts>>

LEMMA ReceiveAskCases ==
    ASSUME TypeOK, JournalAgrees, ReceiveAsk
    PROVE  \E ask \in Asks :
              AskTaken(ask) /\ (Refused(ask) \/ Recognised(ask) \/ HeldAsFresh(ask))
<1> DEFINE message == Head(toEngine)
           f == message.fiber
           seen == message.seen
           step == StepOf(f, seen)
           inst == <<step.site, ordinals[step.site] + 1>>
           ask == [inst |-> inst, actor |-> step.actor, hash |-> <<f, seen>>,
                   typed |-> step.typed]
<1>1. toEngine # <<>> /\ message \in Messages /\ message.kind = "ask" /\ Quiet
  BY QueueHead DEF ReceiveAsk, TypeOK
<1>2. f \in Fibers /\ seen \in Seq(Outcomes) /\ Len(seen) < Len(Script[f])
  BY <1>1 DEF Messages
<1>3. step \in Step
  BY <1>2, StepType
<1>4. inst \in Instances
  <2>1. step.site \in Sites
    BY <1>3 DEF Step
  <2> HIDE DEF step
  <2>2. ordinals[step.site] \in Nat
    BY <2>1 DEF TypeOK
  <2> QED
    BY <2>1, <2>2 DEF Instances
<1>5. ask \in Asks
  <2>1. <<f, seen>> \in Hashes
    BY <1>2 DEF Hashes
  <2> HIDE DEF f, seen, step, inst
  <2> QED
    BY <1>3, <1>4, <2>1 DEF Asks, Step
<1>6. /\ ask.hash = <<f, seen>> /\ ask.actor = step.actor /\ ask.inst = inst
      /\ ask.hash[1] = f /\ ask.hash[2] = seen /\ inst[1] = step.site
  OBVIOUS
<1>7. BelongsTo(ask, ask.actor)
  BY <1>6 DEF BelongsTo
<1>8. /\ ordinals' = [ordinals EXCEPT ![step.site] = @ + 1]
      /\ \/ /\ inst \in DOMAIN journal
            /\ journal[inst].hash # ask.hash
            /\ mismatch' = TRUE
            /\ SettleRun("errored")
         \/ /\ inst \in DOMAIN journal
            /\ journal[inst].hash = ask.hash
            /\ pendingRecorded' = [pendingRecorded EXCEPT
                   ![step.actor] = Put(@, journal[inst].seq, ask)]
            /\ pc' = Draining(step.actor, FALSE)
            /\ toEngine' = Tail(toEngine)
            /\ UNCHANGED <<durable, engine, recordedCount, nextAdmitSeq,
                           pendingLive, liveNodes, dispatching, hist,
                           toChild, turns, events, ghosts>>
         \/ /\ inst \notin DOMAIN journal
            /\ pendingLive' = [pendingLive EXCEPT ![step.actor] = Append(@, ask)]
            /\ pc' = Draining(step.actor, TRUE)
            /\ toEngine' = Tail(toEngine)
            /\ UNCHANGED <<durable, engine, recordedCount, nextAdmitSeq,
                           pendingRecorded, liveNodes, dispatching, hist,
                           toChild, turns, events, ghosts>>
  BY DEF ReceiveAsk, CountCall, SameQuestion
<1>9. inst \in DOMAIN journal /\ journal[inst].hash = ask.hash
      => journal[inst].actor = ask.actor
  BY <1>6 DEF JournalAgrees, RowsOfScript, BelongsTo
<1>10. step.site \in Sites
  BY <1>3 DEF Step
<1> HIDE DEF f, seen, step, inst, ask
<1>11. ask.hash = <<message.fiber, message.seen>>
       /\ ask.inst = <<StepOf(ask.hash[1], ask.hash[2]).site, ordinals[ask.inst[1]] + 1>>
  BY <1>6 DEF f, seen, step, inst
<1> HIDE DEF message
<1>12. ask.inst[1] = step.site /\ ask.actor = step.actor /\ ask.inst = inst
  BY <1>6
<1>13. AskTaken(ask)
  BY <1>1, <1>2, <1>6, <1>7, <1>8, <1>10, <1>11, <1>12 DEF AskTaken, message
<1>14. Refused(ask) \/ Recognised(ask) \/ HeldAsFresh(ask)
  BY <1>8, <1>9, <1>12 DEF Refused, Recognised, HeldAsFresh
<1>15. WITNESS ask \in Asks
<1> QED
  BY <1>13, <1>14

LEMMA AskedOnceStep ==
    ASSUME TypeOK, JournalAgrees, RowsNumbered, AskedOnce, [Next]_vars
    PROVE  AskedOnce'
<1>1. RowsFrozen
  BY AgreesStep
<1>2. /\ \A i \in DOMAIN journal :
             journal[i].seq < nextAdmitSeq[journal[i].actor] => CalledIn(ordinals, i)
      /\ \A a \in Actors : \A seq \in DOMAIN pendingRecorded[a] :
             seq >= nextAdmitSeq[a] /\ CalledIn(ordinals, pendingRecorded[a][seq].inst)
  BY DEF AskedOnce
<1>3. \A i \in DOMAIN journal :
          /\ journal'[i].seq = journal[i].seq /\ journal[i].seq \in Nat
          /\ journal'[i].actor = journal[i].actor /\ journal[i].actor \in Actors
          /\ i[1] \in Sites /\ i[2] \in Nat
  BY <1>1 DEF RowsFrozen, TypeOK, IsMap, Rows, Instances
<1>9. /\ DOMAIN journal \subseteq Instances /\ DOMAIN pendingRecorded = Actors
      /\ nextAdmitSeq \in [Actors -> Nat]
      /\ \A a \in Actors : \A seq \in DOMAIN pendingRecorded[a] :
             seq \in Nat /\ pendingRecorded[a][seq].inst \in Instances
  BY DEF TypeOK, IsMap, Asks
<1>4. CASE DOMAIN journal' = DOMAIN journal /\ UNCHANGED <<admission, ordinals>>
  BY <1>2, <1>3, <1>4 DEF AskedOnce, CalledIn, admission
<1>5. CASE RebuildEngine /\ UNCHANGED journal
  <2>1. /\ \A a \in Actors : nextAdmitSeq'[a] = 0
        /\ \A a \in Actors : DOMAIN pendingRecorded'[a] = {}
    BY <1>5, EmptyDomain DEF RebuildEngine
  <2> QED
    BY <1>3, <1>5, <2>1 DEF AskedOnce
<1>6. CASE ReceiveAsk
  <2> PICK ask \in Asks :
            AskTaken(ask) /\ (Refused(ask) \/ Recognised(ask) \/ HeldAsFresh(ask))
    BY <1>6, ReceiveAskCases
  <2>1. /\ ask.inst[2] = ordinals[ask.inst[1]] + 1 /\ ask.inst[1] \in Sites
        /\ ordinals' = [ordinals EXCEPT ![ask.inst[1]] = @ + 1]
    BY DEF AskTaken
  <2>8. /\ UNCHANGED <<journal, nextAdmitSeq>>
        /\ \/ pendingRecorded' = pendingRecorded
           \/ /\ ask.inst \in DOMAIN journal
              /\ journal[ask.inst].actor = ask.actor
              /\ pendingRecorded' = [pendingRecorded EXCEPT
                     ![ask.actor] = Put(@, journal[ask.inst].seq, ask)]
    BY DEF Refused, Recognised, HeldAsFresh, SettleRun, durable, admission
  <2>2. \A s \in Sites : ordinals[s] \in Nat /\ ordinals[s] <= ordinals'[s]
    BY <2>1 DEF TypeOK
  <2>3. ordinals'[ask.inst[1]] = ask.inst[2]
    BY <2>1 DEF TypeOK
  <2>4. \A i \in Instances : CalledIn(ordinals, i) => CalledIn(ordinals', i)
    <3>1. \A s \in Sites : ordinals'[s] \in Nat
      BY <2>1, <2>2 DEF TypeOK
    <3> QED
      BY <2>2, <3>1 DEF CalledIn, Instances
  <2>5. CalledIn(ordinals', ask.inst) /\ ~ CalledIn(ordinals, ask.inst)
    BY <2>1, <2>2, <2>3 DEF CalledIn
  <2>6. \A i \in DOMAIN journal' :
            journal'[i].seq < nextAdmitSeq'[journal'[i].actor] => CalledIn(ordinals', i)
    BY <1>2, <1>9, <2>4, <2>8
  <2>7. ASSUME NEW a \in Actors, NEW seq \in DOMAIN pendingRecorded'[a]
        PROVE  seq >= nextAdmitSeq'[a] /\ CalledIn(ordinals', pendingRecorded'[a][seq].inst)
    <3>1. CASE seq \in DOMAIN pendingRecorded[a] /\ pendingRecorded'[a][seq] = pendingRecorded[a][seq]
      BY <1>2, <1>9, <2>4, <2>8, <3>1
    <3>2. CASE ask.inst \in DOMAIN journal /\ a = journal[ask.inst].actor
               /\ seq = journal[ask.inst].seq /\ pendingRecorded'[a][seq] = ask
      <4>1. seq >= nextAdmitSeq[a]
        BY <1>2, <1>3, <1>9, <2>5, <3>2
      <4> QED
        BY <2>8, <2>5, <3>2, <4>1
    <3> QED
      <4>1. CASE pendingRecorded' = pendingRecorded
        BY <2>7, <3>1, <4>1
      <4>2. CASE pendingRecorded' # pendingRecorded
        <5>1. CASE a # ask.actor
          BY <1>9, <2>7, <2>8, <3>1, <4>2, <5>1
        <5>2. CASE a = ask.actor
          <6>1. pendingRecorded'[a] = Put(pendingRecorded[a], journal[ask.inst].seq, ask)
            BY <1>9, <2>8, <4>2, <5>2
          <6> QED
            BY <2>7, <2>8, <3>1, <3>2, <4>2, <5>2, <6>1 DEF Put
        <5> QED
          BY <5>1, <5>2
      <4> QED
        BY <4>1, <4>2
  <2> QED
    BY <2>6, <2>7 DEF AskedOnce
<1>7. ASSUME NEW b \in Actors, DrainRecorded(b) PROVE AskedOnce'
  <2> DEFINE ask == pendingRecorded[b][nextAdmitSeq[b]]
  <2>1. /\ ask.inst \in DOMAIN journal
        /\ journal[ask.inst].seq = nextAdmitSeq[b] /\ journal[ask.inst].actor = b
        /\ nextAdmitSeq[b] \in DOMAIN pendingRecorded[b]
        /\ DOMAIN journal' = DOMAIN journal
        /\ nextAdmitSeq' = [nextAdmitSeq EXCEPT ![b] = @ + 1]
    BY <1>7, DrainRecordedRows
  <2>2. CalledIn(ordinals, ask.inst)
    BY <1>2, <2>1
  <2>3. /\ ordinals' = ordinals
        /\ pendingRecorded' = [pendingRecorded EXCEPT ![b] = Without(@, nextAdmitSeq[b])]
    BY <1>7 DEF DrainRecorded
  <2> HIDE DEF ask
  <2>9. \A a \in Actors : nextAdmitSeq'[a] = IF a = b THEN nextAdmitSeq[b] + 1 ELSE nextAdmitSeq[a]
    BY <1>9, <2>1
  <2>4. ASSUME NEW i \in DOMAIN journal', journal'[i].seq < nextAdmitSeq'[journal'[i].actor]
        PROVE  CalledIn(ordinals', i)
    <3>1. CASE journal[i].seq < nextAdmitSeq[journal[i].actor]
      BY <1>2, <2>1, <2>3, <2>4, <3>1 DEF CalledIn
    <3>2. CASE journal[i].actor = b /\ journal[i].seq = nextAdmitSeq[b]
      <4>1. i = ask.inst
        <5>1. i \in RowsOf(b) /\ ask.inst \in RowsOf(b)
          BY <2>1, <2>4, <3>2 DEF RowsOf
        <5> QED
          BY <2>1, <3>2, <5>1 DEF RowsNumbered
      <4> QED
        BY <2>2, <2>3, <4>1 DEF CalledIn
    <3> QED
      <4>1. i \in DOMAIN journal /\ journal[i].seq < nextAdmitSeq'[journal[i].actor]
        BY <1>3, <2>1, <2>4
      <4>2. nextAdmitSeq[b] \in Nat
        BY <1>9
      <4> QED
        BY <1>3, <2>9, <3>1, <3>2, <4>1, <4>2
  <2>5. ASSUME NEW a \in Actors, NEW seq \in DOMAIN pendingRecorded'[a]
        PROVE  seq >= nextAdmitSeq'[a] /\ CalledIn(ordinals', pendingRecorded'[a][seq].inst)
    <3>1. /\ seq \in DOMAIN pendingRecorded[a] /\ pendingRecorded'[a][seq] = pendingRecorded[a][seq]
          /\ a = b => seq # nextAdmitSeq[b]
      BY <1>9, <2>3, <2>5 DEF Without
    <3>2. seq >= nextAdmitSeq[a] /\ CalledIn(ordinals, pendingRecorded[a][seq].inst) /\ seq \in Nat
      BY <1>2, <1>9, <3>1
    <3> QED
      <4>1. nextAdmitSeq[b] \in Nat
        BY <1>9
      <4> QED
        BY <2>3, <2>9, <3>1, <3>2, <4>1
  <2> QED
    BY <2>4, <2>5 DEF AskedOnce
<1>8. ASSUME NEW b \in Actors, DrainFresh(b) PROVE AskedOnce'
  <2> DEFINE ask == Head(pendingLive[b])
  <2>1. /\ ask.inst \notin DOMAIN journal /\ CalledIn(ordinals, ask.inst)
        /\ DOMAIN journal' = DOMAIN journal \union {ask.inst}
        /\ recordedCount[b] <= nextAdmitSeq[b]
        /\ nextAdmitSeq' = [nextAdmitSeq EXCEPT ![b] = @ + 1]
    BY <1>8, DrainFreshRows
  <2>2. ordinals' = ordinals /\ pendingRecorded' = pendingRecorded
    BY <1>8 DEF DrainFresh, child, ghosts
  <2>3. ~ RecordedIsNext(b)
    BY <1>8 DEF DrainFresh
  <2> HIDE DEF ask
  <2>9. \A a \in Actors : nextAdmitSeq'[a] = IF a = b THEN nextAdmitSeq[b] + 1 ELSE nextAdmitSeq[a]
    BY <1>9, <2>1
  <2>4. ASSUME NEW i \in DOMAIN journal', journal'[i].seq < nextAdmitSeq'[journal'[i].actor]
        PROVE  CalledIn(ordinals', i)
    <3>1. CASE i = ask.inst
      BY <2>1, <2>2, <3>1 DEF CalledIn
    <3>2. CASE i # ask.inst
      <4>1. i \in DOMAIN journal
        BY <2>1, <2>4, <3>2
      <4>2. journal[i].actor = b => journal[i].seq < nextAdmitSeq[b]
        <5>1. SUFFICES ASSUME i \in RowsOf(b) PROVE journal[i].seq < nextAdmitSeq[b]
          BY <4>1 DEF RowsOf
        <5>2. journal[i].seq \in 0 .. Cardinality(RowsOf(b)) - 1
          BY <5>1 DEF RowsNumbered
        <5>3. Cardinality(RowsOf(b)) = IF nextAdmitSeq[b] > recordedCount[b]
                                       THEN nextAdmitSeq[b] ELSE recordedCount[b]
          BY DEF RowsNumbered
        <5>4. nextAdmitSeq[b] \in Nat /\ recordedCount[b] \in Nat
          BY DEF TypeOK
        <5> QED
          BY <2>1, <5>2, <5>3, <5>4
      <4>3. journal[i].seq < nextAdmitSeq[journal[i].actor]
        BY <1>3, <1>9, <2>1, <2>4, <4>1, <4>2
      <4> QED
        BY <1>2, <2>2, <4>1, <4>3 DEF CalledIn
    <3> QED
      BY <3>1, <3>2
  <2>5. ASSUME NEW a \in Actors, NEW seq \in DOMAIN pendingRecorded'[a]
        PROVE  seq >= nextAdmitSeq'[a] /\ CalledIn(ordinals', pendingRecorded'[a][seq].inst)
    <3>1. seq >= nextAdmitSeq[a] /\ CalledIn(ordinals, pendingRecorded[a][seq].inst) /\ seq \in Nat
      BY <1>2, <1>9, <2>2, <2>5
    <3>2. a = b => seq # nextAdmitSeq[b]
      BY <2>2, <2>3, <2>5 DEF RecordedIsNext
    <3> QED
      <4>1. nextAdmitSeq[b] \in Nat
        BY <1>9
      <4> QED
        BY <2>2, <2>9, <3>1, <3>2, <4>1
  <2> QED
    BY <2>4, <2>5 DEF AskedOnce
<1> QED
  BY <1>4, <1>5, <1>6, <1>7, <1>8, RowSteps
-----------------------------------------------------------------------------
\* The admitted asks and the actors' queues

LEMMA QueueTypes ==
    ASSUME TypeOK
    PROVE  /\ current \in [Actors -> Instances \union {NoInstance}]
           /\ liveQueue \in [Actors -> Seq(Instances)]
           /\ nextAdmitSeq \in [Actors -> Nat]
           /\ awaiting \subseteq Actors \X Instances
           /\ DOMAIN liveNodes \subseteq Instances
           /\ \A i \in DOMAIN liveNodes :
                  liveNodes[i].actor \in Actors /\ liveNodes[i].seq \in Nat
           /\ \A i \in DOMAIN journal :
                  journal[i].actor \in Actors /\ journal[i].seq \in Nat
BY DEF TypeOK, IsMap, Nodes, Rows

\* Where the queues and the nodes stay as they are.
LEMMA QueuesKept ==
    ASSUME QueuesSound, engine = "live",
           UNCHANGED <<liveNodes, liveQueue, current, nextAdmitSeq, journal>>,
           awaiting' \subseteq awaiting
    PROVE  QueuesSound'
<1>1. CurrentIsLive /\ QueueInOrder /\ NodesPlaced /\ RunningRowsLive /\ AwaitedIsCurrent
  BY DEF QueuesSound
<1>2. CurrentIsLive' /\ QueueInOrder' /\ NodesPlaced' /\ RunningRowsLive'
  BY <1>1 DEF CurrentIsLive, QueueInOrder, NodesPlaced, RunningRowsLive
<1>3. AwaitedIsCurrent'
  BY <1>1 DEF AwaitedIsCurrent
<1> QED
  BY <1>2, <1>3 DEF QueuesSound

\* What the drain makes of an ask: its turn has come, it is no live one's, and it
\* runs or, if its row is settled, is over at once.
TurnComes(a, ask) ==
    /\ ask.actor = a
    /\ ask.inst \notin DOMAIN liveNodes
    /\ \A i \in DOMAIN journal :
           journal[i].actor = a /\ journal[i].seq = nextAdmitSeq[a] => i = ask.inst
    /\ nextAdmitSeq' = [nextAdmitSeq EXCEPT ![a] = @ + 1]
    /\ UNCHANGED <<engine, runRow, current, awaiting, turns>>
Runs(a, ask) == TurnComes(a, ask) /\ AdmitLive(ask, nextAdmitSeq[a])
Released(a, ask) ==
    /\ TurnComes(a, ask)
    /\ ask.inst \in DOMAIN journal
    /\ journal[ask.inst].status # "running"
    /\ events' = Put(events, ask.inst, "settled")
    /\ UNCHANGED <<journal, liveNodes, liveQueue>>

\* An ask that is admitted takes the number next after all that are live.
LEMMA AdmitQueues ==
    ASSUME TypeOK, QueuesSound, engine = "live", NEW a \in Actors, NEW ask \in Asks,
           Runs(a, ask)
    PROVE  QueuesSound'
<1>0. /\ ask.actor = a /\ ask.inst \notin DOMAIN liveNodes
      /\ AdmitLive(ask, nextAdmitSeq[a])
      /\ nextAdmitSeq' = [nextAdmitSeq EXCEPT ![a] = @ + 1]
      /\ \A i \in DOMAIN journal :
             journal[i].actor = a /\ journal[i].seq = nextAdmitSeq[a] => i = ask.inst
      /\ UNCHANGED <<current, awaiting>>
  BY DEF Runs, TurnComes
<1> USE <1>0
<1> DEFINE x == ask.inst
           seq == nextAdmitSeq[a]
           q == liveQueue[a]
<1>1. CurrentIsLive /\ QueueInOrder /\ NodesPlaced /\ RunningRowsLive /\ AwaitedIsCurrent
  BY DEF QueuesSound
<1>2. x \in Instances /\ seq \in Nat /\ q \in Seq(Instances)
  BY QueueTypes DEF Asks
<1>3. \A b \in Actors : nextAdmitSeq[b] \in Nat /\
          nextAdmitSeq'[b] = IF b = a THEN seq + 1 ELSE nextAdmitSeq[b]
  BY QueueTypes
<1>4. /\ DOMAIN liveNodes' = DOMAIN liveNodes \union {x}
      /\ \A i \in DOMAIN liveNodes : liveNodes'[i] = liveNodes[i]
      /\ liveNodes'[x].actor = a /\ liveNodes'[x].seq = seq
      /\ ~ liveNodes'[x].dispatched
  <2>1. liveNodes' = Put(liveNodes, x,
           [inst |-> ask.inst, actor |-> ask.actor, hash |-> ask.hash,
            typed |-> ask.typed, seq |-> seq, repairs |-> RepairAttempts,
            nudges |-> NudgeAttempts, dispatched |-> FALSE])
    BY DEF AdmitLive
  <2> HIDE DEF x, seq
  <2>2. x \notin DOMAIN liveNodes
    BY DEF x
  <2> QED
    BY <2>1, <2>2 DEF Put
<1>5. /\ DOMAIN journal' = DOMAIN journal \union {x}
      /\ \A i \in DOMAIN journal : i # x => journal'[i] = journal[i]
      /\ journal'[x].actor = a /\ journal'[x].seq = seq
  <2>1. journal' = Put(journal, x, Row(ask, seq, "running", NoResult))
    BY DEF AdmitLive
  <2> HIDE DEF x, seq
  <2> QED
    BY <2>1 DEF Put, Row
<1>6. /\ liveQueue'[a] = Append(q, x)
      /\ \A b \in Actors : b # a => liveQueue'[b] = liveQueue[b]
  BY QueueTypes DEF AdmitLive, Enqueue
<1> HIDE DEF x, seq, q
<1>7. /\ DOMAIN Append(q, x) = 1 .. Len(q) + 1 /\ DOMAIN q = 1 .. Len(q) /\ Len(q) \in Nat
      /\ \A n \in DOMAIN q : Append(q, x)[n] = q[n]
      /\ Append(q, x)[Len(q) + 1] = x
  BY <1>2
<1>8. x \notin DOMAIN liveNodes
  BY DEF x
<1>9. \A i \in DOMAIN liveNodes : /\ liveNodes[i].actor \in Actors
                                  /\ liveNodes[i].seq \in Nat
                                  /\ liveNodes[i].actor = a => liveNodes[i].seq < seq
  BY <1>1, QueueTypes DEF NodesPlaced, seq
<1>10. CurrentIsLive'
  BY <1>1, <1>4 DEF CurrentIsLive
<1>11. QueueInOrder'
  <2> SUFFICES ASSUME NEW b \in Actors, NEW n \in DOMAIN liveQueue'[b]
               PROVE  LET i == liveQueue'[b][n] IN
                      /\ i \in DOMAIN liveNodes'
                      /\ liveNodes'[i].actor = b
                      /\ ~ liveNodes'[i].dispatched
                      /\ current[b] # NoInstance =>
                             liveNodes'[current[b]].seq < liveNodes'[i].seq
                      /\ \A m \in DOMAIN liveQueue'[b] :
                             m < n => liveNodes'[liveQueue'[b][m]].seq < liveNodes'[i].seq
    BY DEF QueueInOrder
  <2>1. ASSUME NEW k \in DOMAIN liveQueue[b]
        PROVE  LET i == liveQueue[b][k] IN
               /\ i \in DOMAIN liveNodes
               /\ liveNodes'[i] = liveNodes[i]
               /\ liveNodes[i].actor = b
               /\ ~ liveNodes[i].dispatched
               /\ current[b] # NoInstance => liveNodes[current[b]].seq < liveNodes[i].seq
               /\ \A m \in DOMAIN liveQueue[b] :
                      m < k => liveNodes[liveQueue[b][m]].seq < liveNodes[i].seq
    BY <1>1, <1>4 DEF QueueInOrder
  <2>2. current[b] # NoInstance => /\ current[b] \in DOMAIN liveNodes
                                   /\ liveNodes'[current[b]] = liveNodes[current[b]]
                                   /\ liveNodes[current[b]].actor = b
    BY <1>1, <1>4 DEF CurrentIsLive
  <2>3. CASE b # a
    <3>1. liveQueue'[b] = liveQueue[b]
      BY <1>6, <2>3
    <3> QED
      BY <1>4, <2>1, <2>2, <3>1
  <2>4. CASE b = a /\ n \in DOMAIN q
    <3>1. /\ liveQueue'[b][n] = liveQueue[b][n] /\ n \in DOMAIN liveQueue[b]
          /\ \A m \in DOMAIN liveQueue'[b] : m < n =>
                m \in DOMAIN liveQueue[b] /\ liveQueue'[b][m] = liveQueue[b][m]
      <4>1. liveQueue'[b] = Append(q, x) /\ liveQueue[b] = q
        BY <1>6, <2>4 DEF q
      <4>2. \A m \in 1 .. Len(q) + 1 : m < n => m \in 1 .. Len(q)
        BY <1>7, <2>4
      <4>3. DOMAIN liveQueue'[b] = 1 .. Len(q) + 1 /\ DOMAIN liveQueue[b] = 1 .. Len(q)
        BY <1>7, <4>1
      <4>4. \A m \in 1 .. Len(q) : liveQueue'[b][m] = liveQueue[b][m]
        BY <1>7, <4>1
      <4> QED
        BY <2>4, <4>1, <4>2, <4>3, <4>4
    <3> QED
      BY <1>4, <2>1, <2>2, <3>1
  <2>5. CASE b = a /\ n = Len(q) + 1
    <3>1. /\ liveQueue'[b][n] = x
          /\ \A m \in DOMAIN liveQueue'[b] : m < n =>
                m \in DOMAIN liveQueue[b] /\ liveQueue'[b][m] = liveQueue[b][m]
      BY <1>6, <1>7, <2>5 DEF q
    <3>2. \A m \in DOMAIN liveQueue'[b] : m < n => liveNodes'[liveQueue'[b][m]].seq < seq
      BY <1>9, <2>1, <2>5, <3>1
    <3> QED
      BY <1>4, <1>9, <2>2, <2>5, <3>1, <3>2
  <2> QED
    BY <1>6, <1>7, <2>3, <2>4, <2>5
<1>12. NodesPlaced'
  <2> SUFFICES ASSUME NEW i \in DOMAIN liveNodes'
               PROVE  LET b == liveNodes'[i].actor IN
                      /\ liveNodes'[i].seq < nextAdmitSeq'[b]
                      /\ liveNodes'[i].dispatched => current[b] = i
                      /\ current[b] # i => \E n \in DOMAIN liveQueue'[b] : liveQueue'[b][n] = i
    BY DEF NodesPlaced
  <2>1. CASE i = x
    <3>1. Len(q) + 1 \in DOMAIN liveQueue'[a] /\ liveQueue'[a][Len(q) + 1] = x
      BY <1>6, <1>7
    <3> QED
      BY <1>2, <1>3, <1>4, <2>1, <3>1
  <2>2. CASE i \in DOMAIN liveNodes
    <3> DEFINE b == liveNodes[i].actor
    <3>1. b \in Actors /\ liveNodes'[i] = liveNodes[i] /\ liveNodes[i].seq \in Nat
      BY <1>4, <1>9, <2>2
    <3>2. /\ liveNodes[i].seq < nextAdmitSeq[b]
          /\ liveNodes[i].dispatched => current[b] = i
          /\ current[b] # i => \E n \in DOMAIN liveQueue[b] : liveQueue[b][n] = i
      BY <1>1, <2>2 DEF NodesPlaced
    <3> HIDE DEF b
    <3>3. liveNodes[i].seq < nextAdmitSeq'[b]
      BY <1>2, <1>3, <3>1, <3>2 DEF seq
    <3>4. ASSUME NEW n \in DOMAIN liveQueue[b]
          PROVE  n \in DOMAIN liveQueue'[b] /\ liveQueue'[b][n] = liveQueue[b][n]
      BY <1>6, <1>7, <3>1, <3>4 DEF q
    <3> QED
      BY <3>1, <3>2, <3>3, <3>4 DEF b
  <2> QED
    BY <1>4, <2>1, <2>2
<1>13. RunningRowsLive'
  <2> SUFFICES ASSUME NEW i \in DOMAIN journal', journal'[i].status = "running",
                      journal'[i].seq < nextAdmitSeq'[journal'[i].actor], i # x
               PROVE  i \in DOMAIN liveNodes
    BY <1>4 DEF RunningRowsLive
  <2>1. i \in DOMAIN journal /\ journal'[i] = journal[i]
    BY <1>5
  <2>2. ~ (journal[i].actor = a /\ journal[i].seq = seq)
    BY <2>1 DEF x, seq
  <2>3. journal[i].seq \in Nat /\ journal[i].actor \in Actors
    BY <2>1, QueueTypes
  <2>4. journal[i].seq < nextAdmitSeq[journal[i].actor]
    BY <1>2, <1>3, <2>1, <2>2, <2>3 DEF seq
  <2> QED
    BY <1>1, <2>1, <2>4 DEF RunningRowsLive
<1>14. AwaitedIsCurrent'
  BY <1>1, <1>4 DEF AwaitedIsCurrent
<1> QED
  BY <1>10, <1>11, <1>12, <1>13, <1>14 DEF QueuesSound

\* A recorded ask whose row answers for it was admitted and is over at once.
LEMMA ReleaseQueues ==
    ASSUME TypeOK, QueuesSound, engine = "live", NEW a \in Actors, NEW ask,
           Released(a, ask)
    PROVE  QueuesSound'
<1>0. /\ nextAdmitSeq' = [nextAdmitSeq EXCEPT ![a] = @ + 1]
      /\ UNCHANGED <<journal, liveNodes, liveQueue, current, awaiting>>
      /\ \A i \in DOMAIN journal :
             journal[i].actor = a /\ journal[i].seq = nextAdmitSeq[a]
             => journal[i].status # "running"
  BY DEF Released, TurnComes
<1> USE <1>0
<1>1. CurrentIsLive /\ QueueInOrder /\ NodesPlaced /\ RunningRowsLive /\ AwaitedIsCurrent
  BY DEF QueuesSound
<1>2. \A b \in Actors : nextAdmitSeq[b] \in Nat /\
          nextAdmitSeq'[b] = IF b = a THEN nextAdmitSeq[a] + 1 ELSE nextAdmitSeq[b]
  BY QueueTypes
<1>3. CurrentIsLive' /\ QueueInOrder' /\ AwaitedIsCurrent'
  BY <1>1 DEF CurrentIsLive, QueueInOrder, AwaitedIsCurrent
<1>4. NodesPlaced'
  <2>1. \A i \in DOMAIN liveNodes : /\ liveNodes[i].seq \in Nat
                                    /\ liveNodes[i].actor \in Actors
    BY QueueTypes
  <2>2. \A i \in DOMAIN liveNodes : liveNodes[i].seq < nextAdmitSeq'[liveNodes[i].actor]
    BY <1>1, <1>2, <2>1 DEF NodesPlaced
  <2> QED
    BY <1>1, <2>2 DEF NodesPlaced
<1>5. RunningRowsLive'
  <2> SUFFICES ASSUME NEW i \in DOMAIN journal, journal[i].status = "running",
                      journal[i].seq < nextAdmitSeq'[journal[i].actor]
               PROVE  i \in DOMAIN liveNodes
    BY DEF RunningRowsLive
  <2>1. journal[i].seq \in Nat /\ journal[i].actor \in Actors
    BY QueueTypes
  <2>2. journal[i].seq < nextAdmitSeq[journal[i].actor]
    BY <1>2, <2>1
  <2> QED
    BY <1>1, <2>2 DEF RunningRowsLive
<1> QED
  BY <1>3, <1>4, <1>5 DEF QueuesSound

\* The ask at the head of a free actor's queue becomes its current one.
LEMMA PumpQueues ==
    ASSUME TypeOK, QueuesSound, NEW a \in Actors, MayPump(a), PumpActor(a),
           UNCHANGED <<journal, liveNodes, nextAdmitSeq>>
    PROVE  QueuesSound'
<1> DEFINE q == liveQueue[a]
           h == Head(q)
<1>1. /\ engine = "live" /\ current[a] = NoInstance
      /\ q \in Seq(Instances) /\ q # <<>>
  BY QueueTypes DEF MayPump
<1>2. CurrentIsLive /\ QueueInOrder /\ NodesPlaced /\ RunningRowsLive /\ AwaitedIsCurrent
  BY <1>1 DEF QueuesSound
<1>3. /\ current'[a] = h /\ liveQueue'[a] = Tail(q)
      /\ \A b \in Actors : b # a => current'[b] = current[b] /\ liveQueue'[b] = liveQueue[b]
      /\ awaiting' = awaiting \union {<<a, h>>}
  BY QueueTypes DEF PumpActor
<1>4. /\ 1 \in DOMAIN q /\ h = q[1] /\ DOMAIN q = 1 .. Len(q) /\ Len(q) \in Nat
      /\ DOMAIN Tail(q) = 1 .. Len(q) - 1
      /\ \A n \in DOMAIN Tail(q) : n + 1 \in DOMAIN q /\ Tail(q)[n] = q[n + 1]
  BY <1>1
<1>5. \A n \in DOMAIN q : /\ q[n] \in DOMAIN liveNodes
                          /\ liveNodes[q[n]].actor = a
                          /\ ~ liveNodes[q[n]].dispatched
                          /\ \A m \in DOMAIN q : m < n => liveNodes[q[m]].seq < liveNodes[q[n]].seq
  BY <1>2 DEF QueueInOrder
<1>6. DOMAIN liveNodes \subseteq Instances /\ NoInstance \notin Instances
  BY QueueTypes, NoInstanceAssumption
<1> HIDE DEF q, h
<1>7. CurrentIsLive'
  BY <1>2, <1>3, <1>4, <1>5 DEF CurrentIsLive
<1>8. QueueInOrder'
  <2> SUFFICES ASSUME NEW b \in Actors, NEW n \in DOMAIN liveQueue'[b]
               PROVE  LET i == liveQueue'[b][n] IN
                      /\ i \in DOMAIN liveNodes
                      /\ liveNodes[i].actor = b
                      /\ ~ liveNodes[i].dispatched
                      /\ current'[b] # NoInstance =>
                             liveNodes[current'[b]].seq < liveNodes[i].seq
                      /\ \A m \in DOMAIN liveQueue'[b] :
                             m < n => liveNodes[liveQueue'[b][m]].seq < liveNodes[i].seq
    BY DEF QueueInOrder
  <2>1. CASE b # a
    <3>1. liveQueue'[b] = liveQueue[b] /\ current'[b] = current[b]
      BY <1>3, <2>1
    <3> QED
      BY <1>2, <3>1 DEF QueueInOrder
  <2>2. CASE b = a
    <3>1. liveQueue'[b] = Tail(q) /\ current'[b] = h /\ n \in 1 .. Len(q) - 1
      BY <1>3, <1>4, <2>2
    <3>2. n + 1 \in DOMAIN q /\ liveQueue'[b][n] = q[n + 1] /\ 1 < n + 1
      BY <1>4, <3>1
    <3>3. \A m \in DOMAIN liveQueue'[b] : m < n =>
              m + 1 \in DOMAIN q /\ liveQueue'[b][m] = q[m + 1] /\ m + 1 < n + 1
      BY <1>4, <3>1
    <3> QED
      BY <1>4, <1>5, <2>2, <3>1, <3>2, <3>3
  <2> QED
    BY <2>1, <2>2
<1>9. NodesPlaced'
  <2> SUFFICES ASSUME NEW i \in DOMAIN liveNodes
               PROVE  LET b == liveNodes[i].actor IN
                      /\ liveNodes[i].seq < nextAdmitSeq[b]
                      /\ liveNodes[i].dispatched => current'[b] = i
                      /\ current'[b] # i => \E n \in DOMAIN liveQueue'[b] : liveQueue'[b][n] = i
    BY DEF NodesPlaced
  <2>1. /\ liveNodes[i].seq < nextAdmitSeq[liveNodes[i].actor]
        /\ liveNodes[i].dispatched => current[liveNodes[i].actor] = i
        /\ current[liveNodes[i].actor] # i =>
               \E n \in DOMAIN liveQueue[liveNodes[i].actor] : liveQueue[liveNodes[i].actor][n] = i
    BY <1>2 DEF NodesPlaced
  <2>2. liveNodes[i].actor \in Actors /\ i # NoInstance
    BY <1>6, QueueTypes
  <2>3. CASE liveNodes[i].actor # a
    BY <1>3, <2>1, <2>2, <2>3
  <2>4. CASE liveNodes[i].actor = a
    <3>1. ~ liveNodes[i].dispatched
      BY <1>1, <2>1, <2>2, <2>4
    <3>2. PICK n \in DOMAIN q : q[n] = i
      BY <1>1, <2>1, <2>2, <2>4 DEF q
    <3>3. CASE n = 1
      BY <1>3, <1>4, <2>1, <2>4, <3>1, <3>2, <3>3
    <3>4. CASE n # 1
      <4>1. n - 1 \in DOMAIN Tail(q) /\ Tail(q)[n - 1] = i
        <5>1. n - 1 \in 1 .. Len(q) - 1 /\ (n - 1) + 1 = n
          BY <1>4, <3>4
        <5> QED
          BY <1>4, <3>2, <5>1
      <4> QED
        BY <1>3, <2>1, <2>4, <3>1, <4>1
    <3> QED
      BY <3>3, <3>4
  <2> QED
    BY <2>3, <2>4
<1>10. RunningRowsLive'
  BY <1>2 DEF RunningRowsLive
<1>11. AwaitedIsCurrent'
  <2> SUFFICES ASSUME NEW w \in awaiting'
               PROVE  /\ current'[w[1]] = w[2]
                      /\ w[2] \in DOMAIN liveNodes
                      /\ ~ liveNodes[w[2]].dispatched
    BY DEF AwaitedIsCurrent
  <2>1. CASE w = <<a, h>>
    BY <1>3, <1>4, <1>5, <2>1
  <2>2. CASE w \in awaiting
    <3>1. w[1] \in Actors
      BY <2>2, QueueTypes
    <3>2. /\ current[w[1]] = w[2]
          /\ w[2] \in DOMAIN liveNodes
          /\ ~ liveNodes[w[2]].dispatched
      BY <1>2, <2>2 DEF AwaitedIsCurrent
    <3> QED
      BY <1>1, <1>3, <1>6, <3>1, <3>2
  <2> QED
    BY <1>3, <2>1, <2>2
<1> QED
  BY <1>7, <1>8, <1>9, <1>10, <1>11 DEF QueuesSound

\* A step that leaves every node its actor, its number and, but for the one whose
\* dispatch is over, its place.
LEMMA MarkQueues ==
    ASSUME TypeOK, QueuesSound, engine = "live",
           DOMAIN liveNodes' = DOMAIN liveNodes,
           \A i \in DOMAIN liveNodes : /\ liveNodes'[i].actor = liveNodes[i].actor
                                       /\ liveNodes'[i].seq = liveNodes[i].seq,
           \/ /\ awaiting' \subseteq awaiting
              /\ \A i \in DOMAIN liveNodes : liveNodes'[i].dispatched = liveNodes[i].dispatched
           \/ \E w \in awaiting :
                  /\ awaiting' = awaiting \ {w}
                  /\ \A i \in DOMAIN liveNodes : i # w[2] =>
                         liveNodes'[i].dispatched = liveNodes[i].dispatched,
           UNCHANGED <<journal, liveQueue, current, nextAdmitSeq>>
    PROVE  QueuesSound'
<1>1. CurrentIsLive /\ QueueInOrder /\ NodesPlaced /\ RunningRowsLive /\ AwaitedIsCurrent
  BY DEF QueuesSound
<1>2. NoInstance \notin DOMAIN liveNodes
  BY QueueTypes, NoInstanceAssumption
<1>3. \A i \in DOMAIN liveNodes : liveNodes[i].actor \in Actors /\ liveNodes[i].seq \in Nat
  BY QueueTypes
<1>4. CurrentIsLive' /\ RunningRowsLive'
  BY <1>1 DEF CurrentIsLive, RunningRowsLive
<1>5. \A w \in awaiting : w \in Actors \X Instances /\ w = <<w[1], w[2]>>
  BY QueueTypes
<1>6. ASSUME NEW i \in DOMAIN liveNodes, liveNodes'[i].dispatched # liveNodes[i].dispatched
      PROVE  /\ current[liveNodes[i].actor] = i
             /\ \A v \in awaiting' : v[2] # i
  <2>1. PICK w \in awaiting : awaiting' = awaiting \ {w} /\ w[2] = i
    BY <1>6
  <2>2. current[w[1]] = i /\ liveNodes[i].actor = w[1]
    BY <1>1, <1>2, <1>5, <2>1 DEF AwaitedIsCurrent, CurrentIsLive
  <2>3. ASSUME NEW v \in awaiting', v[2] = i PROVE FALSE
    <3>1. v \in awaiting /\ v # w
      BY <2>1
    <3>2. current[v[1]] = i /\ liveNodes[i].actor = v[1]
      BY <1>1, <1>2, <1>5, <2>3, <3>1 DEF AwaitedIsCurrent, CurrentIsLive
    <3> QED
      BY <1>5, <2>1, <2>2, <2>3, <3>1, <3>2
  <2> QED
    BY <2>2, <2>3
<1>7. QueueInOrder'
  <2>1. ASSUME NEW b \in Actors, NEW n \in DOMAIN liveQueue[b]
        PROVE  ~ liveNodes'[liveQueue[b][n]].dispatched
    <3> DEFINE i == liveQueue[b][n]
    <3>1. /\ i \in DOMAIN liveNodes
          /\ liveNodes[i].actor = b
          /\ ~ liveNodes[i].dispatched
          /\ current[b] # NoInstance => liveNodes[current[b]].seq < liveNodes[i].seq
      BY <1>1 DEF QueueInOrder
    <3> HIDE DEF i
    <3>2. current[b] # i
      BY <1>2, <1>3, <3>1
    <3>3. liveNodes'[i].dispatched = liveNodes[i].dispatched
      BY <1>6, <3>1, <3>2
    <3> QED
      BY <3>1, <3>3 DEF i
  <2>2. \A b \in Actors : current[b] # NoInstance =>
            liveNodes'[current[b]].seq = liveNodes[current[b]].seq
    BY <1>1 DEF CurrentIsLive
  <2>3. \A b \in Actors : \A n \in DOMAIN liveQueue[b] : liveQueue[b][n] \in DOMAIN liveNodes
    BY <1>1 DEF QueueInOrder
  <2> QED
    BY <1>1, <2>1, <2>2, <2>3 DEF QueueInOrder
<1>8. NodesPlaced'
  BY <1>1, <1>6 DEF NodesPlaced
<1>9. AwaitedIsCurrent'
  <2> SUFFICES ASSUME NEW v \in awaiting'
               PROVE  /\ current[v[1]] = v[2]
                      /\ v[2] \in DOMAIN liveNodes
                      /\ ~ liveNodes'[v[2]].dispatched
    BY DEF AwaitedIsCurrent
  <2>1. v \in awaiting
    OBVIOUS
  <2> QED
    BY <1>1, <1>6, <2>1 DEF AwaitedIsCurrent
<1> QED
  BY <1>4, <1>7, <1>8, <1>9 DEF QueuesSound

\* A current ask that settles leaves the actor free, and its own row is settled.
LEMMA SettleQueues ==
    ASSUME TypeOK, JournalAgrees, QueuesSound, engine = "live",
           NEW i \in DOMAIN liveNodes, NEW status \in {"completed", "failed"}, NEW result,
           Settle(i, status, result),
           current[liveNodes[i].actor] = i,
           awaiting' \subseteq awaiting, \A w \in awaiting' : w[2] # i
    PROVE  QueuesSound'
<1> DEFINE a == liveNodes[i].actor
<1>1. CurrentIsLive /\ QueueInOrder /\ NodesPlaced /\ RunningRowsLive /\ AwaitedIsCurrent
  BY DEF QueuesSound
<1>2. /\ a \in Actors /\ i # NoInstance
      /\ \A j \in DOMAIN liveNodes : liveNodes[j].actor \in Actors /\ liveNodes[j].seq \in Nat
  BY QueueTypes, NoInstanceAssumption
<1>3. /\ current'[a] = NoInstance
      /\ \A b \in Actors : b # a => current'[b] = current[b]
      /\ nextAdmitSeq' = nextAdmitSeq /\ liveQueue' = liveQueue
  BY <1>2, QueueTypes DEF Settle, admission
<1>4. /\ DOMAIN liveNodes' = DOMAIN liveNodes \ {i}
      /\ \A j \in DOMAIN liveNodes' : liveNodes'[j] = liveNodes[j]
  BY DEF Settle, Without
<1>5. /\ DOMAIN journal' = DOMAIN journal
      /\ \A j \in DOMAIN journal : j # i => journal'[j] = journal[j]
      /\ i \in DOMAIN journal => journal'[i].status # "running"
  <2>1. /\ DOMAIN journal' = DOMAIN journal
        /\ \A j \in DOMAIN journal : j # i => journal'[j] = journal[j]
    BY SettleAgrees
  <2>2. i \in DOMAIN journal => journal'[i].status = status
    BY DEF Settle, RecordSettled, Put, Row
  <2> QED
    BY <2>1, <2>2
<1>6. current[a] = i /\ liveNodes[i].actor = a
  OBVIOUS
<1> HIDE DEF a
<1>7. CurrentIsLive'
  <2> SUFFICES ASSUME NEW b \in Actors, current'[b] # NoInstance
               PROVE  current'[b] \in DOMAIN liveNodes' /\ liveNodes'[current'[b]].actor = b
    BY DEF CurrentIsLive
  <2>1. b # a /\ current'[b] = current[b]
    BY <1>3
  <2>2. current[b] \in DOMAIN liveNodes /\ liveNodes[current[b]].actor = b
    BY <1>1, <2>1 DEF CurrentIsLive
  <2> QED
    BY <1>4, <1>6, <2>1, <2>2
<1>8. QueueInOrder'
  <2>1. ASSUME NEW b \in Actors, NEW n \in DOMAIN liveQueue[b]
        PROVE  /\ liveQueue[b][n] \in DOMAIN liveNodes'
               /\ liveNodes'[liveQueue[b][n]] = liveNodes[liveQueue[b][n]]
    <3>1. /\ liveQueue[b][n] \in DOMAIN liveNodes
          /\ liveNodes[liveQueue[b][n]].actor = b
          /\ current[b] # NoInstance => liveNodes[current[b]].seq < liveNodes[liveQueue[b][n]].seq
      BY <1>1 DEF QueueInOrder
    <3>2. liveQueue[b][n] # i
      BY <1>2, <1>6, <3>1
    <3> QED
      BY <1>4, <3>1, <3>2
  <2>2. \A b \in Actors : current'[b] # NoInstance =>
            current'[b] = current[b] /\ liveNodes'[current[b]] = liveNodes[current[b]]
    BY <1>3, <1>4, <1>7 DEF CurrentIsLive
  <2> QED
    BY <1>1, <1>3, <2>1, <2>2 DEF QueueInOrder
<1>9. NodesPlaced'
  <2> SUFFICES ASSUME NEW j \in DOMAIN liveNodes'
               PROVE  LET b == liveNodes[j].actor IN
                      /\ liveNodes[j].seq < nextAdmitSeq[b]
                      /\ liveNodes[j].dispatched => current'[b] = j
                      /\ current'[b] # j => \E n \in DOMAIN liveQueue[b] : liveQueue[b][n] = j
    BY <1>3, <1>4 DEF NodesPlaced
  <2>1. j \in DOMAIN liveNodes /\ j # i /\ liveNodes[j].actor \in Actors
    BY <1>2, <1>4
  <2>2. /\ liveNodes[j].seq < nextAdmitSeq[liveNodes[j].actor]
        /\ liveNodes[j].dispatched => current[liveNodes[j].actor] = j
        /\ current[liveNodes[j].actor] # j =>
             \E n \in DOMAIN liveQueue[liveNodes[j].actor] : liveQueue[liveNodes[j].actor][n] = j
    BY <1>1, <2>1 DEF NodesPlaced
  <2>3. CASE liveNodes[j].actor = a
    BY <1>6, <2>1, <2>2, <2>3
  <2>4. CASE liveNodes[j].actor # a
    <3>1. current'[liveNodes[j].actor] = current[liveNodes[j].actor]
      BY <1>3, <2>1, <2>4
    <3> QED
      BY <2>2, <3>1
  <2> QED
    BY <2>3, <2>4
<1>10. RunningRowsLive'
  <2> SUFFICES ASSUME NEW j \in DOMAIN journal, journal'[j].status = "running",
                      journal'[j].seq < nextAdmitSeq[journal'[j].actor]
               PROVE  j \in DOMAIN liveNodes'
    BY <1>3, <1>5 DEF RunningRowsLive
  <2>1. j # i /\ journal'[j] = journal[j]
    BY <1>5
  <2> QED
    BY <1>1, <1>4, <2>1 DEF RunningRowsLive
<1>11. AwaitedIsCurrent'
  <2> SUFFICES ASSUME NEW w \in awaiting'
               PROVE  /\ current'[w[1]] = w[2]
                      /\ w[2] \in DOMAIN liveNodes'
                      /\ ~ liveNodes'[w[2]].dispatched
    BY DEF AwaitedIsCurrent
  <2>1. w \in awaiting /\ w[1] \in Actors /\ w[2] # i
    BY QueueTypes
  <2>2. /\ current[w[1]] = w[2]
        /\ w[2] \in DOMAIN liveNodes
        /\ ~ liveNodes[w[2]].dispatched
    BY <1>1, <2>1 DEF AwaitedIsCurrent
  <2>3. w[1] # a
    BY <1>6, <2>1, <2>2
  <2> QED
    BY <1>3, <1>4, <2>1, <2>2, <2>3
<1> QED
  BY <1>7, <1>8, <1>9, <1>10, <1>11 DEF QueuesSound

\* The steps, by what becomes of the admitted asks.
LEMMA StepKinds ==
    ASSUME TypeOK, JournalAgrees, [Next]_vars
    PROVE  \/ UNCHANGED <<journal, runRow, engine, nextAdmitSeq, liveNodes, liveQueue,
                          current, awaiting, turns, events>>
           \/ Quiet /\ \E status : SettleRun(status)
           \/ RebuildEngine /\ UNCHANGED journal /\ engine' \in {"live", "down"}
           \/ Reopen
           \/ \E a \in Actors : DrainRecorded(a) \/ DrainFresh(a)
           \/ \E a \in Actors : /\ MayPump(a) /\ PumpActor(a)
                                /\ UNCHANGED <<journal, runRow, engine, nextAdmitSeq,
                                               liveNodes, turns, events>>
           \/ \E w \in awaiting : DispatchResumes(w[1], w[2])
           \/ \E i \in turns : DriverReports(i)
<1>1. CASE ReceiveAsk
  <2>1. PICK ask \in Asks :
            AskTaken(ask) /\ (Refused(ask) \/ Recognised(ask) \/ HeldAsFresh(ask))
    BY <1>1, ReceiveAskCases
  <2> QED
    BY <2>1 DEF AskTaken, Refused, Recognised, HeldAsFresh, durable, dispatching
<1>2. CASE ReceiveEnd \/ Stop
  BY <1>2 DEF ReceiveEnd, Stop
<1>3. CASE ScriptTakesAnswer \/ \E a \in Actors : SessionSettles(a)
  BY <1>3 DEF ScriptTakesAnswer, SessionSettles, durable, dispatching, admission
<1>4. CASE \E a \in Actors : DrainEnds(a)
  <2>1. PICK a \in Actors : DrainEnds(a)
    BY <1>4
  <2>2. /\ PumpActor(a)
        /\ UNCHANGED <<journal, runRow, engine, nextAdmitSeq, liveNodes, turns, events>>
    BY <2>1 DEF DrainEnds, durable, admission
  <2> QED
    BY <2>2 DEF PumpActor, dispatching
<1>5. CASE PumpNext
  <2>1. /\ pc.actor \in Actors
        /\ PumpActor(pc.actor)
        /\ UNCHANGED <<journal, runRow, engine, nextAdmitSeq, liveNodes, turns, events>>
    BY <1>5 DEF PumpNext, durable, admission, TypeOK
  <2> QED
    BY <2>1 DEF PumpActor, dispatching
<1>6. CASE Dispatching \/ Reporting
  BY <1>6 DEF Dispatching, Reporting
<1>7. CASE Crash \/ Resume
  BY <1>7 DEF Crash, Resume, durable
<1>8. CASE Rest \/ UNCHANGED vars
  BY <1>8 DEF Rest, vars, durable, admission, dispatching
<1> QED
  BY <1>1, <1>2, <1>3, <1>4, <1>5, <1>6, <1>7, <1>8 DEF Next, EngineStep, Drain

LEMMA LoopsLiveStep ==
    ASSUME TypeOK, LoopsLive, [Next]_vars
    PROVE  LoopsLive'
<1>1. ASSUME UNCHANGED <<pc, engine>> PROVE LoopsLive'
  BY <1>1 DEF LoopsLive
<1>2. ASSUME engine' = "live" PROVE LoopsLive'
  BY <1>2 DEF LoopsLive
<1>3. ASSUME pc' = Idle PROVE LoopsLive'
  BY <1>3 DEF LoopsLive
<1>4. ASSUME NEW status, Quiet, SettleRun(status) PROVE LoopsLive'
  BY <1>3, <1>4 DEF Quiet, SettleRun
<1>5. CASE ReceiveAsk
  BY <1>2, <1>4, <1>5 DEF ReceiveAsk, Quiet
<1>6. CASE ReceiveEnd \/ Stop
  BY <1>4, <1>6 DEF ReceiveEnd, Stop
<1>7. CASE ScriptTakesAnswer \/ \E a \in Actors : SessionSettles(a)
  BY <1>1, <1>7 DEF ScriptTakesAnswer, SessionSettles
<1>8. CASE \E a \in Actors : DrainRecorded(a) \/ DrainFresh(a)
  BY <1>1, <1>8 DEF DrainRecorded, DrainFresh
<1>9. CASE PumpNext \/ \E a \in Actors : DrainEnds(a)
  <2>1. pc # Idle /\ engine' = engine
    BY <1>9 DEF PumpNext, DrainEnds, Idle
  <2> QED
    BY <1>2, <2>1 DEF LoopsLive
<1>10. CASE Dispatching
  BY <1>1, <1>2, <1>10 DEF Dispatching, DispatchResumes, StillWanted, Settle
<1>11. CASE Reporting
  BY <1>1, <1>2, <1>11, ReportCases DEF Reporting, BudgetSpent, Settle, Quiet
<1>12. CASE Crash \/ Resume
  BY <1>3, <1>12 DEF Crash, Resume
<1>13. CASE Reopen \/ Rest \/ UNCHANGED vars
  <2>1. pc' = pc
    BY <1>13 DEF Reopen, Rest, vars
  <2> QED
    BY <1>13, <2>1 DEF Reopen, Rest, vars, LoopsLive
<1> QED
  BY <1>5, <1>6, <1>7, <1>8, <1>9, <1>10, <1>11, <1>12, <1>13 DEF Next, EngineStep, Drain

\* What the drain admits is live for the first time, and no other row has its number.
LEMMA DrainAdmits ==
    ASSUME TypeOK, JournalAgrees, RowsNumbered, QueuesSound, engine = "live",
           NEW a \in Actors, DrainRecorded(a) \/ DrainFresh(a)
    PROVE  \E ask \in Asks : Runs(a, ask) \/ Released(a, ask)
<1>1. CASE DrainRecorded(a)
  <2> DEFINE ask == pendingRecorded[a][nextAdmitSeq[a]]
  <2>1. /\ ask \in Asks /\ ask.actor = a /\ ask.inst \in DOMAIN journal
        /\ journal[ask.inst].actor = a
        /\ journal[ask.inst].seq = nextAdmitSeq[a]
        /\ nextAdmitSeq' = [nextAdmitSeq EXCEPT ![a] = @ + 1]
    BY <1>1, DrainRecordedRows
  <2>2. /\ UNCHANGED <<engine, runRow, current, awaiting, turns>>
        /\ \/ AdmitLive(ask, nextAdmitSeq[a])
           \/ /\ journal[ask.inst].status # "running"
              /\ events' = Put(events, ask.inst, "settled")
              /\ UNCHANGED <<journal, liveNodes, liveQueue>>
    BY <1>1 DEF DrainRecorded, RunsAgain, ReleaseCached
  <2> HIDE DEF ask
  <2>3. ask.inst \notin DOMAIN liveNodes
    <3>1. SUFFICES ASSUME ask.inst \in DOMAIN liveNodes PROVE FALSE
      OBVIOUS
    <3>2. /\ liveNodes[ask.inst].actor = a
          /\ liveNodes[ask.inst].seq = nextAdmitSeq[a]
      BY <2>1, <3>1 DEF JournalAgrees, LiveNodesRecorded
    <3>3. liveNodes[ask.inst].seq < nextAdmitSeq[a] /\ nextAdmitSeq[a] \in Nat
      BY <3>1, <3>2, QueueTypes DEF QueuesSound, NodesPlaced
    <3> QED
      BY <3>2, <3>3
  <2>4. \A i \in DOMAIN journal :
            journal[i].actor = a /\ journal[i].seq = nextAdmitSeq[a] => i = ask.inst
    <3>1. \A i, j \in RowsOf(a) : journal[i].seq = journal[j].seq => i = j
      BY DEF RowsNumbered
    <3> QED
      BY <2>1, <3>1 DEF RowsOf
  <2>5. TurnComes(a, ask)
    BY <2>1, <2>2, <2>3, <2>4 DEF TurnComes
  <2> QED
    BY <2>1, <2>2, <2>5 DEF Runs, Released
<1>2. CASE DrainFresh(a)
  <2> DEFINE ask == Head(pendingLive[a])
  <2>1. /\ ask \in Asks /\ ask.actor = a /\ ask.inst \notin DOMAIN journal
        /\ nextAdmitSeq' = [nextAdmitSeq EXCEPT ![a] = @ + 1]
        /\ recordedCount[a] <= nextAdmitSeq[a]
    BY <1>2, DrainFreshRows
  <2>2. /\ UNCHANGED <<engine, runRow, current, awaiting, turns>>
        /\ AdmitLive(ask, nextAdmitSeq[a])
    BY <1>2 DEF DrainFresh
  <2> HIDE DEF ask
  <2>3. ask.inst \notin DOMAIN liveNodes
    BY <2>1 DEF JournalAgrees, LiveNodesRecorded
  <2>4. ASSUME NEW i \in DOMAIN journal, journal[i].actor = a,
               journal[i].seq = nextAdmitSeq[a]
        PROVE  FALSE
    <3>1. journal[i].seq \in 0 .. Cardinality(RowsOf(a)) - 1
      <4>1. i \in RowsOf(a)
        BY <2>4 DEF RowsOf
      <4> QED
        BY <4>1 DEF RowsNumbered
    <3>2. Cardinality(RowsOf(a)) = IF nextAdmitSeq[a] > recordedCount[a]
                                   THEN nextAdmitSeq[a] ELSE recordedCount[a]
      BY DEF RowsNumbered
    <3>3. nextAdmitSeq[a] \in Nat /\ recordedCount[a] \in Nat
      BY DEF TypeOK
    <3> QED
      BY <2>1, <2>4, <3>1, <3>2, <3>3
  <2>5. TurnComes(a, ask)
    BY <2>1, <2>2, <2>3, <2>4 DEF TurnComes
  <2> QED
    BY <2>1, <2>2, <2>5 DEF Runs, Released
<1> QED
  BY <1>1, <1>2

\* An ask that settles was its actor's current one, and waits for no session.
LEMMA SettledIsCurrent ==
    ASSUME TypeOK, QueuesSound, NoOrphanTurns
    PROVE  /\ \A i \in turns : Quiet =>
                  i \in DOMAIN liveNodes /\ current[liveNodes[i].actor] = i
                  /\ \A w \in awaiting : w[2] # i
           /\ \A w \in awaiting : engine = "live" =>
                  /\ w[2] \in DOMAIN liveNodes /\ w[2] \notin turns
                  /\ current[liveNodes[w[2]].actor] = w[2]
                  /\ \A v \in awaiting \ {w} : v[2] # w[2]
<1>1. ASSUME NEW i \in turns, Quiet
      PROVE  i \in DOMAIN liveNodes /\ current[liveNodes[i].actor] = i
             /\ \A w \in awaiting : w[2] # i
  BY <1>1 DEF NoOrphanTurns, Quiet, QueuesSound, NodesPlaced, AwaitedIsCurrent
<1>2. ASSUME NEW w \in awaiting, engine = "live"
      PROVE  /\ w[2] \in DOMAIN liveNodes /\ w[2] \notin turns
             /\ liveNodes[w[2]].actor = w[1] /\ current[w[1]] = w[2] /\ w = <<w[1], w[2]>>
  <2>1. w[2] \in DOMAIN liveNodes /\ w[2] \notin turns /\ current[w[1]] = w[2]
    BY <1>2 DEF NoOrphanTurns, QueuesSound, AwaitedIsCurrent
  <2>2. w = <<w[1], w[2]>> /\ w[1] \in Actors /\ w[2] # NoInstance
    BY QueueTypes, NoInstanceAssumption
  <2> QED
    BY <1>2, <2>1, <2>2 DEF QueuesSound, CurrentIsLive
<1>3. ASSUME NEW w \in awaiting, engine = "live", NEW v \in awaiting \ {w}
      PROVE  v[2] # w[2]
  <2>1. v = <<v[1], v[2]>> /\ liveNodes[v[2]].actor = v[1]
    BY <1>2, <1>3
  <2>2. w = <<w[1], w[2]>> /\ liveNodes[w[2]].actor = w[1]
    BY <1>2, <1>3
  <2> QED
    BY <1>3, <2>1, <2>2
<1> QED
  BY <1>1, <1>2, <1>3

LEMMA QueuesSoundStep ==
    ASSUME TypeOK, JournalAgrees, RowsNumbered, LoopsLive, QueuesSound, NoOrphanTurns,
           [Next]_vars
    PROVE  QueuesSound'
<1>1. ASSUME engine' # "live" PROVE QueuesSound'
  BY <1>1 DEF QueuesSound
<1> SUFFICES ASSUME engine' = "live" PROVE QueuesSound'
  BY <1>1
<1>2. CASE UNCHANGED <<journal, runRow, engine, nextAdmitSeq, liveNodes, liveQueue,
                       current, awaiting, turns, events>>
  BY <1>2, QueuesKept
<1>3. CASE \E status : SettleRun(status)
  BY <1>3 DEF SettleRun
<1>4. CASE RebuildEngine /\ UNCHANGED journal
  <2>1. /\ liveNodes' = <<>> /\ awaiting' = {} /\ journal' = journal
        /\ \A a \in Actors : /\ current'[a] = NoInstance
                             /\ liveQueue'[a] = <<>>
                             /\ nextAdmitSeq'[a] = 0
    BY <1>4 DEF RebuildEngine
  <2>2. CurrentIsLive' /\ QueueInOrder' /\ NodesPlaced' /\ AwaitedIsCurrent'
    BY <2>1, EmptyDomain DEF CurrentIsLive, QueueInOrder, NodesPlaced, AwaitedIsCurrent
  <2>3. RunningRowsLive'
    BY <2>1, QueueTypes DEF RunningRowsLive
  <2> QED
    BY <2>2, <2>3 DEF QueuesSound
<1>5. CASE Reopen
  BY <1>5 DEF Reopen
<1>6. ASSUME NEW a \in Actors, DrainRecorded(a) \/ DrainFresh(a) PROVE QueuesSound'
  <2>1. engine = "live"
    BY <1>6 DEF LoopsLive, DrainRecorded, DrainFresh, Idle
  <2>2. PICK ask \in Asks : Runs(a, ask) \/ Released(a, ask)
    BY <1>6, <2>1, DrainAdmits
  <2> QED
    BY <2>1, <2>2, AdmitQueues, ReleaseQueues
<1>7. ASSUME NEW a \in Actors, MayPump(a), PumpActor(a),
             UNCHANGED <<journal, runRow, engine, nextAdmitSeq, liveNodes, turns, events>>
      PROVE  QueuesSound'
  BY <1>7, PumpQueues
<1>8. ASSUME NEW w \in awaiting, DispatchResumes(w[1], w[2]) PROVE QueuesSound'
  <2>1. awaiting' = awaiting \ {<<w[1], w[2]>>} /\ w = <<w[1], w[2]>>
    BY <1>8, QueueTypes DEF DispatchResumes
  <2>2. CASE UNCHANGED <<journal, engine, nextAdmitSeq, liveNodes, liveQueue, current>>
    BY <2>1, <2>2, QueuesKept
  <2>3. CASE /\ StillWanted(w[2])
             /\ liveNodes' = [liveNodes EXCEPT ![w[2]].dispatched = TRUE]
             /\ UNCHANGED <<journal, engine, nextAdmitSeq, liveQueue, current>>
    <3>1. w[2] \in DOMAIN liveNodes /\ engine = "live"
      BY <2>3 DEF StillWanted
    <3>2. /\ DOMAIN liveNodes' = DOMAIN liveNodes
          /\ \A i \in DOMAIN liveNodes : i # w[2] => liveNodes'[i] = liveNodes[i]
      BY <2>3, <3>1
    <3>3. liveNodes[w[2]] \in Nodes
      BY <3>1 DEF TypeOK, IsMap
    <3>4. /\ liveNodes'[w[2]].actor = liveNodes[w[2]].actor
          /\ liveNodes'[w[2]].seq = liveNodes[w[2]].seq
      BY <2>3, <3>1, <3>3 DEF Nodes
    <3> QED
      BY <2>1, <2>3, <3>1, <3>2, <3>4, MarkQueues
  <2>4. CASE StillWanted(w[2]) /\ Settle(w[2], "failed", NoResult)
    <3>1. w[2] \in DOMAIN liveNodes /\ engine = "live"
      BY <2>4 DEF StillWanted
    <3>2. /\ current[liveNodes[w[2]].actor] = w[2]
          /\ \A v \in awaiting \ {w} : v[2] # w[2]
      BY <3>1, SettledIsCurrent
    <3> QED
      BY <2>1, <2>4, <3>1, <3>2, SettleQueues
  <2> QED
    BY <1>8, <2>2, <2>3, <2>4 DEF DispatchResumes, durable, admission
<1>9. ASSUME NEW i \in turns, DriverReports(i) PROVE QueuesSound'
  <2>1. /\ i \in DOMAIN liveNodes /\ engine = "live"
        /\ current[liveNodes[i].actor] = i
        /\ \A w \in awaiting : w[2] # i
    BY <1>9, ReportCases, SettledIsCurrent DEF Quiet
  <2>2. ASSUME NEW node, BudgetSpent([liveNodes EXCEPT ![i] = node]),
               node.actor = liveNodes[i].actor, node.seq = liveNodes[i].seq,
               node.dispatched = liveNodes[i].dispatched
        PROVE  QueuesSound'
    <3>1. /\ DOMAIN liveNodes' = DOMAIN liveNodes
          /\ \A j \in DOMAIN liveNodes : /\ liveNodes'[j].actor = liveNodes[j].actor
                                         /\ liveNodes'[j].seq = liveNodes[j].seq
                                         /\ liveNodes'[j].dispatched = liveNodes[j].dispatched
      BY <2>1, <2>2 DEF BudgetSpent
    <3>2. UNCHANGED <<journal, liveQueue, current, nextAdmitSeq, awaiting>>
      BY <2>2 DEF BudgetSpent, durable, admission, dispatching
    <3> QED
      BY <2>1, <3>1, <3>2, MarkQueues
  <2>3. liveNodes[i] \in Nodes
    BY <2>1 DEF TypeOK, IsMap
  <2>4. CASE \/ BudgetSpent([liveNodes EXCEPT ![i].repairs = @ - 1])
             \/ BudgetSpent([liveNodes EXCEPT ![i].nudges = @ - 1])
    <3>1. \A n : LET node == [liveNodes[i] EXCEPT !.repairs = n] IN
              /\ node.actor = liveNodes[i].actor /\ node.seq = liveNodes[i].seq
              /\ node.dispatched = liveNodes[i].dispatched
      BY <2>3 DEF Nodes
    <3>2. \A n : LET node == [liveNodes[i] EXCEPT !.nudges = n] IN
              /\ node.actor = liveNodes[i].actor /\ node.seq = liveNodes[i].seq
              /\ node.dispatched = liveNodes[i].dispatched
      BY <2>3 DEF Nodes
    <3>3. /\ [liveNodes EXCEPT ![i].repairs = @ - 1]
             = [liveNodes EXCEPT ![i] = [liveNodes[i] EXCEPT !.repairs = @ - 1]]
          /\ [liveNodes EXCEPT ![i].nudges = @ - 1]
             = [liveNodes EXCEPT ![i] = [liveNodes[i] EXCEPT !.nudges = @ - 1]]
      OBVIOUS
    <3> QED
      BY <2>2, <2>4, <3>1, <3>2, <3>3
  <2>5. CASE UNCHANGED awaiting /\ \/ Settle(i, "failed", NoResult)
                                   \/ \E r \in Results : Settle(i, "completed", r)
    BY <2>1, <2>5, SettleQueues
  <2> QED
    BY <1>9, <2>4, <2>5, ReportCases
<1> QED
  BY <1>2, <1>3, <1>4, <1>5, <1>6, <1>7, <1>8, <1>9, StepKinds

LEMMA OrphanStep ==
    ASSUME TypeOK, JournalAgrees, RowsNumbered, LoopsLive, QueuesSound, NoOrphanTurns,
           [Next]_vars
    PROVE  NoOrphanTurns'
<1>1. turns = {i \in DOMAIN liveNodes : liveNodes[i].dispatched}
  BY DEF NoOrphanTurns
<1>2. CASE UNCHANGED <<liveNodes, turns>>
  BY <1>1, <1>2 DEF NoOrphanTurns
<1>3. CASE \E status : SettleRun(status)
  BY <1>1, <1>3, EmptyDomain DEF SettleRun, TurnsAfterAbort, NoOrphanTurns
<1>4. CASE RebuildEngine
  BY <1>4, EmptyDomain DEF RebuildEngine, NoOrphanTurns
<1>5. CASE Reopen
  BY <1>2, <1>5 DEF Reopen
<1>6. ASSUME NEW a \in Actors, DrainRecorded(a) \/ DrainFresh(a) PROVE NoOrphanTurns'
  <2>1. engine = "live"
    BY <1>6 DEF LoopsLive, DrainRecorded, DrainFresh, Idle
  <2> PICK ask \in Asks : Runs(a, ask) \/ Released(a, ask)
    BY <1>6, <2>1, DrainAdmits
  <2>2. /\ ask.inst \notin DOMAIN liveNodes
        /\ turns' = turns
        /\ AdmitLive(ask, nextAdmitSeq[a]) \/ liveNodes' = liveNodes
    BY DEF Runs, Released, TurnComes
  <2>3. CASE AdmitLive(ask, nextAdmitSeq[a])
    <3>1. liveNodes' = Put(liveNodes, ask.inst,
           [inst |-> ask.inst, actor |-> ask.actor, hash |-> ask.hash,
            typed |-> ask.typed, seq |-> nextAdmitSeq[a], repairs |-> RepairAttempts,
            nudges |-> NudgeAttempts, dispatched |-> FALSE])
      BY <2>3 DEF AdmitLive
    <3>2. /\ DOMAIN liveNodes' = DOMAIN liveNodes \union {ask.inst}
          /\ ~ liveNodes'[ask.inst].dispatched
          /\ \A i \in DOMAIN liveNodes : liveNodes'[i] = liveNodes[i]
      BY <2>2, <3>1 DEF Put
    <3>3. {i \in DOMAIN liveNodes' : liveNodes'[i].dispatched}
              = {i \in DOMAIN liveNodes : liveNodes[i].dispatched}
      BY <3>2
    <3> QED
      BY <1>1, <2>2, <3>3 DEF NoOrphanTurns
  <2> QED
    BY <1>2, <2>2, <2>3
<1>7. ASSUME NEW i \in DOMAIN liveNodes, NEW status, NEW result,
             Settle(i, status, result), turns' = turns \ {i}
      PROVE  NoOrphanTurns'
  <2>1. /\ DOMAIN liveNodes' = DOMAIN liveNodes \ {i}
        /\ \A j \in DOMAIN liveNodes' : liveNodes'[j] = liveNodes[j]
    BY <1>7 DEF Settle, Without
  <2>2. {j \in DOMAIN liveNodes' : liveNodes'[j].dispatched}
            = {j \in DOMAIN liveNodes : liveNodes[j].dispatched} \ {i}
    BY <2>1
  <2> QED
    BY <1>1, <1>7, <2>2 DEF NoOrphanTurns
<1>8. ASSUME NEW w \in awaiting, DispatchResumes(w[1], w[2]) PROVE NoOrphanTurns'
  <2>1. CASE StillWanted(w[2])
             /\ liveNodes' = [liveNodes EXCEPT ![w[2]].dispatched = TRUE]
             /\ turns' = turns \union {w[2]}
    <3>1. w[2] \in DOMAIN liveNodes /\ liveNodes[w[2]] \in Nodes
      BY <2>1 DEF StillWanted, TypeOK, IsMap
    <3>2. /\ DOMAIN liveNodes' = DOMAIN liveNodes
          /\ \A i \in DOMAIN liveNodes : i # w[2] => liveNodes'[i] = liveNodes[i]
          /\ liveNodes'[w[2]].dispatched
      BY <2>1, <3>1 DEF Nodes
    <3>3. {i \in DOMAIN liveNodes' : liveNodes'[i].dispatched}
              = {i \in DOMAIN liveNodes : liveNodes[i].dispatched} \union {w[2]}
      BY <3>1, <3>2
    <3> QED
      BY <1>1, <2>1, <3>3 DEF NoOrphanTurns
  <2>2. CASE StillWanted(w[2]) /\ Settle(w[2], "failed", NoResult) /\ turns' = turns
    <3>1. w[2] \in DOMAIN liveNodes /\ w[2] \notin turns
      BY <2>2, SettledIsCurrent DEF StillWanted
    <3>2. turns' = turns \ {w[2]}
      BY <2>2, <3>1
    <3> QED
      BY <1>7, <2>2, <3>1, <3>2
  <2> QED
    BY <1>2, <1>8, <2>1, <2>2 DEF DispatchResumes
<1>9. ASSUME NEW i \in turns, DriverReports(i) PROVE NoOrphanTurns'
  <2>1. i \in DOMAIN liveNodes /\ liveNodes[i] \in Nodes
    BY <1>9, ReportCases DEF TypeOK, IsMap
  <2>2. CASE \/ BudgetSpent([liveNodes EXCEPT ![i].repairs = @ - 1])
             \/ BudgetSpent([liveNodes EXCEPT ![i].nudges = @ - 1])
    <3>1. turns' = turns /\ \/ liveNodes' = [liveNodes EXCEPT ![i].repairs = @ - 1]
                            \/ liveNodes' = [liveNodes EXCEPT ![i].nudges = @ - 1]
      BY <2>2 DEF BudgetSpent
    <3>2. DOMAIN liveNodes' = DOMAIN liveNodes
          /\ \A j \in DOMAIN liveNodes : liveNodes'[j].dispatched = liveNodes[j].dispatched
      BY <2>1, <3>1 DEF Nodes
    <3>3. {j \in DOMAIN liveNodes' : liveNodes'[j].dispatched}
              = {j \in DOMAIN liveNodes : liveNodes[j].dispatched}
      BY <3>2
    <3> QED
      BY <1>1, <3>1, <3>3 DEF NoOrphanTurns
  <2>3. CASE turns' = turns \ {i} /\ \/ Settle(i, "failed", NoResult)
                                     \/ \E r \in Results : Settle(i, "completed", r)
    BY <1>7, <2>1, <2>3
  <2> QED
    BY <1>9, <2>2, <2>3, ReportCases
<1> QED
  BY <1>2, <1>3, <1>4, <1>5, <1>6, <1>8, <1>9, StepKinds

\* The open nodes of the event log, while the engine lives and when it is over.
LEMMA EventsStep ==
    ASSUME TypeOK, JournalAgrees, RowsNumbered, LoopsLive, QueuesSound,
           OpenEventsLive, NoDanglingNodes, [Next]_vars
    PROVE  OpenEventsLive' /\ NoDanglingNodes'
<1>1. ASSUME NEW x, engine = "live", engine' = "live",
             DOMAIN events' = DOMAIN events \union {x},
             \A i \in DOMAIN events : i # x => events'[i] = events[i],
             \A i \in DOMAIN liveNodes : i # x => i \in DOMAIN liveNodes',
             x \in DOMAIN liveNodes' \/ events'[x] = "settled"
      PROVE  OpenEventsLive' /\ NoDanglingNodes'
  BY <1>1 DEF OpenEventsLive, NoDanglingNodes
<1>2. ASSUME UNCHANGED <<engine, runRow, events>>, DOMAIN liveNodes' = DOMAIN liveNodes
      PROVE  OpenEventsLive' /\ NoDanglingNodes'
  BY <1>2 DEF OpenEventsLive, NoDanglingNodes
<1>3. ASSUME NEW status, Quiet, SettleRun(status) PROVE OpenEventsLive' /\ NoDanglingNodes'
  <2>1. engine' = "settled" /\ runRow' = status /\ engine = "live"
        /\ events' = [i \in DOMAIN events |->
                         IF i \in Cancelled(status) THEN "settled" ELSE events[i]]
    BY <1>3 DEF SettleRun, Quiet
  <2>2. status # "errored" => Cancelled(status) = DOMAIN liveNodes
    BY DEF Cancelled
  <2> QED
    BY <2>1, <2>2 DEF OpenEventsLive, NoDanglingNodes
<1>4. CASE RebuildEngine /\ engine' \in {"live", "down"}
  BY <1>4, EmptyDomain DEF RebuildEngine, OpenEventsLive, NoDanglingNodes
<1>5. CASE Reopen
  BY <1>5 DEF Reopen, OpenEventsLive, NoDanglingNodes
<1>6. ASSUME NEW a \in Actors, DrainRecorded(a) \/ DrainFresh(a)
      PROVE  OpenEventsLive' /\ NoDanglingNodes'
  <2>1. engine = "live"
    BY <1>6 DEF LoopsLive, DrainRecorded, DrainFresh, Idle
  <2> PICK ask \in Asks : Runs(a, ask) \/ Released(a, ask)
    BY <1>6, <2>1, DrainAdmits
  <2>2. /\ engine' = engine
        /\ \/ AdmitLive(ask, nextAdmitSeq[a])
           \/ events' = Put(events, ask.inst, "settled") /\ liveNodes' = liveNodes
    BY DEF Runs, Released, TurnComes
  <2> DEFINE x == ask.inst
  <2>3. CASE AdmitLive(ask, nextAdmitSeq[a])
    <3>1. /\ DOMAIN liveNodes' = DOMAIN liveNodes \union {x}
          /\ DOMAIN events' = DOMAIN events \union {x}
          /\ \A i \in DOMAIN events : i # x => events'[i] = events[i]
      BY <2>3 DEF AdmitLive, Put
    <3> QED
      BY <1>1, <2>1, <2>2, <3>1
  <2>4. CASE events' = Put(events, x, "settled") /\ liveNodes' = liveNodes
    <3>1. /\ DOMAIN events' = DOMAIN events \union {x}
          /\ \A i \in DOMAIN events : i # x => events'[i] = events[i]
          /\ events'[x] = "settled"
      BY <2>4 DEF Put
    <3> QED
      BY <1>1, <2>1, <2>2, <2>4, <3>1
  <2> QED
    BY <2>2, <2>3, <2>4
<1>7. ASSUME NEW i \in DOMAIN liveNodes, NEW status, NEW result, engine = "live",
             Settle(i, status, result)
      PROVE  OpenEventsLive' /\ NoDanglingNodes'
  <2>1. /\ engine' = engine
        /\ DOMAIN liveNodes' = DOMAIN liveNodes \ {i}
        /\ DOMAIN events' = DOMAIN events \union {i}
        /\ \A j \in DOMAIN events : j # i => events'[j] = events[j]
        /\ events'[i] = "settled"
    BY <1>7 DEF Settle, Without, Put
  <2> QED
    BY <1>1, <1>7, <2>1
<1>8. ASSUME NEW w \in awaiting, DispatchResumes(w[1], w[2])
      PROVE  OpenEventsLive' /\ NoDanglingNodes'
  <2>1. CASE UNCHANGED <<engine, runRow, events, liveNodes>>
    BY <1>2, <2>1
  <2>2. CASE /\ StillWanted(w[2]) /\ engine' = engine
             /\ events' = Put(events, w[2], "dispatched")
             /\ liveNodes' = [liveNodes EXCEPT ![w[2]].dispatched = TRUE]
    <3>1. /\ w[2] \in DOMAIN liveNodes /\ engine = "live"
          /\ DOMAIN liveNodes' = DOMAIN liveNodes
          /\ DOMAIN events' = DOMAIN events \union {w[2]}
          /\ \A j \in DOMAIN events : j # w[2] => events'[j] = events[j]
      BY <2>2 DEF StillWanted, Put
    <3> QED
      BY <1>1, <2>2, <3>1
  <2>3. CASE StillWanted(w[2]) /\ Settle(w[2], "failed", NoResult)
    BY <1>7, <2>3 DEF StillWanted
  <2> QED
    BY <1>8, <2>1, <2>2, <2>3 DEF DispatchResumes, durable
<1>9. ASSUME NEW i \in turns, DriverReports(i) PROVE OpenEventsLive' /\ NoDanglingNodes'
  <2>1. i \in DOMAIN liveNodes /\ engine = "live"
    BY <1>9, ReportCases DEF Quiet
  <2>2. CASE \/ BudgetSpent([liveNodes EXCEPT ![i].repairs = @ - 1])
             \/ BudgetSpent([liveNodes EXCEPT ![i].nudges = @ - 1])
    <3>1. UNCHANGED <<engine, runRow, events>> /\ DOMAIN liveNodes' = DOMAIN liveNodes
      BY <2>2 DEF BudgetSpent, durable
    <3> QED
      BY <1>2, <3>1
  <2>3. CASE \/ Settle(i, "failed", NoResult)
             \/ \E r \in Results : Settle(i, "completed", r)
    BY <1>7, <2>1, <2>3
  <2> QED
    BY <1>9, <2>2, <2>3, ReportCases
<1> QED
  BY <1>2, <1>3, <1>4, <1>5, <1>6, <1>8, <1>9, StepKinds

-----------------------------------------------------------------------------
\* No actor is left waiting for a loop that does not come

LEMMA PumpServes ==
    ASSUME TypeOK, SlotsAccounted, engine = "live", NEW a \in Actors, PumpActor(a)
    PROVE  /\ activeAsks = MaxConcurrency => UNCHANGED <<activeAsks, current, liveQueue>>
           /\ activeAsks' = MaxConcurrency \/ current'[a] # NoInstance \/ liveQueue'[a] = <<>>
           /\ \A b \in Actors : b # a => current'[b] = current[b] /\ liveQueue'[b] = liveQueue[b]
<1>1. activeAsks \in Nat /\ MaxConcurrency \in Nat /\ activeAsks <= MaxConcurrency
  BY LimitAssumption DEF SlotsAccounted, TypeOK
<1>2. CASE MayPump(a)
  <2>1. current'[a] = Head(liveQueue[a]) /\ liveQueue[a] \in Seq(Instances)
        /\ liveQueue[a] # <<>>
    BY <1>2, QueueTypes DEF PumpActor, MayPump
  <2>2. current'[a] # NoInstance
    BY <2>1, QueueHead, NoInstanceAssumption
  <2>3. \A b \in Actors : b # a => current'[b] = current[b] /\ liveQueue'[b] = liveQueue[b]
    BY <1>2, QueueTypes DEF PumpActor
  <2>4. activeAsks # MaxConcurrency
    BY <1>1, <1>2 DEF MayPump
  <2> QED
    BY <2>2, <2>3, <2>4
<1>3. CASE ~ MayPump(a)
  <2>1. UNCHANGED <<activeAsks, current, liveQueue>>
    BY <1>3 DEF PumpActor, dispatching
  <2>2. activeAsks = MaxConcurrency \/ current[a] # NoInstance \/ liveQueue[a] = <<>>
    BY <1>1, <1>3 DEF MayPump
  <2> QED
    BY <2>1, <2>2
<1> QED
  BY <1>2, <1>3

LEMMA PumpDueStep ==
    ASSUME TypeOK, JournalAgrees, SlotsAccounted, PumpDue, [Next]_vars
    PROVE  PumpDue'
<1>1. ASSUME engine' # "live" PROVE PumpDue'
  BY <1>1 DEF PumpDue
<1>2. ASSUME UNCHANGED <<engine, activeAsks, current, liveQueue, pc>> PROVE PumpDue'
  BY <1>2 DEF PumpDue
<1>3. ASSUME pc' = PumpAll PROVE PumpDue'
  <2>1. pc'.op = "pump" /\ pc'.actor = 1
    BY <1>3 DEF PumpAll, Pumping
  <2>2. \A a \in Actors : 1 <= a
    BY ScriptAssumption
  <2> QED
    BY <2>1, <2>2 DEF PumpDue
<1>4. ASSUME RebuildEngine PROVE PumpDue'
  BY <1>4 DEF RebuildEngine, PumpDue
<1>5. ASSUME NEW status, SettleRun(status) PROVE PumpDue'
  BY <1>1, <1>5 DEF SettleRun
<1>6. ASSUME Quiet, UNCHANGED <<engine, activeAsks, current, liveQueue>> PROVE PumpDue'
  BY <1>6 DEF PumpDue, Quiet, Idle
<1>7. CASE ReceiveAsk
  BY <1>5, <1>6, <1>7 DEF ReceiveAsk, dispatching
<1>8. CASE ReceiveEnd \/ Stop
  BY <1>5, <1>8 DEF ReceiveEnd, Stop
<1>9. CASE ScriptTakesAnswer \/ \E a \in Actors : SessionSettles(a)
  BY <1>2, <1>9 DEF ScriptTakesAnswer, SessionSettles, dispatching
<1>10. ASSUME NEW b \in Actors, DrainRecorded(b) \/ DrainFresh(b) PROVE PumpDue'
  <2>1. /\ pc.op = "drain" /\ pc.actor = b
        /\ UNCHANGED <<engine, activeAsks, current, pc>>
    BY <1>10 DEF DrainRecorded, DrainFresh
  <2>2. \E ask : /\ ask.actor = b
                 /\ \/ liveQueue' = liveQueue
                    \/ liveQueue' = [liveQueue EXCEPT ![ask.actor] = Enqueue(@, ask.inst)]
    <3>1. CASE DrainRecorded(b)
      BY <3>1, DrainRecordedRows DEF DrainRecorded, AdmitLive
    <3>2. CASE DrainFresh(b)
      BY <3>2, DrainFreshRows DEF DrainFresh, AdmitLive
    <3> QED
      BY <1>10, <3>1, <3>2
  <2>3. \A a \in Actors : a # b => liveQueue'[a] = liveQueue[a]
    BY <2>2, QueueTypes
  <2> QED
    BY <2>1, <2>3 DEF PumpDue
<1>11. ASSUME NEW b \in Actors, DrainEnds(b) PROVE PumpDue'
  <2>1. /\ pc.op = "drain" /\ pc.actor = b /\ PumpActor(b) /\ engine' = engine
        /\ pc' = IF pc.fresh THEN PumpAll ELSE Idle
    BY <1>11 DEF DrainEnds
  <2>2. CASE pc.fresh
    BY <1>3, <2>1, <2>2
  <2>3. CASE ~ pc.fresh /\ engine = "live"
    <3>1. /\ activeAsks = MaxConcurrency => UNCHANGED <<activeAsks, current, liveQueue>>
          /\ activeAsks' = MaxConcurrency \/ current'[b] # NoInstance \/ liveQueue'[b] = <<>>
          /\ \A a \in Actors : a # b => current'[a] = current[a] /\ liveQueue'[a] = liveQueue[a]
      BY <2>1, <2>3, PumpServes
    <3> QED
      BY <2>1, <2>3, <3>1 DEF PumpDue
  <2>4. CASE engine # "live"
    BY <1>1, <2>1, <2>4
  <2> QED
    BY <2>2, <2>3, <2>4
<1>12. CASE PumpNext /\ engine = "live"
  <2> DEFINE b == pc.actor
  <2>1. /\ pc.op = "pump" /\ b \in Actors /\ PumpActor(b) /\ engine' = engine
        /\ pc' = IF b < NumActors THEN Pumping(b + 1) ELSE Idle
    BY <1>12 DEF PumpNext, TypeOK
  <2>2. /\ activeAsks = MaxConcurrency => UNCHANGED <<activeAsks, current, liveQueue>>
        /\ activeAsks' = MaxConcurrency \/ current'[b] # NoInstance \/ liveQueue'[b] = <<>>
        /\ \A a \in Actors : a # b => current'[a] = current[a] /\ liveQueue'[a] = liveQueue[a]
    BY <1>12, <2>1, PumpServes
  <2> SUFFICES ASSUME activeAsks' # MaxConcurrency, NEW a \in Actors,
                      current'[a] = NoInstance, liveQueue'[a] # <<>>
               PROVE  pc'.op = "pump" /\ pc'.actor <= a
    BY DEF PumpDue
  <2>3. a # b /\ activeAsks # MaxConcurrency
        /\ current[a] = NoInstance /\ liveQueue[a] # <<>>
    BY <2>2
  <2>4. b <= a
    BY <1>12, <2>1, <2>3 DEF PumpDue
  <2>5. b < NumActors /\ b + 1 <= a
    BY <2>1, <2>3, <2>4, ScriptAssumption
  <2> QED
    BY <2>1, <2>5 DEF Pumping
<1>13. CASE Dispatching
  BY <1>2, <1>3, <1>13 DEF Dispatching, DispatchResumes, Settle
<1>14. CASE Reporting
  BY <1>2, <1>3, <1>14, ReportCases DEF Reporting, BudgetSpent, dispatching, Settle
<1>15. CASE Crash \/ Resume
  BY <1>4, <1>15 DEF Crash, Resume
<1>16. CASE Reopen
  BY <1>1, <1>16 DEF Reopen
<1>17. CASE Rest \/ UNCHANGED vars
  BY <1>2, <1>17 DEF Rest, vars, dispatching
<1>18. CASE PumpNext /\ engine # "live"
  BY <1>1, <1>18 DEF PumpNext
<1> QED
  BY <1>7, <1>8, <1>9, <1>10, <1>11, <1>12, <1>13, <1>14, <1>15, <1>16, <1>17, <1>18
     DEF Next, EngineStep, Drain

\* A turn starts only as a dispatch resumes and finds its ask still wanted.
LEMMA TurnStarts ==
    ASSUME TypeOK, JournalAgrees, [Next]_vars, NEW i \in turns' \ turns
    PROVE  \E w \in awaiting : DispatchResumes(w[1], w[2]) /\ i = w[2] /\ StillWanted(i)
<1>1. CASE \E status : SettleRun(status)
  BY <1>1 DEF SettleRun, TurnsAfterAbort
<1>2. CASE RebuildEngine
  BY <1>2 DEF RebuildEngine
<1>3. CASE Reopen
  BY <1>3 DEF Reopen
<1>4. CASE \E a \in Actors : DrainRecorded(a) \/ DrainFresh(a)
  BY <1>4 DEF DrainRecorded, DrainFresh
<1>5. CASE \E w \in awaiting : DispatchResumes(w[1], w[2])
  BY <1>5 DEF DispatchResumes
<1>6. CASE \E k \in turns : DriverReports(k)
  BY <1>6, ReportCases DEF BudgetSpent
<1> QED
  BY <1>1, <1>2, <1>3, <1>4, <1>5, <1>6, StepKinds

LEMMA StartsInOrderStep ==
    ASSUME TypeOK, JournalAgrees, QueuesSound, NoOrphanTurns, [Next]_vars
    PROVE  \A i \in turns' \ turns :
               \A j \in DOMAIN journal :
                   /\ journal[j].actor = journal[i].actor
                   /\ journal[j].seq < journal[i].seq
                   => journal[j].status # "running"
<1> SUFFICES ASSUME NEW i \in turns' \ turns, NEW j \in DOMAIN journal,
                    journal[j].actor = journal[i].actor,
                    journal[j].seq < journal[i].seq,
                    journal[j].status = "running"
             PROVE  FALSE
  OBVIOUS
<1>1. \E w \in awaiting : DispatchResumes(w[1], w[2]) /\ i = w[2] /\ StillWanted(i)
  BY TurnStarts
<1>2. i \in DOMAIN liveNodes /\ engine = "live"
  BY <1>1 DEF StillWanted
<1>3. CurrentIsLive /\ QueueInOrder /\ NodesPlaced /\ RunningRowsLive /\ AwaitedIsCurrent
  BY <1>2 DEF QueuesSound
<1> DEFINE a == liveNodes[i].actor
<1>4. a \in Actors /\ current[a] = i /\ i # NoInstance
  BY <1>1, <1>2, SettledIsCurrent, QueueTypes, NoInstanceAssumption
<1>5. journal[i].actor = a /\ journal[i].seq = liveNodes[i].seq /\ i \in DOMAIN journal
  BY <1>2 DEF JournalAgrees, LiveNodesRecorded
<1>6. liveNodes[i].seq < nextAdmitSeq[a]
  BY <1>2, <1>3 DEF NodesPlaced
<1> HIDE DEF a
<1>7. journal[j].seq < nextAdmitSeq[journal[j].actor]
  BY <1>4, <1>5, <1>6, QueueTypes
<1>8. /\ j \in DOMAIN liveNodes
      /\ liveNodes[j].actor = a /\ liveNodes[j].seq = journal[j].seq
  BY <1>3, <1>5, <1>7 DEF RunningRowsLive, JournalAgrees, LiveNodesRecorded
<1>9. journal[j].seq \in Nat /\ journal[i].seq \in Nat
  BY <1>5, QueueTypes
<1>10. current[a] # j
  BY <1>4, <1>9
<1>11. PICK n \in DOMAIN liveQueue[a] : liveQueue[a][n] = j
  BY <1>3, <1>8, <1>10 DEF NodesPlaced
<1>12. liveNodes[i].seq < liveNodes[j].seq
  BY <1>3, <1>4, <1>11 DEF QueueInOrder
<1> QED
  BY <1>5, <1>8, <1>9, <1>12

-----------------------------------------------------------------------------
\* The invariant of the scheduling

LEMMA InitOInv == Init => OInv
<1> SUFFICES ASSUME Init PROVE OInv
  OBVIOUS
<1>1. /\ journal = <<>> /\ liveNodes = <<>> /\ events = <<>>
      /\ awaiting = {} /\ turns = {} /\ engine = "live" /\ pc = Idle
      /\ \A a \in Actors : /\ recordedCount[a] = 0 /\ nextAdmitSeq[a] = 0
                           /\ pendingRecorded[a] = <<>> /\ liveQueue[a] = <<>>
                           /\ current[a] = NoInstance
  BY DEF Init
<1>2. \A a \in Actors : RowsOf(a) = {}
  BY <1>1, EmptyDomain DEF RowsOf
<1>3. RowsNumbered
  <2> SUFFICES ASSUME NEW a \in Actors
               PROVE  /\ Cardinality(RowsOf(a)) = 0
                      /\ {journal[i].seq : i \in RowsOf(a)} = 0 .. 0 - 1
                      /\ \A i, j \in RowsOf(a) : journal[i].seq = journal[j].seq => i = j
    BY <1>1 DEF RowsNumbered
  <2> QED
    BY <1>2, FS_EmptySet
<1>4. AskedOnce /\ LoopsLive
  BY <1>1, EmptyDomain DEF AskedOnce, LoopsLive
<1>5. QueuesSound
  BY <1>1, EmptyDomain DEF QueuesSound, CurrentIsLive, QueueInOrder, NodesPlaced,
                           RunningRowsLive, AwaitedIsCurrent
<1>6. NoOrphanTurns /\ OpenEventsLive /\ NoDanglingNodes /\ PumpDue
  BY <1>1, EmptyDomain DEF NoOrphanTurns, OpenEventsLive, NoDanglingNodes, PumpDue
<1> QED
  BY <1>3, <1>4, <1>5, <1>6 DEF OInv

LEMMA NextOInv == IInv /\ OInv /\ [Next]_vars => OInv'
<1> SUFFICES ASSUME IInv, OInv, [Next]_vars PROVE OInv'
  OBVIOUS
<1>1. TypeOK /\ SlotsAccounted /\ JournalAgrees
  BY DEF IInv
<1>2. /\ RowsNumbered /\ AskedOnce /\ LoopsLive /\ QueuesSound /\ NoOrphanTurns
      /\ OpenEventsLive /\ NoDanglingNodes /\ PumpDue
  BY DEF OInv
<1>3. RowsNumbered' /\ AskedOnce' /\ LoopsLive'
  BY <1>1, <1>2, RowsNumberedStep, AskedOnceStep, LoopsLiveStep
<1>4. QueuesSound' /\ NoOrphanTurns'
  BY <1>1, <1>2, QueuesSoundStep, OrphanStep
<1>5. OpenEventsLive' /\ NoDanglingNodes' /\ PumpDue'
  BY <1>1, <1>2, EventsStep, PumpDueStep
<1> QED
  BY <1>3, <1>4, <1>5 DEF OInv

LEMMA AlwaysOInv == Spec => []OInv
<1>1. Init => OInv
  BY InitOInv
<1>2. IInv /\ OInv /\ [Next]_vars => OInv'
  BY NextOInv
<1> QED
  BY <1>1, <1>2, AlwaysIInv, PTL DEF Spec

\* A handler that frees a slot or queues an ask does not end before every actor
\* that could be served has been: between handlers, an actor with queued work is
\* busy or all slots are taken.
THEOREM WorkConserved == Spec => []WorkConserving
<1>1. OInv => WorkConserving
  BY DEF OInv, PumpDue, WorkConserving, Quiet, Idle
<1> QED
  BY <1>1, AlwaysOInv, PTL

\* Whatever ends a run, the driver is left with no turn to spend tokens on, and
\* but for a failed run the event log with no open node.
THEOREM NothingIsLeftBehind == Spec => []NothingLeftBehind
<1>1. OInv => NothingLeftBehind
  BY DEF OInv, NothingLeftBehind
<1> QED
  BY <1>1, AlwaysOInv, PTL

\* Over all lives, an actor's rows are numbered 0, 1, ... without gap or
\* repetition, although a life counts from 0 again and passes the recorded ones.
THEOREM RowsDense == Spec => []SeqsDense
<1>1. OInv => SeqsDense
  BY DEF OInv, RowsNumbered, SeqsDense
<1> QED
  BY <1>1, AlwaysOInv, PTL

\* No actor is given a turn before all its earlier asks have settled, in whatever
\* order a resumed script repeats them.
THEOREM TurnsStartInOrder == Spec => StartsInOrder
<1>1. IInv /\ OInv /\ [Next]_vars =>
          \A i \in turns' \ turns :
              \A j \in DOMAIN journal :
                  /\ journal[j].actor = journal[i].actor
                  /\ journal[j].seq < journal[i].seq
                  => journal[j].status # "running"
  BY StartsInOrderStep DEF IInv, OInv
<1> QED
  BY <1>1, AlwaysIInv, AlwaysOInv, PTL DEF Spec, StartsInOrder

-----------------------------------------------------------------------------
\* Replay, where no two branches of the script share an ask site
\*
\* The engine numbers the calls of a site in the order in which they reach it.
\* Only where a site is one branch's own is that order the branch's, and an
\* instance the same ask in every life; a pipeline whose arms share their sites
\* has no such order, and the run of its script shows what comes of it.

SitesUnshared ==
    \A f, g \in Fibers : \A m \in DOMAIN Script[f], n \in DOMAIN Script[g] :
        Script[f][m].site = Script[g][n].site => f = g

\* The calls of a site among the first n asks of a branch, and the instance that
\* the ask of a branch with this past is.
CallsAt(f, s, n) == {k \in 1 .. n : Script[f][k].site = s}
CallsOf(f, s, n) == Cardinality(CallsAt(f, s, n))
Asked(h) == Len(h[2]) < Len(Script[h[1]])
SiteOf(h) == StepOf(h[1], h[2]).site
InstanceOf(h) == <<SiteOf(h), CallsOf(h[1], SiteOf(h), Len(h[2]) + 1)>>

\* The counters stand where branch f has made its first n asks.
Wrote(f, s) == \E k \in DOMAIN Script[f] : Script[f][k].site = s
CountersAt(counts, f, n) ==
    \A s \in Sites : Wrote(f, s) => counts[s] = CallsOf(f, s, n)

\* Rows are found under the instance of the ask they were recorded for.
RowsKeyed ==
    \A i \in DOMAIN journal : Asked(journal[i].hash) /\ i = InstanceOf(journal[i].hash)

\* The engine has the ask of instance i, with hash h, in hand.
InHand(i, h) ==
    \/ \E a \in Actors : \E n \in DOMAIN pendingRecorded[a] :
           pendingRecorded[a][n].inst = i /\ pendingRecorded[a][n].hash = h
    \/ \E a \in Actors : \E n \in DOMAIN pendingLive[a] :
           pendingLive[a][n].inst = i /\ pendingLive[a][n].hash = h
    \/ i \in DOMAIN liveNodes /\ liveNodes[i].hash = h

\* An ask in hand is what its branch waits for: the latest it called.
InHandIsLatest ==
    \A i \in Instances, h \in Hashes :
        InHand(i, h) =>
            /\ Asked(h) /\ i = InstanceOf(h)
            /\ h[2] = hist[h[1]]
            /\ CountersAt(ordinals, h[1], Len(h[2]) + 1)

\* A message of a branch is the one that follows from what the branch has seen.
MessagesAreNext ==
    \A n \in DOMAIN toEngine : toEngine[n].kind = "ask" =>
        LET f == toEngine[n].fiber IN
        /\ toEngine[n].seen = hist[f]
        /\ CountersAt(ordinals, f, Len(hist[f]))
        /\ \A m \in DOMAIN toEngine :
               toEngine[m].kind = "ask" /\ toEngine[m].fiber = f => m = n

\* An answer under way is the only one to its branch, and to its latest ask.
AnswersAreToLatest ==
    \A n \in DOMAIN toChild :
        LET f == toChild[n].fiber IN
        /\ Asked(<<f, hist[f]>>)
        /\ <<<<f, hist[f]>>, toChild[n].outcome>> \in told
        /\ CountersAt(ordinals, f, Len(hist[f]) + 1)
        /\ \A m \in DOMAIN toChild : toChild[m].fiber = f => m = n
        /\ \A i \in Instances, h \in Hashes : InHand(i, h) => h[1] # f

\* What the script was told stands in settled rows.
ToldFromRows ==
    \A t \in told : \E i \in DOMAIN journal :
        /\ journal[i].hash = t[1]
        /\ journal[i].status # "running"
        /\ OutcomeOf(journal[i]) = t[2]

\* What a branch has seen, now or when it made a recorded ask, it was told, and
\* all these pasts of a branch are parts of one.
PastTold(answers, f, seen) ==
    \A k \in 1 .. Len(seen) : <<<<f, SubSeq(seen, 1, k - 1)>>, seen[k]>> \in answers
Agree(u, v) == \A k \in 1 .. Len(u) : k <= Len(v) => u[k] = v[k]
PastsTold ==
    /\ \A f \in Fibers : PastTold(told, f, hist[f])
    /\ \A i \in DOMAIN journal : PastTold(told, journal[i].hash[1], journal[i].hash[2])
PastsAgree ==
    \A i \in DOMAIN journal :
        /\ Agree(journal[i].hash[2], hist[journal[i].hash[1]])
        /\ \A j \in DOMAIN journal :
               journal[j].hash[1] = journal[i].hash[1]
               => Agree(journal[i].hash[2], journal[j].hash[2])

RInv == /\ RowsKeyed /\ InHandIsLatest /\ MessagesAreNext /\ AnswersAreToLatest
        /\ ToldFromRows /\ PastsTold /\ PastsAgree
        /\ ReplayFaithful /\ ReplayNeverMismatches

\* Counting the calls of a site.
LEMMA CallsFinite ==
    ASSUME NEW f, NEW s, NEW n \in Nat
    PROVE  IsFiniteSet(CallsAt(f, s, n)) /\ CallsOf(f, s, n) \in Nat
<1>1. IsFiniteSet(1 .. n)
  BY FS_Interval
<1>2. CallsAt(f, s, n) \subseteq 1 .. n
  BY DEF CallsAt
<1> QED
  BY <1>1, <1>2, FS_Subset, FS_CardinalityType DEF CallsOf

LEMMA NoCalls ==
    ASSUME NEW f, NEW s
    PROVE  CallsOf(f, s, 0) = 0
<1>1. CallsAt(f, s, 0) = {}
  BY DEF CallsAt
<1> QED
  BY <1>1, FS_EmptySet DEF CallsOf

LEMMA NextCall ==
    ASSUME NEW f, NEW s, NEW n \in Nat
    PROVE  CallsOf(f, s, n + 1) = IF Script[f][n + 1].site = s
                                  THEN CallsOf(f, s, n) + 1 ELSE CallsOf(f, s, n)
<1>1. n + 1 \notin CallsAt(f, s, n)
  BY DEF CallsAt
<1>2. CASE Script[f][n + 1].site = s
  <2>1. CallsAt(f, s, n + 1) = CallsAt(f, s, n) \union {n + 1}
    BY <1>2 DEF CallsAt
  <2> QED
    BY <1>1, <1>2, <2>1, CallsFinite, FS_AddElement DEF CallsOf
<1>3. CASE Script[f][n + 1].site # s
  <2>1. CallsAt(f, s, n + 1) = CallsAt(f, s, n)
    BY <1>3 DEF CallsAt
  <2> QED
    BY <1>3, <2>1 DEF CallsOf
<1> QED
  BY <1>2, <1>3

LEMMA LaterCall ==
    ASSUME NEW f, NEW s, NEW m \in Nat, NEW n \in Nat, m < n, Script[f][n].site = s
    PROVE  CallsOf(f, s, m) < CallsOf(f, s, n)
<1>1. n \notin CallsAt(f, s, m) /\ CallsAt(f, s, m) \union {n} \subseteq CallsAt(f, s, n)
  BY DEF CallsAt
<1>2. Cardinality(CallsAt(f, s, m) \union {n}) = CallsOf(f, s, m) + 1
  BY <1>1, CallsFinite, FS_AddElement DEF CallsOf
<1>3. Cardinality(CallsAt(f, s, m) \union {n}) <= CallsOf(f, s, n)
  BY <1>1, CallsFinite, FS_Subset DEF CallsOf
<1> QED
  BY <1>2, <1>3, CallsFinite

LEMMA SitePlace ==
    ASSUME NEW h \in Hashes, Asked(h)
    PROVE  /\ h[1] \in Fibers /\ h[2] \in Seq(Outcomes) /\ h = <<h[1], h[2]>>
           /\ Len(h[2]) \in Nat /\ Len(h[2]) + 1 \in DOMAIN Script[h[1]]
           /\ SiteOf(h) \in Sites /\ SiteOf(h) = Script[h[1]][Len(h[2]) + 1].site
           /\ Wrote(h[1], SiteOf(h))
<1>1. h[1] \in Fibers /\ h[2] \in Seq(Outcomes) /\ h = <<h[1], h[2]>>
  BY DEF Hashes
<1>2. Script[h[1]] \in Seq(Step)
  BY <1>1, ScriptAssumption
<1>3. Len(h[2]) \in Nat /\ Len(h[2]) + 1 \in DOMAIN Script[h[1]]
  BY <1>1, <1>2 DEF Asked
<1>4. SiteOf(h) \in Sites /\ SiteOf(h) = Script[h[1]][Len(h[2]) + 1].site
  BY <1>1, StepType DEF SiteOf, StepOf, Step, Asked
<1> QED
  BY <1>1, <1>3, <1>4 DEF Wrote

\* The counters of a branch tell whether its latest ask has been called.
LEMMA CalledOrNot ==
    ASSUME NEW h \in Hashes, Asked(h), NEW counts,
           CountersAt(counts, h[1], Len(h[2])),
           CountersAt(counts, h[1], Len(h[2]) + 1)
    PROVE  FALSE
<1> DEFINE f == h[1]
           n == Len(h[2])
           s == SiteOf(h)
<1>1. n \in Nat /\ s \in Sites /\ Wrote(f, s) /\ Script[f][n + 1].site = s
  BY SitePlace
<1>2. counts[s] = CallsOf(f, s, n) /\ counts[s] = CallsOf(f, s, n + 1)
  BY <1>1 DEF CountersAt
<1> HIDE DEF f, n, s
<1>3. CallsOf(f, s, n) \in Nat
  BY <1>1, CallsFinite
<1>4. CallsOf(f, s, n + 1) = CallsOf(f, s, n) + 1
  BY <1>1, NextCall
<1> QED
  BY <1>2, <1>3, <1>4

\* One instance, one branch and one place in it.
LEMMA InstanceTells ==
    ASSUME SitesUnshared, NEW g \in Hashes, NEW h \in Hashes, Asked(g), Asked(h),
           InstanceOf(g) = InstanceOf(h)
    PROVE  g[1] = h[1] /\ Len(g[2]) = Len(h[2])
<1>1. /\ g[1] \in Fibers /\ Len(g[2]) \in Nat /\ Len(g[2]) + 1 \in DOMAIN Script[g[1]]
      /\ SiteOf(g) = Script[g[1]][Len(g[2]) + 1].site
  BY SitePlace
<1>2. /\ h[1] \in Fibers /\ Len(h[2]) \in Nat /\ Len(h[2]) + 1 \in DOMAIN Script[h[1]]
      /\ SiteOf(h) = Script[h[1]][Len(h[2]) + 1].site
  BY SitePlace
<1>3. /\ SiteOf(g) = SiteOf(h)
      /\ CallsOf(g[1], SiteOf(g), Len(g[2]) + 1) = CallsOf(h[1], SiteOf(h), Len(h[2]) + 1)
  BY DEF InstanceOf
<1>4. g[1] = h[1]
  BY <1>1, <1>2, <1>3 DEF SitesUnshared
<1> DEFINE m == Len(g[2]) + 1
           n == Len(h[2]) + 1
           f == h[1]
           s == SiteOf(h)
<1>5. /\ m \in Nat /\ n \in Nat /\ CallsOf(f, s, m) = CallsOf(f, s, n)
      /\ Script[f][m].site = s /\ Script[f][n].site = s
  <2>1. m \in Nat /\ n \in Nat
    BY <1>1, <1>2
  <2>2. CallsOf(f, s, m) = CallsOf(f, s, n)
    BY <1>3, <1>4
  <2>3. Script[f][m].site = s /\ Script[f][n].site = s
    BY <1>1, <1>2, <1>3, <1>4
  <2> QED
    BY <2>1, <2>2, <2>3
<1> HIDE DEF m, n, f, s
<1>6. CallsOf(f, s, m) \in Nat
  BY <1>5, CallsFinite
<1>7. ~ m < n /\ ~ n < m
  BY <1>5, <1>6, LaterCall
<1>8. m = n
  BY <1>5, <1>7
<1> QED
  BY <1>1, <1>2, <1>4, <1>8 DEF m, n

\* A call counts one more, for its own branch only.
LEMMA CountersStep ==
    ASSUME SitesUnshared, NEW h \in Hashes, Asked(h), NEW counts \in [Sites -> Nat],
           CountersAt(counts, h[1], Len(h[2]))
    PROVE  LET after == [counts EXCEPT ![SiteOf(h)] = @ + 1] IN
           /\ <<SiteOf(h), counts[SiteOf(h)] + 1>> = InstanceOf(h)
           /\ CountersAt(after, h[1], Len(h[2]) + 1)
           /\ \A f \in Fibers, n \in Nat :
                  f # h[1] /\ CountersAt(counts, f, n) => CountersAt(after, f, n)
<1> DEFINE g == h[1]
           n == Len(h[2])
           s == SiteOf(h)
           after == [counts EXCEPT ![s] = @ + 1]
<1>1. /\ g \in Fibers /\ n \in Nat /\ n + 1 \in DOMAIN Script[g]
      /\ s \in Sites /\ s = Script[g][n + 1].site /\ Wrote(g, s)
  BY SitePlace
<1> HIDE DEF g, n, s
<1>2. counts[s] = CallsOf(g, s, n) /\ CallsOf(g, s, n + 1) = CallsOf(g, s, n) + 1
  BY <1>1, NextCall DEF CountersAt, g, n
<1>3. /\ after[s] = counts[s] + 1
      /\ \A r \in Sites : r # s => after[r] = counts[r]
  BY <1>1
<1> HIDE DEF after
<1>4. CountersAt(after, g, n + 1)
  <2> SUFFICES ASSUME NEW r \in Sites, Wrote(g, r)
               PROVE  after[r] = CallsOf(g, r, n + 1)
    BY DEF CountersAt
  <2>1. CASE r = s
    BY <1>2, <1>3, <2>1
  <2>2. CASE r # s
    <3>1. counts[r] = CallsOf(g, r, n)
      BY DEF CountersAt, g, n
    <3>2. CallsOf(g, r, n + 1) = CallsOf(g, r, n)
      BY <1>1, <2>2, NextCall
    <3> QED
      BY <1>3, <2>2, <3>1, <3>2
  <2> QED
    BY <2>1, <2>2
<1>5. ASSUME NEW f \in Fibers, NEW m \in Nat, f # g, CountersAt(counts, f, m)
      PROVE  CountersAt(after, f, m)
  <2> SUFFICES ASSUME NEW r \in Sites, Wrote(f, r)
               PROVE  after[r] = CallsOf(f, r, m)
    BY DEF CountersAt
  <2>1. r # s
    BY <1>1, <1>5 DEF SitesUnshared, Wrote
  <2> QED
    BY <1>3, <1>5, <2>1 DEF CountersAt
<1>6. <<s, counts[s] + 1>> = InstanceOf(h)
  BY <1>2 DEF InstanceOf, g, n, s
<1> QED
  BY <1>4, <1>5, <1>6 DEF g, n, s, after

-----------------------------------------------------------------------------
\* The steps, by what becomes of the script's messages and of its asks

LEMMA ReplayTypes ==
    ASSUME TypeOK
    PROVE  /\ hist \in [Fibers -> Seq(Outcomes)]
           /\ toEngine \in Seq(Messages) /\ toChild \in Seq(Answers)
           /\ ordinals \in [Sites -> Nat]
           /\ DOMAIN journal \subseteq Instances
           /\ DOMAIN liveNodes \subseteq Instances
           /\ \A i \in DOMAIN journal : journal[i] \in Rows /\ journal[i].hash \in Hashes
           /\ \A i \in DOMAIN liveNodes : liveNodes[i].hash \in Hashes
BY DEF TypeOK, IsMap, Rows, Nodes

LEMMA InHandType ==
    ASSUME TypeOK, NEW i, NEW h, InHand(i, h)
    PROVE  i \in Instances /\ h \in Hashes
<1>1. CASE \E a \in Actors : \E n \in DOMAIN pendingRecorded[a] :
               pendingRecorded[a][n].inst = i /\ pendingRecorded[a][n].hash = h
  <2>1. PICK a \in Actors : \E n \in DOMAIN pendingRecorded[a] :
            pendingRecorded[a][n].inst = i /\ pendingRecorded[a][n].hash = h
    BY <1>1
  <2>2. \A n \in DOMAIN pendingRecorded[a] : pendingRecorded[a][n] \in Asks
    BY DEF TypeOK, IsMap
  <2> QED
    BY <2>1, <2>2 DEF Asks
<1>2. CASE \E a \in Actors : \E n \in DOMAIN pendingLive[a] :
               pendingLive[a][n].inst = i /\ pendingLive[a][n].hash = h
  <2>1. PICK a \in Actors : \E n \in DOMAIN pendingLive[a] :
            pendingLive[a][n].inst = i /\ pendingLive[a][n].hash = h
    BY <1>2
  <2>2. pendingLive[a] \in Seq(Asks)
    BY DEF TypeOK
  <2>3. \A n \in DOMAIN pendingLive[a] : pendingLive[a][n] \in Asks
    BY <2>2
  <2> QED
    BY <2>1, <2>3 DEF Asks
<1>3. CASE i \in DOMAIN liveNodes /\ liveNodes[i].hash = h
  BY <1>3, ReplayTypes
<1> QED
  BY <1>1, <1>2, <1>3 DEF InHand

\* A branch has one ask in hand at most.
LEMMA OneInHand ==
    ASSUME TypeOK, InHandIsLatest,
           NEW i, NEW j, NEW g, NEW h, InHand(i, g), InHand(j, h), g[1] = h[1]
    PROVE  g = h /\ i = j
<1>1. i \in Instances /\ j \in Instances /\ g \in Hashes /\ h \in Hashes
  BY InHandType
<1>2. /\ g[2] = hist[g[1]] /\ i = InstanceOf(g)
      /\ h[2] = hist[h[1]] /\ j = InstanceOf(h)
  BY <1>1 DEF InHandIsLatest
<1>3. g = <<g[1], g[2]>> /\ h = <<h[1], h[2]>>
  BY <1>1 DEF Hashes
<1> QED
  BY <1>2, <1>3

\* The steps that leave the script and its asks alone.
Unconcerned ==
    /\ UNCHANGED <<journal, told, mismatch, hist, toEngine, toChild, ordinals,
                   pendingRecorded, pendingLive>>
    /\ DOMAIN liveNodes' = DOMAIN liveNodes
    /\ \A i \in DOMAIN liveNodes : liveNodes'[i].hash = liveNodes[i].hash

LEMMA ReplayKinds ==
    ASSUME TypeOK, JournalAgrees, [Next]_vars
    PROVE  \/ Unconcerned
           \/ (\E status : SettleRun(status)) /\ UNCHANGED <<ordinals, mismatch>>
           \/ ReceiveAsk
           \/ ScriptTakesAnswer
           \/ \E a \in Actors : DrainRecorded(a) \/ DrainFresh(a)
           \/ \E i \in DOMAIN liveNodes : \E status \in {"completed", "failed"} :
                  engine = "live" /\ \E result : Settle(i, status, result)
           \/ RebuildEngine /\ UNCHANGED <<journal, told, mismatch>>
<1>1. ASSUME UNCHANGED <<journal, told, mismatch, hist, toEngine, toChild, ordinals,
                         pendingRecorded, pendingLive, liveNodes>>
      PROVE  Unconcerned
  BY <1>1 DEF Unconcerned
<1>2. CASE ReceiveEnd \/ Stop
  BY <1>2 DEF ReceiveEnd, Stop
<1>3. CASE PumpNext \/ \E a \in Actors : DrainEnds(a) \/ SessionSettles(a)
  BY <1>1, <1>3 DEF PumpNext, DrainEnds, SessionSettles, durable, admission, child, ghosts
<1>4. CASE Dispatching
  <2>1. PICK w \in awaiting : DispatchResumes(w[1], w[2])
    BY <1>4 DEF Dispatching
  <2>2. CASE /\ StillWanted(w[2])
             /\ liveNodes' = [liveNodes EXCEPT ![w[2]].dispatched = TRUE]
             /\ UNCHANGED <<durable, ordinals, admission, child, ghosts>>
    <3>1. w[2] \in DOMAIN liveNodes /\ liveNodes[w[2]] \in Nodes
      BY <2>2 DEF StillWanted, TypeOK, IsMap
    <3>2. /\ DOMAIN liveNodes' = DOMAIN liveNodes
          /\ \A i \in DOMAIN liveNodes : liveNodes'[i].hash = liveNodes[i].hash
      BY <2>2, <3>1 DEF Nodes
    <3> QED
      BY <2>2, <3>2 DEF Unconcerned, durable, admission, child, ghosts
  <2>3. CASE UNCHANGED <<durable, ordinals, admission, liveNodes, child, ghosts>>
    BY <1>1, <2>3 DEF durable, admission, child, ghosts
  <2>4. CASE StillWanted(w[2]) /\ Settle(w[2], "failed", NoResult)
    BY <2>4 DEF StillWanted
  <2> QED
    BY <2>1, <2>2, <2>3, <2>4 DEF DispatchResumes
<1>5. CASE Reporting
  <2>1. PICK i \in turns : DriverReports(i)
    BY <1>5 DEF Reporting
  <2>2. i \in DOMAIN liveNodes /\ liveNodes[i] \in Nodes /\ engine = "live"
    BY <2>1, ReportCases DEF TypeOK, IsMap, Quiet
  <2>3. CASE \/ BudgetSpent([liveNodes EXCEPT ![i].repairs = @ - 1])
             \/ BudgetSpent([liveNodes EXCEPT ![i].nudges = @ - 1])
    <3>1. \/ liveNodes' = [liveNodes EXCEPT ![i].repairs = @ - 1]
          \/ liveNodes' = [liveNodes EXCEPT ![i].nudges = @ - 1]
      BY <2>3 DEF BudgetSpent
    <3>2. /\ DOMAIN liveNodes' = DOMAIN liveNodes
          /\ \A j \in DOMAIN liveNodes : liveNodes'[j].hash = liveNodes[j].hash
      BY <2>2, <3>1 DEF Nodes
    <3> QED
      BY <2>3, <3>2 DEF Unconcerned, BudgetSpent, durable, admission, child, ghosts
  <2>4. CASE \/ Settle(i, "failed", NoResult)
             \/ \E r \in Results : Settle(i, "completed", r)
    BY <2>2, <2>4
  <2> QED
    BY <2>1, <2>3, <2>4, ReportCases
<1>6. CASE Crash \/ Resume
  BY <1>6 DEF Crash, Resume, durable, ghosts
<1>7. CASE Reopen \/ Rest \/ UNCHANGED vars
  BY <1>1, <1>7 DEF Reopen, Rest, vars, durable, admission, child, ghosts
<1> QED
  BY <1>2, <1>3, <1>4, <1>5, <1>6, <1>7 DEF Next, EngineStep, Drain

\* What is known of the rows and of the answers given, where both stay.
RowsTold == RowsKeyed /\ ToldFromRows /\ PastsTold /\ PastsAgree /\ ReplayFaithful

LEMMA RowsToldKept ==
    ASSUME RowsTold, UNCHANGED <<journal, told, hist>>
    PROVE  RowsTold'
<1>1. RowsKeyed' /\ ToldFromRows' /\ ReplayFaithful'
  BY DEF RowsTold, RowsKeyed, ToldFromRows, ReplayFaithful
<1>2. PastsTold' /\ PastsAgree'
  BY DEF RowsTold, PastsTold, PastsAgree
<1> QED
  BY <1>1, <1>2 DEF RowsTold

\* Less in hand, and nothing else that matters.
LEMMA PositionsKept ==
    ASSUME InHandIsLatest, MessagesAreNext, AnswersAreToLatest,
           UNCHANGED <<hist, ordinals, told>>,
           \A i \in Instances, h \in Hashes : InHand(i, h)' => InHand(i, h),
           toEngine' = toEngine \/ toEngine' = <<>>,
           toChild' = toChild \/ toChild' = <<>>
    PROVE  InHandIsLatest' /\ MessagesAreNext' /\ AnswersAreToLatest'
<1>1. InHandIsLatest'
  BY DEF InHandIsLatest
<1>2. MessagesAreNext'
  BY EmptyDomain DEF MessagesAreNext
<1>3. AnswersAreToLatest'
  BY EmptyDomain DEF AnswersAreToLatest
<1> QED
  BY <1>1, <1>2, <1>3

LEMMA UnconcernedReplay ==
    ASSUME RInv, Unconcerned
    PROVE  RInv'
<1>1. RowsTold'
  BY RowsToldKept DEF RInv, RowsTold, Unconcerned
<1>2. \A i \in Instances, h \in Hashes : InHand(i, h)' => InHand(i, h)
  BY DEF InHand, Unconcerned
<1>3. InHandIsLatest' /\ MessagesAreNext' /\ AnswersAreToLatest'
  BY <1>2, PositionsKept DEF RInv, Unconcerned
<1>4. ReplayNeverMismatches'
  BY DEF RInv, Unconcerned, ReplayNeverMismatches
<1> QED
  BY <1>1, <1>3, <1>4 DEF RInv, RowsTold

LEMMA SettleRunReplay ==
    ASSUME RInv, NEW status, SettleRun(status), UNCHANGED <<ordinals, mismatch>>
    PROVE  RInv'
<1>0. /\ UNCHANGED <<journal, told, hist, pendingRecorded, pendingLive>>
      /\ liveNodes' = <<>> /\ toEngine' = <<>> /\ toChild' = <<>>
  BY DEF SettleRun, admission
<1>1. RowsTold'
  BY <1>0, RowsToldKept DEF RInv, RowsTold
<1>2. \A i \in Instances, h \in Hashes : InHand(i, h)' => InHand(i, h)
  BY <1>0, EmptyDomain DEF InHand
<1>3. InHandIsLatest' /\ MessagesAreNext' /\ AnswersAreToLatest'
  BY <1>0, <1>2, PositionsKept DEF RInv
<1>4. ReplayNeverMismatches'
  BY DEF RInv, ReplayNeverMismatches
<1> QED
  BY <1>1, <1>3, <1>4 DEF RInv, RowsTold

LEMMA RebuildReplay ==
    ASSUME TypeOK, RInv, RebuildEngine, UNCHANGED <<journal, told, mismatch>>
    PROVE  RInv'
<1>0. /\ ordinals' = [s \in Sites |-> 0]
      /\ \A a \in Actors : pendingRecorded'[a] = <<>> /\ pendingLive'[a] = <<>>
      /\ liveNodes' = <<>> /\ toChild' = <<>> /\ toEngine' = FirstAsks
      /\ hist' = [f \in Fibers |-> <<>>]
  BY DEF RebuildEngine
<1>1. RowsKeyed' /\ ToldFromRows' /\ ReplayFaithful' /\ ReplayNeverMismatches'
  BY DEF RInv, RowsKeyed, ToldFromRows, ReplayFaithful, ReplayNeverMismatches
<1>2. \A i, h : ~ InHand(i, h)'
  BY <1>0, EmptyDomain DEF InHand
<1>3. InHandIsLatest' /\ AnswersAreToLatest'
  BY <1>0, <1>2, EmptyDomain DEF InHandIsLatest, AnswersAreToLatest
<1>4. MessagesAreNext'
  <2> SUFFICES ASSUME NEW n \in DOMAIN FirstAsks
               PROVE  LET f == FirstAsks[n].fiber IN
                      /\ FirstAsks[n].seen = hist'[f]
                      /\ CountersAt(ordinals', f, Len(hist'[f]))
                      /\ \A m \in DOMAIN FirstAsks :
                             FirstAsks[m].kind = "ask" /\ FirstAsks[m].fiber = f => m = n
    BY <1>0 DEF MessagesAreNext
  <2>1. DOMAIN FirstAsks = Fibers /\ \A m \in Fibers :
            FirstAsks[m].fiber = m /\ FirstAsks[m].seen = <<>>
    BY DEF FirstAsks, AskMessage
  <2>2. hist'[n] = <<>> /\ Len(hist'[n]) = 0
    BY <1>0, <2>1
  <2>3. CountersAt(ordinals', n, 0)
    BY <1>0, NoCalls DEF CountersAt
  <2> QED
    BY <2>1, <2>2, <2>3
<1>5. PastsTold' /\ PastsAgree'
  <2>1. \A f \in Fibers : hist'[f] = <<>>
    BY <1>0
  <2>2. \A f, answers : PastTold(answers, f, <<>>)
    BY DEF PastTold
  <2>3. \A w : Len(w) \in Nat => Agree(w, <<>>)
    BY DEF Agree
  <2>4. \A i \in DOMAIN journal : journal[i].hash[1] \in Fibers /\ Len(journal[i].hash[2]) \in Nat
    BY ReplayTypes DEF Hashes
  <2>5. PastsTold'
    BY <2>1, <2>2 DEF RInv, PastsTold
  <2>6. PastsAgree'
    BY <2>1, <2>3, <2>4 DEF RInv, PastsAgree
  <2> QED
    BY <2>5, <2>6
<1> QED
  BY <1>1, <1>3, <1>4, <1>5 DEF RInv

\* Where an ask in hand is, by what its row says.
LEMMA HeldPlace ==
    ASSUME TypeOK, JournalAgrees, AskedOnce,
           NEW a \in Actors, NEW n \in DOMAIN pendingRecorded[a]
    PROVE  LET i == pendingRecorded[a][n].inst IN
           /\ i \in DOMAIN journal
           /\ journal[i].actor = a /\ journal[i].seq = n /\ n >= nextAdmitSeq[a]
<1> DEFINE x == pendingRecorded[a][n]
<1>1. /\ x.inst \in DOMAIN journal /\ journal[x.inst].seq = n
      /\ journal[x.inst].hash = x.hash /\ BelongsTo(x, a)
  BY DEF JournalAgrees, HeldAsksRecorded
<1>2. n >= nextAdmitSeq[a]
  BY DEF AskedOnce
<1>3. journal[x.inst].actor = a
  BY <1>1 DEF JournalAgrees, RowsOfScript, BelongsTo
<1> QED
  BY <1>1, <1>2, <1>3

LEMMA LivePlace ==
    ASSUME TypeOK, JournalAgrees, QueuesSound, engine = "live", NEW i \in DOMAIN liveNodes
    PROVE  /\ i \in DOMAIN journal
           /\ journal[i].seq < nextAdmitSeq[journal[i].actor]
           /\ journal[i].hash = liveNodes[i].hash /\ journal[i].status = "running"
BY DEF JournalAgrees, LiveNodesRecorded, QueuesSound, NodesPlaced

LEMMA FreshPlace ==
    ASSUME JournalAgrees, NEW a \in Actors, NEW n \in DOMAIN pendingLive[a]
    PROVE  pendingLive[a][n].inst \notin DOMAIN journal
BY DEF JournalAgrees, FreshAsksUnrecorded

\* An ask in hand is answered from its row, which is settled now.
AnsweredFrom(i, h) ==
    /\ i \in DOMAIN journal
    /\ DOMAIN journal' = DOMAIN journal
    /\ \A j \in DOMAIN journal : journal'[j].hash = journal[j].hash
    /\ \A j \in DOMAIN journal : journal[j].status # "running" => journal'[j] = journal[j]
    /\ journal'[i].hash = h
    /\ journal'[i].status # "running"
    /\ told' = told \union {<<h, OutcomeOf(journal'[i])>>}
    /\ toChild' = Append(toChild, [fiber |-> h[1], outcome |-> OutcomeOf(journal'[i])])
    /\ UNCHANGED <<hist, ordinals, toEngine, mismatch>>

LEMMA AnswerReplay ==
    ASSUME TypeOK, RInv, NEW i, NEW h, InHand(i, h), AnsweredFrom(i, h),
           \A j \in Instances, g \in Hashes : InHand(j, g)' => InHand(j, g) /\ g # h
    PROVE  RInv'
<1> DEFINE o == OutcomeOf(journal'[i])
           f == h[1]
<1>0. /\ RowsKeyed /\ InHandIsLatest /\ MessagesAreNext /\ AnswersAreToLatest
      /\ ToldFromRows /\ PastsTold /\ PastsAgree /\ ReplayFaithful /\ ReplayNeverMismatches
  BY DEF RInv
<1>1. i \in Instances /\ h \in Hashes
  BY InHandType
<1>2. /\ Asked(h) /\ i = InstanceOf(h) /\ h[2] = hist[f] /\ h = <<f, hist[f]>>
      /\ CountersAt(ordinals, f, Len(hist[f]) + 1)
  BY <1>0, <1>1 DEF InHandIsLatest, Hashes
<1>3. /\ i \in DOMAIN journal /\ DOMAIN journal' = DOMAIN journal
      /\ \A j \in DOMAIN journal : journal'[j].hash = journal[j].hash
      /\ \A j \in DOMAIN journal : journal[j].status # "running" => journal'[j] = journal[j]
      /\ journal'[i].hash = h
      /\ journal'[i].status # "running"
      /\ told' = told \union {<<h, o>>}
      /\ toChild' = Append(toChild, [fiber |-> f, outcome |-> o])
      /\ hist' = hist /\ ordinals' = ordinals /\ toEngine' = toEngine /\ mismatch' = mismatch
  BY DEF AnsweredFrom
<1> HIDE DEF o, f
<1>4. RowsKeyed' /\ PastsAgree'
  BY <1>0, <1>3 DEF RowsKeyed, PastsAgree
<1>5. ToldFromRows'
  <2> SUFFICES ASSUME NEW t \in told'
               PROVE  \E j \in DOMAIN journal' : /\ journal'[j].hash = t[1]
                                                 /\ journal'[j].status # "running"
                                                 /\ OutcomeOf(journal'[j]) = t[2]
    BY DEF ToldFromRows
  <2>1. CASE t \in told
    BY <1>0, <1>3, <2>1 DEF ToldFromRows
  <2>2. CASE t = <<h, o>>
    BY <1>3, <2>2 DEF o
  <2> QED
    BY <1>3, <2>1, <2>2
<1>6. PastsTold'
  <2>1. \A g, seen : PastTold(told, g, seen) => PastTold(told', g, seen)
    BY <1>3 DEF PastTold
  <2> QED
    BY <1>0, <1>3, <2>1 DEF PastsTold
<1>7. ReplayFaithful'
  <2>1. \A t \in told : t[1] = h => t[2] = o
    <3> SUFFICES ASSUME NEW t \in told, t[1] = h PROVE t[2] = o
      OBVIOUS
    <3>1. PICK j \in DOMAIN journal : /\ journal[j].hash = h
                                      /\ journal[j].status # "running"
                                      /\ OutcomeOf(journal[j]) = t[2]
      BY <1>0 DEF ToldFromRows
    <3>2. j = i
      BY <1>0, <1>2, <3>1 DEF RowsKeyed
    <3> QED
      BY <1>3, <3>1, <3>2 DEF o
  <2>2. \A t \in told' : t \in told \/ (t[1] = h /\ t[2] = o)
    BY <1>3
  <2> QED
    BY <1>0, <2>1, <2>2 DEF ReplayFaithful
<1>8. InHandIsLatest' /\ MessagesAreNext' /\ ReplayNeverMismatches'
  BY <1>0, <1>3 DEF InHandIsLatest, MessagesAreNext, ReplayNeverMismatches
<1>9. AnswersAreToLatest'
  <2> SUFFICES ASSUME NEW n \in DOMAIN toChild'
               PROVE  LET g == toChild'[n].fiber IN
                      /\ Asked(<<g, hist[g]>>)
                      /\ <<<<g, hist[g]>>, toChild'[n].outcome>> \in told'
                      /\ CountersAt(ordinals, g, Len(hist[g]) + 1)
                      /\ \A m \in DOMAIN toChild' : toChild'[m].fiber = g => m = n
                      /\ \A j \in Instances, k \in Hashes : InHand(j, k)' => k[1] # g
    BY <1>3 DEF AnswersAreToLatest
  <2>1. /\ Len(toChild) \in Nat /\ DOMAIN toChild = 1 .. Len(toChild)
        /\ DOMAIN toChild' = 1 .. Len(toChild) + 1
        /\ \A m \in DOMAIN toChild : toChild'[m] = toChild[m]
        /\ toChild'[Len(toChild) + 1] = [fiber |-> f, outcome |-> o]
    BY <1>3, ReplayTypes
  <2>2. \A m \in DOMAIN toChild : toChild[m].fiber # f
    BY <1>0, <1>1 DEF AnswersAreToLatest, f
  <2>3. \A j \in Instances, k \in Hashes : InHand(j, k)' => InHand(j, k) /\ k[1] # f
    BY <1>0, <1>1, OneInHand DEF f
  <2>4. CASE n \in DOMAIN toChild
    <3>1. LET g == toChild[n].fiber IN
          /\ Asked(<<g, hist[g]>>)
          /\ <<<<g, hist[g]>>, toChild[n].outcome>> \in told
          /\ CountersAt(ordinals, g, Len(hist[g]) + 1)
          /\ \A m \in DOMAIN toChild : toChild[m].fiber = g => m = n
          /\ \A j \in Instances, k \in Hashes : InHand(j, k) => k[1] # g
      BY <1>0, <2>4 DEF AnswersAreToLatest
    <3>2. \A m \in DOMAIN toChild' : m \in DOMAIN toChild \/ m = Len(toChild) + 1
      BY <2>1
    <3>3. toChild'[Len(toChild) + 1].fiber = f
      BY <2>1
    <3>4. \A m \in DOMAIN toChild' : toChild'[m].fiber = toChild[n].fiber => m = n
      BY <2>1, <2>2, <2>4, <3>1, <3>2, <3>3
    <3> QED
      BY <1>3, <2>1, <2>3, <2>4, <3>1, <3>4
  <2>5. CASE n = Len(toChild) + 1
    <3>1. toChild'[n].fiber = f /\ toChild'[n].outcome = o
      BY <2>1, <2>5
    <3>2. \A m \in DOMAIN toChild' : toChild'[m].fiber = f => m = n
      BY <2>1, <2>2, <2>5
    <3>3. <<<<f, hist[f]>>, o>> \in told'
      BY <1>2, <1>3
    <3> QED
      BY <1>2, <2>3, <3>1, <3>2, <3>3
  <2> QED
    BY <2>1, <2>4, <2>5
<1> QED
  BY <1>4, <1>5, <1>6, <1>7, <1>8, <1>9 DEF RInv

LEMMA SettleReplay ==
    ASSUME TypeOK, JournalAgrees, AskedOnce, QueuesSound, RInv, engine = "live",
           NEW i \in DOMAIN liveNodes, NEW status \in {"completed", "failed"}, NEW result,
           Settle(i, status, result)
    PROVE  RInv'
<1> DEFINE h == liveNodes[i].hash
<1>1. InHand(i, h)
  BY DEF InHand
<1>2. i \in DOMAIN journal /\ journal[i].status = "running" /\ journal[i].hash = h
      /\ journal[i].seq < nextAdmitSeq[journal[i].actor]
  BY LivePlace
<1>3. /\ DOMAIN journal' = DOMAIN journal
      /\ \A j \in DOMAIN journal : j # i => journal'[j] = journal[j]
      /\ journal'[i].hash = journal[i].hash
  BY SettleAgrees
<1>4. journal'[i] = Row(liveNodes[i], liveNodes[i].seq, status, result)
  BY <1>2 DEF Settle, RecordSettled, Put
<1>5. journal'[i].status = status
  BY <1>4 DEF Row
<1>6. /\ told' = told \union {<<h, OutcomeOf(journal'[i])>>}
      /\ toChild' = Append(toChild, [fiber |-> h[1], outcome |-> OutcomeOf(journal'[i])])
      /\ UNCHANGED <<hist, ordinals, toEngine, mismatch, pendingRecorded, pendingLive>>
      /\ liveNodes' = Without(liveNodes, i)
  BY <1>4 DEF Settle, Answer, admission
<1> HIDE DEF h
<1>7. AnsweredFrom(i, h)
  BY <1>2, <1>3, <1>5, <1>6 DEF AnsweredFrom
<1>8. ASSUME NEW j \in Instances, NEW g \in Hashes, InHand(j, g)'
      PROVE  InHand(j, g) /\ g # h
  <2>1. CASE \E a \in Actors : \E n \in DOMAIN pendingRecorded[a] :
                 pendingRecorded[a][n].inst = j /\ pendingRecorded[a][n].hash = g
    <3>1. PICK a \in Actors : \E n \in DOMAIN pendingRecorded[a] :
              pendingRecorded[a][n].inst = j /\ pendingRecorded[a][n].hash = g
      BY <2>1
    <3>2. PICK n \in DOMAIN pendingRecorded[a] :
              pendingRecorded[a][n].inst = j /\ pendingRecorded[a][n].hash = g
      BY <3>1
    <3>3. InHand(j, g)
      BY <2>1 DEF InHand
    <3>4. journal[j].actor = a /\ journal[j].seq = n /\ n >= nextAdmitSeq[a]
      BY <3>2, HeldPlace
    <3>5. j # i
      <4>1. journal[i].seq \in Nat /\ nextAdmitSeq[journal[i].actor] \in Nat
        BY <1>2, QueueTypes
      <4> QED
        BY <1>2, <3>4, <4>1
    <3>6. g # h
      BY <1>1, <3>3, <3>5, OneInHand DEF RInv
    <3> QED
      BY <3>3, <3>6
  <2>2. CASE \E a \in Actors : \E n \in DOMAIN pendingLive[a] :
                 pendingLive[a][n].inst = j /\ pendingLive[a][n].hash = g
    <3>1. InHand(j, g)
      BY <2>2 DEF InHand
    <3>2. j # i
      BY <1>2, <2>2, FreshPlace
    <3> QED
      BY <1>1, <3>1, <3>2, OneInHand DEF RInv
  <2>3. CASE j \in DOMAIN liveNodes' /\ liveNodes'[j].hash = g
    <3>1. j \in DOMAIN liveNodes /\ j # i /\ liveNodes[j].hash = g
      BY <1>6, <2>3 DEF Without
    <3>2. InHand(j, g)
      BY <3>1 DEF InHand
    <3> QED
      BY <1>1, <3>1, <3>2, OneInHand DEF RInv
  <2> QED
    BY <1>6, <1>8, <2>1, <2>2, <2>3 DEF InHand
<1> QED
  BY <1>1, <1>7, <1>8, AnswerReplay

LEMMA AdmittedNode ==
    ASSUME NEW ask, NEW seq, AdmitLive(ask, seq)
    PROVE  /\ DOMAIN liveNodes' = DOMAIN liveNodes \union {ask.inst}
           /\ \A j \in DOMAIN liveNodes : j # ask.inst => liveNodes'[j] = liveNodes[j]
           /\ liveNodes'[ask.inst].hash = ask.hash
BY DEF AdmitLive, Put

\* An ask in hand gets its running row, the first or the same again.
LEMMA AdmitReplay ==
    ASSUME TypeOK, RInv, NEW ask \in Asks, NEW seq, AdmitLive(ask, seq),
           InHand(ask.inst, ask.hash),
           ask.inst \in DOMAIN journal => /\ journal[ask.inst].status = "running"
                                          /\ journal[ask.inst].hash = ask.hash,
           UNCHANGED <<told, hist, ordinals, toEngine, toChild, mismatch>>,
           \A j \in Instances, g \in Hashes : InHand(j, g)' => InHand(j, g)
    PROVE  RInv'
<1> DEFINE i == ask.inst
           h == ask.hash
           f == h[1]
<1>0. /\ RowsKeyed /\ InHandIsLatest /\ MessagesAreNext /\ AnswersAreToLatest
      /\ ToldFromRows /\ PastsTold /\ PastsAgree /\ ReplayFaithful /\ ReplayNeverMismatches
  BY DEF RInv
<1>1. i \in Instances /\ h \in Hashes /\ f \in Fibers
  BY DEF Asks, Hashes
<1>2. Asked(h) /\ i = InstanceOf(h) /\ h[2] = hist[f]
  BY <1>0, <1>1 DEF InHandIsLatest
<1>3. /\ DOMAIN journal' = DOMAIN journal \union {i}
      /\ \A j \in DOMAIN journal : j # i => journal'[j] = journal[j]
      /\ journal'[i].hash = h
  BY DEF AdmitLive, Put, Row
<1>4. \A j \in DOMAIN journal : journal'[j].hash = journal[j].hash
  BY <1>3
<1>5. \A j \in DOMAIN journal : journal[j].status # "running" => journal'[j] = journal[j]
  BY <1>3
<1> HIDE DEF i, h, f
<1>6. RowsKeyed'
  BY <1>0, <1>2, <1>3, <1>4 DEF RowsKeyed
<1>7. ToldFromRows' /\ ReplayFaithful' /\ ReplayNeverMismatches'
  <2>1. ToldFromRows'
    BY <1>0, <1>3, <1>5 DEF ToldFromRows
  <2> QED
    BY <1>0, <2>1 DEF ReplayFaithful, ReplayNeverMismatches
<1>8. PastsTold'
  BY <1>0, <1>1, <1>2, <1>3, <1>4 DEF PastsTold, f
<1>9. PastsAgree'
  <2>1. h[2] \in Seq(Outcomes) /\ Len(h[2]) \in Nat
    BY <1>1 DEF Hashes
  <2>2. \A j \in DOMAIN journal : Len(journal[j].hash[2]) \in Nat
    BY ReplayTypes DEF Hashes
  <2>3. Agree(h[2], h[2])
    BY DEF Agree
  <2>4. \A j \in DOMAIN journal : journal[j].hash[1] = f =>
            Agree(journal[j].hash[2], h[2]) /\ Agree(h[2], journal[j].hash[2])
    <3> SUFFICES ASSUME NEW j \in DOMAIN journal, journal[j].hash[1] = f
                 PROVE  Agree(journal[j].hash[2], h[2]) /\ Agree(h[2], journal[j].hash[2])
      OBVIOUS
    <3>1. Agree(journal[j].hash[2], h[2])
      BY <1>0, <1>2 DEF PastsAgree
    <3> QED
      BY <2>1, <2>2, <3>1 DEF Agree
  <2>5. \A j \in DOMAIN journal' : j \in DOMAIN journal \/ journal'[j].hash = h
    BY <1>3
  <2> QED
    BY <1>0, <1>2, <1>4, <2>3, <2>4, <2>5 DEF PastsAgree, f
<1>10. InHandIsLatest' /\ MessagesAreNext' /\ AnswersAreToLatest'
  BY <1>0, PositionsKept
<1> QED
  BY <1>6, <1>7, <1>8, <1>9, <1>10 DEF RInv

LEMMA AdmitRecordedReplay ==
    ASSUME TypeOK, JournalAgrees, RInv, NEW a \in Actors, DrainRecorded(a),
           journal[pendingRecorded[a][nextAdmitSeq[a]].inst].status = "running"
    PROVE  RInv'
<1> DEFINE seq == nextAdmitSeq[a]
           ask == pendingRecorded[a][seq]
<1>1. /\ seq \in DOMAIN pendingRecorded[a] /\ ask \in Asks
      /\ ask.inst \in DOMAIN journal /\ journal[ask.inst].hash = ask.hash
  BY DrainRecordedRows
<1>2. InHand(ask.inst, ask.hash)
  BY <1>1 DEF InHand
<1>3. /\ AdmitLive(ask, seq)
      /\ pendingRecorded' = [pendingRecorded EXCEPT ![a] = Without(@, seq)]
      /\ UNCHANGED <<told, hist, ordinals, toEngine, toChild, mismatch, pendingLive>>
  BY DEF DrainRecorded, RunsAgain
<1> HIDE DEF seq, ask
<1>6. /\ DOMAIN liveNodes' = DOMAIN liveNodes \union {ask.inst}
      /\ \A j \in DOMAIN liveNodes : j # ask.inst => liveNodes'[j] = liveNodes[j]
      /\ liveNodes'[ask.inst].hash = ask.hash
  BY <1>3, AdmittedNode
<1>4. \A j \in Instances, g \in Hashes : InHand(j, g)' => InHand(j, g)
  <2> SUFFICES ASSUME NEW j \in Instances, NEW g \in Hashes, InHand(j, g)'
               PROVE  InHand(j, g)
    OBVIOUS
  <2>1. CASE \E b \in Actors : \E n \in DOMAIN pendingRecorded'[b] :
                 pendingRecorded'[b][n].inst = j /\ pendingRecorded'[b][n].hash = g
    <3>1. \A b \in Actors : \A n \in DOMAIN pendingRecorded'[b] :
              n \in DOMAIN pendingRecorded[b] /\ pendingRecorded'[b][n] = pendingRecorded[b][n]
      BY <1>3 DEF TypeOK, Without
    <3> QED
      BY <2>1, <3>1 DEF InHand
  <2>2. CASE \E b \in Actors : \E n \in DOMAIN pendingLive[b] :
                 pendingLive[b][n].inst = j /\ pendingLive[b][n].hash = g
    BY <2>2 DEF InHand
  <2>3. CASE j \in DOMAIN liveNodes' /\ liveNodes'[j].hash = g
    <3>1. \/ j = ask.inst /\ g = ask.hash
          \/ j \in DOMAIN liveNodes /\ liveNodes[j].hash = g
      BY <1>6, <2>3
    <3> QED
      BY <1>2, <3>1 DEF InHand
  <2> QED
    BY <1>3, <2>1, <2>2, <2>3 DEF InHand
<1>5. journal[ask.inst].status = "running"
  BY DEF ask, seq
<1> QED
  BY <1>1, <1>2, <1>3, <1>4, <1>5, AdmitReplay

LEMMA AdmitFreshReplay ==
    ASSUME TypeOK, JournalAgrees, RInv, NEW a \in Actors, DrainFresh(a)
    PROVE  RInv'
<1> DEFINE seq == nextAdmitSeq[a]
           ask == Head(pendingLive[a])
<1>1. /\ ask \in Asks /\ ask = pendingLive[a][1] /\ 1 \in DOMAIN pendingLive[a]
      /\ ask.inst \notin DOMAIN journal
  BY DrainFreshRows
<1>2. InHand(ask.inst, ask.hash)
  BY <1>1 DEF InHand
<1>3. /\ AdmitLive(ask, seq)
      /\ pendingLive' = [pendingLive EXCEPT ![a] = Tail(@)]
      /\ UNCHANGED <<told, hist, ordinals, toEngine, toChild, mismatch, pendingRecorded>>
  BY DEF DrainFresh, child, ghosts
<1> HIDE DEF seq, ask
<1>6. /\ DOMAIN liveNodes' = DOMAIN liveNodes \union {ask.inst}
      /\ \A j \in DOMAIN liveNodes : j # ask.inst => liveNodes'[j] = liveNodes[j]
      /\ liveNodes'[ask.inst].hash = ask.hash
  BY <1>3, AdmittedNode
<1>4. \A j \in Instances, g \in Hashes : InHand(j, g)' => InHand(j, g)
  <2> SUFFICES ASSUME NEW j \in Instances, NEW g \in Hashes, InHand(j, g)'
               PROVE  InHand(j, g)
    OBVIOUS
  <2>1. CASE \E b \in Actors : \E n \in DOMAIN pendingRecorded[b] :
                 pendingRecorded[b][n].inst = j /\ pendingRecorded[b][n].hash = g
    BY <2>1 DEF InHand
  <2>2. CASE \E b \in Actors : \E n \in DOMAIN pendingLive'[b] :
                 pendingLive'[b][n].inst = j /\ pendingLive'[b][n].hash = g
    <3>1. PICK b \in Actors : \E n \in DOMAIN pendingLive'[b] :
              pendingLive'[b][n].inst = j /\ pendingLive'[b][n].hash = g
      BY <2>2
    <3>2. CASE b # a
      BY <1>3, <3>1, <3>2 DEF InHand, TypeOK
    <3>3. CASE b = a
      <4>1. pendingLive[a] \in Seq(Asks) /\ pendingLive[a] # <<>>
        BY <1>1, EmptyDomain DEF TypeOK
      <4>2. pendingLive'[a] = Tail(pendingLive[a])
        BY <1>3 DEF TypeOK
      <4>3. \A n \in DOMAIN Tail(pendingLive[a]) :
                n + 1 \in DOMAIN pendingLive[a] /\ Tail(pendingLive[a])[n] = pendingLive[a][n + 1]
        BY <4>1
      <4> QED
        BY <3>1, <3>3, <4>2, <4>3 DEF InHand
    <3> QED
      BY <3>2, <3>3
  <2>3. CASE j \in DOMAIN liveNodes' /\ liveNodes'[j].hash = g
    <3>1. \/ j = ask.inst /\ g = ask.hash
          \/ j \in DOMAIN liveNodes /\ liveNodes[j].hash = g
      BY <1>6, <2>3
    <3> QED
      BY <1>2, <3>1 DEF InHand
  <2> QED
    BY <1>3, <2>1, <2>2, <2>3 DEF InHand
<1> QED
  BY <1>1, <1>2, <1>3, <1>4, AdmitReplay

LEMMA ReleaseReplay ==
    ASSUME TypeOK, JournalAgrees, AskedOnce, QueuesSound, RInv, engine = "live",
           NEW a \in Actors, DrainRecorded(a),
           journal[pendingRecorded[a][nextAdmitSeq[a]].inst].status # "running"
    PROVE  RInv'
<1> DEFINE seq == nextAdmitSeq[a]
           ask == pendingRecorded[a][seq]
           i == ask.inst
           h == ask.hash
<1>1. /\ seq \in DOMAIN pendingRecorded[a] /\ ask \in Asks
      /\ i \in DOMAIN journal /\ journal[i].hash = h
      /\ journal[i].actor = a /\ journal[i].seq = seq
  BY DrainRecordedRows
<1>2. InHand(i, h)
  BY <1>1 DEF InHand
<1>3. /\ UNCHANGED <<journal, liveNodes, pendingLive>>
      /\ pendingRecorded' = [pendingRecorded EXCEPT ![a] = Without(@, seq)]
      /\ told' = told \union {<<h, OutcomeOf(journal[i])>>}
      /\ toChild' = Append(toChild, [fiber |-> h[1], outcome |-> OutcomeOf(journal[i])])
      /\ UNCHANGED <<hist, ordinals, toEngine, mismatch>>
  BY DEF DrainRecorded, RunsAgain, ReleaseCached, Answer
<1>4. journal[i].status # "running"
  OBVIOUS
<1> HIDE DEF seq, ask, i, h
<1>5. AnsweredFrom(i, h)
  BY <1>1, <1>3, <1>4 DEF AnsweredFrom
<1>6. ASSUME NEW j \in Instances, NEW g \in Hashes, InHand(j, g)'
      PROVE  InHand(j, g) /\ g # h
  <2>1. CASE \E b \in Actors : \E n \in DOMAIN pendingRecorded'[b] :
                 pendingRecorded'[b][n].inst = j /\ pendingRecorded'[b][n].hash = g
    <3>1. \A b \in Actors : \A n \in DOMAIN pendingRecorded'[b] :
              /\ n \in DOMAIN pendingRecorded[b] /\ pendingRecorded'[b][n] = pendingRecorded[b][n]
              /\ b = a => n # seq
      BY <1>3 DEF TypeOK, Without
    <3>2. PICK b \in Actors : \E n \in DOMAIN pendingRecorded'[b] :
              pendingRecorded'[b][n].inst = j /\ pendingRecorded'[b][n].hash = g
      BY <2>1
    <3>3. PICK n \in DOMAIN pendingRecorded[b] :
              /\ pendingRecorded[b][n].inst = j /\ pendingRecorded[b][n].hash = g
              /\ b = a => n # seq
      BY <3>1, <3>2
    <3>4. InHand(j, g)
      BY <3>3 DEF InHand
    <3>5. journal[j].actor = b /\ journal[j].seq = n
      BY <3>3, HeldPlace
    <3>6. j # i
      BY <1>1, <3>3, <3>5
    <3> QED
      BY <1>2, <3>4, <3>6, OneInHand DEF RInv
  <2>2. CASE \E b \in Actors : \E n \in DOMAIN pendingLive[b] :
                 pendingLive[b][n].inst = j /\ pendingLive[b][n].hash = g
    <3>1. InHand(j, g)
      BY <2>2 DEF InHand
    <3>2. j # i
      BY <1>1, <2>2, FreshPlace
    <3> QED
      BY <1>2, <3>1, <3>2, OneInHand DEF RInv
  <2>3. CASE j \in DOMAIN liveNodes /\ liveNodes[j].hash = g
    <3>1. InHand(j, g)
      BY <2>3 DEF InHand
    <3>2. journal[j].status = "running"
      BY <2>3, LivePlace
    <3>3. j # i
      BY <1>4, <3>2
    <3> QED
      BY <1>2, <3>1, <3>3, OneInHand DEF RInv
  <2> QED
    BY <1>3, <1>6, <2>1, <2>2, <2>3 DEF InHand
<1> QED
  BY <1>2, <1>5, <1>6, AnswerReplay

\* An ask that arrives gets the instance its branch and its place in it tell, and
\* finds no row there but its own.
LEMMA AskFindsOwnRow ==
    ASSUME SitesUnshared, TypeOK, RowsKeyed, PastsAgree,
           NEW h \in Hashes, Asked(h), h[2] = hist[h[1]],
           InstanceOf(h) \in DOMAIN journal
    PROVE  journal[InstanceOf(h)].hash = h
<1> DEFINE w == journal[InstanceOf(h)].hash
<1>1. w \in Hashes /\ Asked(w) /\ InstanceOf(w) = InstanceOf(h)
  BY ReplayTypes DEF RowsKeyed
<1>2. Agree(w[2], hist[w[1]])
  BY DEF PastsAgree
<1> HIDE DEF w
<1>3. w[1] = h[1] /\ Len(w[2]) = Len(h[2])
  BY <1>1, InstanceTells
<1>4. w[2] \in Seq(Outcomes) /\ h[2] \in Seq(Outcomes) /\ w = <<w[1], w[2]>> /\ h = <<h[1], h[2]>>
  BY <1>1 DEF Hashes
<1>5. Agree(w[2], h[2])
  BY <1>2, <1>3
<1>6. w[2] = h[2]
  <2> DEFINE u == w[2]
             v == h[2]
  <2>1. u \in Seq(Outcomes) /\ v \in Seq(Outcomes) /\ Len(u) = Len(v) /\ Agree(u, v)
    BY <1>3, <1>4, <1>5
  <2> HIDE DEF u, v
  <2>2. \A k \in 1 .. Len(u) : u[k] = v[k]
    BY <2>1 DEF Agree
  <2>3. u = v
    BY <2>1, <2>2
  <2> QED
    BY <2>3 DEF u, v
<1> QED
  BY <1>3, <1>4, <1>6 DEF w

LEMMA ReceiveAskReplay ==
    ASSUME SitesUnshared, TypeOK, JournalAgrees, RInv, ReceiveAsk
    PROVE  RInv'
<1>1. PICK ask \in Asks :
          AskTaken(ask) /\ (Refused(ask) \/ Recognised(ask) \/ HeldAsFresh(ask))
  BY ReceiveAskCases
<1> DEFINE i == ask.inst
           h == ask.hash
           f == h[1]
           L == Len(h[2])
<1>0. /\ RowsKeyed /\ InHandIsLatest /\ MessagesAreNext /\ AnswersAreToLatest
      /\ ToldFromRows /\ PastsTold /\ PastsAgree /\ ReplayFaithful /\ ReplayNeverMismatches
  BY DEF RInv
<1>2. h \in Hashes /\ f \in Fibers /\ h = <<f, h[2]>> /\ L \in Nat /\ Asked(h)
      /\ i \in Instances
  BY <1>1 DEF Asks, Hashes, AskTaken, Asked
<1>3. /\ toEngine \in Seq(Messages) /\ toEngine # <<>> /\ 1 \in DOMAIN toEngine
      /\ toEngine[1].kind = "ask" /\ toEngine[1].fiber = f /\ toEngine[1].seen = h[2]
  <2>1. toEngine \in Seq(Messages) /\ toEngine # <<>> /\ Head(toEngine) = toEngine[1]
    BY <1>1 DEF AskTaken, TypeOK
  <2>2. Head(toEngine).kind = "ask" /\ h = <<Head(toEngine).fiber, Head(toEngine).seen>>
    BY <1>1 DEF AskTaken
  <2> HIDE DEF h
  <2>3. f = Head(toEngine).fiber /\ h[2] = Head(toEngine).seen
    BY <2>2
  <2>4. 1 \in DOMAIN toEngine
    BY <2>1
  <2> QED
    BY <2>1, <2>2, <2>3, <2>4
<1>4. /\ h[2] = hist[f] /\ CountersAt(ordinals, f, L)
      /\ \A m \in DOMAIN toEngine :
             toEngine[m].kind = "ask" /\ toEngine[m].fiber = f => m = 1
  <2> HIDE DEF h, f
  <2>1. LET g == toEngine[1].fiber IN
        /\ toEngine[1].seen = hist[g]
        /\ CountersAt(ordinals, g, Len(hist[g]))
        /\ \A m \in DOMAIN toEngine : toEngine[m].kind = "ask" /\ toEngine[m].fiber = g => m = 1
    BY <1>0, <1>3 DEF MessagesAreNext
  <2> QED
    BY <1>3, <2>1
<1>5. i[1] = SiteOf(h) /\ i = <<SiteOf(h), ordinals[SiteOf(h)] + 1>>
      /\ ordinals' = [ordinals EXCEPT ![SiteOf(h)] = @ + 1]
  <2>1. i = <<SiteOf(h), ordinals[i[1]] + 1>> /\ ordinals' = [ordinals EXCEPT ![i[1]] = @ + 1]
    BY <1>1 DEF AskTaken, SiteOf
  <2> HIDE DEF i, h
  <2>2. i[1] = SiteOf(h)
    BY <2>1
  <2> QED
    BY <2>1, <2>2
<1> HIDE DEF i, h, f, L
<1>6. /\ i = InstanceOf(h) /\ CountersAt(ordinals', f, L + 1)
      /\ \A g \in Fibers, n \in Nat :
             g # f /\ CountersAt(ordinals, g, n) => CountersAt(ordinals', g, n)
  <2>1. CountersAt(ordinals, h[1], Len(h[2])) /\ ordinals \in [Sites -> Nat]
    BY <1>4, ReplayTypes DEF f, L
  <2> QED
    BY <1>2, <1>5, <2>1, CountersStep DEF f, L
<1>7. \A j \in Instances, g \in Hashes : InHand(j, g) => g[1] # f
  <2> SUFFICES ASSUME NEW j \in Instances, NEW g \in Hashes, InHand(j, g), g[1] = f
               PROVE  FALSE
    OBVIOUS
  <2>1. g[2] = hist[f] /\ CountersAt(ordinals, f, Len(g[2]) + 1)
    BY <1>0 DEF InHandIsLatest
  <2>2. CountersAt(ordinals, h[1], Len(h[2])) /\ CountersAt(ordinals, h[1], Len(h[2]) + 1)
    BY <1>4, <2>1 DEF f, L
  <2> QED
    BY <1>2, <2>2, CalledOrNot
<1>8. \A n \in DOMAIN toChild : toChild[n].fiber # f
  <2> SUFFICES ASSUME NEW n \in DOMAIN toChild, toChild[n].fiber = f
               PROVE  FALSE
    OBVIOUS
  <2>1. CountersAt(ordinals, f, Len(hist[f]) + 1)
    BY <1>0 DEF AnswersAreToLatest
  <2>2. CountersAt(ordinals, h[1], Len(h[2])) /\ CountersAt(ordinals, h[1], Len(h[2]) + 1)
    BY <1>4, <2>1 DEF f, L
  <2> QED
    BY <1>2, <2>2, CalledOrNot
<1>9. i \in DOMAIN journal => journal[i].hash = h
  BY <1>0, <1>2, <1>4, <1>6, AskFindsOwnRow DEF f
<1>10. Recognised(ask) \/ HeldAsFresh(ask)
  BY <1>1, <1>9 DEF Refused, i, h
<1>11. /\ UNCHANGED <<journal, told, hist, mismatch, liveNodes, toChild>>
       /\ toEngine' = Tail(toEngine)
  BY <1>10 DEF Recognised, HeldAsFresh, durable, ghosts
<1>12. \A j \in Instances, g \in Hashes : InHand(j, g)' => InHand(j, g) \/ (j = i /\ g = h)
  <2> SUFFICES ASSUME NEW j \in Instances, NEW g \in Hashes, InHand(j, g)', ~ InHand(j, g)
               PROVE  j = i /\ g = h
    OBVIOUS
  <2>1. CASE Recognised(ask)
    <3>1. /\ pendingLive' = pendingLive /\ liveNodes' = liveNodes
          /\ pendingRecorded' = [pendingRecorded EXCEPT
                 ![ask.actor] = Put(@, journal[ask.inst].seq, ask)]
      BY <2>1 DEF Recognised
    <3>2. PICK a \in Actors : \E n \in DOMAIN pendingRecorded'[a] :
              pendingRecorded'[a][n].inst = j /\ pendingRecorded'[a][n].hash = g
      BY <3>1 DEF InHand
    <3>3. \A n \in DOMAIN pendingRecorded'[a] :
              \/ n \in DOMAIN pendingRecorded[a] /\ pendingRecorded'[a][n] = pendingRecorded[a][n]
              \/ pendingRecorded'[a][n] = ask
      BY <3>1 DEF TypeOK, Put
    <3> QED
      BY <3>2, <3>3 DEF InHand, i, h
  <2>2. CASE HeldAsFresh(ask)
    <3>1. /\ pendingRecorded' = pendingRecorded /\ liveNodes' = liveNodes
          /\ pendingLive' = [pendingLive EXCEPT ![ask.actor] = Append(@, ask)]
      BY <2>2 DEF HeldAsFresh
    <3>2. PICK a \in Actors : \E n \in DOMAIN pendingLive'[a] :
              pendingLive'[a][n].inst = j /\ pendingLive'[a][n].hash = g
      BY <3>1 DEF InHand
    <3>3. pendingLive[a] \in Seq(Asks)
      BY DEF TypeOK
    <3>4. pendingLive'[a] = pendingLive[a] \/ pendingLive'[a] = Append(pendingLive[a], ask)
      BY <3>1 DEF TypeOK
    <3>5. \A n \in DOMAIN pendingLive'[a] :
              \/ n \in DOMAIN pendingLive[a] /\ pendingLive'[a][n] = pendingLive[a][n]
              \/ pendingLive'[a][n] = ask
      BY <3>3, <3>4
    <3> QED
      BY <3>2, <3>5 DEF InHand, i, h
  <2> QED
    BY <1>10, <2>1, <2>2
<1>13. RowsTold'
  BY <1>0, <1>11, RowsToldKept DEF RowsTold
<1>14. InHandIsLatest'
  <2> SUFFICES ASSUME NEW j \in Instances, NEW g \in Hashes, InHand(j, g)'
               PROVE  /\ Asked(g) /\ j = InstanceOf(g)
                      /\ g[2] = hist[g[1]]
                      /\ CountersAt(ordinals', g[1], Len(g[2]) + 1)
    BY <1>11 DEF InHandIsLatest
  <2>1. CASE InHand(j, g)
    <3>1. /\ Asked(g) /\ j = InstanceOf(g) /\ g[2] = hist[g[1]]
          /\ CountersAt(ordinals, g[1], Len(g[2]) + 1)
      BY <1>0, <2>1 DEF InHandIsLatest
    <3>2. g[1] \in Fibers /\ Len(g[2]) + 1 \in Nat /\ g[1] # f
      BY <1>7, <2>1 DEF Hashes
    <3> QED
      BY <1>6, <3>1, <3>2
  <2>2. CASE j = i /\ g = h
    BY <1>2, <1>4, <1>6, <2>2 DEF f, L
  <2> QED
    BY <1>12, <2>1, <2>2
<1>15. \A n \in DOMAIN Tail(toEngine) :
           n + 1 \in DOMAIN toEngine /\ Tail(toEngine)[n] = toEngine[n + 1] /\ n # 0
  BY <1>3
<1>16. \A g \in Fibers : Len(hist[g]) \in Nat /\ Len(hist[g]) + 1 \in Nat
  BY ReplayTypes
<1>17. MessagesAreNext'
  <2> DEFINE q == Tail(toEngine)
  <2> SUFFICES ASSUME NEW n \in DOMAIN q, q[n].kind = "ask"
               PROVE  LET g == q[n].fiber IN
                      /\ q[n].seen = hist[g]
                      /\ CountersAt(ordinals', g, Len(hist[g]))
                      /\ \A m \in DOMAIN q : q[m].kind = "ask" /\ q[m].fiber = g => m = n
    BY <1>11 DEF MessagesAreNext
  <2>1. n + 1 \in DOMAIN toEngine /\ q[n] = toEngine[n + 1] /\ n # 0 /\ n \in Int
    BY <1>3, <1>15
  <2>2. LET g == toEngine[n + 1].fiber IN
        /\ toEngine[n + 1].seen = hist[g]
        /\ CountersAt(ordinals, g, Len(hist[g]))
        /\ \A m \in DOMAIN toEngine :
               toEngine[m].kind = "ask" /\ toEngine[m].fiber = g => m = n + 1
    BY <1>0, <2>1 DEF MessagesAreNext
  <2>3. toEngine[n + 1].fiber # f
    BY <1>4, <2>1
  <2>4. toEngine[n + 1].fiber \in Fibers
    <3>1. toEngine[n + 1] \in Messages
      BY <1>3, <2>1
    <3> QED
      BY <3>1 DEF Messages
  <2>5. CountersAt(ordinals', toEngine[n + 1].fiber, Len(hist[toEngine[n + 1].fiber]))
    BY <1>6, <1>16, <2>2, <2>3, <2>4
  <2>6. \A m \in DOMAIN q : q[m].kind = "ask" /\ q[m].fiber = q[n].fiber => m = n
    <3> SUFFICES ASSUME NEW m \in DOMAIN q, q[m].kind = "ask", q[m].fiber = q[n].fiber
                 PROVE  m = n
      OBVIOUS
    <3>1. m + 1 \in DOMAIN toEngine /\ q[m] = toEngine[m + 1] /\ m \in Int
      BY <1>3, <1>15
    <3>2. m + 1 = n + 1
      BY <2>1, <2>2, <3>1
    <3> QED
      BY <2>1, <3>1, <3>2
  <2> QED
    BY <2>1, <2>2, <2>5, <2>6
<1>18. AnswersAreToLatest'
  <2> SUFFICES ASSUME NEW n \in DOMAIN toChild
               PROVE  LET g == toChild[n].fiber IN
                      /\ Asked(<<g, hist[g]>>)
                      /\ <<<<g, hist[g]>>, toChild[n].outcome>> \in told
                      /\ CountersAt(ordinals', g, Len(hist[g]) + 1)
                      /\ \A m \in DOMAIN toChild : toChild[m].fiber = g => m = n
                      /\ \A j \in Instances, k \in Hashes : InHand(j, k)' => k[1] # g
    BY <1>11 DEF AnswersAreToLatest
  <2>1. LET g == toChild[n].fiber IN
        /\ Asked(<<g, hist[g]>>)
        /\ <<<<g, hist[g]>>, toChild[n].outcome>> \in told
        /\ CountersAt(ordinals, g, Len(hist[g]) + 1)
        /\ \A m \in DOMAIN toChild : toChild[m].fiber = g => m = n
        /\ \A j \in Instances, k \in Hashes : InHand(j, k) => k[1] # g
    BY <1>0 DEF AnswersAreToLatest
  <2>2. toChild[n].fiber # f
    BY <1>8
  <2>3. toChild[n].fiber \in Fibers
    <3>1. toChild \in Seq(Answers)
      BY ReplayTypes
    <3>2. toChild[n] \in Answers
      BY <3>1
    <3> QED
      BY <3>2 DEF Answers
  <2>4. CountersAt(ordinals', toChild[n].fiber, Len(hist[toChild[n].fiber]) + 1)
    BY <1>6, <1>16, <2>1, <2>2, <2>3
  <2>5. \A j \in Instances, k \in Hashes : InHand(j, k)' => k[1] # toChild[n].fiber
    BY <1>12, <2>1, <2>2 DEF f
  <2> QED
    BY <2>1, <2>4, <2>5
<1>19. ReplayNeverMismatches'
  BY <1>0, <1>11 DEF ReplayNeverMismatches
<1> QED
  BY <1>13, <1>14, <1>17, <1>18, <1>19 DEF RInv, RowsTold

\* A branch that takes its answer has still seen only what it was told, and still
\* agrees with the pasts it had when its recorded asks were made.
LEMMA PastGrows ==
    ASSUME NEW answers, NEW f, NEW S, NEW seen \in Seq(S), NEW o \in S,
           PastTold(answers, f, seen), <<<<f, seen>>, o>> \in answers
    PROVE  PastTold(answers, f, Append(seen, o))
<1> DEFINE v == Append(seen, o)
<1>1. Len(v) = Len(seen) + 1 /\ Len(seen) \in Nat /\ v \in Seq(S)
  BY DEF v
<1> SUFFICES ASSUME NEW k \in 1 .. Len(v)
             PROVE  <<<<f, SubSeq(v, 1, k - 1)>>, v[k]>> \in answers
  BY DEF PastTold
<1>2. SubSeq(v, 1, k - 1) = SubSeq(seen, 1, k - 1)
  BY <1>1
<1>3. CASE k \in 1 .. Len(seen)
  <2>1. v[k] = seen[k]
    BY <1>3
  <2> QED
    BY <1>2, <1>3, <2>1 DEF PastTold
<1>4. CASE k = Len(seen) + 1
  <2>1. v[k] = o /\ SubSeq(seen, 1, k - 1) = seen
    BY <1>1, <1>4
  <2> QED
    BY <1>2, <2>1
<1>5. k \in 1 .. Len(seen) \/ k = Len(seen) + 1
  <2> HIDE DEF v
  <2> QED
    BY <1>1
<1> QED
  BY <1>3, <1>4, <1>5

LEMMA PastsStayAlike ==
    ASSUME NEW answers, NEW f, NEW S, NEW w \in Seq(S), NEW seen \in Seq(S), NEW o \in S,
           Agree(w, seen), PastTold(answers, f, w),
           \A x : <<<<f, seen>>, x>> \in answers => x = o
    PROVE  Agree(w, Append(seen, o))
<1> DEFINE v == Append(seen, o)
<1>1. Len(v) = Len(seen) + 1 /\ Len(seen) \in Nat /\ Len(w) \in Nat
  BY DEF v
<1> SUFFICES ASSUME NEW k \in 1 .. Len(w), k <= Len(v)
             PROVE  w[k] = v[k]
  BY DEF Agree
<1>2. CASE k <= Len(seen)
  <2>1. v[k] = seen[k]
    BY <1>2
  <2> QED
    BY <1>2, <2>1 DEF Agree
<1>3. CASE k = Len(seen) + 1
  <2>1. v[k] = o
    BY <1>3
  <2>2. \A n \in 1 .. Len(seen) : w[n] = seen[n]
    BY <1>1, <1>3 DEF Agree
  <2>3. SubSeq(w, 1, k - 1) = seen
    BY <1>1, <1>3, <2>2
  <2>4. <<<<f, seen>>, w[k]>> \in answers
    BY <2>3 DEF PastTold
  <2> QED
    BY <2>1, <2>4
<1> QED
  BY <1>1, <1>2, <1>3

\* What the script writes next: no ask, or the next of the same branch.
LEMMA ReactionCases ==
    ASSUME NEW f \in Fibers, NEW outcome, NEW seen
    PROVE  LET r == Reaction(f, outcome, seen) IN
           \/ r = <<>>
           \/ \E m : r = <<m>> /\ m.kind # "ask"
           \/ r = <<AskMessage(f, seen[f])>>
<1>1. EndMessage("throw").kind # "ask" /\ EndMessage("complete").kind # "ask"
  BY DEF EndMessage
<1> QED
  BY <1>1 DEF Reaction

LEMMA ScriptTakesAnswerReplay ==
    ASSUME TypeOK, JournalAgrees, RInv, ScriptTakesAnswer
    PROVE  RInv'
<1> DEFINE f == toChild[1].fiber
           o == toChild[1].outcome
           seen == [hist EXCEPT ![f] = Append(@, o)]
           h == <<f, hist[f]>>
<1>0. /\ RowsKeyed /\ InHandIsLatest /\ MessagesAreNext /\ AnswersAreToLatest
      /\ ToldFromRows /\ PastsTold /\ PastsAgree /\ ReplayFaithful /\ ReplayNeverMismatches
  BY DEF RInv
<1>1. /\ toChild \in Seq(Answers) /\ toChild # <<>>
      /\ toEngine \in Seq(Messages) /\ hist \in [Fibers -> Seq(Outcomes)]
  BY ReplayTypes DEF ScriptTakesAnswer
<1>2. 1 \in DOMAIN toChild /\ Head(toChild) = toChild[1] /\ toChild[1] \in Answers
  BY <1>1
<1>3. f \in Fibers /\ o \in Outcomes
  BY <1>2 DEF Answers
<1>4. /\ hist' = seen /\ toEngine' = toEngine \o Reaction(f, o, seen)
      /\ toChild' = Tail(toChild)
      /\ UNCHANGED <<journal, told, mismatch, ordinals, pendingRecorded, pendingLive, liveNodes>>
  BY <1>2 DEF ScriptTakesAnswer, durable, admission, ghosts
<1>5. /\ Asked(h) /\ <<h, o>> \in told
      /\ CountersAt(ordinals, f, Len(hist[f]) + 1)
      /\ \A m \in DOMAIN toChild : toChild[m].fiber = f => m = 1
      /\ \A i \in Instances, g \in Hashes : InHand(i, g) => g[1] # f
  BY <1>0, <1>2 DEF AnswersAreToLatest
<1>6. /\ hist'[f] = Append(hist[f], o)
      /\ \A g \in Fibers : g # f => hist'[g] = hist[g]
      /\ seen[f] = Append(hist[f], o)
  <2> HIDE DEF f, o
  <2>1. seen = [hist EXCEPT ![f] = Append(@, o)]
    OBVIOUS
  <2> HIDE DEF seen
  <2> QED
    BY <1>1, <1>3, <1>4, <2>1
<1>7. hist[f] \in Seq(Outcomes) /\ Len(hist[f]) \in Nat /\ h \in Hashes
  BY <1>1, <1>3 DEF Hashes
<1>8. Len(hist'[f]) = Len(hist[f]) + 1
  BY <1>6, <1>7
<1> HIDE DEF f, o, seen
<1>9. \A m \in DOMAIN toEngine : toEngine[m].kind = "ask" => toEngine[m].fiber # f
  <2> SUFFICES ASSUME NEW m \in DOMAIN toEngine, toEngine[m].kind = "ask",
                      toEngine[m].fiber = f
               PROVE  FALSE
    OBVIOUS
  <2>1. CountersAt(ordinals, f, Len(hist[f]))
    BY <1>0 DEF MessagesAreNext
  <2>2. CountersAt(ordinals, h[1], Len(h[2])) /\ CountersAt(ordinals, h[1], Len(h[2]) + 1)
    BY <1>5, <2>1
  <2> QED
    BY <1>5, <1>7, <2>2, CalledOrNot
<1> HIDE DEF h
<1>10. RowsKeyed' /\ ToldFromRows' /\ ReplayFaithful' /\ ReplayNeverMismatches'
  BY <1>0, <1>4 DEF RowsKeyed, ToldFromRows, ReplayFaithful, ReplayNeverMismatches
<1>11. PastsTold'
  <2>1. PastTold(told, f, hist[f]) /\ <<<<f, hist[f]>>, o>> \in told
    BY <1>0, <1>3, <1>5 DEF PastsTold, h
  <2>2. PastTold(told, f, hist'[f])
    BY <1>3, <1>6, <1>7, <2>1, PastGrows
  <2>3. \A g \in Fibers : PastTold(told, g, hist'[g])
    BY <1>0, <1>6, <2>2 DEF PastsTold
  <2>4. \A i \in DOMAIN journal : PastTold(told, journal[i].hash[1], journal[i].hash[2])
    BY <1>0 DEF PastsTold
  <2> QED
    BY <1>4, <2>3, <2>4 DEF PastsTold
<1>12. PastsAgree'
  <2>1. \A x : <<<<f, hist[f]>>, x>> \in told => x = o
    BY <1>0, <1>5 DEF ReplayFaithful, h
  <2>2. \A i \in DOMAIN journal :
            journal[i].hash[1] \in Fibers /\ journal[i].hash[2] \in Seq(Outcomes)
    BY ReplayTypes DEF Hashes
  <2>3. ASSUME NEW i \in DOMAIN journal
        PROVE  Agree(journal[i].hash[2], hist'[journal[i].hash[1]])
    <3>1. Agree(journal[i].hash[2], hist[journal[i].hash[1]])
      BY <1>0 DEF PastsAgree
    <3>2. CASE journal[i].hash[1] = f
      <4> DEFINE w == journal[i].hash[2]
      <4>1. w \in Seq(Outcomes) /\ Agree(w, hist[f]) /\ PastTold(told, f, w)
        BY <1>0, <2>2, <3>1, <3>2 DEF PastsTold
      <4> HIDE DEF w
      <4>2. Agree(w, Append(hist[f], o))
        BY <1>3, <1>7, <2>1, <4>1, PastsStayAlike
      <4> QED
        BY <1>6, <3>2, <4>2 DEF w
    <3>3. CASE journal[i].hash[1] # f
      BY <1>6, <2>2, <3>1, <3>3
    <3> QED
      BY <3>2, <3>3
  <2> QED
    BY <1>0, <1>4, <2>3 DEF PastsAgree
<1>13. InHandIsLatest'
  <2>1. \A i \in Instances, g \in Hashes : InHand(i, g)' => InHand(i, g)
    BY <1>4 DEF InHand
  <2>2. ASSUME NEW i \in Instances, NEW g \in Hashes, InHand(i, g)'
        PROVE  /\ Asked(g) /\ i = InstanceOf(g)
               /\ g[2] = hist'[g[1]]
               /\ CountersAt(ordinals, g[1], Len(g[2]) + 1)
    <3>1. InHand(i, g) /\ g[1] # f /\ g[1] \in Fibers
      BY <1>5, <2>1, <2>2 DEF Hashes
    <3> QED
      BY <1>0, <1>6, <3>1 DEF InHandIsLatest
  <2> QED
    BY <1>4, <2>2 DEF InHandIsLatest
<1>14. CountersAt(ordinals, f, Len(hist'[f]))
  BY <1>5, <1>8
<1>15. MessagesAreNext'
  <2> DEFINE r == Reaction(f, o, seen)
             q == toEngine \o r
             n == Len(toEngine)
  <2>1. \/ r = <<>>
        \/ \E m : r = <<m>> /\ m.kind # "ask"
        \/ r = <<AskMessage(f, seen[f])>>
    BY <1>3, ReactionCases
  <2>2. AskMessage(f, seen[f]).kind = "ask" /\ AskMessage(f, seen[f]).fiber = f
        /\ AskMessage(f, seen[f]).seen = hist'[f]
    BY <1>4 DEF AskMessage
  <2>3. toEngine' = q
    BY <1>4
  <2> HIDE DEF r
  <2>4. /\ n \in Nat /\ DOMAIN toEngine = 1 .. n
        /\ \A m \in DOMAIN toEngine : m \in DOMAIN q /\ q[m] = toEngine[m]
        /\ \A m \in DOMAIN q : \/ m \in DOMAIN toEngine
                               \/ m = n + 1 /\ \/ q[m].kind # "ask"
                                               \/ q[m] = AskMessage(f, seen[f])
    <3>1. CASE r = <<>>
      BY <1>1, <3>1
    <3>2. CASE \E m : r = <<m>> /\ (m.kind # "ask" \/ m = AskMessage(f, seen[f]))
      <4>1. PICK m : r = <<m>> /\ (m.kind # "ask" \/ m = AskMessage(f, seen[f]))
        BY <3>2
      <4>2. /\ Len(r) = 1 /\ DOMAIN q = 1 .. n + 1 /\ n \in Nat /\ DOMAIN toEngine = 1 .. n
            /\ q[n + 1] = m /\ \A k \in DOMAIN toEngine : q[k] = toEngine[k]
        BY <1>1, <4>1
      <4> QED
        BY <4>1, <4>2
    <3> QED
      BY <2>1, <3>1, <3>2
  <2> HIDE DEF q, n
  <2>5. \A m \in DOMAIN q : q[m].kind = "ask" =>
            \/ m \in DOMAIN toEngine /\ q[m] = toEngine[m] /\ q[m].fiber # f
            \/ m = n + 1 /\ q[m].fiber = f /\ q[m].seen = hist'[f]
    BY <1>9, <2>2, <2>4
  <2> SUFFICES ASSUME NEW k \in DOMAIN q, q[k].kind = "ask"
               PROVE  LET g == q[k].fiber IN
                      /\ q[k].seen = hist'[g]
                      /\ CountersAt(ordinals, g, Len(hist'[g]))
                      /\ \A m \in DOMAIN q : q[m].kind = "ask" /\ q[m].fiber = g => m = k
    BY <1>4, <2>3 DEF MessagesAreNext
  <2>6. CASE k \in DOMAIN toEngine /\ q[k] = toEngine[k] /\ q[k].fiber # f
    <3> DEFINE g == q[k].fiber
    <3>1. /\ toEngine[k].seen = hist[g]
          /\ CountersAt(ordinals, g, Len(hist[g]))
          /\ \A m \in DOMAIN toEngine : toEngine[m].kind = "ask" /\ toEngine[m].fiber = g => m = k
      BY <1>0, <2>6 DEF MessagesAreNext
    <3>2. g \in Fibers
      <4>1. toEngine[k] \in Messages
        BY <1>1, <2>6
      <4> QED
        BY <2>6, <4>1 DEF Messages
    <3>3. hist'[g] = hist[g]
      BY <1>6, <2>6, <3>2
    <3>4. \A m \in DOMAIN q : q[m].kind = "ask" /\ q[m].fiber = g => m = k
      BY <2>5, <2>6, <3>1
    <3> QED
      BY <2>6, <3>1, <3>3, <3>4
  <2>7. CASE k = n + 1 /\ q[k].fiber = f /\ q[k].seen = hist'[f]
    BY <1>14, <2>5, <2>7
  <2> QED
    BY <2>5, <2>6, <2>7
<1>16. AnswersAreToLatest'
  <2> DEFINE q == Tail(toChild)
  <2>1. \A k \in DOMAIN q : k + 1 \in DOMAIN toChild /\ q[k] = toChild[k + 1] /\ k \in Nat /\ k # 0
    BY <1>1
  <2>2. \A i \in Instances, g \in Hashes : InHand(i, g)' => InHand(i, g)
    BY <1>4 DEF InHand
  <2> SUFFICES ASSUME NEW n \in DOMAIN q
               PROVE  LET g == q[n].fiber IN
                      /\ Asked(<<g, hist'[g]>>)
                      /\ <<<<g, hist'[g]>>, q[n].outcome>> \in told
                      /\ CountersAt(ordinals, g, Len(hist'[g]) + 1)
                      /\ \A m \in DOMAIN q : q[m].fiber = g => m = n
                      /\ \A j \in Instances, k \in Hashes : InHand(j, k)' => k[1] # g
    BY <1>4 DEF AnswersAreToLatest
  <2> DEFINE g == toChild[n + 1].fiber
  <2>3. n + 1 \in DOMAIN toChild /\ q[n] = toChild[n + 1] /\ n \in Nat /\ n # 0
    BY <2>1
  <2> HIDE DEF q
  <2>4. /\ Asked(<<g, hist[g]>>)
        /\ <<<<g, hist[g]>>, toChild[n + 1].outcome>> \in told
        /\ CountersAt(ordinals, g, Len(hist[g]) + 1)
        /\ \A m \in DOMAIN toChild : toChild[m].fiber = g => m = n + 1
        /\ \A j \in Instances, k \in Hashes : InHand(j, k) => k[1] # g
    BY <1>0, <2>3 DEF AnswersAreToLatest
  <2>5. g # f
    <3>1. n + 1 # 1
      BY <2>3
    <3> QED
      BY <1>5, <2>3, <3>1
  <2>6. g \in Fibers
    <3>1. toChild[n + 1] \in Answers
      BY <1>1, <2>3
    <3> QED
      BY <3>1 DEF Answers
  <2>7. hist'[g] = hist[g]
    BY <1>6, <2>5, <2>6
  <2>8. \A m \in DOMAIN q : q[m].fiber = g => m = n
    <3> SUFFICES ASSUME NEW m \in DOMAIN q, q[m].fiber = g
                 PROVE  m = n
      OBVIOUS
    <3>1. m + 1 = n + 1 /\ m \in Nat
      BY <2>1, <2>4
    <3> QED
      BY <2>3, <3>1
  <2> QED
    BY <2>2, <2>3, <2>4, <2>7, <2>8
<1> QED
  BY <1>10, <1>11, <1>12, <1>13, <1>15, <1>16 DEF RInv

-----------------------------------------------------------------------------
\* The invariant of replay, and what it shows

LEMMA InitRInv == Init => RInv
<1> SUFFICES ASSUME Init PROVE RInv
  OBVIOUS
<1>1. /\ journal = <<>> /\ liveNodes = <<>> /\ toChild = <<>> /\ toEngine = FirstAsks
      /\ told = {} /\ mismatch = FALSE
      /\ ordinals = [s \in Sites |-> 0] /\ hist = [f \in Fibers |-> <<>>]
      /\ \A a \in Actors : pendingRecorded[a] = <<>> /\ pendingLive[a] = <<>>
  BY DEF Init
<1>2. RowsKeyed /\ ToldFromRows /\ ReplayFaithful /\ ReplayNeverMismatches
  BY <1>1, EmptyDomain DEF RowsKeyed, ToldFromRows, ReplayFaithful, ReplayNeverMismatches
<1>3. \A i, h : ~ InHand(i, h)
  BY <1>1, EmptyDomain DEF InHand
<1>4. InHandIsLatest /\ AnswersAreToLatest
  BY <1>1, <1>3, EmptyDomain DEF InHandIsLatest, AnswersAreToLatest
<1>5. MessagesAreNext
  <2> SUFFICES ASSUME NEW n \in DOMAIN FirstAsks
               PROVE  LET f == FirstAsks[n].fiber IN
                      /\ FirstAsks[n].seen = hist[f]
                      /\ CountersAt(ordinals, f, Len(hist[f]))
                      /\ \A m \in DOMAIN FirstAsks :
                             FirstAsks[m].kind = "ask" /\ FirstAsks[m].fiber = f => m = n
    BY <1>1 DEF MessagesAreNext
  <2>1. DOMAIN FirstAsks = Fibers /\ \A m \in Fibers :
            FirstAsks[m].fiber = m /\ FirstAsks[m].seen = <<>>
    BY DEF FirstAsks, AskMessage
  <2>2. hist[n] = <<>> /\ Len(hist[n]) = 0
    BY <1>1, <2>1
  <2>3. CountersAt(ordinals, n, 0)
    BY <1>1, NoCalls DEF CountersAt
  <2> QED
    BY <2>1, <2>2, <2>3
<1>6. PastsTold /\ PastsAgree
  <2>1. \A f \in Fibers : hist[f] = <<>>
    BY <1>1
  <2>2. \A f, answers : PastTold(answers, f, <<>>)
    BY DEF PastTold
  <2> QED
    BY <1>1, <2>1, <2>2, EmptyDomain DEF PastsTold, PastsAgree
<1> QED
  BY <1>2, <1>4, <1>5, <1>6 DEF RInv

LEMMA NextRInv ==
    ASSUME SitesUnshared
    PROVE  IInv /\ OInv /\ RInv /\ [Next]_vars => RInv'
<1> SUFFICES ASSUME IInv, OInv, RInv, [Next]_vars PROVE RInv'
  OBVIOUS
<1>1. TypeOK /\ JournalAgrees /\ AskedOnce /\ QueuesSound /\ LoopsLive
  BY DEF IInv, OInv
<1>2. CASE Unconcerned
  BY <1>2, UnconcernedReplay
<1>3. CASE (\E status : SettleRun(status)) /\ UNCHANGED <<ordinals, mismatch>>
  BY <1>3, SettleRunReplay
<1>4. CASE ReceiveAsk
  BY <1>1, <1>4, ReceiveAskReplay
<1>5. CASE ScriptTakesAnswer
  BY <1>1, <1>5, ScriptTakesAnswerReplay
<1>6. CASE \E a \in Actors : DrainRecorded(a)
  <2>1. PICK a \in Actors : DrainRecorded(a)
    BY <1>6
  <2>2. engine = "live"
    BY <1>1, <2>1 DEF LoopsLive, DrainRecorded, Idle
  <2>3. CASE journal[pendingRecorded[a][nextAdmitSeq[a]].inst].status = "running"
    BY <1>1, <2>1, <2>3, AdmitRecordedReplay
  <2>4. CASE journal[pendingRecorded[a][nextAdmitSeq[a]].inst].status # "running"
    BY <1>1, <2>1, <2>2, <2>4, ReleaseReplay
  <2> QED
    BY <2>3, <2>4
<1>7. CASE \E a \in Actors : DrainFresh(a)
  BY <1>1, <1>7, AdmitFreshReplay
<1>8. CASE \E i \in DOMAIN liveNodes : \E status \in {"completed", "failed"} :
               engine = "live" /\ \E result : Settle(i, status, result)
  BY <1>1, <1>8, SettleReplay
<1>9. CASE RebuildEngine /\ UNCHANGED <<journal, told, mismatch>>
  BY <1>1, <1>9, RebuildReplay
<1> QED
  BY <1>1, <1>2, <1>3, <1>4, <1>5, <1>6, <1>7, <1>8, <1>9, ReplayKinds

LEMMA AlwaysRInv ==
    ASSUME SitesUnshared
    PROVE  Spec => []RInv
<1>1. Init => RInv
  BY InitRInv
<1>2. IInv /\ OInv /\ RInv /\ [Next]_vars => RInv'
  BY NextRInv
<1> QED
  BY <1>1, <1>2, AlwaysIInv, AlwaysOInv, PTL DEF Spec

\* Where no two branches share an ask site, replay can be relied on: in every
\* life an ask finds its own row and no other's, the numbers of an actor's rows
\* have no gap, and the same question is always answered alike.
THEOREM ReplayAlwaysSound ==
    ASSUME SitesUnshared
    PROVE  Spec => []ReplaySound
<1>1. OInv /\ RInv => ReplaySound
  BY DEF OInv, RowsNumbered, SeqsDense, RInv, ReplaySound
<1> QED
  BY <1>1, AlwaysOInv, AlwaysRInv, PTL

LEMMA NothingRedoneStep ==
    ASSUME TypeOK, JournalAgrees, RInv, [Next]_vars
    PROVE  \A i \in turns' \ turns : \A t \in told : t[1] # journal[i].hash
<1> SUFFICES ASSUME NEW i \in turns' \ turns, NEW t \in told, t[1] = journal[i].hash
             PROVE  FALSE
  OBVIOUS
<1>1. i \in DOMAIN liveNodes
  BY TurnStarts DEF StillWanted
<1>2. i \in DOMAIN journal /\ journal[i].status = "running"
  BY <1>1 DEF JournalAgrees, LiveNodesRecorded
<1>3. PICK j \in DOMAIN journal : journal[j].hash = t[1] /\ journal[j].status # "running"
  BY DEF RInv, ToldFromRows
<1>4. i = j
  BY <1>2, <1>3 DEF RInv, RowsKeyed
<1> QED
  BY <1>2, <1>3, <1>4

\* Where no two branches share an ask site, the driver is given an actor's asks
\* in their order, and none again whose answer the script was told, however many
\* crashes and resumes lie between.
THEOREM TurnsAskedInOrderOnce ==
    ASSUME SitesUnshared
    PROVE  Spec => AskedInOrderOnce
<1>1. IInv /\ RInv /\ [Next]_vars =>
          \A i \in turns' \ turns : \A t \in told : t[1] # journal[i].hash
  BY NothingRedoneStep DEF IInv
<1>2. Spec => NothingRedone
  BY <1>1, AlwaysIInv, AlwaysRInv, PTL DEF Spec, NothingRedone
<1> QED
  BY <1>2, TurnsStartInOrder DEF AskedInOrderOnce

-----------------------------------------------------------------------------
\* The ledger

\* The ledger a journal is read as.
EnteredOf(rows) ==
    [i \in DOMAIN rows |-> [actor |-> rows[i].actor, seq |-> rows[i].seq,
                            hash |-> rows[i].hash]]
SettledOf(rows) ==
    [i \in {j \in DOMAIN rows : rows[j].status # "running"} |-> OutcomeOf(rows[i])]

LEMMA LedgerOf ==
    /\ Ledger!vars = <<EnteredOf(journal), SettledOf(journal), told>>
    /\ Ledger!Init <=> /\ EnteredOf(journal) = <<>> /\ SettledOf(journal) = <<>>
                       /\ told = {}
    /\ \A k : Ledger!Enter(k) <=>
           /\ Ledger!Extends(EnteredOf(journal'), EnteredOf(journal), k)
           /\ \A j \in DOMAIN EnteredOf(journal) :
                  EnteredOf(journal)[j].hash # EnteredOf(journal')[k].hash
           /\ SettledOf(journal') = SettledOf(journal) /\ told' = told
    /\ \A k : Ledger!Settle(k) <=>
           /\ k \in DOMAIN EnteredOf(journal)
           /\ Ledger!Extends(SettledOf(journal'), SettledOf(journal), k)
           /\ SettledOf(journal')[k] \in Outcomes
           /\ told' = told \union {<<EnteredOf(journal)[k].hash, SettledOf(journal')[k]>>}
           /\ EnteredOf(journal') = EnteredOf(journal)
    /\ \A k : Ledger!Repeat(k) <=>
           /\ k \in DOMAIN SettledOf(journal)
           /\ told' = told \union {<<EnteredOf(journal)[k].hash, SettledOf(journal)[k]>>}
           /\ EnteredOf(journal') = EnteredOf(journal)
           /\ SettledOf(journal') = SettledOf(journal)
BY DEF EnteredOf, SettledOf, Ledger!vars, Ledger!Init, Ledger!Enter, Ledger!Settle,
       Ledger!Repeat

\* Rows that keep what identifies them are the same entries, and those that stay
\* settled the same answers.
LEMMA SameLedger ==
    ASSUME NEW old, NEW new, DOMAIN new = DOMAIN old,
           \A i \in DOMAIN old : /\ new[i].actor = old[i].actor /\ new[i].seq = old[i].seq
                                 /\ new[i].hash = old[i].hash
    PROVE  EnteredOf(new) = EnteredOf(old)
BY DEF EnteredOf

LEMMA SameAnswers ==
    ASSUME NEW old, NEW new, DOMAIN new = DOMAIN old,
           \A i \in DOMAIN old : /\ new[i].status # "running" <=> old[i].status # "running"
                                 /\ OutcomeOf(new[i]) = OutcomeOf(old[i])
    PROVE  SettledOf(new) = SettledOf(old)
BY DEF SettledOf

LEMMA LedgerRepeats ==
    ASSUME TypeOK, NEW i \in DOMAIN journal, journal[i].status # "running",
           journal' = journal,
           told' = told \union {<<journal[i].hash, OutcomeOf(journal[i])>>}
    PROVE  Ledger!Next
<1>1. i \in DOMAIN SettledOf(journal)
  BY DEF SettledOf
<1>2. EnteredOf(journal)[i].hash = journal[i].hash /\ SettledOf(journal)[i] = OutcomeOf(journal[i])
  BY DEF EnteredOf, SettledOf
<1>3. Ledger!Repeat(i)
  BY <1>1, <1>2, LedgerOf
<1> QED
  BY <1>1, <1>3 DEF Ledger!Next, SettledOf

LEMMA LedgerSettles ==
    ASSUME TypeOK, NEW i \in DOMAIN journal, journal[i].status = "running",
           DOMAIN journal' = DOMAIN journal,
           \A j \in DOMAIN journal : j # i => journal'[j] = journal[j],
           /\ journal'[i].actor = journal[i].actor /\ journal'[i].seq = journal[i].seq
           /\ journal'[i].hash = journal[i].hash,
           journal'[i].status # "running", OutcomeOf(journal'[i]) \in Outcomes,
           told' = told \union {<<journal[i].hash, OutcomeOf(journal'[i])>>}
    PROVE  Ledger!Next
<1> DEFINE new == SettledOf(journal')
           old == SettledOf(journal)
<1>1. EnteredOf(journal') = EnteredOf(journal)
  BY SameLedger
<1>2. i \in DOMAIN EnteredOf(journal) /\ EnteredOf(journal)[i].hash = journal[i].hash
  BY DEF EnteredOf
<1>3. /\ DOMAIN old = {j \in DOMAIN journal : journal[j].status # "running"}
      /\ DOMAIN new = {j \in DOMAIN journal' : journal'[j].status # "running"}
      /\ \A j \in DOMAIN old : old[j] = OutcomeOf(journal[j])
      /\ \A j \in DOMAIN new : new[j] = OutcomeOf(journal'[j])
      /\ new = [j \in DOMAIN new |-> new[j]]
  BY DEF SettledOf
<1> HIDE DEF new, old
<1>4. /\ DOMAIN new = DOMAIN old \union {i} /\ i \notin DOMAIN old /\ i \in DOMAIN new
      /\ \A j \in DOMAIN old : new[j] = old[j]
  BY <1>3
<1>5. new = [x \in DOMAIN old \union {i} |-> IF x = i THEN new[i] ELSE old[x]]
  BY <1>3, <1>4
<1>6. Ledger!Extends(new, old, i)
  BY <1>4, <1>5 DEF Ledger!Extends
<1>7. new[i] = OutcomeOf(journal'[i])
  BY <1>3, <1>4
<1>8. Ledger!Settle(i)
  BY <1>1, <1>2, <1>6, <1>7, LedgerOf DEF new, old
<1>9. i \in DOMAIN SettledOf(journal')
  BY <1>4 DEF new
<1> QED
  BY <1>8, <1>9 DEF Ledger!Next, SettledOf

LEMMA LedgerEnters ==
    ASSUME TypeOK, NEW i, i \notin DOMAIN journal,
           DOMAIN journal' = DOMAIN journal \union {i},
           \A j \in DOMAIN journal : journal'[j] = journal[j],
           journal'[i].status = "running",
           \A j \in DOMAIN journal : journal[j].hash # journal'[i].hash,
           told' = told
    PROVE  Ledger!Next
<1> DEFINE new == EnteredOf(journal')
           old == EnteredOf(journal)
           Entry(row) == [actor |-> row.actor, seq |-> row.seq, hash |-> row.hash]
<1>1. /\ DOMAIN old = DOMAIN journal /\ DOMAIN new = DOMAIN journal'
      /\ \A j \in DOMAIN old : old[j] = Entry(journal[j])
      /\ \A j \in DOMAIN new : new[j] = Entry(journal'[j])
      /\ new = [j \in DOMAIN new |-> new[j]]
  BY DEF EnteredOf
<1>2. \A row : Entry(row).hash = row.hash
  OBVIOUS
<1> HIDE DEF new, old, Entry
<1>3. /\ DOMAIN new = DOMAIN old \union {i} /\ i \notin DOMAIN old /\ i \in DOMAIN new
      /\ \A j \in DOMAIN old : new[j] = old[j]
  BY <1>1
<1>4. new = [x \in DOMAIN old \union {i} |-> IF x = i THEN new[i] ELSE old[x]]
  BY <1>1, <1>3
<1>5. Ledger!Extends(new, old, i)
  BY <1>3, <1>4 DEF Ledger!Extends
<1>6. \A j \in DOMAIN old : old[j].hash # new[i].hash
  BY <1>1, <1>2, <1>3
<1>7. SettledOf(journal') = SettledOf(journal)
  <2>1. {j \in DOMAIN journal' : journal'[j].status # "running"}
            = {j \in DOMAIN journal : journal[j].status # "running"}
    OBVIOUS
  <2> QED
    BY <2>1 DEF SettledOf
<1>8. Ledger!Enter(i)
  BY <1>5, <1>6, <1>7, LedgerOf DEF new, old
<1>9. i \in DOMAIN EnteredOf(journal')
  BY <1>3 DEF new
<1> QED
  BY <1>8, <1>9 DEF Ledger!Next, EnteredOf

LEMMA LedgerStep ==
    ASSUME SitesUnshared, IInv, OInv, RInv, [Next]_vars
    PROVE  Ledger!Next \/ UNCHANGED Ledger!vars
<1>1. TypeOK /\ JournalAgrees /\ LoopsLive /\ RowsKeyed /\ InHandIsLatest
  BY DEF IInv, OInv, RInv
<1>2. UNCHANGED <<journal, told>> => UNCHANGED Ledger!vars
  BY DEF Ledger!vars
<1>3. CASE Unconcerned
  BY <1>2, <1>3 DEF Unconcerned
<1>4. CASE \E status : SettleRun(status)
  BY <1>2, <1>4 DEF SettleRun
<1>5. CASE ReceiveAsk
  <2>1. PICK ask \in Asks :
            AskTaken(ask) /\ (Refused(ask) \/ Recognised(ask) \/ HeldAsFresh(ask))
    BY <1>1, <1>5, ReceiveAskCases
  <2> QED
    BY <1>2, <2>1 DEF Refused, Recognised, HeldAsFresh, SettleRun, durable, ghosts
<1>6. CASE ScriptTakesAnswer
  BY <1>2, <1>6 DEF ScriptTakesAnswer, durable, ghosts
<1>7. CASE RebuildEngine /\ UNCHANGED <<journal, told, mismatch>>
  BY <1>2, <1>7
<1>8. CASE \E a \in Actors : DrainRecorded(a)
  <2>1. PICK a \in Actors : DrainRecorded(a)
    BY <1>8
  <2> DEFINE ask == pendingRecorded[a][nextAdmitSeq[a]]
             i == ask.inst
  <2>2. /\ i \in DOMAIN journal /\ ask.actor = a
        /\ journal[i].actor = a /\ journal[i].seq = nextAdmitSeq[a]
        /\ journal[i].hash = ask.hash
    BY <1>1, <2>1, DrainRecordedRows
  <2>3. CASE journal[i].status # "running"
    <3>1. journal' = journal /\ told' = told \union {<<journal[i].hash, OutcomeOf(journal[i])>>}
      BY <2>1, <2>2, <2>3 DEF DrainRecorded, RunsAgain, ReleaseCached, Answer
    <3> QED
      BY <1>1, <2>2, <2>3, <3>1, LedgerRepeats
  <2>4. CASE journal[i].status = "running"
    <3>1. told' = told /\ journal' = Put(journal, i, Row(ask, nextAdmitSeq[a], "running", NoResult))
      BY <2>1, <2>4 DEF DrainRecorded, RunsAgain, AdmitLive
    <3> HIDE DEF i, ask
    <3>2. /\ DOMAIN journal' = DOMAIN journal
          /\ \A j \in DOMAIN journal : j # i => journal'[j] = journal[j]
          /\ journal'[i] = Row(ask, nextAdmitSeq[a], "running", NoResult)
      BY <2>2, <3>1 DEF Put
    <3>3. /\ journal'[i].actor = journal[i].actor /\ journal'[i].seq = journal[i].seq
          /\ journal'[i].hash = journal[i].hash /\ journal'[i].status = "running"
      BY <2>2, <3>2 DEF Row
    <3>4. OutcomeOf(journal'[i]) = OutcomeOf(journal[i])
      BY <2>4, <3>3 DEF OutcomeOf
    <3>5. EnteredOf(journal') = EnteredOf(journal)
      BY <3>2, <3>3, SameLedger
    <3>6. SettledOf(journal') = SettledOf(journal)
      BY <2>4, <3>2, <3>3, <3>4, SameAnswers
    <3> QED
      BY <3>1, <3>5, <3>6 DEF Ledger!vars, EnteredOf, SettledOf
  <2> QED
    BY <2>3, <2>4
<1>9. CASE \E a \in Actors : DrainFresh(a)
  <2>1. PICK a \in Actors : DrainFresh(a)
    BY <1>9
  <2> DEFINE ask == Head(pendingLive[a])
             i == ask.inst
  <2>2. /\ ask \in Asks /\ ask = pendingLive[a][1] /\ 1 \in DOMAIN pendingLive[a]
        /\ i \notin DOMAIN journal
        /\ DOMAIN journal' = DOMAIN journal \union {i}
        /\ \A j \in DOMAIN journal : journal'[j] = journal[j]
        /\ journal'[i] = Row(ask, nextAdmitSeq[a], "running", NoResult)
    BY <1>1, <2>1, DrainFreshRows
  <2>3. told' = told
    BY <2>1 DEF DrainFresh, ghosts
  <2> HIDE DEF ask
  <2>4. i \in Instances /\ ask.hash \in Hashes /\ InHand(i, ask.hash)
    BY <2>2 DEF Asks, InHand
  <2>5. i = InstanceOf(ask.hash)
    BY <1>1, <2>4 DEF InHandIsLatest
  <2> HIDE DEF i
  <2>6. journal'[i].hash = ask.hash /\ journal'[i].status = "running"
    BY <2>2 DEF Row
  <2>7. \A j \in DOMAIN journal : journal[j].hash # journal'[i].hash
    BY <1>1, <2>2, <2>5, <2>6 DEF RowsKeyed
  <2> QED
    BY <1>1, <2>2, <2>3, <2>6, <2>7, LedgerEnters
<1>10. CASE \E i \in DOMAIN liveNodes : \E status \in {"completed", "failed"} :
                engine = "live" /\ \E result : Settle(i, status, result)
  <2>0. PICK i \in DOMAIN liveNodes, status \in {"completed", "failed"} :
            \E result : Settle(i, status, result)
    BY <1>10
  <2>1. PICK result : Settle(i, status, result)
    BY <2>0
  <2>2. /\ i \in DOMAIN journal /\ journal[i].status = "running"
        /\ journal[i].actor = liveNodes[i].actor /\ journal[i].seq = liveNodes[i].seq
        /\ journal[i].hash = liveNodes[i].hash
    BY <1>1 DEF JournalAgrees, LiveNodesRecorded
  <2>3. /\ DOMAIN journal' = DOMAIN journal
        /\ \A j \in DOMAIN journal : j # i => journal'[j] = journal[j]
        /\ journal'[i] = Row(liveNodes[i], liveNodes[i].seq, status, result)
    BY <2>1, <2>2 DEF Settle, RecordSettled, Put
  <2>4. /\ journal'[i].actor = journal[i].actor /\ journal'[i].seq = journal[i].seq
        /\ journal'[i].hash = journal[i].hash /\ journal'[i].status = status
    BY <2>2, <2>3 DEF Row
  <2>5. told' = told \union {<<journal[i].hash, OutcomeOf(journal'[i])>>}
    BY <2>1, <2>2, <2>3 DEF Settle, Answer
  <2>6. OutcomeOf(journal'[i]) \in Outcomes
    <3>1. TypeOK'
      BY NextIInv DEF IInv
    <3>2. journal'[i] \in Rows
      BY <2>2, <2>3, <3>1 DEF TypeOK, IsMap
    <3> QED
      BY <3>2, OutcomeType
  <2> QED
    BY <1>1, <2>2, <2>3, <2>4, <2>5, <2>6, LedgerSettles
<1> QED
  BY <1>1, <1>3, <1>4, <1>5, <1>6, <1>7, <1>8, <1>9, <1>10, ReplayKinds

\* Where no two branches share an ask site, a run with its engines, crashes and
\* resumes is a ledger that is never crashed: an ask is entered once, in one
\* place, settled once, and answered from its entry only.
THEOREM RunImplementsLedger ==
    ASSUME SitesUnshared
    PROVE  Spec => ImplementsLedger
<1>1. Init => Ledger!Init
  <2> SUFFICES ASSUME Init PROVE Ledger!Init
    OBVIOUS
  <2>1. journal = <<>> /\ told = {}
    BY DEF Init
  <2>2. EnteredOf(journal) = <<>> /\ SettledOf(journal) = <<>>
    BY <2>1, EmptyDomain DEF EnteredOf, SettledOf
  <2> QED
    BY <2>1, <2>2, LedgerOf
<1>2. IInv /\ OInv /\ RInv /\ [Next]_vars => [Ledger!Next]_(Ledger!vars)
  BY LedgerStep
<1> QED
  BY <1>1, <1>2, AlwaysIInv, AlwaysOInv, AlwaysRInv, PTL DEF Spec, ImplementsLedger, Ledger!Spec

-----------------------------------------------------------------------------
\* What a ledger promises, and the run with it

\* What was told stands in the ledger, and no two entries are the same question.
ToldFrom(entries, outcomes, answers) ==
    /\ DOMAIN outcomes \subseteq DOMAIN entries
    /\ \A j, k \in DOMAIN entries : entries[j].hash = entries[k].hash => j = k
    /\ \A t \in answers : \E k \in DOMAIN outcomes :
           t = <<entries[k].hash, outcomes[k]>>

LEMMA EnterTold ==
    ASSUME NEW old, NEW outcomes, NEW answers, ToldFrom(old, outcomes, answers),
           NEW new, NEW k, Ledger!Extends(new, old, k),
           \A j \in DOMAIN old : old[j].hash # new[k].hash
    PROVE  ToldFrom(new, outcomes, answers)
<1>1. /\ DOMAIN new = DOMAIN old \union {k} /\ k \notin DOMAIN old
      /\ \A j \in DOMAIN old : new[j] = old[j]
  BY DEF Ledger!Extends
<1>2. \A i, j \in DOMAIN new : new[i].hash = new[j].hash => i = j
  BY <1>1 DEF ToldFrom
<1>3. \A t \in answers : \E j \in DOMAIN outcomes : t = <<new[j].hash, outcomes[j]>>
  BY <1>1 DEF ToldFrom
<1> QED
  BY <1>1, <1>2, <1>3 DEF ToldFrom

LEMMA SettleTold ==
    ASSUME NEW entries, NEW old, NEW answers, ToldFrom(entries, old, answers),
           NEW new, NEW k \in DOMAIN entries, Ledger!Extends(new, old, k)
    PROVE  ToldFrom(entries, new, answers \union {<<entries[k].hash, new[k]>>})
<1>1. /\ DOMAIN new = DOMAIN old \union {k}
      /\ \A j \in DOMAIN old : new[j] = old[j]
  BY DEF Ledger!Extends
<1> QED
  BY <1>1 DEF ToldFrom

LEMMA LedgerNextTold ==
    ASSUME ToldFrom(EnteredOf(journal), SettledOf(journal), told),
           Ledger!Next \/ UNCHANGED Ledger!vars
    PROVE  ToldFrom(EnteredOf(journal'), SettledOf(journal'), told')
<1>1. CASE \E k : Ledger!Enter(k)
  BY <1>1, LedgerOf, EnterTold
<1>2. CASE \E k : Ledger!Settle(k)
  <2>1. PICK k : Ledger!Settle(k)
    BY <1>2
  <2> QED
    BY <2>1, LedgerOf, SettleTold
<1>3. CASE \E k : Ledger!Repeat(k)
  BY <1>3, LedgerOf DEF ToldFrom
<1>4. CASE UNCHANGED Ledger!vars
  <2>1. Ledger!vars' = <<EnteredOf(journal'), SettledOf(journal'), told'>>
    BY LedgerOf DEF Ledger!vars, EnteredOf, SettledOf
  <2>2. Ledger!vars = <<EnteredOf(journal), SettledOf(journal), told>>
    BY LedgerOf
  <2>3. <<EnteredOf(journal'), SettledOf(journal'), told'>>
            = <<EnteredOf(journal), SettledOf(journal), told>>
    BY <1>4, <2>1, <2>2
  <2>4. /\ EnteredOf(journal') = EnteredOf(journal)
        /\ SettledOf(journal') = SettledOf(journal) /\ told' = told
    BY <2>3
  <2> QED
    BY <2>4
<1> QED
  BY <1>1, <1>2, <1>3, <1>4 DEF Ledger!Next

\* A ledger tells one story: whatever is entered, settled and repeated, a question
\* of the script has one answer.
THEOREM LedgerTellsOneStory == Ledger!Spec => []Ledger!OneStory
<1> DEFINE Told == ToldFrom(EnteredOf(journal), SettledOf(journal), told)
<1>1. Ledger!Init => Told
  BY LedgerOf, EmptyDomain DEF ToldFrom
<1>2. Told /\ [Ledger!Next]_(Ledger!vars) => Told'
  <2> SUFFICES ASSUME Told, [Ledger!Next]_(Ledger!vars) PROVE Told'
    OBVIOUS
  <2>1. ToldFrom(EnteredOf(journal'), SettledOf(journal'), told')
    BY LedgerNextTold
  <2> QED
    BY <2>1 DEF ToldFrom, EnteredOf, SettledOf
<1>3. Told => Ledger!OneStory
  BY DEF ToldFrom, Ledger!OneStory
<1> HIDE DEF Told
<1> QED
  BY <1>1, <1>2, <1>3, PTL DEF Ledger!Spec

\* Where no two branches share an ask site, the script is therefore told one story:
\* it gets to the same question the same answer, in the first execution and in
\* every replay, across crashes and resumes.
THEOREM OneStoryTold ==
    ASSUME SitesUnshared
    PROVE  Spec => []Ledger!OneStory
BY RunImplementsLedger, LedgerTellsOneStory, PTL DEF ImplementsLedger
=============================================================================
