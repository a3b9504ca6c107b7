-------------------------- MODULE RunAndPoolProofs --------------------------
(***************************************************************************)
(* Two components that share nothing.  The run service: what it knows of a *)
(* run stands, and a row says "running" only if an engine stands behind    *)
(* it, for any runs, callers, limits and ends of a service.  The pool of   *)
(* an agent swarm: every item is taken once and settled once, as its       *)
(* deadline says, for any number of items, workers, unthrottled launches   *)
(* and retries.                                                            *)
(***************************************************************************)
EXTENDS RunService, SwarmPool, FiniteSetTheorems, SequenceTheorems, TLAPS

-----------------------------------------------------------------------------
(* The run service                                                         *)

Engine == [run : Runs, home : 1..MaxServices,
           state : {"running", "ended", "tracked", "dead"}]

\* The calls that have minted a run and not launched it.
Pending(c) == calls[c].at \in {"predecessor", "importing"}

\* A call that waits belongs to a run and a service.
CallsHeld ==
    \A c \in Callers : calls[c].at # "idle" =>
        calls[c].run \in Runs /\ calls[c].home \in 1..MaxServices

\* A minted run belongs to its call alone: no row, no engine, no other call.
MintedRunsFresh ==
    \A c \in Callers : Pending(c) =>
        /\ status[calls[c].run] = "none"
        /\ \A e \in EngineIds : engines[e].run # calls[c].run
        /\ \A d \in Callers : calls[d].run = calls[c].run => d = c

IInv == TypeOK /\ NoZombieRows /\ CallsHeld /\ MintedRunsFresh

-----------------------------------------------------------------------------
(* Engines *)

LEMMA EnginesTyped ==
    ASSUME TypeOK
    PROVE  /\ engines \in Seq(Engine)
           /\ Len(engines) \in Nat /\ EngineIds = 1..Len(engines)
           /\ \A e \in EngineIds : engines[e] \in Engine
<1>1. engines \in Seq(Engine)
    BY DEF TypeOK, Engine
<1>2. Len(engines) \in Nat /\ EngineIds = 1..Len(engines)
    BY <1>1, LenProperties DEF EngineIds
<1>3. \A e \in EngineIds : engines[e] \in Engine
    BY <1>1, <1>2, ElementOfSeq
<1> QED
    BY <1>1, <1>2, <1>3

\* A launch adds an engine and changes the row of its run alone, to "running"
\* and only if the engine runs.
LEMMA LaunchAdds ==
    ASSUME TypeOK, NEW r \in Runs, NEW pred \in Runs \cup {NoRun},
           NEW home \in 1..MaxServices, Launch(r, pred, home)
    PROVE  /\ engines' \in Seq(Engine)
           /\ EngineIds' = EngineIds \cup {Len(engines) + 1}
           /\ Len(engines) + 1 \notin EngineIds /\ Len(engines) + 1 # 0
           /\ \A e \in EngineIds : engines'[e] = engines[e]
           /\ engines'[Len(engines) + 1].run = r
           /\ status' = status \/ /\ status' = [status EXCEPT ![r] = "running"]
                                  /\ engines'[Len(engines) + 1].state = "running"
           /\ registry' = registry \/ registry' = [registry EXCEPT ![r] = Len(engines) + 1]
           /\ successor' = successor \/ successor' = [successor EXCEPT ![r] = NoRun]
           /\ successor' # successor => status' = [status EXCEPT ![r] = "running"]
           /\ resumedFrom' \in [Runs -> Runs \cup {NoRun}]
<1>1. PICK starts \in BOOLEAN :
        /\ engines' = Append(engines,
               [run |-> r, home |-> home,
                state |-> IF starts THEN "running" ELSE "ended"])
        /\ registry' = IF home = service
                       THEN [registry EXCEPT ![r] = Len(engines) + 1]
                       ELSE registry
        /\ status' = IF starts THEN [status EXCEPT ![r] = "running"] ELSE status
        /\ successor' = IF starts THEN [successor EXCEPT ![r] = NoRun] ELSE successor
        /\ resumedFrom' = IF starts /\ pred # NoRun
                          THEN [resumedFrom EXCEPT ![r] = pred] ELSE resumedFrom
    BY DEF Launch
<1> DEFINE new == [run |-> r, home |-> home,
                   state |-> IF starts THEN "running" ELSE "ended"]
<1>2. new \in Engine
    BY DEF Engine
<1>3. engines \in Seq(Engine) /\ Len(engines) \in Nat /\ EngineIds = 1..Len(engines)
    BY EnginesTyped
<1>4. /\ engines' \in Seq(Engine)
      /\ Len(engines') = Len(engines) + 1
      /\ engines'[Len(engines) + 1] = new
      /\ \A e \in 1..Len(engines) : engines'[e] = engines[e]
    BY <1>1, <1>2, <1>3
<1>5. EngineIds' = EngineIds \cup {Len(engines) + 1}
    BY <1>3, <1>4 DEF EngineIds
<1>6. resumedFrom' \in [Runs -> Runs \cup {NoRun}]
    BY <1>1 DEF TypeOK
<1> QED
    BY <1>1, <1>3, <1>4, <1>5, <1>6

\* A settlement ends the engine and writes the row of its run, or changes
\* nothing.
LEMMA SettleEnds ==
    ASSUME TypeOK, NEW e \in EngineIds, NEW outcome \in Terminal,
           NEW by \in Runs \cup {NoRun}, Settle(e, outcome, by)
    PROVE  /\ engines' \in Seq(Engine) /\ EngineIds' = EngineIds
           /\ \A d \in EngineIds : /\ engines'[d].run = engines[d].run
                                   /\ d # e => engines'[d] = engines[d]
           /\ status' \in [Runs -> Terminal \cup {"none", "running"}]
           /\ successor' \in [Runs -> Runs \cup {NoRun}]
           /\ \/ UNCHANGED <<engines, status, successor>>
              \/ /\ engines[e].state = "running"
                 /\ status' = [status EXCEPT ![engines[e].run] = outcome]
                 /\ successor' = [successor EXCEPT ![engines[e].run] = by]
<1>1. engines \in Seq(Engine) /\ EngineIds = 1..Len(engines) /\ engines[e] \in Engine
    BY EnginesTyped
<1>2. CASE engines[e].state = "running"
    <2>1. /\ engines' = [engines EXCEPT ![e].state = "ended"]
          /\ status' = [status EXCEPT ![engines[e].run] = outcome]
          /\ successor' = [successor EXCEPT ![engines[e].run] = by]
        BY <1>2 DEF Settle
    <2>2. [engines[e] EXCEPT !.state = "ended"] \in Engine
        BY <1>1 DEF Engine
    <2>3. /\ engines' \in Seq(Engine) /\ DOMAIN engines' = DOMAIN engines
          /\ engines'[e] = [engines[e] EXCEPT !.state = "ended"]
          /\ \A d \in EngineIds \ {e} : engines'[d] = engines[d]
        BY <1>1, <2>1, <2>2 DEF EngineIds
    <2>4. engines'[e].run = engines[e].run
        BY <1>1, <2>3 DEF Engine
    <2>5. /\ status' \in [Runs -> Terminal \cup {"none", "running"}]
          /\ successor' \in [Runs -> Runs \cup {NoRun}]
        BY <1>1, <2>1 DEF TypeOK, Engine
    <2> QED
        BY <1>2, <2>1, <2>3, <2>4, <2>5 DEF EngineIds
<1>3. CASE engines[e].state # "running"
    BY <1>1, <1>3 DEF Settle, TypeOK, EngineIds
<1> QED
    BY <1>2, <1>3

-----------------------------------------------------------------------------
(* What launching and settling keep *)

\* A launch, after which the call that waited for it is over.
LEMMA LaunchKeepsIInv ==
    ASSUME IInv, NEW r \in Runs, NEW pred \in Runs \cup {NoRun},
           NEW home \in 1..MaxServices, Launch(r, pred, home),
           calls' = calls \/ \E c \in Callers : calls' = [calls EXCEPT ![c] = Idle],
           \A c \in Callers : Pending(c) /\ calls[c].run = r => calls'[c] = Idle,
           UNCHANGED <<terminalOrder, phase, service, waiting>>
    PROVE  IInv'
<1> DEFINE new == Len(engines) + 1
<1>1. /\ engines' \in Seq(Engine)
      /\ EngineIds' = EngineIds \cup {new} /\ new \notin EngineIds /\ new # 0
      /\ \A e \in EngineIds : engines'[e] = engines[e]
      /\ engines'[new].run = r
      /\ status' = status \/ /\ status' = [status EXCEPT ![r] = "running"]
                             /\ engines'[new].state = "running"
      /\ registry' = registry \/ registry' = [registry EXCEPT ![r] = new]
      /\ successor' = successor \/ successor' = [successor EXCEPT ![r] = NoRun]
      /\ resumedFrom' \in [Runs -> Runs \cup {NoRun}]
    BY LaunchAdds DEF IInv
<1>2. \A c \in Callers : calls'[c] = calls[c] \/ calls'[c] = Idle
    BY DEF IInv, TypeOK
<1>3. TypeOK'
    <2>1. /\ status' \in [Runs -> Terminal \cup {"none", "running"}]
          /\ successor' \in [Runs -> Runs \cup {NoRun}]
          /\ registry' \in [Runs -> {0} \cup EngineIds']
          /\ waiting' \subseteq EngineIds'
        <3>1. TypeOK
            BY DEF IInv
        <3>2. status' \in [Runs -> Terminal \cup {"none", "running"}]
            BY <1>1, <3>1 DEF TypeOK
        <3>3. successor' \in [Runs -> Runs \cup {NoRun}]
            BY <1>1, <3>1 DEF TypeOK
        <3>4. registry' \in [Runs -> {0} \cup EngineIds']
            <4>1. registry \in [Runs -> {0} \cup EngineIds']
                BY <1>1, <3>1 DEF TypeOK
            <4>2. new \in EngineIds'
                BY <1>1
            <4> HIDE DEF new
            <4> QED
                BY <1>1, <4>1, <4>2
        <3>5. waiting' \subseteq EngineIds'
            BY <1>1, <3>1 DEF TypeOK
        <3> QED
            BY <3>2, <3>3, <3>4, <3>5
    <2>2. calls' \in [Callers ->
              [at : {"idle", "predecessor", "importing", "rebuilding"},
               run : Runs \cup {NoRun}, pred : Runs \cup {NoRun},
               engine : {0} \cup EngineIds', home : 0..MaxServices]]
        <3>1. calls \in [Callers ->
                 [at : {"idle", "predecessor", "importing", "rebuilding"},
                  run : Runs \cup {NoRun}, pred : Runs \cup {NoRun},
                  engine : {0} \cup EngineIds', home : 0..MaxServices]]
            BY <1>1 DEF IInv, TypeOK
        <3>2. Idle \in [at : {"idle", "predecessor", "importing", "rebuilding"},
                        run : Runs \cup {NoRun}, pred : Runs \cup {NoRun},
                        engine : {0} \cup EngineIds', home : 0..MaxServices]
            BY RunServiceAssumption DEF Idle
        <3> QED
            BY <3>1, <3>2
    <2> QED
        BY <1>1, <2>1, <2>2 DEF IInv, TypeOK, Engine
<1>4. NoZombieRows'
    <2>1. NoZombieRows /\ phase' = phase /\ status \in [Runs -> Terminal \cup {"none", "running"}]
        BY DEF IInv, TypeOK
    <2>2. SUFFICES ASSUME phase # "closed", NEW q \in Runs, status'[q] = "running"
                   PROVE  \E e \in EngineIds' :
                              engines'[e].run = q /\ engines'[e].state = "running"
        BY <2>1 DEF NoZombieRows
    <2> HIDE DEF new
    <2>3. CASE status[q] = "running"
        BY <1>1, <2>1, <2>2, <2>3 DEF NoZombieRows
    <2>4. CASE status[q] # "running"
        <3>1. q = r /\ engines'[new].state = "running"
            BY <1>1, <2>1, <2>2, <2>4
        <3> QED
            BY <1>1, <3>1
    <2> QED
        BY <2>3, <2>4
<1>5. CallsHeld'
    BY <1>2 DEF IInv, CallsHeld, Idle
<1>6. MintedRunsFresh'
    <2>1. SUFFICES ASSUME NEW c \in Callers, Pending(c)'
                   PROVE  /\ status'[calls'[c].run] = "none"
                          /\ \A e \in EngineIds' : engines'[e].run # calls'[c].run
                          /\ \A d \in Callers : calls'[d].run = calls'[c].run => d = c
        BY DEF MintedRunsFresh
    <2>2. calls'[c] = calls[c] /\ Pending(c)
        BY <1>2, <2>1 DEF Pending, Idle
    <2>3. calls[c].run # r /\ calls[c].run \in Runs
        BY <2>1, <2>2 DEF IInv, CallsHeld, Pending, Idle
    <2>4. status'[calls'[c].run] = "none"
        BY <1>1, <2>2, <2>3 DEF IInv, MintedRunsFresh, TypeOK
    <2>5. \A e \in EngineIds' : engines'[e].run # calls'[c].run
        BY <1>1, <2>2, <2>3 DEF IInv, MintedRunsFresh
    <2>6. \A d \in Callers : calls'[d].run = calls'[c].run => d = c
        BY <1>2, <2>2, <2>3, RunServiceAssumption DEF IInv, MintedRunsFresh, Idle
    <2> QED
        BY <2>4, <2>5, <2>6
<1> QED
    BY <1>3, <1>4, <1>5, <1>6 DEF IInv

\* What a waiting call holds.
CallRecord ==
    [at : {"idle", "predecessor", "importing", "rebuilding"},
     run : Runs \cup {NoRun}, pred : Runs \cup {NoRun},
     engine : {0} \cup EngineIds, home : 0..MaxServices]

LEMMA IdleCall == Idle \in CallRecord
BY RunServiceAssumption DEF Idle, CallRecord

\* The engines remain and only their states change, with the rows that follow.
EnginesKept ==
    /\ engines' \in Seq(Engine) /\ EngineIds' = EngineIds
    /\ \A e \in EngineIds : engines'[e].run = engines[e].run
    /\ status' \in [Runs -> Terminal \cup {"none", "running"}]
    /\ successor' \in [Runs -> Runs \cup {NoRun}]
    /\ resumedFrom' = resumedFrom
    /\ \A r \in Runs : status[r] = "none" /\ (\A e \in EngineIds : engines[e].run # r)
                          => status'[r] = "none"
    /\ phase' # "closed" => \A r \in Runs : status'[r] = "running" =>
          \E e \in EngineIds : engines[e].run = r /\ engines'[e].state = "running"

\* The registry and the service keep their types.
ServiceTyped ==
    /\ registry' \in [Runs -> {0} \cup EngineIds]
    /\ terminalOrder' \in Seq(Runs) /\ Len(terminalOrder') <= TerminalLimit
    /\ phase' \in {"open", "closing", "closed"} /\ service' \in 1..MaxServices
    /\ waiting' \subseteq EngineIds

LEMMA KeptKeepsIInv ==
    ASSUME IInv, EnginesKept, ServiceTyped,
           calls' = calls \/ calls' = [c \in Callers |-> Idle]
    PROVE  IInv'
<1>1. \A c \in Callers : calls'[c] = calls[c] \/ calls'[c] = Idle
    OBVIOUS
<1>2. TypeOK'
    <2>1. calls' \in [Callers -> CallRecord]
        BY IdleCall DEF IInv, TypeOK, CallRecord
    <2> QED
        BY <2>1 DEF IInv, TypeOK, Engine, EnginesKept, ServiceTyped, CallRecord
<1>3. NoZombieRows'
    BY DEF NoZombieRows, EnginesKept
<1>4. CallsHeld'
    BY <1>1 DEF IInv, CallsHeld, Idle
<1>5. MintedRunsFresh'
    <2>1. SUFFICES ASSUME NEW c \in Callers, Pending(c)'
                   PROVE  /\ status'[calls'[c].run] = "none"
                          /\ \A e \in EngineIds' : engines'[e].run # calls'[c].run
                          /\ \A d \in Callers : calls'[d].run = calls'[c].run => d = c
        BY DEF MintedRunsFresh
    <2>2. calls'[c] = calls[c] /\ Pending(c) /\ calls' = calls
        BY <1>1, <2>1 DEF Pending, Idle
    <2>3. calls[c].run \in Runs
        BY <2>2 DEF IInv, CallsHeld, Pending
    <2> QED
        BY <2>2, <2>3 DEF IInv, MintedRunsFresh, EnginesKept
<1> QED
    BY <1>2, <1>3, <1>4, <1>5 DEF IInv

\* A call begins to wait, goes on waiting for its run, or returns.
LEMMA CallKeepsIInv ==
    ASSUME IInv, EnginesKept, ServiceTyped,
           NEW c \in Callers, NEW rec \in CallRecord,
           calls' = [calls EXCEPT ![c] = rec],
           rec # Idle => rec.run \in Runs /\ rec.home \in 1..MaxServices,
           rec # Idle => \/ Minted(rec.run) /\ calls[c] = Idle
                         \/ Pending(c) /\ rec.run = calls[c].run
                         \/ rec.at = "rebuilding" /\ status[rec.run] # "none"
    PROVE  IInv'
<1>1. \A d \in Callers : calls'[d] = IF d = c THEN rec ELSE calls[d]
    BY DEF IInv, TypeOK
<1>2. TypeOK'
    <2>1. calls' \in [Callers -> CallRecord]
        BY DEF IInv, TypeOK, CallRecord
    <2> QED
        BY <2>1 DEF IInv, TypeOK, Engine, EnginesKept, ServiceTyped, CallRecord
<1>3. NoZombieRows'
    BY DEF NoZombieRows, EnginesKept
<1>4. CallsHeld'
    BY <1>1 DEF IInv, CallsHeld, Idle
<1>5. MintedRunsFresh'
    <2>1. SUFFICES ASSUME NEW d \in Callers, Pending(d)'
                   PROVE  /\ status'[calls'[d].run] = "none"
                          /\ \A e \in EngineIds' : engines'[e].run # calls'[d].run
                          /\ \A b \in Callers : calls'[b].run = calls'[d].run => b = d
        BY DEF MintedRunsFresh
    <2>2. /\ status[calls'[d].run] = "none" /\ calls'[d].run \in Runs
          /\ \A e \in EngineIds : engines[e].run # calls'[d].run
        <3>1. CASE d = c
            <4>1. rec # Idle /\ rec.at # "rebuilding"
                BY <1>1, <2>1, <3>1 DEF Pending, Idle
            <4> QED
                BY <1>1, <3>1, <4>1 DEF Minted, IInv, MintedRunsFresh
        <3>2. CASE d # c
            BY <1>1, <2>1, <3>2 DEF Pending, IInv, MintedRunsFresh, CallsHeld
        <3> QED
            BY <3>1, <3>2
    <2>3. ASSUME NEW b \in Callers, calls'[b].run = calls'[d].run
          PROVE  b = d
        <3>1. CASE d = c /\ b # c
            <4>1. rec # Idle /\ rec.at # "rebuilding" /\ calls[b].run = rec.run
                BY <1>1, <2>1, <2>3, <3>1 DEF Pending, Idle
            <4> QED
                BY <3>1, <4>1 DEF Minted, IInv, MintedRunsFresh
        <3>2. CASE d # c /\ b = c
            <4>1. Pending(d) /\ rec.run = calls[d].run /\ rec # Idle
                BY <1>1, <2>1, <2>2, <2>3, <3>2, RunServiceAssumption
                   DEF Pending, Idle
            <4>2. status[rec.run] = "none" /\ calls[c].run # calls[d].run
                BY <3>2, <4>1 DEF IInv, MintedRunsFresh
            <4> QED
                BY <4>1, <4>2 DEF Minted
        <3>3. CASE d # c /\ b # c
            BY <1>1, <2>1, <2>3, <3>3 DEF Pending, IInv, MintedRunsFresh
        <3> QED
            BY <3>1, <3>2, <3>3
    <2> QED
        BY <2>2, <2>3 DEF EnginesKept
<1> QED
    BY <1>2, <1>3, <1>4, <1>5 DEF IInv

\* A settlement by anyone.
LEMMA SettleKeepsEngines ==
    ASSUME IInv, NEW e \in EngineIds, NEW outcome \in Terminal,
           NEW by \in Runs \cup {NoRun}, Settle(e, outcome, by),
           UNCHANGED <<resumedFrom, phase>>
    PROVE  EnginesKept
<1>1. /\ engines' \in Seq(Engine) /\ EngineIds' = EngineIds
      /\ \A d \in EngineIds : /\ engines'[d].run = engines[d].run
                              /\ d # e => engines'[d] = engines[d]
      /\ status' \in [Runs -> Terminal \cup {"none", "running"}]
      /\ successor' \in [Runs -> Runs \cup {NoRun}]
      /\ \/ UNCHANGED <<engines, status, successor>>
         \/ /\ engines[e].state = "running"
            /\ status' = [status EXCEPT ![engines[e].run] = outcome]
            /\ successor' = [successor EXCEPT ![engines[e].run] = by]
    BY SettleEnds DEF IInv
<1>2. outcome # "running" /\ engines[e].run \in Runs
    BY EnginesTyped DEF Terminal, Engine, IInv
<1>3. \A r \in Runs : status[r] = "none" /\ (\A d \in EngineIds : engines[d].run # r)
                         => status'[r] = "none"
    BY <1>1, <1>2 DEF IInv, TypeOK
<1>4. ASSUME phase' # "closed", NEW r \in Runs, status'[r] = "running"
      PROVE  \E d \in EngineIds : engines[d].run = r /\ engines'[d].state = "running"
    <2>1. status[r] = "running"
        BY <1>1, <1>2, <1>4 DEF IInv, TypeOK
    <2>2. PICK d \in EngineIds : engines[d].run = r /\ engines[d].state = "running"
        BY <1>4, <2>1 DEF IInv, NoZombieRows
    <2>3. CASE UNCHANGED <<engines, status, successor>>
        BY <2>2, <2>3
    <2>4. CASE status' = [status EXCEPT ![engines[e].run] = outcome]
        <3>1. d # e
            BY <1>2, <1>4, <2>2, <2>4 DEF IInv, TypeOK
        <3> QED
            BY <1>1, <2>2, <3>1
    <2> QED
        BY <1>1, <2>3, <2>4
<1> QED
    BY <1>1, <1>3, <1>4 DEF EnginesKept

-----------------------------------------------------------------------------
(* The actions *)

LEMMA LaunchingActions ==
    ASSUME IInv,
           \/ \E r \in Runs : Submit(r) \/ Resume(r)
           \/ \E c \in Callers : StartAmended(c) \/ ResumeRebuilt(c)
    PROVE  IInv'
<1>1. service \in 1..MaxServices /\ NoRun \in Runs \cup {NoRun}
    BY DEF IInv, TypeOK
<1>2. ASSUME NEW r \in Runs, Submit(r)
      PROVE  IInv'
    <2>1. \A c \in Callers : calls[c].run # r
        BY <1>2 DEF Submit, Minted
    <2> QED
        BY <1>1, <1>2, <2>1, LaunchKeepsIInv DEF Submit
<1>3. ASSUME NEW r \in Runs, Resume(r)
      PROVE  IInv'
    <2>1. \A c \in Callers : Pending(c) => calls[c].run # r
        BY <1>3 DEF Resume, Resumable, IInv, MintedRunsFresh
    <2> QED
        BY <1>1, <1>3, <2>1, LaunchKeepsIInv DEF Resume
<1>4. ASSUME NEW c \in Callers, StartAmended(c) \/ ResumeRebuilt(c)
      PROVE  IInv'
    <2>1. /\ calls[c].at \in {"importing", "rebuilding"}
          /\ \/ Launch(calls[c].run, calls[c].pred, calls[c].home)
             \/ Launch(calls[c].run, NoRun, calls[c].home)
          /\ calls' = [calls EXCEPT ![c] = Idle]
          /\ UNCHANGED <<terminalOrder, phase, service, waiting>>
        BY <1>4 DEF StartAmended, ResumeRebuilt
    <2>2. /\ calls[c].run \in Runs /\ calls[c].home \in 1..MaxServices
          /\ calls[c].pred \in Runs \cup {NoRun}
        BY <2>1 DEF IInv, CallsHeld, TypeOK
    <2>3. \A d \in Callers : Pending(d) /\ calls[d].run = calls[c].run => calls'[d] = Idle
        BY <2>1 DEF IInv, MintedRunsFresh, TypeOK
    <2> QED
        BY <1>1, <2>1, <2>2, <2>3, LaunchKeepsIInv
<1> QED
    BY <1>2, <1>3, <1>4

\* The engines and rows stay as they are.
LEMMA RowsUntouched ==
    ASSUME IInv, UNCHANGED <<rows, engines, registry, terminalOrder, phase, service, waiting>>
    PROVE  EnginesKept /\ ServiceTyped
<1>1. engines \in Seq(Engine)
    BY EnginesTyped DEF IInv
<1> QED
    BY <1>1 DEF EnginesKept, ServiceTyped, rows, IInv, TypeOK, NoZombieRows, EngineIds

LEMMA WaitingActions ==
    ASSUME IInv,
           \/ \E c \in Callers, p, r \in Runs : AmendLive(c, p, r) \/ AmendSettled(c, p, r)
           \/ \E c \in Callers, r \in Runs : ResumeAmended(c, r)
           \/ \E c \in Callers : AmendPredecessorSettled(c) \/ ImportRefused(c)
    PROVE  IInv'
<1>1. service \in 1..MaxServices
    BY DEF IInv, TypeOK
<1>2. ASSUME NEW c \in Callers, NEW p \in Runs, NEW r \in Runs, AmendLive(c, p, r)
      PROVE  IInv'
    <2> DEFINE rec == [at |-> "predecessor", run |-> r, pred |-> p,
                       engine |-> registry[p], home |-> service]
    <2>1. registry[p] \in EngineIds /\ rec \in CallRecord
        BY <1>1, <1>2 DEF AmendLive, Live, IInv, TypeOK, CallRecord
    <2>2. EnginesKept
        BY <1>2, <2>1, SettleKeepsEngines DEF AmendLive, Terminal
    <2>3. ServiceTyped
        BY <1>2 DEF AmendLive, ServiceTyped, IInv, TypeOK
    <2> QED
        BY <1>1, <1>2, <2>1, <2>2, <2>3, CallKeepsIInv DEF AmendLive
<1>3. ASSUME NEW c \in Callers, NEW p \in Runs, NEW r \in Runs, AmendSettled(c, p, r)
      PROVE  IInv'
    <2> DEFINE rec == [at |-> "importing", run |-> r, pred |-> p,
                       engine |-> 0, home |-> service]
    <2>1. rec \in CallRecord
        BY <1>1 DEF CallRecord
    <2> QED
        BY <1>1, <1>3, <2>1, RowsUntouched, CallKeepsIInv DEF AmendSettled
<1>4. ASSUME NEW c \in Callers, NEW r \in Runs, ResumeAmended(c, r)
      PROVE  IInv'
    <2> DEFINE rec == [at |-> "rebuilding", run |-> r, pred |-> resumedFrom[r],
                       engine |-> 0, home |-> service]
    <2>1. rec \in CallRecord
        BY <1>1 DEF CallRecord, IInv, TypeOK
    <2>2. status[r] # "none"
        BY <1>4 DEF ResumeAmended, Resumable
    <2> QED
        BY <1>1, <1>4, <2>1, <2>2, RowsUntouched, CallKeepsIInv DEF ResumeAmended
<1>5. ASSUME NEW c \in Callers, AmendPredecessorSettled(c)
      PROVE  IInv'
    <2> DEFINE rec == IF status[calls[c].pred] \in Terminal
                      THEN [calls[c] EXCEPT !.at = "importing", !.engine = 0]
                      ELSE Idle
    <2>1. calls[c] \in CallRecord /\ Pending(c)
        BY <1>5 DEF AmendPredecessorSettled, Pending, IInv, TypeOK, CallRecord
    <2>2. /\ rec \in CallRecord
          /\ rec # Idle => rec.run = calls[c].run /\ rec.home = calls[c].home
        BY <2>1, IdleCall DEF CallRecord
    <2>3. calls' = [calls EXCEPT ![c] = rec]
        BY <1>5 DEF AmendPredecessorSettled
    <2>4. calls[c].run \in Runs /\ calls[c].home \in 1..MaxServices
        BY <2>1 DEF Pending, IInv, CallsHeld
    <2>5. EnginesKept /\ ServiceTyped
        BY <1>5, RowsUntouched DEF AmendPredecessorSettled
    <2> HIDE DEF rec
    <2> QED
        BY <2>1, <2>2, <2>3, <2>4, <2>5, CallKeepsIInv
<1>6. ASSUME NEW c \in Callers, ImportRefused(c)
      PROVE  IInv'
    BY <1>6, IdleCall, RowsUntouched, CallKeepsIInv DEF ImportRefused
<1> QED
    BY <1>2, <1>3, <1>4, <1>5, <1>6

\* Engines end, and their ends are booked.
LEMMA EngineActions ==
    ASSUME IInv,
           \/ \E r \in Runs : Cancel(r)
           \/ \E e \in EngineIds : EngineEnds(e) \/ Tracked(e)
    PROVE  IInv'
<1>1. ASSUME NEW r \in Runs, Cancel(r)
      PROVE  IInv'
    <2>1. registry[r] \in EngineIds /\ "stopped" \in Terminal
        BY <1>1 DEF Cancel, Live, IInv, TypeOK, Terminal
    <2>2. EnginesKept
        BY <1>1, <2>1, SettleKeepsEngines DEF Cancel
    <2>3. ServiceTyped
        BY <1>1 DEF Cancel, ServiceTyped, IInv, TypeOK
    <2> QED
        BY <1>1, <2>2, <2>3, KeptKeepsIInv DEF Cancel
<1>2. ASSUME NEW e \in EngineIds, EngineEnds(e)
      PROVE  IInv'
    <2>1. PICK o \in {"completed", "errored", "stopped"} : Settle(e, o, NoRun)
        BY <1>2 DEF EngineEnds
    <2>2. o \in Terminal
        BY DEF Terminal
    <2>3. EnginesKept
        BY <1>2, <2>1, <2>2, SettleKeepsEngines DEF EngineEnds
    <2>4. ServiceTyped
        BY <1>2 DEF EngineEnds, ServiceTyped, IInv, TypeOK
    <2> QED
        BY <1>2, <2>3, <2>4, KeptKeepsIInv DEF EngineEnds
<1>3. ASSUME NEW e \in EngineIds, Tracked(e)
      PROVE  IInv'
    <2>1. /\ engines \in Seq(Engine) /\ EngineIds = 1..Len(engines)
          /\ engines[e] \in Engine
        BY EnginesTyped DEF IInv
    <2>2. /\ engines[e].state = "ended"
          /\ engines' = [engines EXCEPT ![e].state = "tracked"]
          /\ UNCHANGED <<rows, phase, service, waiting, calls>>
        BY <1>3 DEF Tracked
    <2>3. [engines[e] EXCEPT !.state = "tracked"] \in Engine
        BY <2>1 DEF Engine
    <2>4. /\ engines' \in Seq(Engine) /\ EngineIds' = EngineIds
          /\ engines'[e] = [engines[e] EXCEPT !.state = "tracked"]
          /\ \A d \in EngineIds \ {e} : engines'[d] = engines[d]
        BY <2>1, <2>2, <2>3 DEF EngineIds
    <2>5. \A d \in EngineIds : engines'[d].run = engines[d].run
        BY <2>1, <2>4 DEF Engine
    <2>6. EnginesKept
        BY <2>2, <2>4, <2>5 DEF EnginesKept, rows, IInv, TypeOK, NoZombieRows
    <2>7. ServiceTyped
        <3> DEFINE order == Append(terminalOrder, engines[e].run)
        <3>1. /\ order \in Seq(Runs) /\ Len(order) = Len(terminalOrder) + 1
              /\ Len(terminalOrder) \in Nat /\ Head(order) \in Runs
              /\ Tail(order) \in Seq(Runs) /\ Len(Tail(order)) = Len(terminalOrder)
            <4>1. terminalOrder \in Seq(Runs) /\ engines[e].run \in Runs
                BY <2>1 DEF Engine, IInv, TypeOK
            <4>2. /\ order \in Seq(Runs) /\ order # <<>>
                  /\ Len(order) = Len(terminalOrder) + 1
                BY <4>1, AppendProperties
            <4>3. Len(terminalOrder) \in Nat
                BY <4>1, LenProperties
            <4> HIDE DEF order
            <4>4. /\ Head(order) \in Runs /\ Tail(order) \in Seq(Runs)
                  /\ Len(Tail(order)) = Len(order) - 1
                BY <4>2, HeadTailProperties
            <4> QED
                BY <4>2, <4>3, <4>4
        <3>2. \/ terminalOrder' = terminalOrder
              \/ terminalOrder' = order /\ Len(order) <= TerminalLimit
              \/ terminalOrder' = Tail(order)
            BY <1>3 DEF Tracked
        <3>3. registry' = registry \/ registry' = [registry EXCEPT ![Head(order)] = 0]
            BY <1>3 DEF Tracked
        <3> QED
            BY <2>2, <3>1, <3>2, <3>3 DEF ServiceTyped, IInv, TypeOK
    <2> QED
        BY <2>2, <2>6, <2>7, KeptKeepsIInv
<1> QED
    BY <1>1, <1>2, <1>3

\* The service closes, dies and comes back.
LEMMA ServiceActions ==
    ASSUME IInv, Close \/ Closed \/ Crash \/ Reopen
    PROVE  IInv'
<1>1. /\ engines \in Seq(Engine) /\ Len(engines) \in Nat
      /\ EngineIds = 1..Len(engines)
      /\ \A e \in EngineIds : engines[e] \in Engine
    BY EnginesTyped DEF IInv
<1>2. ASSUME NEW S \in SUBSET EngineIds, NEW to \in {"ended", "dead"},
             engines' = [e \in EngineIds |-> IF e \in S THEN [engines[e] EXCEPT !.state = to]
                                             ELSE engines[e]]
      PROVE  /\ engines' \in Seq(Engine) /\ EngineIds' = EngineIds
             /\ \A e \in EngineIds : /\ engines'[e].run = engines[e].run
                                     /\ e \notin S => engines'[e] = engines[e]
    <2>1. \A e \in EngineIds : [engines[e] EXCEPT !.state = to] \in Engine
        BY <1>1 DEF Engine
    <2>2. engines' \in [1..Len(engines) -> Engine]
        BY <1>1, <1>2, <2>1
    <2>3. engines' \in Seq(Engine) /\ DOMAIN engines' = 1..Len(engines)
        BY <1>1, <2>2, SeqDef
    <2>4. \A e \in EngineIds : [engines[e] EXCEPT !.state = to].run = engines[e].run
        BY <1>1 DEF Engine
    <2> QED
        BY <1>1, <1>2, <2>3, <2>4 DEF EngineIds
<1>3. CASE Close
    <2> DEFINE stopped == {e \in LiveEngines : engines[e].state = "running"}
               halted == {engines[e].run : e \in stopped}
    <2>1. LiveEngines \subseteq EngineIds
        BY DEF LiveEngines, Live, IInv, TypeOK
    <2>2. /\ phase' = "closing" /\ waiting' = LiveEngines
          /\ engines' = [e \in EngineIds |->
                IF e \in stopped THEN [engines[e] EXCEPT !.state = "ended"]
                ELSE engines[e]]
          /\ status' = [r \in Runs |-> IF r \in halted THEN "stopped" ELSE status[r]]
          /\ successor' = [r \in Runs |-> IF r \in halted THEN NoRun ELSE successor[r]]
          /\ phase = "open"
          /\ UNCHANGED <<resumedFrom, registry, terminalOrder, service, calls>>
        BY <1>3 DEF Close
    <2>3. stopped \in SUBSET EngineIds
        BY <2>1
    <2>4. /\ engines' \in Seq(Engine) /\ EngineIds' = EngineIds
          /\ \A e \in EngineIds : /\ engines'[e].run = engines[e].run
                                  /\ e \notin stopped => engines'[e] = engines[e]
        BY <1>2, <2>2, <2>3
    <2>5. \A r \in halted : \E e \in EngineIds : engines[e].run = r
        BY <2>3
    <2>6. ASSUME NEW r \in Runs, status'[r] = "running"
          PROVE  \E e \in EngineIds : engines[e].run = r /\ engines'[e].state = "running"
        <3>1. r \notin halted /\ status[r] = "running"
            BY <2>2, <2>6
        <3>2. PICK e \in EngineIds : engines[e].run = r /\ engines[e].state = "running"
            BY <2>2, <3>1 DEF IInv, NoZombieRows
        <3>3. e \notin stopped
            BY <3>1, <3>2
        <3> QED
            BY <2>4, <3>2, <3>3
    <2>7. /\ status' \in [Runs -> Terminal \cup {"none", "running"}]
          /\ successor' \in [Runs -> Runs \cup {NoRun}]
          /\ \A r \in Runs : status[r] = "none" /\ (\A e \in EngineIds : engines[e].run # r)
                                => status'[r] = "none"
        BY <2>2, <2>5 DEF IInv, TypeOK, Terminal
    <2>8. EnginesKept
        BY <2>2, <2>4, <2>6, <2>7 DEF EnginesKept
    <2>9. ServiceTyped
        BY <2>1, <2>2 DEF ServiceTyped, IInv, TypeOK
    <2> QED
        BY <2>2, <2>8, <2>9, KeptKeepsIInv
<1>4. CASE Closed
    <2>1. EnginesKept
        BY <1>1, <1>4 DEF Closed, EnginesKept, rows, IInv, TypeOK, EngineIds
    <2>2. ServiceTyped
        BY <1>4 DEF Closed, ServiceTyped, IInv, TypeOK
    <2> QED
        BY <1>4, <2>1, <2>2, KeptKeepsIInv DEF Closed
<1>5. CASE Crash
    <2> DEFINE died == {e \in EngineIds : engines[e].state # "tracked"}
    <2>1. /\ phase' = "closed" /\ waiting' = {} /\ terminalOrder' = <<>>
          /\ registry' = [r \in Runs |-> 0]
          /\ calls' = [c \in Callers |-> Idle]
          /\ engines' = [e \in EngineIds |->
                IF engines[e].state = "tracked" THEN engines[e]
                ELSE [engines[e] EXCEPT !.state = "dead"]]
          /\ UNCHANGED <<rows, service>>
        BY <1>5 DEF Crash
    <2>2. engines' = [e \in EngineIds |->
                IF e \in died THEN [engines[e] EXCEPT !.state = "dead"]
                ELSE engines[e]]
        BY <2>1
    <2>3. /\ engines' \in Seq(Engine) /\ EngineIds' = EngineIds
          /\ \A e \in EngineIds : engines'[e].run = engines[e].run
        BY <1>2, <2>2
    <2>4. EnginesKept
        BY <2>1, <2>3 DEF EnginesKept, rows, IInv, TypeOK
    <2>5. ServiceTyped
        BY <2>1, RunServiceAssumption, EmptySeq DEF ServiceTyped, IInv, TypeOK
    <2> QED
        BY <2>1, <2>4, <2>5, KeptKeepsIInv
<1>6. CASE Reopen
    <2>1. /\ service < MaxServices /\ service' = service + 1
          /\ phase' = "open" /\ terminalOrder' = <<>>
          /\ registry' = [r \in Runs |-> 0]
          /\ status' = [r \in Runs |-> IF status[r] = "running" THEN "stopped" ELSE status[r]]
          /\ UNCHANGED <<successor, resumedFrom, engines, waiting, calls>>
        BY <1>6 DEF Reopen
    <2>2. EnginesKept
        BY <1>1, <2>1 DEF EnginesKept, IInv, TypeOK, Terminal, EngineIds
    <2>3. ServiceTyped
        BY <2>1, RunServiceAssumption, EmptySeq DEF ServiceTyped, IInv, TypeOK
    <2> QED
        BY <2>1, <2>2, <2>3, KeptKeepsIInv
<1> QED
    BY <1>3, <1>4, <1>5, <1>6

-----------------------------------------------------------------------------
LEMMA InitIInv ==
    ASSUME Init
    PROVE  IInv
<1>1. engines \in Seq(Engine) /\ Len(engines) = 0 /\ EngineIds = {}
    BY EmptySeq, LenProperties DEF Init, EngineIds
<1>2. terminalOrder \in Seq(Runs) /\ Len(terminalOrder) = 0
    BY EmptySeq DEF Init
<1>3. calls \in [Callers -> CallRecord]
    BY IdleCall DEF Init
<1>4. TypeOK
    BY <1>1, <1>2, <1>3, RunServiceAssumption DEF Init, TypeOK, Engine, CallRecord
<1>5. NoZombieRows /\ CallsHeld /\ MintedRunsFresh
    BY DEF Init, NoZombieRows, CallsHeld, MintedRunsFresh, Pending, Idle
<1> QED
    BY <1>4, <1>5 DEF IInv

LEMMA NextIInv ==
    ASSUME IInv, [Next]_vars
    PROVE  IInv'
<1>1. CASE UNCHANGED vars
    BY <1>1 DEF vars, IInv, TypeOK, NoZombieRows, CallsHeld, MintedRunsFresh,
                Pending, EngineIds
<1>2. CASE Next
    <2>1. CASE \/ \E r \in Runs : Submit(r) \/ Resume(r)
               \/ \E c \in Callers : StartAmended(c) \/ ResumeRebuilt(c)
        BY <2>1, LaunchingActions
    <2>2. CASE \/ \E c \in Callers, p, r \in Runs : AmendLive(c, p, r) \/ AmendSettled(c, p, r)
               \/ \E c \in Callers, r \in Runs : ResumeAmended(c, r)
               \/ \E c \in Callers : AmendPredecessorSettled(c) \/ ImportRefused(c)
        BY <2>2, WaitingActions
    <2>3. CASE \/ \E r \in Runs : Cancel(r)
               \/ \E e \in EngineIds : EngineEnds(e) \/ Tracked(e)
        BY <2>3, EngineActions
    <2>4. CASE Close \/ Closed \/ Crash \/ Reopen
        BY <2>4, ServiceActions
    <2> QED
        BY <1>2, <2>1, <2>2, <2>3, <2>4 DEF Next
<1> QED
    BY <1>1, <1>2

\* The invariant that the theorems rest on.
LEMMA AlwaysIInv == Spec => []IInv
<1>1. Init => IInv
    BY InitIInv
<1>2. IInv /\ [Next]_vars => IInv'
    BY NextIInv
<1> QED
    BY <1>1, <1>2, PTL DEF Spec

\* Whatever a crash left behind, once a service is open a row says "running"
\* only while an engine runs it: the sweep of reconcileOrphanRuns misses none,
\* and no call that comes late brings one back.
THEOREM RowsAlwaysBacked == Spec => []RowsBacked
<1>1. IInv => RowsBacked
    BY DEF IInv, RowsBacked
<1> QED
    BY <1>1, AlwaysIInv, PTL

-----------------------------------------------------------------------------
(* What is known of a run stands *)

\* A launch gives its run an entry and leaves the superseded runs alone.
LEMMA LaunchStands ==
    ASSUME IInv, NEW r \in Runs,
           \/ \E q \in Runs : Submit(q) \/ Resume(q)
           \/ \E c \in Callers : StartAmended(c) \/ ResumeRebuilt(c)
    PROVE  /\ registry[r] # 0 => registry'[r] # 0
           /\ status[r] = "superseded"
                /\ (\A c \in Callers : calls[c].at = "rebuilding" => calls[c].run # r)
              => status'[r] = "superseded" /\ successor'[r] = successor[r]
<1>1. ASSUME NEW q \in Runs, NEW pred \in Runs \cup {NoRun},
             NEW home \in 1..MaxServices, Launch(q, pred, home)
      PROVE  /\ registry[r] # 0 => registry'[r] # 0
             /\ q # r => status'[r] = status[r] /\ successor'[r] = successor[r]
    <2>1. TypeOK
        BY DEF IInv
    <2>2. /\ Len(engines) + 1 # 0
          /\ status' = status \/ status' = [status EXCEPT ![q] = "running"]
          /\ registry' = registry \/ registry' = [registry EXCEPT ![q] = Len(engines) + 1]
          /\ successor' = successor \/ successor' = [successor EXCEPT ![q] = NoRun]
        BY <1>1, <2>1, LaunchAdds
    <2>3. registry[r] # 0 => registry'[r] # 0
        BY <2>1, <2>2 DEF TypeOK
    <2>4. q # r => status'[r] = status[r] /\ successor'[r] = successor[r]
        BY <2>1, <2>2 DEF TypeOK
    <2> QED
        BY <2>3, <2>4
<1>2. service \in 1..MaxServices
    BY DEF IInv, TypeOK
<1>3. ASSUME NEW q \in Runs, Submit(q) \/ Resume(q)
      PROVE  Launch(q, NoRun, service) /\ status[q] # "superseded"
    BY <1>3 DEF Submit, Minted, Resume, Resumable
<1>4. ASSUME NEW c \in Callers, StartAmended(c) \/ ResumeRebuilt(c)
      PROVE  /\ calls[c].run \in Runs /\ calls[c].home \in 1..MaxServices
             /\ \E pred \in Runs \cup {NoRun} :
                    Launch(calls[c].run, pred, calls[c].home)
             /\ calls[c].at = "rebuilding" \/ status[calls[c].run] # "superseded"
    <2>1. calls[c].at \in {"importing", "rebuilding"}
        BY <1>4 DEF StartAmended, ResumeRebuilt
    <2>2. /\ calls[c].run \in Runs /\ calls[c].home \in 1..MaxServices
          /\ calls[c].pred \in Runs \cup {NoRun}
        BY <2>1 DEF IInv, CallsHeld, TypeOK
    <2>3. calls[c].at = "rebuilding" \/ status[calls[c].run] # "superseded"
        BY <2>1 DEF IInv, MintedRunsFresh, Pending
    <2> QED
        BY <1>4, <2>2, <2>3 DEF StartAmended, ResumeRebuilt
<1>5. CASE \E q \in Runs : Submit(q) \/ Resume(q)
    BY <1>1, <1>2, <1>3, <1>5
<1>6. CASE \E c \in Callers : StartAmended(c) \/ ResumeRebuilt(c)
    BY <1>1, <1>4, <1>6
<1> QED
    BY <1>5, <1>6

\* A settlement touches the row of a running engine alone, and no entry.
LEMMA SettleStands ==
    ASSUME IInv, NEW r \in Runs,
           \A e \in EngineIds : engines[e].run = r => engines[e].state # "running",
           \/ \E q \in Runs : Cancel(q)
           \/ \E e \in EngineIds : EngineEnds(e)
           \/ \E c \in Callers, p, q \in Runs : AmendLive(c, p, q)
    PROVE  status'[r] = status[r] /\ successor'[r] = successor[r]
<1>1. ASSUME NEW e \in EngineIds, NEW o \in Terminal, NEW by \in Runs \cup {NoRun},
             Settle(e, o, by)
      PROVE  status'[r] = status[r] /\ successor'[r] = successor[r]
    <2>1. TypeOK
        BY DEF IInv
    <2>2. \/ UNCHANGED <<engines, status, successor>>
          \/ /\ engines[e].state = "running"
             /\ status' = [status EXCEPT ![engines[e].run] = o]
             /\ successor' = [successor EXCEPT ![engines[e].run] = by]
        BY <1>1, <2>1, SettleEnds
    <2>3. engines[e].state = "running" => engines[e].run # r
        OBVIOUS
    <2> QED
        BY <2>1, <2>2, <2>3 DEF TypeOK
<1>2. \A q \in Runs : Live(q) => registry[q] \in EngineIds
    BY DEF Live, IInv, TypeOK
<1>3. CASE \E q \in Runs : Cancel(q)
    BY <1>1, <1>2, <1>3 DEF Cancel, Terminal
<1>4. CASE \E e \in EngineIds : EngineEnds(e)
    BY <1>1, <1>4 DEF EngineEnds, Terminal
<1>5. CASE \E c \in Callers, p, q \in Runs : AmendLive(c, p, q)
    BY <1>1, <1>2, <1>5 DEF AmendLive, Terminal
<1> QED
    BY <1>3, <1>4, <1>5

\* rememberTerminal evicts the entry of a settled run only.
LEMMA EvictionStands ==
    ASSUME IInv, NEW r \in Runs, NEW e \in EngineIds, Tracked(e),
           registry[r] # 0, engines'[registry[r]].state # "tracked"
    PROVE  registry'[r] # 0
<1> DEFINE oldest == Head(Append(terminalOrder, engines[e].run))
<1>1. \/ registry' = registry
      \/ /\ registry' = [registry EXCEPT ![oldest] = 0]
         /\ engines'[registry[oldest]].state = "tracked"
    BY DEF Tracked
<1> HIDE DEF oldest
<1> QED
    BY <1>1 DEF IInv, TypeOK

\* Steps that leave the rows and the registry as they are.
LEMMA OtherCallsStand ==
    ASSUME \/ \E c \in Callers, p, q \in Runs : AmendSettled(c, p, q)
           \/ \E c \in Callers, q \in Runs : ResumeAmended(c, q)
           \/ \E c \in Callers : AmendPredecessorSettled(c) \/ ImportRefused(c)
           \/ Closed
    PROVE  UNCHANGED <<status, successor, registry>>
BY DEF AmendSettled, ResumeAmended, AmendPredecessorSettled, ImportRefused, Closed, rows

\* In every step of an open or closing service a live run keeps its entry.
LEMMA StepKeepsEntries ==
    ASSUME IInv, Next, NEW r \in Runs,
           phase' # "closed", service' = service,
           Live(r), engines'[registry[r]].state # "tracked"
    PROVE  registry'[r] # 0
<1>1. registry[r] # 0
    BY DEF Live
<1>2. CASE \/ \E q \in Runs : Submit(q) \/ Resume(q)
           \/ \E c \in Callers : StartAmended(c) \/ ResumeRebuilt(c)
    BY <1>1, <1>2, LaunchStands
<1>3. CASE \/ \E q \in Runs : Cancel(q)
           \/ \E e \in EngineIds : EngineEnds(e)
           \/ \E c \in Callers, p, q \in Runs : AmendLive(c, p, q)
           \/ Close
    BY <1>1, <1>3 DEF Cancel, EngineEnds, AmendLive, Close
<1>4. CASE \E e \in EngineIds : Tracked(e)
    BY <1>1, <1>4, EvictionStands
<1>5. CASE \/ \E c \in Callers, p, q \in Runs : AmendSettled(c, p, q)
           \/ \E c \in Callers, q \in Runs : ResumeAmended(c, q)
           \/ \E c \in Callers : AmendPredecessorSettled(c) \/ ImportRefused(c)
           \/ Closed
    BY <1>1, <1>5, OtherCallsStand
<1>6. CASE Crash \/ Reopen
    BY <1>6 DEF Crash, Reopen, IInv, TypeOK
<1> QED
    BY <1>2, <1>3, <1>4, <1>5, <1>6 DEF Next

\* In every step a superseded run that nothing runs or rebuilds stays so.
LEMMA StepKeepsSuperseded ==
    ASSUME IInv, Next, NEW r \in Runs,
           status[r] = "superseded",
           \A e \in EngineIds : engines[e].run = r => engines[e].state # "running",
           \A c \in Callers : calls[c].at = "rebuilding" => calls[c].run # r
    PROVE  status'[r] = "superseded" /\ successor'[r] = successor[r]
<1>1. CASE \/ \E q \in Runs : Submit(q) \/ Resume(q)
           \/ \E c \in Callers : StartAmended(c) \/ ResumeRebuilt(c)
    BY <1>1, LaunchStands
<1>2. CASE \/ \E q \in Runs : Cancel(q)
           \/ \E e \in EngineIds : EngineEnds(e)
           \/ \E c \in Callers, p, q \in Runs : AmendLive(c, p, q)
    BY <1>2, SettleStands
<1>3. CASE Close
    <2>1. LiveEngines \subseteq EngineIds
        BY DEF LiveEngines, Live, IInv, TypeOK
    <2>2. r \notin {engines[e].run : e \in {d \in LiveEngines : engines[d].state = "running"}}
        BY <2>1
    <2> QED
        BY <1>3, <2>2 DEF Close
<1>4. CASE (\E e \in EngineIds : Tracked(e)) \/ Crash \/ Reopen
    BY <1>4 DEF Tracked, Crash, Reopen, rows
<1>5. CASE \/ \E c \in Callers, p, q \in Runs : AmendSettled(c, p, q)
           \/ \E c \in Callers, q \in Runs : ResumeAmended(c, q)
           \/ \E c \in Callers : AmendPredecessorSettled(c) \/ ImportRefused(c)
           \/ Closed
    BY <1>5, OtherCallsStand
<1> QED
    BY <1>1, <1>2, <1>3, <1>4, <1>5 DEF Next

\* Two calls that overlap, a close, a crash and evictions in any order: a run in
\* flight stays in the registry, and a run that was amended is neither resumed
\* nor loses its successor, but for a call that had tested it before or an
\* engine that runs it.
THEOREM RecordsAlwaysStand == Spec => RecordsStand
<1>1. IInv /\ [Next]_vars =>
        [\A r \in Runs :
           /\ phase' # "closed" /\ service' = service
           /\ Live(r) /\ engines'[registry[r]].state # "tracked"
           => registry'[r] # 0]_vars
    BY StepKeepsEntries
<1>2. IInv /\ [Next]_vars =>
        [\A r \in Runs :
           /\ status[r] = "superseded"
           /\ \A e \in EngineIds : engines[e].run = r => engines[e].state # "running"
           /\ \A c \in Callers : calls[c].at = "rebuilding" => calls[c].run # r
           => status'[r] = "superseded" /\ successor'[r] = successor[r]]_vars
    BY StepKeepsSuperseded
<1>3. Spec => LiveRunsStayRegistered
    BY <1>1, AlwaysIInv, PTL DEF Spec, LiveRunsStayRegistered
<1>4. Spec => SupersededFinal
    BY <1>2, AlwaysIInv, PTL DEF Spec, SupersededFinal
<1> QED
    BY <1>3, <1>4 DEF RecordsStand

-----------------------------------------------------------------------------
(* The pool                                                                *)

\* The workers whose item is taken and not yet launched.
Sleeping == {w \in Worker : pc[w] = "throttled"}

\* The workers are entered in order.
EnteredInOrder == \A w \in Worker : pc[w] = "new" <=> w > started

\* Every item taken is launched or about to be.
LaunchesCounted == launched + Cardinality(Sleeping) = next

\* The timer of an item follows its worker.
TimerFollows ==
    /\ \A i \in Item : i > next => deadline[i] = "unset"
    /\ \A w \in Worker :
          /\ pc[w] = "throttled" => deadline[item[w]] = "unset"
          /\ pc[w] = "racing" => deadline[item[w]] = "armed"
          /\ pc[w] = "suspended" => deadline[item[w]] \in {"armed", "fired"}

\* A launch after the deadline settles its item.
LateSettles == \A i \in Item : late[i] # 0 => result[i] # "none"

PoolInv ==
    /\ PoolTypeOK /\ EveryItemOnce /\ TimeoutClassified /\ OneLateLaunch
    /\ EnteredInOrder /\ LaunchesCounted /\ TimerFollows /\ LateSettles

-----------------------------------------------------------------------------
(* Counting *)

LEMMA WorkersFinite ==
    /\ WorkerCount \in Nat \ {0}
    /\ IsFiniteSet(Worker)
<1>1. WorkerCount \in Nat \ {0}
    BY PoolAssumption DEF WorkerCount
<1>2. IsFiniteSet(Worker)
    BY <1>1, FS_Interval DEF Worker
<1> QED
    BY <1>1, <1>2

LEMMA SleepersCounted ==
    /\ IsFiniteSet(Sleeping)
    /\ Cardinality(Sleeping) \in Nat
BY WorkersFinite, FS_Subset, FS_CardinalityType DEF Sleeping

\* A worker begins to sleep, wakes up, or does neither.
LEMMA SleeperJoins ==
    ASSUME PoolTypeOK, NEW w \in Worker,
           pc[w] # "throttled", pc' = [pc EXCEPT ![w] = "throttled"]
    PROVE  Cardinality(Sleeping') = Cardinality(Sleeping) + 1
<1>1. Sleeping' = Sleeping \cup {w} /\ w \notin Sleeping
    BY DEF Sleeping, PoolTypeOK
<1> QED
    BY <1>1, SleepersCounted, FS_AddElement

LEMMA SleeperLeaves ==
    ASSUME PoolTypeOK, NEW w \in Worker,
           pc[w] = "throttled", pc' = [pc EXCEPT ![w] = "racing"]
    PROVE  Cardinality(Sleeping') = Cardinality(Sleeping) - 1
<1>1. Sleeping' = Sleeping \ {w} /\ w \in Sleeping
    BY DEF Sleeping, PoolTypeOK
<1> QED
    BY <1>1, SleepersCounted, FS_RemoveElement

LEMMA SleepersStay ==
    ASSUME \A v \in Worker : pc'[v] = "throttled" <=> pc[v] = "throttled"
    PROVE  Cardinality(Sleeping') = Cardinality(Sleeping)
<1>1. Sleeping' = Sleeping
    BY DEF Sleeping
<1> QED
    BY <1>1

-----------------------------------------------------------------------------
(* Taking the next item *)

\* The three ends of a turn of the worker's loop.
Throttles(w, timers) ==
    /\ next < Items /\ next' = next + 1 /\ launched' = launched
    /\ pc' = [pc EXCEPT ![w] = "throttled"]
    /\ item' = [item EXCEPT ![w] = next + 1]
    /\ seen' = [seen EXCEPT ![w] = launched]
    /\ deadline' = timers

Launches(w, timers) ==
    /\ next < Items /\ next' = next + 1 /\ launched' = launched + 1
    /\ pc' = [pc EXCEPT ![w] = "racing"]
    /\ item' = [item EXCEPT ![w] = next + 1]
    /\ seen' = seen
    /\ deadline' = [timers EXCEPT ![next + 1] = "armed"]

Retires(w, timers) ==
    /\ ~(next < Items) /\ next' = next /\ launched' = launched
    /\ pc' = [pc EXCEPT ![w] = "done"]
    /\ item' = [item EXCEPT ![w] = 0]
    /\ seen' = seen
    /\ deadline' = timers

LEMMA TakeNextEnds ==
    ASSUME NEW w, NEW timers, TakeNext(w, timers)
    PROVE  Throttles(w, timers) \/ Launches(w, timers) \/ Retires(w, timers)
BY DEF TakeNext, Begin, Throttles, Launches, Retires

\* No more is launched than was taken.
LEMMA LaunchesBounded ==
    ASSUME LaunchesCounted, launched \in Int, next \in 0..Items
    PROVE  launched <= next
BY SleepersCounted DEF LaunchesCounted

\* What holds when worker w is about to take its next item: everything is
\* accounted for without it, with the timers as they are by then.
WithoutWorker(w, timers) ==
    /\ started' \in 0..WorkerCount /\ w <= started'
    /\ timers \in [Item -> {"unset", "armed", "fired", "cleared"}]
    /\ result' \in [Item -> {"none", "completed", "failed", "timeout"}]
    /\ attempt' \in [Item -> 0..MaxRetries] /\ late' \in [Item -> Nat]
    /\ \A v \in Worker \ {w} : pc[v] = "new" <=> v > started'
    /\ pc[w] # "throttled"
    /\ \A i \in Item :
          i <= next <=> \/ result'[i] # "none"
                        \/ \E v \in Worker \ {w} : Busy(v) /\ item[v] = i
    /\ \A v \in Worker \ {w} :
          Busy(v) => item[v] \in Item /\ result'[item[v]] = "none"
    /\ \A u, v \in Worker \ {w} : Busy(u) /\ Busy(v) /\ item[u] = item[v] => u = v
    /\ \A i \in Item : result'[i] # "none" =>
                          (result'[i] = "timeout" <=> timers[i] = "fired")
    /\ \A i \in Item : late'[i] <= 1 /\ (late'[i] # 0 => result'[i] # "none")
    /\ \A i \in Item : i > next => timers[i] = "unset"
    /\ \A v \in Worker \ {w} :
          /\ pc[v] = "throttled" => timers[item[v]] = "unset"
          /\ pc[v] = "racing" => timers[item[v]] = "armed"
          /\ pc[v] = "suspended" => timers[item[v]] \in {"armed", "fired"}

\* From there the worker sleeps, launches or retires with everything accounted
\* for.
LEMMA TakeNextKeepsPoolInv ==
    ASSUME PoolTypeOK, LaunchesCounted,
           NEW w \in Worker, NEW timers,
           WithoutWorker(w, timers), TakeNext(w, timers)
    PROVE  PoolInv'
<1>1. /\ launched \in Nat /\ next \in 0..Items /\ launched <= next
      /\ Cardinality(Sleeping) \in Nat
    BY LaunchesBounded, SleepersCounted DEF PoolTypeOK
<1>2. WorkerCount \in Nat /\ Items \in Nat
    BY WorkersFinite, PoolAssumption
<1>3. ASSUME NEW to \in {"throttled", "racing"},
             next < Items, next' = next + 1,
             pc' = [pc EXCEPT ![w] = to],
             item' = [item EXCEPT ![w] = next + 1],
             launched' = IF to = "throttled" THEN launched ELSE launched + 1,
             seen' \in [Worker -> 0..Items],
             deadline' = IF to = "throttled" THEN timers
                         ELSE [timers EXCEPT ![next + 1] = "armed"]
      PROVE  PoolInv'
    <2>1. /\ next + 1 \in Item
          /\ \A v \in Worker : /\ pc'[v] = IF v = w THEN to ELSE pc[v]
                               /\ item'[v] = IF v = w THEN next + 1 ELSE item[v]
          /\ result'[next + 1] = "none"
          /\ \A v \in Worker \ {w} : Busy(v) => item[v] <= next
        BY <1>1, <1>2, <1>3 DEF PoolTypeOK, WithoutWorker, Item
    <2>2. PoolTypeOK'
        BY <1>1, <1>2, <1>3, <2>1 DEF PoolTypeOK, WithoutWorker
    <2>3. EveryItemOnce'
        <3>1. \A v \in Worker : Busy(v)' <=> (v = w \/ Busy(v))
            BY <1>3, <2>1 DEF Busy
        <3>2. ASSUME NEW i \in Item
              PROVE  i <= next' <=> \/ result'[i] # "none"
                                    \/ \E v \in Worker : Busy(v)' /\ item'[v] = i
            <4>1. CASE i = next + 1
                <5>1. Busy(w)' /\ item'[w] = i
                    BY <2>1, <3>1, <4>1
                <5> QED
                    BY <1>1, <1>3, <4>1, <5>1
            <4>2. CASE i # next + 1
                <5>1. i <= next' <=> i <= next
                    BY <1>1, <1>3, <4>2 DEF Item
                <5>2. (\E v \in Worker : Busy(v)' /\ item'[v] = i)
                         <=> \E v \in Worker \ {w} : Busy(v) /\ item[v] = i
                    BY <2>1, <3>1, <4>2
                <5> QED
                    BY <5>1, <5>2 DEF WithoutWorker
            <4> QED
                BY <4>1, <4>2
        <3>3. \A v \in Worker : Busy(v)' => item'[v] \in Item /\ result'[item'[v]] = "none"
            BY <2>1, <3>1 DEF WithoutWorker
        <3>4. \A u, v \in Worker : Busy(u)' /\ Busy(v)' /\ item'[u] = item'[v] => u = v
            BY <1>1, <2>1, <3>1 DEF WithoutWorker, Item
        <3> QED
            BY <3>2, <3>3, <3>4 DEF EveryItemOnce
    <2>4. TimeoutClassified' /\ OneLateLaunch' /\ LateSettles'
        BY <1>3, <2>1 DEF WithoutWorker, TimeoutClassified, OneLateLaunch, LateSettles
    <2>5. EnteredInOrder'
        BY <1>2, <1>3, <2>1 DEF EnteredInOrder, WithoutWorker, Worker
    <2>6. LaunchesCounted'
        <3>1. pc[w] # "throttled"
            BY DEF WithoutWorker
        <3>2. CASE to = "throttled"
            <4>1. Cardinality(Sleeping') = Cardinality(Sleeping) + 1
                BY <1>3, <3>1, <3>2, SleeperJoins
            <4> QED
                BY <1>1, <1>3, <3>2, <4>1 DEF LaunchesCounted
        <3>3. CASE to = "racing"
            <4>1. Cardinality(Sleeping') = Cardinality(Sleeping)
                BY <2>1, <3>1, <3>3, SleepersStay
            <4> QED
                BY <1>1, <1>3, <3>3, <4>1 DEF LaunchesCounted
        <3> QED
            BY <3>2, <3>3
    <2>7. TimerFollows'
        <3>1. \A v \in Worker \ {w} : Busy(v) => item[v] # next + 1
            BY <1>1, <2>1 DEF Item
        <3>2. \A i \in Item : i > next' => deadline'[i] = "unset"
            BY <1>1, <1>3 DEF TimerFollows, WithoutWorker, Item
        <3>3. \A v \in Worker :
                 /\ pc'[v] = "throttled" => deadline'[item'[v]] = "unset"
                 /\ pc'[v] = "racing" => deadline'[item'[v]] = "armed"
                 /\ pc'[v] = "suspended" => deadline'[item'[v]] \in {"armed", "fired"}
            BY <1>1, <1>3, <2>1, <3>1 DEF TimerFollows, WithoutWorker, Item, Busy
        <3> QED
            BY <3>2, <3>3 DEF TimerFollows
    <2> QED
        BY <2>2, <2>3, <2>4, <2>5, <2>6, <2>7 DEF PoolInv
<1>4. CASE Throttles(w, timers)
    <2>1. seen' \in [Worker -> 0..Items]
        BY <1>1, <1>2, <1>4 DEF Throttles, PoolTypeOK
    <2> QED
        BY <1>3, <1>4, <2>1 DEF Throttles
<1>5. CASE Launches(w, timers)
    BY <1>3, <1>5 DEF Launches, PoolTypeOK
<1>6. CASE Retires(w, timers)
    <2>1. \A v \in Worker : /\ pc'[v] = IF v = w THEN "done" ELSE pc[v]
                            /\ v # w => item'[v] = item[v]
        BY <1>6 DEF Retires, PoolTypeOK
    <2>2. PoolTypeOK'
        BY <1>2, <1>6 DEF Retires, PoolTypeOK, WithoutWorker
    <2>3. EveryItemOnce'
        <3>1. \A v \in Worker : Busy(v)' <=> (v # w /\ Busy(v))
            BY <2>1 DEF Busy
        <3>2. next' = next
            BY <1>6 DEF Retires
        <3> QED
            BY <2>1, <3>1, <3>2 DEF EveryItemOnce, WithoutWorker
    <2>4. TimeoutClassified' /\ OneLateLaunch' /\ LateSettles'
        BY <1>6 DEF Retires, WithoutWorker, TimeoutClassified, OneLateLaunch, LateSettles
    <2>5. EnteredInOrder'
        BY <1>2, <2>1 DEF EnteredInOrder, WithoutWorker, Worker
    <2>6. LaunchesCounted'
        <3>1. pc[w] # "throttled"
            BY DEF WithoutWorker
        <3>2. Cardinality(Sleeping') = Cardinality(Sleeping)
            BY <2>1, <3>1, SleepersStay
        <3> QED
            BY <1>6, <3>2 DEF LaunchesCounted, Retires
    <2>7. TimerFollows'
        BY <1>6, <2>1 DEF TimerFollows, WithoutWorker, Retires
    <2> QED
        BY <2>2, <2>3, <2>4, <2>5, <2>6, <2>7 DEF PoolInv
<1> QED
    BY <1>4, <1>5, <1>6, TakeNextEnds

-----------------------------------------------------------------------------
(* The actions *)

\* The workers are entered one after the other.
LEMMA StartWorkerKeepsPoolInv ==
    ASSUME PoolInv, StartWorker
    PROVE  PoolInv'
<1> DEFINE w == started + 1
<1>1. /\ WorkerCount \in Nat /\ started \in 0..WorkerCount
      /\ started < WorkerCount /\ w \in Worker
    BY WorkersFinite DEF PoolInv, PoolTypeOK, StartWorker, AllStarted, Worker
<1>2. pc[w] = "new"
    BY <1>1 DEF PoolInv, EnteredInOrder
<1>3. /\ started' = w /\ TakeNext(w, deadline)
      /\ UNCHANGED <<attempt, result, late>>
    BY DEF StartWorker
<1>4. WithoutWorker(w, deadline)
    <2>1. /\ started' \in 0..WorkerCount /\ w <= started'
          /\ deadline \in [Item -> {"unset", "armed", "fired", "cleared"}]
          /\ result' \in [Item -> {"none", "completed", "failed", "timeout"}]
          /\ attempt' \in [Item -> 0..MaxRetries] /\ late' \in [Item -> Nat]
        BY <1>1, <1>3 DEF PoolInv, PoolTypeOK
    <2>2. \A v \in Worker \ {w} : pc[v] = "new" <=> v > started'
        BY <1>1, <1>3 DEF PoolInv, EnteredInOrder, Worker
    <2>3. ~Busy(w) /\ pc[w] # "throttled"
        BY <1>2 DEF Busy
    <2>4. /\ \A i \in Item :
                i <= next <=> \/ result'[i] # "none"
                              \/ \E v \in Worker \ {w} : Busy(v) /\ item[v] = i
          /\ \A v \in Worker \ {w} :
                Busy(v) => item[v] \in Item /\ result'[item[v]] = "none"
          /\ \A u, v \in Worker \ {w} :
                Busy(u) /\ Busy(v) /\ item[u] = item[v] => u = v
        BY <1>3, <2>3 DEF PoolInv, EveryItemOnce
    <2>5. /\ \A i \in Item : result'[i] # "none" =>
                                (result'[i] = "timeout" <=> deadline[i] = "fired")
          /\ \A i \in Item : late'[i] <= 1 /\ (late'[i] # 0 => result'[i] # "none")
        BY <1>3 DEF PoolInv, TimeoutClassified, OneLateLaunch, LateSettles
    <2>6. /\ \A i \in Item : i > next => deadline[i] = "unset"
          /\ \A v \in Worker \ {w} :
                /\ pc[v] = "throttled" => deadline[item[v]] = "unset"
                /\ pc[v] = "racing" => deadline[item[v]] = "armed"
                /\ pc[v] = "suspended" => deadline[item[v]] \in {"armed", "fired"}
        BY DEF PoolInv, TimerFollows
    <2> QED
        BY <2>1, <2>2, <2>3, <2>4, <2>5, <2>6 DEF WithoutWorker
<1> HIDE DEF w
<1> QED
    BY <1>1, <1>3, <1>4, TakeNextKeepsPoolInv DEF PoolInv

\* A worker settles its item, which leaves the others as they were.
LEMMA FinishKeepsPoolInv ==
    ASSUME PoolInv, NEW w \in Worker,
           AllStarted, pc[w] \in {"racing", "suspended"},
           NEW outcome \in {"completed", "failed", "timeout"},
           NEW timer \in {"cleared", "fired"},
           outcome = "timeout" <=> timer = "fired",
           deadline[item[w]] = "armed"
              \/ (deadline[item[w]] = "fired" /\ timer = "fired"),
           Finish(w, outcome, timer),
           attempt' = attempt,
           late' = late \/ late' = [late EXCEPT ![item[w]] = @ + 1]
    PROVE  PoolInv'
<1> DEFINE i0 == item[w]
           timers == [deadline EXCEPT ![i0] = IF @ = "armed" THEN timer ELSE @]
<1>1. Busy(w) /\ i0 \in Item /\ result[i0] = "none"
    BY DEF PoolInv, EveryItemOnce, Busy
<1>2. /\ result' = [result EXCEPT ![i0] = outcome]
      /\ started' = started
      /\ TakeNext(w, timers)
    BY DEF Finish
<1>3. /\ \A i \in Item : result'[i] = IF i = i0 THEN outcome ELSE result[i]
      /\ \A i \in Item : timers[i] = IF i = i0 THEN timer ELSE deadline[i]
      /\ timers \in [Item -> {"unset", "armed", "fired", "cleared"}]
    BY <1>1, <1>2 DEF PoolInv, PoolTypeOK
<1>4. \A v \in Worker \ {w} : Busy(v) => item[v] \in Item /\ item[v] # i0
    BY <1>1 DEF PoolInv, EveryItemOnce
<1>5. WorkerCount \in Nat /\ Items \in Nat /\ next \in 0..Items
    BY WorkersFinite, PoolAssumption DEF PoolInv, PoolTypeOK
<1>6. WithoutWorker(w, timers)
    <2>1. /\ started' \in 0..WorkerCount /\ w <= started'
          /\ result' \in [Item -> {"none", "completed", "failed", "timeout"}]
          /\ attempt' \in [Item -> 0..MaxRetries] /\ late' \in [Item -> Nat]
        <3>1. started' \in 0..WorkerCount /\ w <= started'
            BY <1>2, <1>5 DEF AllStarted, Worker
        <3>2. result' \in [Item -> {"none", "completed", "failed", "timeout"}]
            BY <1>1, <1>2 DEF PoolInv, PoolTypeOK
        <3>3. attempt' \in [Item -> 0..MaxRetries] /\ late' \in [Item -> Nat]
            BY <1>1 DEF PoolInv, PoolTypeOK
        <3> QED
            BY <3>1, <3>2, <3>3
    <2>2. /\ \A v \in Worker \ {w} : pc[v] = "new" <=> v > started'
          /\ pc[w] # "throttled"
        BY <1>2 DEF PoolInv, EnteredInOrder
    <2>3. ASSUME NEW i \in Item
          PROVE  i <= next <=> \/ result'[i] # "none"
                               \/ \E v \in Worker \ {w} : Busy(v) /\ item[v] = i
        <3>1. CASE i = i0
            BY <1>1, <1>3, <3>1 DEF PoolInv, EveryItemOnce
        <3>2. CASE i # i0
            <4>1. (\E v \in Worker : Busy(v) /\ item[v] = i)
                     <=> \E v \in Worker \ {w} : Busy(v) /\ item[v] = i
                BY <3>2
            <4> QED
                BY <1>3, <3>2, <4>1 DEF PoolInv, EveryItemOnce
        <3> QED
            BY <3>1, <3>2
    <2>4. /\ \A v \in Worker \ {w} :
                Busy(v) => item[v] \in Item /\ result'[item[v]] = "none"
          /\ \A u, v \in Worker \ {w} :
                Busy(u) /\ Busy(v) /\ item[u] = item[v] => u = v
        BY <1>3, <1>4 DEF PoolInv, EveryItemOnce
    <2>5. \A i \in Item : result'[i] # "none" =>
                             (result'[i] = "timeout" <=> timers[i] = "fired")
        BY <1>3 DEF PoolInv, TimeoutClassified
    <2>6. ASSUME NEW i \in Item
          PROVE  late'[i] <= 1 /\ (late'[i] # 0 => result'[i] # "none")
        <3>1. late \in [Item -> Nat] /\ late[i0] = 0
            BY <1>1 DEF PoolInv, PoolTypeOK, LateSettles
        <3>2. late'[i] = late[i] \/ (i = i0 /\ late'[i] = 1)
            BY <1>1, <3>1
        <3> QED
            BY <1>3, <3>2 DEF PoolInv, OneLateLaunch, LateSettles
    <2>7. \A i \in Item : i > next => timers[i] = "unset"
        <3>1. i0 <= next
            BY <1>1 DEF PoolInv, EveryItemOnce
        <3> QED
            BY <1>3, <1>5, <3>1 DEF PoolInv, TimerFollows, Item
    <2>8. \A v \in Worker \ {w} :
             /\ pc[v] = "throttled" => timers[item[v]] = "unset"
             /\ pc[v] = "racing" => timers[item[v]] = "armed"
             /\ pc[v] = "suspended" => timers[item[v]] \in {"armed", "fired"}
        BY <1>3, <1>4 DEF PoolInv, TimerFollows, Busy
    <2> QED
        BY <1>3, <2>1, <2>2, <2>3, <2>4, <2>5, <2>6, <2>7, <2>8 DEF WithoutWorker
<1> HIDE DEF timers
<1> QED
    BY <1>2, <1>6, TakeNextKeepsPoolInv DEF PoolInv

\* Steps within runOne: the worker keeps its item, which stays open.
LEMMA WorkerMovesOn ==
    ASSUME PoolInv, NEW w \in Worker,
           pc[w] \in {"racing", "suspended"},
           NEW to \in {"racing", "suspended"},
           NEW t \in {"armed", "fired"},
           to = "racing" => t = "armed",
           pc' = [pc EXCEPT ![w] = to],
           deadline' = [deadline EXCEPT ![item[w]] = t],
           attempt' \in [Item -> 0..MaxRetries],
           UNCHANGED <<started, next, launched, item, seen, result, late>>
    PROVE  PoolInv'
<1>1. Busy(w) /\ item[w] \in Item /\ item[w] <= next /\ result[item[w]] = "none"
    BY DEF PoolInv, EveryItemOnce, Busy
<1>2. /\ \A v \in Worker : pc'[v] = IF v = w THEN to ELSE pc[v]
      /\ \A i \in Item : deadline'[i] = IF i = item[w] THEN t ELSE deadline[i]
    BY <1>1 DEF PoolInv, PoolTypeOK
<1>3. \A v \in Worker : Busy(v)' <=> Busy(v)
    BY <1>1, <1>2 DEF Busy
<1>4. PoolTypeOK'
    BY <1>1 DEF PoolInv, PoolTypeOK
<1>5. EveryItemOnce'
    BY <1>3 DEF PoolInv, EveryItemOnce
<1>6. TimeoutClassified' /\ OneLateLaunch' /\ LateSettles'
    BY <1>1, <1>2 DEF PoolInv, TimeoutClassified, OneLateLaunch, LateSettles
<1>7. EnteredInOrder'
    BY <1>2 DEF PoolInv, EnteredInOrder
<1>8. LaunchesCounted'
    <2>1. Cardinality(Sleeping') = Cardinality(Sleeping)
        BY <1>2, SleepersStay
    <2> QED
        BY <2>1 DEF PoolInv, LaunchesCounted
<1>9. TimerFollows'
    <2>1. \A i \in Item : i > next => i # item[w]
        BY <1>1, PoolAssumption DEF PoolInv, PoolTypeOK, Item
    <2>2. \A v \in Worker : Busy(v) /\ v # w => item[v] \in Item /\ item[v] # item[w]
        BY <1>1 DEF PoolInv, EveryItemOnce
    <2> QED
        BY <1>1, <1>2, <2>1, <2>2 DEF PoolInv, TimerFollows, Busy
<1> QED
    BY <1>4, <1>5, <1>6, <1>7, <1>8, <1>9 DEF PoolInv

\* The throttle lets an item through.
LEMMA ThrottleEndsKeepsPoolInv ==
    ASSUME PoolInv, NEW w \in Worker, ThrottleEnds(w)
    PROVE  PoolInv'
<1>1. /\ pc[w] = "throttled"
      /\ launched' = launched + 1
      /\ pc' = [pc EXCEPT ![w] = "racing"]
      /\ item' = [item EXCEPT ![w] = item[w]]
      /\ deadline' = [deadline EXCEPT ![item[w]] = "armed"]
      /\ UNCHANGED <<seen, started, next, attempt, result, late>>
    BY DEF ThrottleEnds, Begin
<1>2. Busy(w) /\ item[w] \in Item /\ item[w] <= next /\ result[item[w]] = "none"
    BY <1>1 DEF PoolInv, EveryItemOnce, Busy
<1>3. /\ \A v \in Worker : pc'[v] = IF v = w THEN "racing" ELSE pc[v]
      /\ \A i \in Item : deadline'[i] = IF i = item[w] THEN "armed" ELSE deadline[i]
      /\ item' = item
    BY <1>1, <1>2 DEF PoolInv, PoolTypeOK
<1>4. \A v \in Worker : Busy(v)' <=> Busy(v)
    BY <1>2, <1>3 DEF Busy
<1>5. LaunchesCounted' /\ launched \in Nat /\ Cardinality(Sleeping) \in Nat
    <2>1. Cardinality(Sleeping') = Cardinality(Sleeping) - 1
        BY <1>1, SleeperLeaves DEF PoolInv
    <2> QED
        BY <1>1, <2>1, SleepersCounted DEF PoolInv, PoolTypeOK, LaunchesCounted
<1>6. PoolTypeOK'
    <2>1. Cardinality(Sleeping) >= 1
        <3>1. w \in Sleeping
            BY <1>1 DEF Sleeping
        <3> QED
            BY <3>1, SleepersCounted, FS_EmptySet
    <2>2. launched' \in 0..Items
        BY <1>1, <1>5, <2>1, PoolAssumption DEF PoolInv, PoolTypeOK, LaunchesCounted
    <2> QED
        BY <1>1, <1>2, <2>2 DEF PoolInv, PoolTypeOK
<1>7. EveryItemOnce'
    BY <1>1, <1>3, <1>4 DEF PoolInv, EveryItemOnce
<1>8. TimeoutClassified' /\ OneLateLaunch' /\ LateSettles'
    BY <1>1, <1>2, <1>3 DEF PoolInv, TimeoutClassified, OneLateLaunch, LateSettles
<1>9. EnteredInOrder'
    BY <1>1, <1>3 DEF PoolInv, EnteredInOrder
<1>10. TimerFollows'
    <2>1. \A i \in Item : i > next => i # item[w]
        BY <1>2, PoolAssumption DEF PoolInv, PoolTypeOK, Item
    <2>2. \A v \in Worker : Busy(v) /\ v # w => item[v] \in Item /\ item[v] # item[w]
        BY <1>2 DEF PoolInv, EveryItemOnce
    <2> QED
        BY <1>1, <1>2, <1>3, <2>1, <2>2 DEF PoolInv, TimerFollows, Busy
<1> QED
    BY <1>5, <1>6, <1>7, <1>8, <1>9, <1>10 DEF PoolInv

\* The child answers.
LEMMA ChildKeepsPoolInv ==
    ASSUME PoolInv, NEW w \in Worker,
           (\E o \in {"completed", "failed"} : ChildSettles(w, o)) \/ ChildRateLimited(w)
    PROVE  PoolInv'
<1>1. AllStarted /\ pc[w] = "racing" /\ deadline[item[w]] = "armed" /\ item[w] \in Item
    BY DEF ChildSettles, ChildRateLimited, PoolInv, TimerFollows, EveryItemOnce, Busy
<1>2. ASSUME NEW o \in {"completed", "failed"}, Finish(w, o, "cleared"),
             attempt' = attempt, late' = late
      PROVE  PoolInv'
    BY <1>1, <1>2, FinishKeepsPoolInv
<1>3. CASE \E o \in {"completed", "failed"} : ChildSettles(w, o)
    BY <1>2, <1>3 DEF ChildSettles
<1>4. CASE ChildRateLimited(w) /\ attempt[item[w]] >= MaxRetries
    BY <1>2, <1>4 DEF ChildRateLimited
<1>5. CASE ChildRateLimited(w) /\ ~(attempt[item[w]] >= MaxRetries)
    <2>1. /\ pc' = [pc EXCEPT ![w] = "suspended"]
          /\ attempt' = [attempt EXCEPT ![item[w]] = @ + 1]
          /\ UNCHANGED <<started, next, launched, item, seen, deadline, result, late>>
        BY <1>5 DEF ChildRateLimited
    <2>2. attempt' \in [Item -> 0..MaxRetries]
        BY <1>1, <1>5, <2>1, PoolAssumption DEF PoolInv, PoolTypeOK
    <2>3. deadline' = [deadline EXCEPT ![item[w]] = "armed"]
        BY <1>1, <2>1 DEF PoolInv, PoolTypeOK
    <2> QED
        BY <1>1, <2>1, <2>2, <2>3, WorkerMovesOn
<1> QED
    BY <1>3, <1>4, <1>5

\* The deadline fires during an attempt or during a back-off.
LEMMA DeadlineKeepsPoolInv ==
    ASSUME PoolInv, NEW w \in Worker, DeadlineFires(w)
    PROVE  PoolInv'
<1>1. /\ AllStarted /\ pc[w] \in {"racing", "suspended"}
      /\ deadline[item[w]] = "armed"
      /\ UNCHANGED <<attempt, late>>
    BY DEF DeadlineFires
<1>2. CASE pc[w] = "racing"
    <2>1. Finish(w, "timeout", "fired")
        BY <1>2 DEF DeadlineFires
    <2> QED
        BY <1>1, <2>1, FinishKeepsPoolInv
<1>3. CASE pc[w] = "suspended"
    <2>1. /\ deadline' = [deadline EXCEPT ![item[w]] = "fired"]
          /\ UNCHANGED <<started, next, launched, pc, item, seen, result>>
        BY <1>3 DEF DeadlineFires
    <2>2. /\ pc' = [pc EXCEPT ![w] = "suspended"]
          /\ attempt' \in [Item -> 0..MaxRetries]
        BY <1>1, <1>3, <2>1 DEF PoolInv, PoolTypeOK
    <2> QED
        BY <1>1, <2>1, <2>2, WorkerMovesOn
<1> QED
    BY <1>1, <1>2, <1>3

\* The back-off ends, before the deadline or after it.
LEMMA BackoffKeepsPoolInv ==
    ASSUME PoolInv, NEW w \in Worker, BackoffEnds(w)
    PROVE  PoolInv'
<1>1. /\ AllStarted /\ pc[w] = "suspended" /\ attempt' = attempt
      /\ deadline[item[w]] \in {"armed", "fired"}
    BY DEF BackoffEnds, PoolInv, TimerFollows
<1>2. CASE deadline[item[w]] = "fired"
    <2>1. /\ Finish(w, "timeout", "fired")
          /\ late' = [late EXCEPT ![item[w]] = @ + 1]
        BY <1>2 DEF BackoffEnds
    <2> QED
        BY <1>1, <1>2, <2>1, FinishKeepsPoolInv
<1>3. CASE deadline[item[w]] = "armed"
    <2>1. /\ pc' = [pc EXCEPT ![w] = "racing"]
          /\ UNCHANGED <<started, next, launched, item, seen, deadline, result, late>>
        BY <1>3 DEF BackoffEnds
    <2>2. /\ deadline' = [deadline EXCEPT ![item[w]] = "armed"]
          /\ attempt' \in [Item -> 0..MaxRetries]
        BY <1>1, <1>3, <2>1 DEF PoolInv, PoolTypeOK
    <2> QED
        BY <1>1, <2>1, <2>2, WorkerMovesOn
<1> QED
    BY <1>1, <1>2, <1>3

-----------------------------------------------------------------------------
LEMMA InitPoolInv ==
    ASSUME PoolInit
    PROVE  PoolInv
<1>1. WorkerCount \in Nat /\ Items \in Nat /\ MaxRetries \in Nat
    BY WorkersFinite, PoolAssumption
<1>2. PoolTypeOK
    BY <1>1 DEF PoolInit, PoolTypeOK
<1>3. EveryItemOnce /\ TimeoutClassified /\ OneLateLaunch /\ LateSettles
    BY <1>1 DEF PoolInit, EveryItemOnce, Busy, TimeoutClassified, OneLateLaunch,
                LateSettles, Item
<1>4. EnteredInOrder /\ TimerFollows
    BY <1>1 DEF PoolInit, EnteredInOrder, TimerFollows, Worker
<1>5. LaunchesCounted
    <2>1. Sleeping = {}
        BY DEF PoolInit, Sleeping
    <2> QED
        BY <2>1, FS_EmptySet DEF PoolInit, LaunchesCounted
<1> QED
    BY <1>2, <1>3, <1>4, <1>5 DEF PoolInv

LEMMA NextPoolInv ==
    ASSUME PoolInv, [PoolNext]_poolVars
    PROVE  PoolInv'
<1>1. CASE UNCHANGED poolVars
    BY <1>1 DEF poolVars, PoolInv, PoolTypeOK, EveryItemOnce, Busy, TimeoutClassified,
                OneLateLaunch, EnteredInOrder, LaunchesCounted, Sleeping,
                TimerFollows, LateSettles
<1>2. CASE StartWorker
    BY <1>2, StartWorkerKeepsPoolInv
<1>3. ASSUME NEW w \in Worker, ThrottleEnds(w)
      PROVE  PoolInv'
    BY <1>3, ThrottleEndsKeepsPoolInv
<1>4. ASSUME NEW w \in Worker,
             (\E o \in {"completed", "failed"} : ChildSettles(w, o)) \/ ChildRateLimited(w)
      PROVE  PoolInv'
    BY <1>4, ChildKeepsPoolInv
<1>5. ASSUME NEW w \in Worker, DeadlineFires(w)
      PROVE  PoolInv'
    BY <1>5, DeadlineKeepsPoolInv
<1>6. ASSUME NEW w \in Worker, BackoffEnds(w)
      PROVE  PoolInv'
    BY <1>6, BackoffKeepsPoolInv
<1> QED
    BY <1>1, <1>2, <1>3, <1>4, <1>5, <1>6 DEF PoolNext

\* runSwarmPool settles each item it took once, reports it as timed out exactly
\* if its deadline fired, and launches at most one child for it afterwards.
THEOREM ItemsAlwaysAccounted == PoolSpec => []ItemsAccounted
<1>1. PoolInit => PoolInv
    BY InitPoolInv
<1>2. PoolInv /\ [PoolNext]_poolVars => PoolInv'
    BY NextPoolInv
<1>3. PoolInv => ItemsAccounted
    BY DEF PoolInv, ItemsAccounted
<1> QED
    BY <1>1, <1>2, <1>3, PTL DEF PoolSpec
=============================================================================
