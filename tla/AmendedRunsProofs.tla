-------------------------- MODULE AmendedRunsProofs --------------------------
(***************************************************************************)
(* Theorems of AmendedRuns.                                                *)
(*                                                                         *)
(* IInv holds for every plan: the types, and what the engine, its queues   *)
(* and the turns of its drivers know of each other.  The rest is about     *)
(* plans under which the property in question holds at all; each theorem   *)
(* says which.                                                             *)
(***************************************************************************)
EXTENDS AmendedRuns, FiniteSetTheorems, WellFoundedInduction, TLAPS

USE DEF Runs, Calls, NoRun, NoCall, NoBoundary

-----------------------------------------------------------------------------
\* Numbers, in sets and in order

\* A set of numbers that is not empty has a least one.
LEMMA LeastNumber ==
    ASSUME NEW T \in SUBSET Nat, T # {}
    PROVE  \E m \in T : \A k \in T : m <= k
<1> DEFINE R == {x \in Nat \X Nat : x[1] < x[2]}
<1>1. IsWellFoundedOn(R, Nat)
  <2>1. OpToRel(<, Nat) = R
    BY DEF OpToRel
  <2> QED
    BY <2>1, NatLessThanWellFounded
<1> HIDE DEF R
<1>2. PICK m \in T : \A k \in T : <<k, m>> \notin R
  BY <1>1, WFMin
<1>3. ASSUME NEW k \in T PROVE m <= k
  <2>1. k \in Nat /\ m \in Nat
    OBVIOUS
  <2>2. <<k, m>> \notin R
    BY <1>2
  <2>3. ~ (k < m)
    BY <2>1, <2>2 DEF R
  <2> QED
    BY <2>1, <2>3
<1> QED
  BY <1>3

\* One that is bounded has a greatest.
LEMMA MaxIs ==
    ASSUME NEW n \in Nat, NEW T \in SUBSET (0 .. n), T # {}
    PROVE  Max(T) \in T /\ \A k \in T : k <= Max(T)
<1> DEFINE U == {n - k : k \in T}
<1>1. U \in SUBSET Nat /\ U # {}
  <2>1. \A k \in T : n - k \in Nat
    OBVIOUS
  <2> QED
    BY <2>1
<1>2. PICK m \in U : \A k \in U : m <= k
  BY <1>1, LeastNumber
<1>3. PICK x \in T : m = n - x
  OBVIOUS
<1>4. \A k \in T : n - x <= n - k
  BY <1>2, <1>3
<1>5. \A k \in T : x >= k
  BY <1>4
<1>6. \E y \in T : \A k \in T : y >= k
  BY <1>5
<1>7. Max(T) \in T /\ \A k \in T : Max(T) >= k
  BY <1>6 DEF Max
<1> QED
  BY <1>7

LEMMA MaxOfTwo ==
    ASSUME NEW x \in Nat, NEW y \in Nat
    PROVE  Max({x, y}) = IF x <= y THEN y ELSE x
<1>1. CASE x <= y
  <2>1. y \in {x, y} /\ \A k \in {x, y} : y >= k
    BY <1>1
  <2>2. Max({x, y}) \in {x, y} /\ Max({x, y}) >= y
    BY <2>1 DEF Max
  <2> QED
    BY <1>1, <2>2
<1>2. CASE ~ (x <= y)
  <2>1. x \in {x, y} /\ \A k \in {x, y} : x >= k
    BY <1>2
  <2>2. Max({x, y}) \in {x, y} /\ Max({x, y}) >= x
    BY <2>1 DEF Max
  <2> QED
    BY <1>2, <2>2
<1> QED
  BY <1>1, <1>2

\* How many of S are up to i.
Rank(S, i) == Cardinality({j \in S : j <= i})

LEMMA RankIs ==
    ASSUME NEW S \in SUBSET Nat, IsFiniteSet(S)
    PROVE  /\ Cardinality(S) \in Nat
           /\ \A i \in S : Rank(S, i) \in 1 .. Cardinality(S)
           /\ \A i, k \in S : i < k => Rank(S, i) < Rank(S, k)
<1>1. Cardinality(S) \in Nat
  BY FS_CardinalityType
<1>2. ASSUME NEW i \in S
      PROVE  /\ IsFiniteSet({j \in S : j <= i})
             /\ Rank(S, i) \in 1 .. Cardinality(S)
  <2> DEFINE U == {j \in S : j <= i}
  <2>1. U \in SUBSET S /\ i \in U
    OBVIOUS
  <2> HIDE DEF U
  <2>2. IsFiniteSet(U) /\ Cardinality(U) <= Cardinality(S)
    BY <2>1, FS_Subset
  <2>3. Cardinality(U) \in Nat
    BY <2>2, FS_CardinalityType
  <2>4. Cardinality(U) # 0
    BY <2>1, <2>2, FS_EmptySet
  <2>5. Cardinality(U) \in 1 .. Cardinality(S)
    BY <1>1, <2>2, <2>3, <2>4
  <2> QED
    BY <2>2, <2>5 DEF U, Rank
<1>3. ASSUME NEW i \in S, NEW k \in S, i < k
      PROVE  Rank(S, i) < Rank(S, k)
  <2> DEFINE U == {j \in S : j <= i}
             V == {j \in S : j <= k}
  <2>1. U \in SUBSET V /\ k \in V /\ k \notin U
    <3>1. \A j \in S : j \in Nat /\ (j <= i => j <= k) /\ k <= k /\ ~ (k <= i)
      BY <1>3
    <3> QED
      BY <3>1
  <2>2. IsFiniteSet(V) /\ Cardinality(V) \in 1 .. Cardinality(S)
    BY <1>2 DEF Rank
  <2>3. Cardinality(U) \in 1 .. Cardinality(S)
    BY <1>2 DEF Rank
  <2> HIDE DEF U, V
  <2>4. Cardinality(U) <= Cardinality(V) /\ Cardinality(U) # Cardinality(V)
    BY <2>1, <2>2, FS_Subset
  <2>5. Cardinality(U) < Cardinality(V)
    BY <1>1, <2>2, <2>3, <2>4
  <2> QED
    BY <2>5 DEF U, V, Rank
<1> QED
  BY <1>1, <1>2, <1>3

\* InOrder lists the members of S, the smaller ones first.
LEMMA InOrderIs ==
    ASSUME NEW S \in SUBSET Nat, IsFiniteSet(S)
    PROVE  /\ InOrder(S) \in [1 .. Cardinality(S) -> S]
           /\ \A n \in 1 .. Cardinality(S) : Rank(S, InOrder(S)[n]) = n
           /\ \A i \in S : InOrder(S)[Rank(S, i)] = i
           /\ \A m, n \in 1 .. Cardinality(S) : m < n => InOrder(S)[m] < InOrder(S)[n]
<1> DEFINE C == Cardinality(S)
           f == [i \in S |-> Rank(S, i)]
<1>1. C \in Nat /\ f \in [S -> 1 .. C] /\ \A i, k \in S : i < k => f[i] < f[k]
  BY RankIs
<1> HIDE DEF C
<1>2. f \in Injection(S, 1 .. C)
  <2>1. \A i, k \in S : f[i] = f[k] => i = k
    <3>1. \A i, k \in S : i \in Nat /\ k \in Nat /\ f[i] \in Nat /\ f[k] \in Nat
      BY <1>1
    <3>2. \A i, k \in S : i # k => i < k \/ k < i
      BY <3>1
    <3> HIDE DEF f
    <3> QED
      BY <1>1, <3>1, <3>2
  <2> HIDE DEF f
  <2> QED
    BY <1>1, <2>1 DEF Injection, IsInjective
<1>3. IsFiniteSet(1 .. C) /\ Cardinality(1 .. C) = C
  BY <1>1, FS_Interval
<1> HIDE DEF f
<1>4. f \in Surjection(S, 1 .. C)
  BY <1>2, <1>3, FS_Injection DEF C
<1>5. \A n \in 1 .. C : \E i \in S : f[i] = n
  BY <1>4 DEF Surjection
<1>6. \A i \in S : f[i] = Rank(S, i)
  BY DEF f
<1>7. /\ DOMAIN InOrder(S) = 1 .. C
      /\ InOrder(S) = [n \in 1 .. C |-> InOrder(S)[n]]
      /\ \A n \in 1 .. C : InOrder(S)[n] = CHOOSE i \in S : Rank(S, i) = n
  BY DEF InOrder, C, Rank
<1>8. \A n \in 1 .. C : InOrder(S)[n] \in S /\ f[InOrder(S)[n]] = n
  BY <1>5, <1>6, <1>7
<1>9. InOrder(S) \in [1 .. C -> S]
  BY <1>7, <1>8
<1>10. ASSUME NEW i \in S PROVE InOrder(S)[f[i]] = i
  <2>1. f[i] \in 1 .. C
    BY <1>1
  <2>2. InOrder(S)[f[i]] \in S /\ f[InOrder(S)[f[i]]] = f[i]
    BY <1>8, <2>1
  <2> QED
    BY <1>2, <2>2 DEF Injection, IsInjective
<1>11. ASSUME NEW m \in 1 .. C, NEW n \in 1 .. C, m < n
       PROVE  InOrder(S)[m] < InOrder(S)[n]
  <2> DEFINE x == InOrder(S)[m]
             y == InOrder(S)[n]
  <2>1. x \in S /\ y \in S /\ f[x] = m /\ f[y] = n
    BY <1>8
  <2> HIDE DEF x, y
  <2>2. x \in Nat /\ y \in Nat /\ m \in Nat /\ n \in Nat
    BY <2>1
  <2>3. x # y
    BY <1>11, <2>1, <2>2
  <2>4. ~ (y < x)
    BY <1>1, <1>11, <2>1, <2>2
  <2>5. x < y
    BY <2>2, <2>3, <2>4
  <2> QED
    BY <2>5 DEF x, y
<1> QED
  BY <1>6, <1>8, <1>9, <1>10, <1>11 DEF C

-----------------------------------------------------------------------------
\* The script and the steps

LEMMA ScriptIs ==
    ASSUME plan \in Plans
    PROVE  /\ Len(Scripts) \in Nat /\ DOMAIN Scripts = 1 .. Len(Scripts)
           /\ 1 \in DOMAIN Scripts
           /\ \A r \in DOMAIN Scripts :
                  Len(Scripts[r]) \in Nat /\ DOMAIN Scripts[r] = 1 .. Len(Scripts[r])
           /\ \A r \in DOMAIN Scripts : \A i \in DOMAIN Scripts[r] :
                  /\ Scripts[r][i].op \in {"ask", "read", "run"}
                  /\ Scripts[r][i].who \in Actors \union {NoActor}
                  /\ Scripts[r][i].hash \in Hashes
                  /\ Scripts[r][i].typed \in BOOLEAN
                  /\ Scripts[r][i].op = "ask" <=> Scripts[r][i].who # NoActor
           /\ NoActor \notin Actors
<1>1. /\ Scripts \in Seq(Seq(Call)) /\ Scripts # <<>> /\ NoActor \notin Actors
      /\ \A r \in DOMAIN Scripts : \A i \in DOMAIN Scripts[r] :
             Scripts[r][i].op = "ask" <=> Scripts[r][i].who # NoActor
  BY ChainAssumption DEF Scripts
<1>2. \A r \in DOMAIN Scripts : Scripts[r] \in Seq(Call)
  BY <1>1
<1>3. \A r \in DOMAIN Scripts : \A i \in DOMAIN Scripts[r] : Scripts[r][i] \in Call
  BY <1>2
<1>4. /\ Len(Scripts) \in Nat /\ DOMAIN Scripts = 1 .. Len(Scripts)
      /\ 1 \in DOMAIN Scripts
      /\ \A r \in DOMAIN Scripts :
             Len(Scripts[r]) \in Nat /\ DOMAIN Scripts[r] = 1 .. Len(Scripts[r])
  BY <1>1, <1>2
<1> QED
  BY <1>1, <1>3, <1>4 DEF Call

LEMMA StepKinds ==
    ASSUME [Next]_vars
    PROVE  /\ plan' = plan /\ Scripts' = Scripts /\ Persona' = Persona
           /\ \/ AskReplayed \/ TryImportedSettle \/ AskLive \/ CrashInAdmission
              \/ \E a \in Actors :
                     \/ OpenSession(a) \/ StartAsk(a) \/ TurnBegins(a)
                     \/ ReadsWorkspace(a) \/ WritesWorkspace(a)
                     \/ SubmitAccepted(a) \/ UntypedTurnEnds(a) \/ TurnFails(a)
              \/ \E r \in Runs, a \in Actors :
                     SeedMessage(r, a) \/ SessionOpens(r, a) \/ AcceptedTurnEnds(r, a)
              \/ WorldReplayed \/ WorldImported \/ WorldLive
              \/ \E i \in worldBusy : SettleWorldRead(i)
              \/ RunEnds \/ Amend \/ Crash \/ Resume
              \/ UNCHANGED vars
<1>1. CASE UNCHANGED vars
  BY <1>1 DEF vars, Scripts, Persona
<1>2. CASE Next
  BY <1>2 DEF Next, Asking, InWorld, Turning, Landing, Rest, Scripts, Persona
<1> QED
  BY <1>1, <1>2

\* What each step leaves alone.
LEMMA AskReplayedFrame ==
    ASSUME AskReplayed
    PROVE  UNCHANGED <<sessionRow, transcript, closedEvent, run, engine, cache,
                       shut, wasLive, used, worldBusy, session, turns, asked,
                       counted, dirty, touched, stale, executed, lives>>
BY DEF AskReplayed, durable, progress, imports, working, driver, ghosts, MayCall

LEMMA TryImportedSettleFrame ==
    ASSUME TryImportedSettle
    PROVE  UNCHANGED <<sessionRow, transcript, queuedEvents, closedEvent, run,
                       engine, cache, shut, wasLive, used, queue, current,
                       worldBusy, session, turns, asked, counted, dirty,
                       touched, split, executed, lives>>
BY DEF TryImportedSettle, durable, progress, imports, working, driver, ghosts

LEMMA AskLiveFrame ==
    ASSUME AskLive
    PROVE  UNCHANGED <<sessionRow, transcript, closedEvent, run, engine, cache,
                       shut, wasLive, used, worldBusy, session, turns, asked,
                       counted, dirty, touched, stale, executed, lives>>
BY DEF AskLive, durable, progress, imports, working, driver, ghosts, AdmitLive

LEMMA CrashInAdmissionFrame ==
    ASSUME CrashInAdmission
    PROVE  UNCHANGED <<sessionRow, transcript, queuedEvents, closedEvent, run,
                       dirty, touched, stale, split, executed>>
BY DEF CrashInAdmission, durable, progress, imports, working, driver, ghosts, ProcessDies, EngineState

LEMMA OpenSessionFrame ==
    ASSUME NEW a, OpenSession(a)
    PROVE  UNCHANGED <<journal, sessionRow, transcript, queuedEvents,
                       closedEvent, run, engine, issued, answered, cache, shut,
                       wasLive, cursor, used, queue, current, worldBusy, turns,
                       asked, counted, dirty, touched, stale, split, executed,
                       lives>>
BY DEF OpenSession, durable, progress, imports, working, driver, ghosts, SetSession

LEMMA SeedMessageFrame ==
    ASSUME NEW r, NEW a, SeedMessage(r, a)
    PROVE  UNCHANGED <<journal, sessionRow, queuedEvents, closedEvent, run,
                       engine, issued, answered, cache, shut, wasLive, cursor,
                       used, queue, current, worldBusy, turns, asked, counted,
                       dirty, touched, stale, split, executed, lives>>
BY DEF SeedMessage, durable, progress, imports, working, driver, ghosts

LEMMA SessionOpensFrame ==
    ASSUME NEW r, NEW a, SessionOpens(r, a)
    PROVE  UNCHANGED <<journal, transcript, queuedEvents, closedEvent, run,
                       engine, issued, answered, cache, shut, wasLive, cursor,
                       used, queue, current, worldBusy, turns, asked, counted,
                       dirty, touched, stale, split, executed, lives>>
BY DEF SessionOpens, durable, progress, imports, working, driver, ghosts

LEMMA StartAskFrame ==
    ASSUME NEW a, StartAsk(a)
    PROVE  UNCHANGED <<journal, sessionRow, transcript, queuedEvents,
                       closedEvent, run, engine, issued, answered, cache, shut,
                       wasLive, cursor, used, queue, current, worldBusy,
                       session, dirty, touched, stale, split, executed, lives>>
BY DEF StartAsk, durable, progress, imports, working, driver, ghosts

LEMMA TurnBeginsFrame ==
    ASSUME NEW a, TurnBegins(a)
    PROVE  UNCHANGED <<journal, sessionRow, queuedEvents, closedEvent, run,
                       engine, issued, answered, cache, shut, wasLive, cursor,
                       used, queue, current, worldBusy, session, asked, counted,
                       dirty, touched, stale, split, executed, lives>>
BY DEF TurnBegins, durable, progress, imports, working, driver, ghosts

LEMMA ReadsWorkspaceFrame ==
    ASSUME NEW a, ReadsWorkspace(a)
    PROVE  UNCHANGED <<journal, sessionRow, transcript, queuedEvents,
                       closedEvent, run, engine, issued, answered, cache, shut,
                       wasLive, cursor, used, queue, current, worldBusy,
                       session, turns, asked, dirty, stale, split, executed,
                       lives>>
BY DEF ReadsWorkspace, durable, progress, imports, working, driver, ghosts

LEMMA WritesWorkspaceFrame ==
    ASSUME NEW a, WritesWorkspace(a)
    PROVE  UNCHANGED <<journal, sessionRow, transcript, queuedEvents, run,
                       engine, issued, answered, cache, wasLive, cursor, used,
                       queue, current, worldBusy, session, turns, asked, stale,
                       split, executed, lives>>
BY DEF WritesWorkspace, durable, progress, imports, working, driver, ghosts

LEMMA SubmitAcceptedFrame ==
    ASSUME NEW a, SubmitAccepted(a)
    PROVE  UNCHANGED <<sessionRow, queuedEvents, closedEvent, run, engine,
                       issued, cache, shut, wasLive, cursor, used, worldBusy,
                       session, asked, counted, dirty, touched, stale, split,
                       executed, lives>>
BY DEF SubmitAccepted, durable, progress, imports, working, driver, ghosts

LEMMA AcceptedTurnEndsFrame ==
    ASSUME NEW r, NEW a, AcceptedTurnEnds(r, a)
    PROVE  UNCHANGED <<sessionRow, queuedEvents, closedEvent, run, engine,
                       issued, answered, cache, shut, wasLive, cursor, used,
                       queue, current, worldBusy, session, asked, counted,
                       dirty, touched, stale, split, executed, lives>>
BY DEF AcceptedTurnEnds, durable, progress, imports, working, driver, ghosts

LEMMA UntypedTurnEndsFrame ==
    ASSUME NEW a, UntypedTurnEnds(a)
    PROVE  UNCHANGED <<sessionRow, queuedEvents, closedEvent, run, engine,
                       issued, cache, shut, wasLive, cursor, used, worldBusy,
                       session, asked, counted, dirty, touched, stale, split,
                       executed, lives>>
BY DEF UntypedTurnEnds, durable, progress, imports, working, driver, ghosts

LEMMA TurnFailsFrame ==
    ASSUME NEW a, TurnFails(a)
    PROVE  UNCHANGED <<sessionRow, transcript, queuedEvents, closedEvent, run,
                       engine, issued, cache, shut, wasLive, cursor, used,
                       worldBusy, session, asked, counted, dirty, touched,
                       stale, split, executed, lives>>
BY DEF TurnFails, durable, progress, imports, working, driver, ghosts

LEMMA WorldReplayedFrame ==
    ASSUME WorldReplayed
    PROVE  UNCHANGED <<journal, sessionRow, transcript, queuedEvents,
                       closedEvent, run, engine, cache, shut, wasLive, cursor,
                       used, queue, current, worldBusy, session, turns, asked,
                       counted, dirty, touched, stale, split, executed, lives>>
BY DEF WorldReplayed, durable, progress, imports, working, driver, ghosts

LEMMA WorldImportedFrame ==
    ASSUME WorldImported
    PROVE  UNCHANGED <<sessionRow, transcript, queuedEvents, closedEvent, run,
                       engine, cache, shut, wasLive, cursor, queue, current,
                       worldBusy, session, turns, asked, counted, dirty,
                       touched, split, executed, lives>>
BY DEF WorldImported, durable, progress, imports, working, driver, ghosts

LEMMA WorldLiveFrame ==
    ASSUME WorldLive
    PROVE  UNCHANGED <<sessionRow, transcript, queuedEvents, run, engine, cache,
                       wasLive, cursor, used, queue, current, session, turns,
                       asked, counted, touched, stale, split, lives>>
BY DEF WorldLive, durable, progress, imports, working, driver, ghosts, Pending

LEMMA SettleWorldReadFrame ==
    ASSUME NEW i, SettleWorldRead(i)
    PROVE  UNCHANGED <<sessionRow, transcript, queuedEvents, closedEvent, run,
                       engine, issued, cache, shut, wasLive, cursor, used,
                       queue, current, session, turns, asked, counted, dirty,
                       touched, stale, split, executed, lives>>
BY DEF SettleWorldRead, durable, progress, imports, working, driver, ghosts

LEMMA RunEndsFrame ==
    ASSUME RunEnds
    PROVE  UNCHANGED <<journal, sessionRow, transcript, queuedEvents,
                       closedEvent, run, dirty, touched, stale, split, executed,
                       lives>>
BY DEF RunEnds, durable, progress, imports, working, driver, ghosts, EngineState

LEMMA AmendFrame ==
    ASSUME Amend
    PROVE  UNCHANGED <<journal, sessionRow, transcript, queuedEvents,
                       closedEvent, shut, wasLive, session, turns, asked,
                       counted, touched, stale, split, executed, lives>>
BY DEF Amend, durable, progress, imports, working, driver, ghosts, EngineState

LEMMA CrashFrame ==
    ASSUME Crash
    PROVE  UNCHANGED <<journal, sessionRow, transcript, queuedEvents,
                       closedEvent, run, dirty, touched, stale, split,
                       executed>>
BY DEF Crash, durable, progress, imports, working, driver, ghosts, ProcessDies, EngineState

LEMMA ResumeFrame ==
    ASSUME Resume
    PROVE  UNCHANGED <<journal, sessionRow, transcript, queuedEvents,
                       closedEvent, run, session, turns, asked, counted, dirty,
                       touched, stale, split, executed, lives>>
BY DEF Resume, durable, progress, imports, working, driver, ghosts, EngineState


-----------------------------------------------------------------------------
\* Sequences and maps

\* A sequence, whatever it holds.
IsSeq(s) == s \in Seq({s[k] : k \in DOMAIN s})

LEMMA SeqIs ==
    ASSUME NEW S, NEW s \in Seq(S)
    PROVE  IsSeq(s) /\ Len(s) \in Nat /\ DOMAIN s = 1 .. Len(s)
<1> DEFINE T == {s[k] : k \in DOMAIN s}
<1>1. Len(s) \in Nat /\ DOMAIN s = 1 .. Len(s) /\ s \in [1 .. Len(s) -> S]
  OBVIOUS
<1>2. \A k \in 1 .. Len(s) : s[k] \in T
  BY <1>1
<1> HIDE DEF T
<1>3. s \in [1 .. Len(s) -> T]
  BY <1>1, <1>2
<1>4. s \in Seq(T)
  BY <1>1, <1>3
<1> QED
  BY <1>1, <1>4 DEF IsSeq, T

LEMMA EmptyIs == /\ IsSeq(<<>>) /\ Len(<<>>) = 0
                 /\ \A S : <<>> \in Seq(S)
                 /\ \A s : IsSeq(s) => Len(s) \in Nat /\ DOMAIN s = 1 .. Len(s)
<1>1. <<>> \in Seq({})
  OBVIOUS
<1>2. \A s : IsSeq(s) => Len(s) \in Nat /\ DOMAIN s = 1 .. Len(s)
  BY DEF IsSeq
<1>3. \A S : <<>> \in Seq(S)
  OBVIOUS
<1>4. IsSeq(<<>>)
  BY <1>1, SeqIs
<1> QED
  BY <1>2, <1>3, <1>4

LEMMA AppendIs ==
    ASSUME NEW s, IsSeq(s), NEW x
    PROVE  /\ IsSeq(Append(s, x))
           /\ Len(s) \in Nat /\ Len(Append(s, x)) = Len(s) + 1
           /\ \A k \in 1 .. Len(s) : Append(s, x)[k] = s[k]
           /\ Append(s, x)[Len(s) + 1] = x
<1> DEFINE T == {s[k] : k \in DOMAIN s} \union {x}
<1>1. s \in Seq(T) /\ x \in T
  <2>1. s \in Seq({s[k] : k \in DOMAIN s})
    BY DEF IsSeq
  <2>2. Len(s) \in Nat /\ DOMAIN s = 1 .. Len(s) /\ \A k \in 1 .. Len(s) : s[k] \in T
    BY <2>1
  <2> HIDE DEF T
  <2>3. s \in [1 .. Len(s) -> T]
    BY <2>1, <2>2
  <2>4. s \in Seq(T)
    BY <2>2, <2>3
  <2> QED
    BY <2>4 DEF T
<1> HIDE DEF T
<1>2. Append(s, x) \in Seq(T)
  BY <1>1
<1>3. IsSeq(Append(s, x))
  BY <1>2, SeqIs
<1>4. /\ Len(s) \in Nat /\ Len(Append(s, x)) = Len(s) + 1
      /\ \A k \in 1 .. Len(s) : Append(s, x)[k] = s[k]
      /\ Append(s, x)[Len(s) + 1] = x
  BY <1>1
<1> QED
  BY <1>3, <1>4

LEMMA TailIs ==
    ASSUME NEW S, NEW s \in Seq(S), s # <<>>
    PROVE  /\ Head(s) = s[1] /\ Head(s) \in S /\ Tail(s) \in Seq(S)
           /\ Len(s) \in Nat /\ Len(s) >= 1 /\ Len(Tail(s)) = Len(s) - 1
           /\ \A k \in 1 .. Len(s) - 1 : Tail(s)[k] = s[k + 1]
OBVIOUS

LEMMA CopyIs ==
    ASSUME NEW s, IsSeq(s), NEW k \in Nat, 1 <= k, k <= Len(s) + 1, NEW x
    PROVE  /\ IsSeq(CopyInPlace(s, k, x))
           /\ Len(CopyInPlace(s, k, x)) = IF k <= Len(s) THEN Len(s) ELSE k
           /\ CopyInPlace(s, k, x)[k] = x
           /\ \A j \in 1 .. Len(s) : j # k => CopyInPlace(s, k, x)[j] = s[j]
<1>1. Len(s) \in Nat /\ DOMAIN s = 1 .. Len(s)
  BY EmptyIs
<1>2. CASE k <= Len(s)
  <2> DEFINE t == [s EXCEPT ![k] = x]
             T == {s[j] : j \in DOMAIN s} \union {x}
  <2>1. DOMAIN t = 1 .. Len(s) /\ t[k] = x /\ \A j \in 1 .. Len(s) : j # k => t[j] = s[j]
    BY <1>1, <1>2
  <2>2. \A j \in 1 .. Len(s) : t[j] \in T
    BY <1>1, <2>1
  <2>3. t = [j \in 1 .. Len(s) |-> t[j]]
    BY <1>1, <2>1
  <2> HIDE DEF t, T
  <2>4. t \in [1 .. Len(s) -> T]
    BY <2>2, <2>3
  <2>5. t \in Seq(T) /\ Len(t) = Len(s)
    BY <1>1, <2>1, <2>4
  <2>6. IsSeq(t)
    BY <2>5, SeqIs
  <2> QED
    BY <1>2, <2>1, <2>5, <2>6 DEF CopyInPlace, t
<1>3. CASE ~ (k <= Len(s))
  <2>1. k = Len(s) + 1
    BY <1>1, <1>3
  <2> QED
    BY <1>1, <1>3, <2>1, AppendIs DEF CopyInPlace
<1> QED
  BY <1>2, <1>3

\* The row i of the present run becomes row, the others stay.
RowIsPut(i, row) ==
    /\ DOMAIN journal' = DOMAIN journal
    /\ \A r \in DOMAIN journal : r # run => journal'[r] = journal[r]
    /\ DOMAIN journal'[run] = DOMAIN journal[run] \union {i}
    /\ journal'[run][i] = row
    /\ \A j \in DOMAIN journal[run] : j # i => journal'[run][j] = journal[run][j]

LEMMA SetRowPuts ==
    ASSUME NEW i, NEW row, run \in DOMAIN journal, SetRow(i, row)
    PROVE  RowIsPut(i, row)
BY DEF SetRow, Put, RowIsPut

-----------------------------------------------------------------------------
\* Types

Rows == [status : {"running", "completed", "failed"}, answer : Answers,
         boundary : Nat, pure : BOOLEAN]
Entries == [hash : Hashes, answer : Answers, boundary : Nat, pure : BOOLEAN]
Seeds == [source : Nat, length : Nat]
Copies == [state : {"none", "seeding", "open"}, seed : Seeds, copied : Nat]
Turns == [call : Nat, begun : BOOLEAN, accepted : BOOLEAN]

JournalTyped ==
    /\ DOMAIN journal = Runs
    /\ \A r \in Runs :
           /\ DOMAIN journal[r] \subseteq Calls(r)
           /\ \A i \in DOMAIN journal[r] : journal[r][i] \in Rows
StoreTyped ==
    /\ sessionRow \in [Runs -> SUBSET Actors]
    /\ DOMAIN transcript = Runs
    /\ \A r \in Runs : /\ DOMAIN transcript[r] = Actors
                       /\ \A a \in Actors : IsSeq(transcript[r][a])
    /\ DOMAIN queuedEvents = Runs
    /\ \A r \in Runs : queuedEvents[r] \subseteq Calls(r)
    /\ closedEvent \subseteq Runs
ProgressTyped ==
    /\ run \in Runs /\ engine \in {"live", "over", "down"}
    /\ issued \in 0 .. Len(Scripts[run])
    /\ answered \subseteq 1 .. issued
CacheTyped ==
    /\ cache.entries \in [Actors -> Seq(Entries)]
    /\ cache.source \in [Actors -> Nat]
    /\ cache.world \in [Hashes -> Seq(Answers)]
CursorTyped ==
    /\ cursor \in [Actors -> [consumed : Nat, diverged : BOOLEAN]]
    /\ \A a \in Actors : cursor[a].consumed <= Len(cache.entries[a])
    /\ used \in [Hashes -> Nat]
    /\ \A h \in Hashes : used[h] <= Len(cache.world[h])
    /\ shut \in BOOLEAN
WorkTyped ==
    /\ queue \in [Actors -> Seq(Nat)]
    /\ current \in [Actors -> Nat]
    /\ worldBusy \subseteq 1 .. issued
SessionTyped ==
    /\ session \in [Runs -> [Actors -> Copies]]
    /\ \A r \in Runs : \A a \in Actors :
           session[r][a].copied <= session[r][a].seed.length
TurnsTyped ==
    /\ turns \in [Runs -> [Actors -> Seq(Turns)]]
    /\ asked \in [Runs -> [Actors -> Nat]]
    /\ \A r \in Runs : \A a \in Actors : asked[r][a] \in {NoCall} \union Calls(r)
    /\ counted \in [Runs -> [Actors -> BOOLEAN]]
GhostsTyped ==
    /\ split \in [Runs -> [Actors -> Int]]
    /\ dirty \in BOOLEAN /\ stale \in BOOLEAN
    /\ DOMAIN executed = Runs
    /\ \A r \in Runs : DOMAIN executed[r] = Calls(r)

Types ==
    /\ plan \in Plans
    /\ JournalTyped /\ StoreTyped /\ ProgressTyped /\ CacheTyped /\ CursorTyped
    /\ WorkTyped /\ SessionTyped /\ TurnsTyped /\ GhostsTyped

-----------------------------------------------------------------------------
\* Asks and turns of the present run

AskOf(r, a, i) == i \in DOMAIN journal[r] /\ Scripts[r][i].who = a
Status(r, i) == journal[r][i].status

\* The engine waits for the answer of ask i.
OpenAsk(a, i) == i \in 1 .. issued /\ AskOf(run, a, i) /\ Status(run, i) = "running"

\* What a subagent is busy with and what waits behind it are open asks, in the
\* order of the script.
AsksOpen ==
    \A a \in Actors :
        /\ current[a] # NoCall => OpenAsk(a, current[a])
        /\ current[a] = NoCall => queue[a] = <<>>
        /\ \A n \in DOMAIN queue[a] :
               OpenAsk(a, queue[a][n]) /\ current[a] < queue[a][n]
        /\ \A m, n \in DOMAIN queue[a] : m < n => queue[a][m] < queue[a][n]
        /\ engine # "live" => current[a] = NoCall

\* An accepted turn is the oldest of its session, and its row is settled but for
\* the boundary; any other is the turn of the ask the subagent is busy with.
TurnFits(a, n) ==
    LET t == turns[run][a][n] IN
    IF t.accepted
    THEN /\ n = 1 /\ t.begun
         /\ AskOf(run, a, t.call) /\ Status(run, t.call) = "completed"
         /\ journal[run][t.call].boundary = NoBoundary
    ELSE /\ engine = "live" /\ n = Len(turns[run][a])
         /\ current[a] # NoCall /\ t.call = current[a] /\ asked[run][a] = current[a]
TurnsFit ==
    /\ \A a \in Actors : \A n \in DOMAIN turns[run][a] : TurnFits(a, n)
    /\ \A r \in Runs \ {run} : \A a \in Actors : turns[r][a] = <<>>

WorldOpen == \A i \in worldBusy : OpenAsk(NoActor, i)

IInv == Types /\ AsksOpen /\ TurnsFit /\ WorldOpen

-----------------------------------------------------------------------------
\* What a run offers

\* The asks of a in run r, by their numbers.
AsksIn(r, a) == {i \in Calls(r) : Scripts[r][i].who = a}

LEMMA AsksOfIs ==
    ASSUME plan \in Plans, NEW r \in Runs, NEW a
    PROVE  /\ Len(AsksOf(r, a)) \in Nat /\ DOMAIN AsksOf(r, a) = 1 .. Len(AsksOf(r, a))
           /\ Len(AsksOf(r, a)) = Cardinality(AsksIn(r, a))
           /\ \A k \in 1 .. Len(AsksOf(r, a)) :
                  /\ AsksOf(r, a)[k] \in AsksIn(r, a)
                  /\ ActorSeq(r, AsksOf(r, a)[k]) = k - 1
           /\ \A i \in AsksIn(r, a) :
                  /\ ActorSeq(r, i) + 1 \in 1 .. Len(AsksOf(r, a))
                  /\ AsksOf(r, a)[ActorSeq(r, i) + 1] = i
           /\ \A k, l \in 1 .. Len(AsksOf(r, a)) :
                  k < l => AsksOf(r, a)[k] < AsksOf(r, a)[l]
<1> DEFINE S == AsksIn(r, a)
           L == Len(AsksOf(r, a))
<1>1. Len(Scripts[r]) \in Nat /\ Calls(r) = 1 .. Len(Scripts[r])
  BY ScriptIs
<1>2. S \in SUBSET Nat /\ IsFiniteSet(S)
  <2>1. IsFiniteSet(1 .. Len(Scripts[r]))
    BY <1>1, FS_Interval
  <2>2. S \in SUBSET (1 .. Len(Scripts[r]))
    BY <1>1 DEF AsksIn
  <2> HIDE DEF S
  <2>3. IsFiniteSet(S)
    BY <2>1, <2>2, FS_Subset
  <2>4. S \in SUBSET Nat
    BY <2>2
  <2> QED
    BY <2>3, <2>4
<1>3. /\ AsksOf(r, a) = InOrder(S)
      /\ Cardinality(S) \in Nat
  BY <1>2, FS_CardinalityType DEF AsksOf, AsksIn
<1>4. ASSUME NEW i \in S PROVE Rank(S, i) = ActorSeq(r, i) + 1
  <2> DEFINE U == {j \in Calls(r) : j < i /\ Scripts[r][j].who = Scripts[r][i].who}
  <2>1. i \in Calls(r) /\ Scripts[r][i].who = a /\ i \in Nat
    BY <1>1 DEF AsksIn
  <2>2. {j \in S : j <= i} = U \union {i} /\ i \notin U
    BY <1>1, <2>1 DEF AsksIn
  <2>3. U \in SUBSET S
    BY <2>1 DEF AsksIn
  <2>4. ActorSeq(r, i) = Cardinality(U)
    BY DEF ActorSeq
  <2> HIDE DEF S, U
  <2>5. IsFiniteSet(U)
    BY <1>2, <2>3, FS_Subset
  <2>6. Cardinality(U \union {i}) = Cardinality(U) + 1
    BY <2>2, <2>5, FS_AddElement
  <2> QED
    BY <2>2, <2>4, <2>6 DEF Rank
<1> HIDE DEF S
<1>5. InOrder(S) \in [1 .. Cardinality(S) -> S]
  BY <1>2, InOrderIs
<1>6. /\ L = Cardinality(S) /\ L \in Nat /\ DOMAIN AsksOf(r, a) = 1 .. L
      /\ \A k \in 1 .. L : AsksOf(r, a)[k] \in S
  <2>1. InOrder(S) \in Seq(S) /\ Len(InOrder(S)) = Cardinality(S)
    BY <1>3, <1>5
  <2> QED
    BY <1>3, <1>5, <2>1
<1> HIDE DEF L
<1>7. ASSUME NEW k \in 1 .. L PROVE ActorSeq(r, AsksOf(r, a)[k]) = k - 1
  <2>1. Rank(S, AsksOf(r, a)[k]) = k
    BY <1>2, <1>3, <1>6, InOrderIs
  <2>2. ActorSeq(r, AsksOf(r, a)[k]) + 1 = k
    BY <1>4, <1>6, <2>1
  <2>3. ActorSeq(r, AsksOf(r, a)[k]) \in Nat
    <3> DEFINE i == AsksOf(r, a)[k]
               U == {j \in Calls(r) : j < i /\ Scripts[r][j].who = Scripts[r][i].who}
    <3>1. U \in SUBSET (1 .. Len(Scripts[r]))
      BY <1>1
    <3>2. ActorSeq(r, i) = Cardinality(U)
      BY DEF ActorSeq
    <3> HIDE DEF U, i
    <3>3. IsFiniteSet(U)
      <4>1. IsFiniteSet(1 .. Len(Scripts[r]))
        BY <1>1, FS_Interval
      <4> QED
        BY <3>1, <4>1, FS_Subset
    <3>4. ActorSeq(r, i) \in Nat
      BY <3>2, <3>3, FS_CardinalityType
    <3> QED
      BY <3>4 DEF i
  <2> QED
    BY <2>2, <2>3
<1>8. ASSUME NEW i \in S
      PROVE  ActorSeq(r, i) + 1 \in 1 .. L /\ AsksOf(r, a)[ActorSeq(r, i) + 1] = i
  BY <1>2, <1>3, <1>4, <1>6, InOrderIs, RankIs
<1>9. \A k, l \in 1 .. L : k < l => AsksOf(r, a)[k] < AsksOf(r, a)[l]
  BY <1>2, <1>3, <1>6, InOrderIs
<1> QED
  BY <1>6, <1>7, <1>8, <1>9 DEF S, L

\* The number of an ask among those of its subagent.
LEMMA ActorSeqIs ==
    ASSUME plan \in Plans, NEW r \in Runs, NEW a
    PROVE  /\ \A i \in AsksIn(r, a) : ActorSeq(r, i) \in Nat /\ i \in Nat
           /\ \A i, j \in AsksIn(r, a) :
                  /\ i < j <=> ActorSeq(r, i) < ActorSeq(r, j)
                  /\ i = j <=> ActorSeq(r, i) = ActorSeq(r, j)
           /\ \A i \in AsksIn(r, a) : \A n \in Nat : n < ActorSeq(r, i) =>
                  \E j \in AsksIn(r, a) : j < i /\ ActorSeq(r, j) = n
<1> DEFINE L == Len(AsksOf(r, a))
           f == AsksOf(r, a)
           S == AsksIn(r, a)
           s(i) == ActorSeq(r, i)
<1>1. /\ L \in Nat
      /\ \A k \in 1 .. L : f[k] \in S /\ s(f[k]) = k - 1
      /\ \A i \in S : s(i) + 1 \in 1 .. L /\ f[s(i) + 1] = i
      /\ \A k, l \in 1 .. L : k < l => f[k] < f[l]
  BY AsksOfIs
<1>2. \A i \in S : i \in Nat
  BY ScriptIs DEF AsksIn
<1>3. \A i \in S : s(i) \in Nat
  <2>1. ASSUME NEW i \in S PROVE s(i) \in Nat
    <3>1. s(i) + 1 \in 1 .. L /\ s(f[s(i) + 1]) = (s(i) + 1) - 1 /\ f[s(i) + 1] = i
      BY <1>1
    <3> HIDE DEF s, f, L
    <3>2. s(i) = (s(i) + 1) - 1 /\ s(i) + 1 \in Nat /\ s(i) + 1 >= 1
      BY <1>1, <3>1
    <3>3. (s(i) + 1) - 1 \in Nat
      BY <3>2
    <3> QED
      BY <3>2, <3>3
  <2> QED
    BY <2>1
<1> HIDE DEF L, f, S, s
<1>4. ASSUME NEW i \in S, NEW j \in S
      PROVE  (i < j <=> s(i) < s(j)) /\ (i = j <=> s(i) = s(j))
  <2>1. s(i) < s(j) => i < j
    BY <1>1, <1>3
  <2>2. s(j) < s(i) => j < i
    BY <1>1, <1>3
  <2>3. s(i) = s(j) => i = j
    BY <1>1
  <2> QED
    BY <1>2, <1>3, <2>1, <2>2, <2>3
<1>5. ASSUME NEW i \in S, NEW n \in Nat, n < s(i)
      PROVE  \E j \in S : j < i /\ s(j) = n
  <2>1. n + 1 \in 1 .. L
    BY <1>1, <1>3, <1>5
  <2>2. f[n + 1] \in S /\ s(f[n + 1]) = (n + 1) - 1
    BY <1>1, <2>1
  <2>3. s(f[n + 1]) = n
    BY <2>2
  <2>4. f[n + 1] < i
    BY <1>4, <1>5, <2>2, <2>3
  <2> QED
    BY <2>2, <2>3, <2>4
<1> QED
  BY <1>2, <1>3, <1>4, <1>5 DEF S, s

\* An entry of what run r offers for its ask i.
EntryOf(r, i) == [hash |-> Scripts[r][i].hash, answer |-> journal[r][i].answer,
                  boundary |-> journal[r][i].boundary, pure |-> journal[r][i].pure]

LEMMA PrefixIs ==
    ASSUME plan \in Plans, NEW r \in Runs, NEW a
    PROVE  /\ Len(CompletedAskPrefix(r, a)) \in 0 .. Len(AsksOf(r, a))
           /\ DOMAIN CompletedAskPrefix(r, a) = 1 .. Len(CompletedAskPrefix(r, a))
           /\ \A k \in 1 .. Len(CompletedAskPrefix(r, a)) :
                  /\ Completed(r, AsksOf(r, a)[k])
                  /\ CompletedAskPrefix(r, a)[k] = EntryOf(r, AsksOf(r, a)[k])
           /\ \A n \in 0 .. Len(AsksOf(r, a)) :
                  (\A k \in 1 .. n : Completed(r, AsksOf(r, a)[k]))
                      => n <= Len(CompletedAskPrefix(r, a))
<1> DEFINE asks == AsksOf(r, a)
           whole == {n \in 0 .. Len(asks) : \A k \in 1 .. n : Completed(r, asks[k])}
           P == CompletedAskPrefix(r, a)
<1>1. Len(asks) \in Nat
  BY AsksOfIs
<1>2. P = [k \in 1 .. Max(whole) |-> EntryOf(r, asks[k])]
  BY DEF CompletedAskPrefix, EntryOf
<1> HIDE DEF asks, P
<1>3. Max(whole) \in whole /\ \A n \in whole : n <= Max(whole)
  <2>1. whole \in SUBSET (0 .. Len(asks)) /\ 0 \in whole
    BY <1>1
  <2> HIDE DEF whole
  <2> QED
    BY <1>1, <2>1, MaxIs
<1> DEFINE m == Max(whole)
<1>4. /\ m \in 0 .. Len(asks) /\ \A k \in 1 .. m : Completed(r, asks[k])
      /\ \A n \in 0 .. Len(asks) : (\A k \in 1 .. n : Completed(r, asks[k])) => n <= m
  BY <1>3
<1> HIDE DEF m
<1>5. P = [k \in 1 .. m |-> EntryOf(r, asks[k])]
  BY <1>2 DEF m
<1>6. Len(P) = m /\ DOMAIN P = 1 .. m /\ \A k \in 1 .. m : P[k] = EntryOf(r, asks[k])
  BY <1>1, <1>4, <1>5
<1> QED
  BY <1>4, <1>6 DEF P, asks

LEMMA PrefixTyped ==
    ASSUME plan \in Plans, JournalTyped, NEW r \in Runs, NEW a
    PROVE  CompletedAskPrefix(r, a) \in Seq(Entries)
<1> DEFINE P == CompletedAskPrefix(r, a)
<1>1. /\ Len(P) \in Nat /\ DOMAIN P = 1 .. Len(P)
      /\ \A k \in 1 .. Len(P) : /\ Completed(r, AsksOf(r, a)[k])
                                /\ P[k] = EntryOf(r, AsksOf(r, a)[k])
      /\ P = [k \in DOMAIN P |-> P[k]]
  <2>1. P = [k \in DOMAIN P |-> P[k]]
    BY DEF CompletedAskPrefix
  <2> QED
    BY <2>1, AsksOfIs, PrefixIs
<1> HIDE DEF P
<1>2. ASSUME NEW k \in 1 .. Len(P) PROVE P[k] \in Entries
  <2> DEFINE i == AsksOf(r, a)[k]
  <2>1. i \in DOMAIN journal[r] /\ P[k] = EntryOf(r, i)
    BY <1>1 DEF Completed, Recorded
  <2> HIDE DEF i
  <2>2. journal[r][i] \in Rows /\ i \in Calls(r)
    BY <2>1 DEF JournalTyped
  <2>3. Scripts[r][i].hash \in Hashes
    BY <2>2, ScriptIs
  <2> QED
    BY <2>1, <2>2, <2>3 DEF EntryOf, Entries, Rows
<1>3. P \in [1 .. Len(P) -> Entries]
  BY <1>1, <1>2
<1>4. P \in Seq(Entries)
  BY <1>1, <1>3
<1> QED
  BY <1>4 DEF P

LEMMA WorldQueueTyped ==
    ASSUME plan \in Plans, JournalTyped, NEW r \in Runs, NEW h
    PROVE  WorldQueue(r, h) \in Seq(Answers)
<1> DEFINE rows == {i \in Calls(r) : /\ Scripts[r][i].op # "ask"
                                     /\ Scripts[r][i].hash = h
                                     /\ Completed(r, i)}
           order == InOrder(rows)
           Q == WorldQueue(r, h)
<1>1. Q = [n \in DOMAIN order |-> journal[r][order[n]].answer]
  BY DEF WorldQueue
<1>2. rows \in SUBSET (1 .. Len(Scripts[r])) /\ Len(Scripts[r]) \in Nat
  BY ScriptIs
<1>3. \A i \in rows : journal[r][i].answer \in Answers
  BY DEF JournalTyped, Rows, Completed, Recorded
<1> HIDE DEF rows, Q
<1>4. IsFiniteSet(rows) /\ rows \in SUBSET Nat
  <2>1. IsFiniteSet(1 .. Len(Scripts[r]))
    BY <1>2, FS_Interval
  <2>2. rows \in SUBSET Nat
    BY <1>2
  <2> QED
    BY <1>2, <2>1, <2>2, FS_Subset
<1>5. order \in [1 .. Cardinality(rows) -> rows] /\ Cardinality(rows) \in Nat
  BY <1>4, InOrderIs, FS_CardinalityType
<1> HIDE DEF order
<1> DEFINE n == Cardinality(rows)
<1>6. Q \in [1 .. n -> Answers] /\ n \in Nat
  BY <1>1, <1>3, <1>5
<1> HIDE DEF n
<1>7. Q \in Seq(Answers)
  BY <1>6
<1> QED
  BY <1>7 DEF Q

LEMMA TranscriptSourceIs ==
    ASSUME NEW r \in Nat, NEW a
    PROVE  /\ TranscriptSource(r, a) \in 0 .. r
           /\ TranscriptSource(r, a) # NoRun => a \in sessionRow[TranscriptSource(r, a)]
           /\ \A q \in 1 .. r : a \in sessionRow[q] => q <= TranscriptSource(r, a)
<1> DEFINE T == {NoRun} \union {q \in 1 .. r : a \in sessionRow[q]}
<1>1. T \in SUBSET (0 .. r) /\ T # {}
  OBVIOUS
<1>2. TranscriptSource(r, a) = Max(T)
  BY DEF TranscriptSource
<1>3. Max(T) \in T /\ \A k \in T : k <= Max(T)
  <2> HIDE DEF T
  <2> QED
    BY <1>1, MaxIs
<1> DEFINE m == Max(T)
<1> HIDE DEF m
<1>4. m \in T /\ \A k \in T : k <= m
  BY <1>3 DEF m
<1>5. m \in 0 .. r /\ (m # 0 => a \in sessionRow[m]) /\ \A q \in 1 .. r : a \in sessionRow[q] => q <= m
  BY <1>4
<1> QED
  BY <1>2, <1>5 DEF m, T

LEMMA CacheForTyped ==
    ASSUME plan \in Plans, JournalTyped, NEW r \in Runs
    PROVE  /\ CacheFor(r).entries \in [Actors -> Seq(Entries)]
           /\ CacheFor(r).source \in [Actors -> Nat]
           /\ CacheFor(r).world \in [Hashes -> Seq(Answers)]
<1>1. /\ <<>> \in Seq(Entries) /\ <<>> \in Seq(Answers) /\ 0 \in Nat
      /\ r \in Nat /\ (r # 1 => r - 1 \in Runs /\ r - 1 \in Nat)
  BY ScriptIs
<1>2. CASE r = 1
  BY <1>1, <1>2 DEF CacheFor
<1>3. CASE r # 1
  <2>1. \A a \in Actors : CandidateEntries(r - 1, a) \in Seq(Entries)
    BY <1>1, <1>3, PrefixTyped DEF CandidateEntries
  <2>2. \A a \in Actors : TranscriptSource(r - 1, a) \in Nat
    BY <1>1, <1>3, TranscriptSourceIs
  <2>3. \A h \in Hashes : WorldQueue(r - 1, h) \in Seq(Answers)
    BY <1>1, <1>3, WorldQueueTyped
  <2> QED
    BY <1>1, <1>3, <2>1, <2>2, <2>3 DEF CacheFor
<1> QED
  BY <1>2, <1>3

-----------------------------------------------------------------------------
\* What the guards of the steps give

LEMMA SetsStay ==
    ASSUME Scripts' = Scripts
    PROVE  Answers' = Answers /\ Rows' = Rows /\ Entries' = Entries
BY DEF Answers, Rows, Entries

LEMMA CallIs ==
    ASSUME IInv, NEW op, MayCall(op)
    PROVE  /\ engine = "live" /\ run \in Runs /\ run \in DOMAIN journal
           /\ issued \in Nat /\ issued + 1 \in Calls(run)
           /\ issued + 1 \in 1 .. Len(Scripts[run])
           /\ NextCall = Scripts[run][issued + 1]
           /\ NextCall.op \in op /\ NextCall.hash \in Hashes
           /\ NextCall.who \in Actors \union {NoActor}
           /\ NextCall.op = "ask" => NextCall.who \in Actors
           /\ NextCall.op # "ask" => NextCall.who = NoActor
<1>1. run \in Runs /\ plan \in Plans /\ DOMAIN journal = Runs /\ issued \in Nat
  BY ScriptIs DEF IInv, Types, ProgressTyped, JournalTyped
<1>2. engine = "live" /\ issued + 1 \in Calls(run) /\ NextCall = Scripts[run][issued + 1]
      /\ NextCall.op \in op
  BY DEF MayCall, NextCall
<1>3. /\ issued + 1 \in 1 .. Len(Scripts[run])
      /\ NextCall.hash \in Hashes /\ NextCall.who \in Actors \union {NoActor}
      /\ NextCall.op = "ask" <=> NextCall.who # NoActor
  BY <1>1, <1>2, ScriptIs
<1> QED
  BY <1>1, <1>2, <1>3

\* A turn under way is that of the ask its subagent is busy with.
LEMMA InTurnIs ==
    ASSUME IInv, NEW a \in Actors, InTurn(a)
    PROVE  /\ engine = "live" /\ run \in Runs
           /\ turns[run][a] \in Seq(Turns) /\ Len(turns[run][a]) = 1
           /\ turns[run][a] # <<>> /\ Head(turns[run][a]) = turns[run][a][1]
           /\ Head(turns[run][a]).begun /\ ~ Head(turns[run][a]).accepted
           /\ TurnCall(a) = turns[run][a][1].call
           /\ TurnCall(a) = current[a] /\ asked[run][a] = current[a]
           /\ current[a] # NoCall
           /\ OpenAsk(a, TurnCall(a)) /\ TurnCall(a) \in Calls(run) /\ TurnCall(a) \in Nat
<1>1. run \in Runs /\ turns[run][a] \in Seq(Turns) /\ plan \in Plans
      /\ issued \in 0 .. Len(Scripts[run]) /\ DOMAIN journal[run] \subseteq Calls(run)
  BY DEF IInv, Types, ProgressTyped, TurnsTyped, JournalTyped
<1>2. turns[run][a] # <<>> /\ engine = "live" /\ Head(turns[run][a]).begun
      /\ ~ Head(turns[run][a]).accepted
  BY DEF InTurn
<1>3. Head(turns[run][a]) = turns[run][a][1] /\ 1 \in DOMAIN turns[run][a]
  BY <1>1, <1>2
<1>4. TurnFits(a, 1)
  BY <1>3 DEF IInv, TurnsFit
<1>5. /\ 1 = Len(turns[run][a]) /\ current[a] # NoCall
      /\ turns[run][a][1].call = current[a] /\ asked[run][a] = current[a]
  BY <1>2, <1>3, <1>4 DEF TurnFits
<1>6. OpenAsk(a, current[a])
  BY <1>5 DEF IInv, AsksOpen
<1>7. current[a] \in Calls(run) /\ current[a] \in Nat
  BY <1>1, <1>6 DEF OpenAsk, AskOf
<1> QED
  BY <1>1, <1>2, <1>3, <1>5, <1>6, <1>7 DEF TurnCall

\* An accepted turn belongs to the present run.
LEMMA AcceptedIs ==
    ASSUME IInv, NEW r \in Runs, NEW a \in Actors,
           turns[r][a] # <<>>, Head(turns[r][a]).accepted
    PROVE  /\ r = run
           /\ turns[r][a] \in Seq(Turns) /\ Len(turns[r][a]) \in {1, 2}
           /\ Head(turns[r][a]) = turns[r][a][1] /\ turns[r][a][1].begun
           /\ AskOf(r, a, turns[r][a][1].call)
           /\ Status(r, turns[r][a][1].call) = "completed"
           /\ journal[r][turns[r][a][1].call].boundary = NoBoundary
           /\ turns[r][a][1].call \in Calls(r)
<1>1. r = run
  BY DEF IInv, TurnsFit
<1>2. turns[r][a] \in Seq(Turns) /\ DOMAIN journal[r] \subseteq Calls(r)
  BY DEF IInv, Types, TurnsTyped, JournalTyped
<1>3. /\ Len(turns[r][a]) \in Nat /\ DOMAIN turns[r][a] = 1 .. Len(turns[r][a])
      /\ Len(turns[r][a]) >= 1 /\ Head(turns[r][a]) = turns[r][a][1]
  BY <1>2
<1>4. TurnFits(a, 1)
  BY <1>1, <1>3 DEF IInv, TurnsFit
<1>5. /\ AskOf(r, a, turns[r][a][1].call) /\ turns[r][a][1].begun
      /\ Status(r, turns[r][a][1].call) = "completed"
      /\ journal[r][turns[r][a][1].call].boundary = NoBoundary
  BY <1>1, <1>3, <1>4 DEF TurnFits
<1>6. Len(turns[r][a]) \in {1, 2}
  <2> DEFINE n == Len(turns[r][a])
  <2>1. CASE n > 2
    <3>1. 2 \in DOMAIN turns[r][a]
      BY <1>3, <2>1
    <3>2. TurnFits(a, 2)
      BY <1>1, <3>1 DEF IInv, TurnsFit
    <3>3. 2 = 1 \/ 2 = n
      BY <1>1, <3>2 DEF TurnFits
    <3> HIDE DEF n
    <3> QED
      BY <2>1, <3>3
  <2>2. n \in Nat /\ n >= 1
    BY <1>3
  <2> HIDE DEF n
  <2>3. n = 1 \/ n = 2 \/ n > 2
    BY <2>2
  <2> QED
    BY <2>1, <2>3 DEF n
<1> QED
  BY <1>1, <1>2, <1>3, <1>5, <1>6 DEF AskOf

-----------------------------------------------------------------------------
\* The types are kept

LEMMA PutTyped ==
    ASSUME JournalTyped, run \in Runs, Scripts' = Scripts,
           NEW i \in Calls(run), NEW row \in Rows, SetRow(i, row)
    PROVE  JournalTyped'
<1>1. RowIsPut(i, row)
  BY SetRowPuts DEF JournalTyped
<1>2. Rows' = Rows
  BY SetsStay
<1> QED
  BY <1>1, <1>2 DEF RowIsPut, JournalTyped

LEMMA RowTyped ==
    ASSUME NEW answer \in Answers, NEW boundary \in Nat, NEW pure \in BOOLEAN
    PROVE  /\ Row("completed", answer, boundary, pure) \in Rows
           /\ Running \in Rows /\ FailedRow \in Rows
<1>1. NoAnswer \in Answers /\ 0 \in Nat
  BY DEF Answers
<1> QED
  BY <1>1 DEF Row, Running, FailedRow, Rows

LEMMA OwnAnswer ==
    ASSUME NEW r \in Runs, NEW i \in Nat
    PROVE  <<r, i>> \in Answers
BY DEF Answers

LEMMA JournalTypedKept ==
    ASSUME IInv, [Next]_vars
    PROVE  JournalTyped'
<1>1. JournalTyped /\ StoreTyped /\ CacheTyped /\ TurnsTyped /\ run \in Runs /\ plan \in Plans
      /\ CursorTyped
  BY DEF IInv, Types, ProgressTyped
<1>2. Scripts' = Scripts
  BY StepKinds
<1>3. Running \in Rows /\ FailedRow \in Rows
  BY RowTyped DEF Answers
<1>4. CASE UNCHANGED journal
  BY <1>1, <1>2, <1>4, SetsStay DEF JournalTyped
<1>5. CASE AskReplayed \/ AskLive
  <2>1. UNCHANGED journal \/ SetRow(issued + 1, Running)
    BY <1>5 DEF AskReplayed, AskLive, AdmitLive
  <2>2. issued + 1 \in Calls(run)
    BY <1>5, CallIs DEF AskReplayed, AskLive, MissesImport
  <2> QED
    BY <1>1, <1>2, <1>3, <1>4, <2>1, <2>2, PutTyped
<1>6. CASE CrashInAdmission
  <2>1. SetRow(issued + 1, Running)
    BY <1>6 DEF CrashInAdmission
  <2>2. issued + 1 \in Calls(run)
    BY <1>6, CallIs DEF CrashInAdmission, MissesImport
  <2> QED
    BY <1>1, <1>2, <1>3, <2>1, <2>2, PutTyped
<1>7. CASE TryImportedSettle
  <2> DEFINE i == issued + 1
             a == NextCall.who
             entry == EntryAt(a, ActorSeq(run, i))
  <2>1. /\ SetRow(i, Row("completed", entry.answer, entry.boundary, entry.pure))
        /\ MayCall({"ask"}) /\ Follows(a, ActorSeq(run, i), NextCall.hash)
    BY <1>7 DEF TryImportedSettle
  <2>2. i \in Calls(run) /\ a \in Actors
    BY <2>1, CallIs
  <2>3. entry \in Entries
    <3>1. ActorSeq(run, i) \in Nat
      BY <1>1, <2>2, ActorSeqIs DEF AsksIn, NextCall
    <3>2. cache.entries[a] \in Seq(Entries) /\ ActorSeq(run, i) < Len(cache.entries[a])
      BY <1>1, <2>1, <2>2 DEF CacheTyped, Follows, HasEntry
    <3> QED
      BY <3>1, <3>2 DEF EntryAt
  <2> HIDE DEF i, a, entry
  <2>4. Row("completed", entry.answer, entry.boundary, entry.pure) \in Rows
    BY <2>3, RowTyped DEF Entries
  <2> QED
    BY <1>1, <1>2, <2>1, <2>2, <2>4, PutTyped
<1>8. ASSUME NEW a \in Actors, SubmitAccepted(a) \/ UntypedTurnEnds(a) \/ TurnFails(a)
      PROVE  JournalTyped'
  <2>1. InTurn(a)
    BY <1>8 DEF SubmitAccepted, UntypedTurnEnds, TurnFails
  <2> DEFINE i == TurnCall(a)
  <2>2. i \in Calls(run) /\ i \in Nat
    BY <2>1, InTurnIs
  <2>3. Len(transcript[run][a]) + 1 \in Nat /\ counted[run][a] \in BOOLEAN
    BY <1>1, EmptyIs DEF StoreTyped, TurnsTyped
  <2>4. <<run, i>> \in Answers
    BY <1>1, <2>2, OwnAnswer
  <2> HIDE DEF i
  <2>5. \E row \in Rows : SetRow(i, row)
    <3>1. CASE SubmitAccepted(a)
      BY <2>4, <3>1, RowTyped DEF SubmitAccepted, Settle, i
    <3>2. CASE UntypedTurnEnds(a)
      <4>1. SetRow(i, Row("completed", <<run, i>>, Len(transcript[run][a]) + 1, ~ counted[run][a]))
        BY <3>2 DEF UntypedTurnEnds, Settle, i
      <4> QED
        BY <2>3, <2>4, <4>1, RowTyped
    <3>3. CASE TurnFails(a)
      BY <1>3, <3>3 DEF TurnFails, Settle, i
    <3> QED
      BY <1>8, <3>1, <3>2, <3>3
  <2> QED
    BY <1>1, <1>2, <2>2, <2>5, PutTyped
<1>9. ASSUME NEW r \in Runs, NEW a \in Actors, AcceptedTurnEnds(r, a)
      PROVE  JournalTyped'
  <2> DEFINE i == Head(turns[r][a]).call
             length == Len(transcript[r][a]) + 1
  <2>1. journal' = [journal EXCEPT ![r][i].pure = ~ counted[r][a],
               ![r][i].boundary = IF StillAsked(r, a, i) THEN length ELSE @]
        /\ turns[r][a] # <<>> /\ Head(turns[r][a]).accepted
    BY <1>9 DEF AcceptedTurnEnds
  <2>2. length \in Nat /\ counted[r][a] \in BOOLEAN
    BY <1>1, EmptyIs DEF StoreTyped, TurnsTyped
  <2>3. i \in DOMAIN journal[r]
    BY <2>1, AcceptedIs DEF AskOf
  <2>4. journal[r][i] \in Rows
    BY <1>1, <2>3 DEF JournalTyped
  <2> HIDE DEF i, length
  <2>5. /\ DOMAIN journal' = DOMAIN journal
        /\ \A q \in DOMAIN journal : q # r => journal'[q] = journal[q]
        /\ DOMAIN journal'[r] = DOMAIN journal[r]
        /\ \A j \in DOMAIN journal[r] : j # i => journal'[r][j] = journal[r][j]
        /\ journal'[r][i] \in Rows
    BY <1>1, <2>1, <2>2, <2>3, <2>4 DEF JournalTyped, Rows
  <2>6. Rows' = Rows
    BY <1>2, SetsStay
  <2> QED
    BY <1>1, <1>2, <2>5, <2>6 DEF JournalTyped
<1>10. CASE WorldImported
  <2> DEFINE i == issued + 1
             h == NextCall.hash
             answer == cache.world[h][used[h] + 1]
  <2>1. /\ SetRow(i, Row("completed", answer, NoBoundary, FALSE))
        /\ MayCall({"read", "run"}) /\ WorldImportLeft(h)
    BY <1>10 DEF WorldImported
  <2>2. i \in Calls(run) /\ h \in Hashes
    BY <2>1, CallIs
  <2>3. cache.world[h] \in Seq(Answers) /\ used[h] \in Nat /\ used[h] < Len(cache.world[h])
    BY <1>1, <2>1, <2>2 DEF CacheTyped, CursorTyped, WorldImportLeft
  <2> HIDE DEF h
  <2>4. answer \in Answers
    BY <2>3
  <2> HIDE DEF i, answer
  <2> QED
    BY <1>1, <1>2, <2>1, <2>2, <2>4, RowTyped, PutTyped
<1>11. CASE WorldLive
  <2>1. SetRow(issued + 1, Running) /\ MayCall({"read", "run"})
    BY <1>11 DEF WorldLive
  <2> QED
    BY <1>1, <1>2, <1>3, <2>1, CallIs, PutTyped
<1>12. ASSUME NEW i \in worldBusy, SettleWorldRead(i)
       PROVE  JournalTyped'
  <2>1. i \in Calls(run) /\ i \in Nat
    BY <1>1, ScriptIs DEF IInv, WorldOpen, OpenAsk, AskOf, JournalTyped
  <2>2. \E row \in {Row("completed", <<run, i>>, NoBoundary, FALSE), FailedRow} : SetRow(i, row)
    BY <1>12 DEF SettleWorldRead
  <2>3. <<run, i>> \in Answers
    BY <1>1, <2>1, OwnAnswer
  <2>4. \E row \in Rows : SetRow(i, row)
    BY <1>3, <2>2, <2>3, RowTyped
  <2> QED
    BY <1>1, <1>2, <2>1, <2>4, PutTyped
<1>13. CASE \E a \in Actors : \/ OpenSession(a) \/ StartAsk(a) \/ TurnBegins(a)
                              \/ ReadsWorkspace(a) \/ WritesWorkspace(a)
  BY <1>4, <1>13, OpenSessionFrame, StartAskFrame, TurnBeginsFrame, ReadsWorkspaceFrame,
     WritesWorkspaceFrame
<1>14. CASE \E r \in Runs, a \in Actors : SeedMessage(r, a) \/ SessionOpens(r, a)
  BY <1>4, <1>14, SeedMessageFrame, SessionOpensFrame
<1>15. CASE WorldReplayed \/ RunEnds \/ Amend \/ Crash \/ Resume \/ UNCHANGED vars
  BY <1>4, <1>15, WorldReplayedFrame, RunEndsFrame, AmendFrame, CrashFrame, ResumeFrame
     DEF vars, durable
<1> QED
  BY <1>5, <1>6, <1>7, <1>8, <1>9, <1>10, <1>11, <1>12, <1>13, <1>14, <1>15, StepKinds

-----------------------------------------------------------------------------
\* What is stored

\* Only the transcript of a in run r changes.
TalksOnly(r, a) ==
    /\ DOMAIN transcript' = Runs
    /\ \A q \in Runs : DOMAIN transcript'[q] = Actors
    /\ \A q \in Runs : \A b \in Actors :
           ~ (q = r /\ b = a) => transcript'[q][b] = transcript[q][b]

LEMMA SaysIs ==
    ASSUME StoreTyped, NEW r \in Runs, NEW a \in Actors, NEW i,
           transcript' = Says(r, a, i)
    PROVE  /\ TalksOnly(r, a)
           /\ transcript'[r][a] = Append(transcript[r][a], Message(r, i))
BY DEF StoreTyped, Says, TalksOnly

LEMMA SeedIs ==
    ASSUME StoreTyped, SessionTyped, NEW r \in Runs, NEW a \in Actors, SeedMessage(r, a)
    PROVE  LET s == session[r][a] IN
           /\ TalksOnly(r, a)
           /\ s.state = "seeding" /\ s.copied \in Nat /\ s.seed.length \in Nat
           /\ s.copied < s.seed.length
           /\ s.copied > 0 \/ Len(transcript[r][a]) < s.seed.length
           /\ transcript'[r][a] = CopyInPlace(transcript[r][a], s.copied + 1,
                                      transcript[s.seed.source][a][s.copied + 1])
<1>1. /\ session[r][a].copied \in Nat /\ session[r][a].seed.length \in Nat
      /\ session[r][a].state = "seeding"
      /\ session[r][a].copied < session[r][a].seed.length
      /\ session[r][a].copied > 0 \/ Len(transcript[r][a]) < session[r][a].seed.length
  BY DEF SessionTyped, Copies, Seeds, SeedMessage, Copying
<1>2. transcript' = [transcript EXCEPT ![r][a] =
               CopyInPlace(@, session[r][a].copied + 1,
                   transcript[session[r][a].seed.source][a][session[r][a].copied + 1])]
  BY DEF SeedMessage
<1>3. /\ TalksOnly(r, a)
      /\ transcript'[r][a] = CopyInPlace(transcript[r][a], session[r][a].copied + 1,
             transcript[session[r][a].seed.source][a][session[r][a].copied + 1])
  BY <1>2 DEF StoreTyped, TalksOnly
<1> QED
  BY <1>1, <1>3

\* Which steps say something, and what.
LEMMA TalkIs ==
    ASSUME IInv, [Next]_vars
    PROVE  \/ UNCHANGED transcript
           \/ \E r \in Runs, a \in Actors : SeedMessage(r, a)
           \/ \E r \in Runs, a \in Actors : \E i \in Nat :
                  /\ \/ TurnBegins(a) /\ r = run
                     \/ SubmitAccepted(a) /\ r = run
                     \/ UntypedTurnEnds(a) /\ r = run
                     \/ AcceptedTurnEnds(r, a)
                  /\ turns[r][a] # <<>> /\ i = Head(turns[r][a]).call
                  /\ i \in Calls(r) /\ transcript' = Says(r, a, i)
<1>1. run \in Runs /\ plan \in Plans
  BY DEF IInv, Types, ProgressTyped
<1>2. \A r \in Runs : \A i \in Calls(r) : i \in Nat
  BY <1>1, ScriptIs
<1>3. ASSUME NEW a \in Actors, TurnBegins(a)
      PROVE  \E i \in Nat : /\ turns[run][a] # <<>> /\ i = Head(turns[run][a]).call
                            /\ i \in Calls(run) /\ transcript' = Says(run, a, i)
  <2>1. turns[run][a] # <<>> /\ transcript' = Says(run, a, Head(turns[run][a]).call)
    BY <1>3 DEF TurnBegins
  <2>2. turns[run][a] \in Seq(Turns)
    BY <1>1 DEF IInv, Types, TurnsTyped
  <2>3. 1 \in DOMAIN turns[run][a] /\ Head(turns[run][a]) = turns[run][a][1]
    BY <2>1, <2>2
  <2>4. TurnFits(a, 1)
    BY <2>3 DEF IInv, TurnsFit
  <2>5. \/ AskOf(run, a, turns[run][a][1].call)
        \/ current[a] # NoCall /\ turns[run][a][1].call = current[a]
    BY <2>4 DEF TurnFits
  <2>6. AskOf(run, a, turns[run][a][1].call)
    BY <2>5 DEF IInv, AsksOpen, OpenAsk
  <2>7. Head(turns[run][a]).call \in Calls(run)
    BY <1>1, <2>3, <2>6 DEF AskOf, IInv, Types, JournalTyped
  <2> QED
    BY <1>1, <1>2, <2>1, <2>7
<1>4. ASSUME NEW a \in Actors, SubmitAccepted(a) \/ UntypedTurnEnds(a)
      PROVE  \E i \in Nat : /\ turns[run][a] # <<>> /\ i = Head(turns[run][a]).call
                            /\ i \in Calls(run) /\ transcript' = Says(run, a, i)
  <2>1. InTurn(a) /\ transcript' = Says(run, a, TurnCall(a))
    BY <1>4 DEF SubmitAccepted, UntypedTurnEnds
  <2> QED
    BY <2>1, InTurnIs DEF TurnCall
<1>5. ASSUME NEW r \in Runs, NEW a \in Actors, AcceptedTurnEnds(r, a)
      PROVE  \E i \in Nat : /\ turns[r][a] # <<>> /\ i = Head(turns[r][a]).call
                            /\ i \in Calls(r) /\ transcript' = Says(r, a, i)
  <2>1. /\ turns[r][a] # <<>> /\ Head(turns[r][a]).accepted
        /\ transcript' = Says(r, a, Head(turns[r][a]).call)
    BY <1>5 DEF AcceptedTurnEnds
  <2> QED
    BY <1>2, <2>1, AcceptedIs
<1>6. CASE AskReplayed \/ TryImportedSettle \/ AskLive \/ CrashInAdmission
  BY <1>6, AskReplayedFrame, TryImportedSettleFrame, AskLiveFrame, CrashInAdmissionFrame
<1>7. CASE \E a \in Actors : \/ OpenSession(a) \/ StartAsk(a) \/ ReadsWorkspace(a)
                             \/ WritesWorkspace(a) \/ TurnFails(a)
  BY <1>7, OpenSessionFrame, StartAskFrame, ReadsWorkspaceFrame, WritesWorkspaceFrame,
     TurnFailsFrame
<1>8. CASE \E r \in Runs, a \in Actors : SessionOpens(r, a)
  BY <1>8, SessionOpensFrame
<1>9. CASE WorldReplayed \/ WorldImported \/ WorldLive \/ \E i \in worldBusy : SettleWorldRead(i)
  BY <1>9, WorldReplayedFrame, WorldImportedFrame, WorldLiveFrame, SettleWorldReadFrame
<1>10. CASE RunEnds \/ Amend \/ Crash \/ Resume \/ UNCHANGED vars
  BY <1>10, RunEndsFrame, AmendFrame, CrashFrame, ResumeFrame DEF vars, durable
<1>11. CASE \E a \in Actors : TurnBegins(a)
  BY <1>1, <1>3, <1>11
<1>12. CASE \E a \in Actors : SubmitAccepted(a) \/ UntypedTurnEnds(a)
  BY <1>1, <1>4, <1>12
<1>13. CASE \E r \in Runs, a \in Actors : AcceptedTurnEnds(r, a)
  BY <1>5, <1>13
<1>14. CASE \E r \in Runs, a \in Actors : SeedMessage(r, a)
  BY <1>14
<1> QED
  BY <1>6, <1>7, <1>8, <1>9, <1>10, <1>11, <1>12, <1>13, <1>14, StepKinds

LEMMA TranscriptTypedKept ==
    ASSUME IInv, [Next]_vars
    PROVE  /\ DOMAIN transcript' = Runs
           /\ \A r \in Runs : /\ DOMAIN transcript'[r] = Actors
                              /\ \A a \in Actors : IsSeq(transcript'[r][a])
<1>1. StoreTyped /\ SessionTyped
  BY DEF IInv, Types
<1>2. \A r \in Runs : \A a \in Actors : IsSeq(transcript[r][a])
  BY <1>1 DEF StoreTyped
<1>3. ASSUME NEW r \in Runs, NEW a \in Actors, TalksOnly(r, a), IsSeq(transcript'[r][a])
      PROVE  /\ DOMAIN transcript' = Runs
             /\ \A q \in Runs : /\ DOMAIN transcript'[q] = Actors
                                /\ \A b \in Actors : IsSeq(transcript'[q][b])
  <2>1. ASSUME NEW q \in Runs, NEW b \in Actors PROVE IsSeq(transcript'[q][b])
    <3>1. CASE q = r /\ b = a
      BY <1>3, <3>1
    <3>2. CASE ~ (q = r /\ b = a)
      <4>1. transcript'[q][b] = transcript[q][b]
        BY <1>3, <3>2 DEF TalksOnly
      <4> QED
        BY <1>2, <4>1
    <3> QED
      BY <3>1, <3>2
  <2> QED
    BY <1>3, <2>1 DEF TalksOnly
<1>4. CASE UNCHANGED transcript
  BY <1>1, <1>4 DEF StoreTyped
<1>5. ASSUME NEW r \in Runs, NEW a \in Actors, SeedMessage(r, a)
      PROVE  TalksOnly(r, a) /\ IsSeq(transcript'[r][a])
  <2> DEFINE s == session[r][a]
             x == transcript[s.seed.source][a][s.copied + 1]
  <2>1. /\ TalksOnly(r, a) /\ s.copied \in Nat /\ s.seed.length \in Nat
        /\ s.copied < s.seed.length
        /\ transcript'[r][a] = CopyInPlace(transcript[r][a], s.copied + 1, x)
    BY <1>1, <1>5, SeedIs
  <2> HIDE DEF x
  <2> DEFINE t == transcript[r][a]
             k == s.copied + 1
  <2>2. IsSeq(CopyInPlace(t, k, x))
    <3>1. IsSeq(t) /\ Len(t) \in Nat /\ k \in Nat /\ 1 <= k
      BY <1>2, <2>1, EmptyIs
    <3>3. CASE k <= Len(t)
      <4> HIDE DEF t, k
      <4>1. k <= Len(t) + 1
        BY <3>1, <3>3
      <4> QED
        BY <3>1, <4>1, CopyIs
    <3>2. CASE ~ (k <= Len(t))
      BY <3>1, <3>2, AppendIs DEF CopyInPlace
    <3> QED
      BY <3>2, <3>3
  <2> QED
    BY <2>1, <2>2
<1>6. ASSUME NEW r \in Runs, NEW a \in Actors, NEW i, transcript' = Says(r, a, i)
      PROVE  TalksOnly(r, a) /\ IsSeq(transcript'[r][a])
  <2>1. TalksOnly(r, a) /\ transcript'[r][a] = Append(transcript[r][a], Message(r, i))
    BY <1>1, <1>6, SaysIs
  <2>2. IsSeq(transcript[r][a])
    BY <1>2
  <2>3. IsSeq(Append(transcript[r][a], Message(r, i)))
    BY <2>2, AppendIs
  <2> QED
    BY <2>1, <2>3
<1> QED
  BY <1>3, <1>4, <1>5, <1>6, TalkIs

LEMMA StoreTypedKept ==
    ASSUME IInv, [Next]_vars
    PROVE  StoreTyped'
<1>1. StoreTyped /\ run \in Runs /\ plan \in Plans
  BY DEF IInv, Types, ProgressTyped
<1>2. Scripts' = Scripts
  BY StepKinds
<1>3. sessionRow' \in [Runs -> SUBSET Actors]
  <2>1. CASE UNCHANGED sessionRow
    BY <1>1, <2>1 DEF StoreTyped
  <2>2. ASSUME NEW r \in Runs, NEW a \in Actors, SessionOpens(r, a)
        PROVE  sessionRow' \in [Runs -> SUBSET Actors]
    <3>1. sessionRow' = [sessionRow EXCEPT ![r] = @ \union {a}]
      BY <2>2 DEF SessionOpens
    <3> QED
      BY <1>1, <3>1 DEF StoreTyped
  <2>3. CASE AskReplayed \/ TryImportedSettle \/ AskLive \/ CrashInAdmission
    BY <2>1, <2>3, AskReplayedFrame, TryImportedSettleFrame, AskLiveFrame, CrashInAdmissionFrame
  <2>4. CASE \E a \in Actors : \/ OpenSession(a) \/ StartAsk(a) \/ TurnBegins(a)
                               \/ ReadsWorkspace(a) \/ WritesWorkspace(a)
    BY <2>1, <2>4, OpenSessionFrame, StartAskFrame, TurnBeginsFrame, ReadsWorkspaceFrame,
       WritesWorkspaceFrame
  <2>5. CASE \E a \in Actors : SubmitAccepted(a) \/ UntypedTurnEnds(a) \/ TurnFails(a)
    BY <2>1, <2>5, SubmitAcceptedFrame, UntypedTurnEndsFrame, TurnFailsFrame
  <2>6. CASE \E r \in Runs, a \in Actors : SeedMessage(r, a) \/ AcceptedTurnEnds(r, a)
    BY <2>1, <2>6, SeedMessageFrame, AcceptedTurnEndsFrame
  <2>7. CASE WorldReplayed \/ WorldImported \/ WorldLive \/ \E i \in worldBusy : SettleWorldRead(i)
    BY <2>1, <2>7, WorldReplayedFrame, WorldImportedFrame, WorldLiveFrame, SettleWorldReadFrame
  <2>8. CASE RunEnds \/ Amend \/ Crash \/ Resume \/ UNCHANGED vars
    BY <2>1, <2>8, RunEndsFrame, AmendFrame, CrashFrame, ResumeFrame DEF vars, durable
  <2> QED
    BY <2>2, <2>3, <2>4, <2>5, <2>6, <2>7, <2>8, StepKinds
<1>4. DOMAIN queuedEvents' = Runs /\ \A r \in Runs : queuedEvents'[r] \subseteq Calls(r)
  <2>1. CASE UNCHANGED queuedEvents
    BY <1>1, <2>1 DEF StoreTyped
  <2>2. CASE AskReplayed \/ AskLive
    <3>1. UNCHANGED queuedEvents
          \/ queuedEvents' = [queuedEvents EXCEPT ![run] = @ \union {issued + 1}]
      BY <2>2 DEF AskReplayed, AskLive, AdmitLive
    <3>2. issued + 1 \in Calls(run)
      BY <2>2, CallIs DEF AskReplayed, AskLive, MissesImport
    <3> QED
      BY <1>1, <2>1, <3>1, <3>2 DEF StoreTyped
  <2>3. CASE TryImportedSettle \/ CrashInAdmission
    BY <2>1, <2>3, TryImportedSettleFrame, CrashInAdmissionFrame
  <2>4. CASE \E a \in Actors : \/ OpenSession(a) \/ StartAsk(a) \/ TurnBegins(a)
                               \/ ReadsWorkspace(a) \/ WritesWorkspace(a)
    BY <2>1, <2>4, OpenSessionFrame, StartAskFrame, TurnBeginsFrame, ReadsWorkspaceFrame,
       WritesWorkspaceFrame
  <2>5. CASE \E a \in Actors : SubmitAccepted(a) \/ UntypedTurnEnds(a) \/ TurnFails(a)
    BY <2>1, <2>5, SubmitAcceptedFrame, UntypedTurnEndsFrame, TurnFailsFrame
  <2>6. CASE \E r \in Runs, a \in Actors :
                 SeedMessage(r, a) \/ SessionOpens(r, a) \/ AcceptedTurnEnds(r, a)
    BY <2>1, <2>6, SeedMessageFrame, SessionOpensFrame, AcceptedTurnEndsFrame
  <2>7. CASE WorldReplayed \/ WorldImported \/ WorldLive \/ \E i \in worldBusy : SettleWorldRead(i)
    BY <2>1, <2>7, WorldReplayedFrame, WorldImportedFrame, WorldLiveFrame, SettleWorldReadFrame
  <2>8. CASE RunEnds \/ Amend \/ Crash \/ Resume \/ UNCHANGED vars
    BY <2>1, <2>8, RunEndsFrame, AmendFrame, CrashFrame, ResumeFrame DEF vars, durable
  <2> QED
    BY <2>2, <2>3, <2>4, <2>5, <2>6, <2>7, <2>8, StepKinds
<1>5. closedEvent' \subseteq Runs
  <2>1. CASE UNCHANGED closedEvent
    BY <1>1, <2>1 DEF StoreTyped
  <2>2. CASE CloseImportCache
    BY <1>1, <2>2 DEF StoreTyped, CloseImportCache
  <2>3. CASE AskReplayed \/ TryImportedSettle \/ AskLive \/ CrashInAdmission
    BY <2>1, <2>3, AskReplayedFrame, TryImportedSettleFrame, AskLiveFrame, CrashInAdmissionFrame
  <2>4. CASE \E a \in Actors : OpenSession(a) \/ StartAsk(a) \/ TurnBegins(a) \/ ReadsWorkspace(a)
    BY <2>1, <2>4, OpenSessionFrame, StartAskFrame, TurnBeginsFrame, ReadsWorkspaceFrame
  <2>5. CASE \E a \in Actors : WritesWorkspace(a)
    BY <2>2, <2>5 DEF WritesWorkspace
  <2>6. CASE \E a \in Actors : SubmitAccepted(a) \/ UntypedTurnEnds(a) \/ TurnFails(a)
    BY <2>1, <2>6, SubmitAcceptedFrame, UntypedTurnEndsFrame, TurnFailsFrame
  <2>7. CASE \E r \in Runs, a \in Actors :
                 SeedMessage(r, a) \/ SessionOpens(r, a) \/ AcceptedTurnEnds(r, a)
    BY <2>1, <2>7, SeedMessageFrame, SessionOpensFrame, AcceptedTurnEndsFrame
  <2>8. CASE WorldReplayed \/ WorldImported \/ \E i \in worldBusy : SettleWorldRead(i)
    BY <2>1, <2>8, WorldReplayedFrame, WorldImportedFrame, SettleWorldReadFrame
  <2>9. CASE WorldLive
    <3>1. CloseImportCache \/ KeepImportCache
      BY <2>9 DEF WorldLive
    <3> QED
      BY <2>1, <2>2, <3>1 DEF KeepImportCache
  <2>10. CASE RunEnds \/ Amend \/ Crash \/ Resume \/ UNCHANGED vars
    BY <2>1, <2>10, RunEndsFrame, AmendFrame, CrashFrame, ResumeFrame DEF vars, durable
  <2> QED
    BY <2>3, <2>4, <2>5, <2>6, <2>7, <2>8, <2>9, <2>10, StepKinds
<1>6. /\ DOMAIN transcript' = Runs
      /\ \A r \in Runs : /\ DOMAIN transcript'[r] = Actors
                         /\ \A a \in Actors : IsSeq(transcript'[r][a])
  BY TranscriptTypedKept
<1> QED
  BY <1>2, <1>3, <1>4, <1>5, <1>6 DEF StoreTyped, IsSeq

-----------------------------------------------------------------------------
\* The engine

\* An engine begins with nothing issued and the import of its run.
LEMMA EngineStateTyped ==
    ASSUME plan \in Plans, JournalTyped, Scripts' = Scripts,
           NEW r \in Runs, EngineState(r), shut' \in BOOLEAN
    PROVE  /\ issued' = 0 /\ answered' = {}
           /\ CacheTyped' /\ CursorTyped' /\ WorkTyped'
<1>1. /\ issued' = 0 /\ answered' = {} /\ cache' = CacheFor(r)
      /\ cursor' = PerActor(FreshCursor) /\ used' = [h \in Hashes |-> 0]
      /\ queue' = PerActor(<<>>) /\ current' = PerActor(0) /\ worldBusy' = {}
  BY DEF EngineState, NoCall
<1>2. Entries' = Entries /\ Answers' = Answers
  BY SetsStay
<1>3. CacheTyped'
  BY <1>1, <1>2, CacheForTyped DEF CacheTyped
<1>4. CursorTyped'
  <2>1. /\ \A a \in Actors : cache'.entries[a] \in Seq(Entries)
        /\ \A h \in Hashes : cache'.world[h] \in Seq(Answers)
    BY <1>2, <1>3 DEF CacheTyped
  <2>2. /\ \A a \in Actors : Len(cache'.entries[a]) \in Nat
        /\ \A h \in Hashes : Len(cache'.world[h]) \in Nat
    BY <2>1
  <2>3. FreshCursor \in [consumed : Nat, diverged : BOOLEAN] /\ FreshCursor.consumed = 0
    BY DEF FreshCursor
  <2>4. /\ cursor' \in [Actors -> [consumed : Nat, diverged : BOOLEAN]]
        /\ \A a \in Actors : cursor'[a].consumed = 0
    BY <1>1, <2>3 DEF PerActor
  <2> QED
    BY <1>1, <2>2, <2>4 DEF CursorTyped
<1>5. WorkTyped'
  BY <1>1, EmptyIs DEF WorkTyped, PerActor
<1> QED
  BY <1>1, <1>3, <1>4, <1>5

\* Which step makes a call, and which starts an engine.
LEMMA ProgressIs ==
    ASSUME IInv, [Next]_vars
    PROVE  \/ UNCHANGED <<run, engine, issued, answered>>
           \/ /\ UNCHANGED <<run, engine>> /\ engine = "live"
              /\ issued' = issued + 1 /\ issued + 1 \in Calls(run)
              /\ answered' \in {answered, answered \union {issued + 1}}
           \/ /\ UNCHANGED <<run, engine, issued>> /\ engine = "live"
              /\ \E i \in 1 .. issued : answered' = answered \union {i}
           \/ /\ run' = run /\ issued' = 0 /\ answered' = {}
              /\ \/ engine' = "over" /\ RunEnds
                 \/ engine' \in {"down", "over"} /\ (Crash \/ CrashInAdmission)
                 \/ engine = "down" /\ engine' = "live" /\ Resume
           \/ /\ run' = run + 1 /\ run + 1 \in Runs /\ engine = "over" /\ engine' = "live"
              /\ issued' = 0 /\ answered' = {} /\ Amend
<1>1. ProgressTyped
  BY DEF IInv, Types
<1>2. CASE UNCHANGED <<run, engine, issued, answered>>
  BY <1>2
<1>3. CASE AskReplayed \/ TryImportedSettle \/ AskLive \/ WorldReplayed \/ WorldImported \/ WorldLive
  <2>1. engine = "live" /\ issued + 1 \in Calls(run)
    BY <1>3 DEF AskReplayed, TryImportedSettle, AskLive, MissesImport, WorldReplayed,
                WorldImported, WorldLive, MayCall
  <2>2. Answered(issued + 1) \/ Pending(issued + 1)
    BY <1>3 DEF AskReplayed, TryImportedSettle, AskLive, AdmitLive, WorldReplayed,
                WorldImported, WorldLive
  <2>3. UNCHANGED <<run, engine>>
    BY <1>3, AskReplayedFrame, TryImportedSettleFrame, AskLiveFrame, WorldReplayedFrame,
       WorldImportedFrame, WorldLiveFrame
  <2> QED
    BY <2>1, <2>2, <2>3 DEF Answered, Pending
<1>4. ASSUME NEW a \in Actors, SubmitAccepted(a) \/ UntypedTurnEnds(a) \/ TurnFails(a)
      PROVE  /\ UNCHANGED <<run, engine, issued>> /\ engine = "live"
             /\ \E i \in 1 .. issued : answered' = answered \union {i}
  <2>1. InTurn(a) /\ answered' = answered \union {TurnCall(a)}
    BY <1>4 DEF SubmitAccepted, UntypedTurnEnds, TurnFails, Settle
  <2>2. TurnCall(a) \in 1 .. issued /\ engine = "live"
    BY <2>1, InTurnIs DEF OpenAsk
  <2>3. UNCHANGED <<run, engine, issued>>
    BY <1>4, SubmitAcceptedFrame, UntypedTurnEndsFrame, TurnFailsFrame
  <2> QED
    BY <2>1, <2>2, <2>3
<1>5. ASSUME NEW i \in worldBusy, SettleWorldRead(i)
      PROVE  /\ UNCHANGED <<run, engine, issued>> /\ engine = "live"
             /\ \E j \in 1 .. issued : answered' = answered \union {j}
  <2>1. engine = "live" /\ answered' = answered \union {i}
    BY <1>5 DEF SettleWorldRead
  <2>2. i \in 1 .. issued
    BY DEF IInv, WorldOpen, OpenAsk
  <2> QED
    BY <1>5, <2>1, <2>2, SettleWorldReadFrame
<1>6. CASE RunEnds
  BY <1>6, RunEndsFrame DEF RunEnds, EngineState
<1>7. CASE Crash \/ CrashInAdmission
  <2>1. ProcessDies
    BY <1>7 DEF Crash, CrashInAdmission
  <2>2. /\ issued' = 0 /\ answered' = {} /\ run' = run
        /\ engine' = IF engine = "live" THEN "down" ELSE engine
    BY <2>1 DEF ProcessDies, EngineState
  <2>3. engine # "down"
    BY <1>7 DEF Crash, CrashInAdmission, MissesImport, MayCall
  <2>4. engine' \in {"down", "over"}
    BY <1>1, <2>2, <2>3 DEF ProgressTyped
  <2> QED
    BY <1>7, <2>2, <2>4
<1>8. CASE Resume
  BY <1>8, ResumeFrame DEF Resume, EngineState
<1>9. CASE Amend
  BY <1>9 DEF Amend, EngineState
<1>20. CASE UNCHANGED vars
  BY <1>2, <1>20 DEF vars, durable, progress, imports, working,
     driver, ghosts
<1>21. CASE \E a \in Actors : \/ OpenSession(a) \/ StartAsk(a) \/ TurnBegins(a)
                              \/ ReadsWorkspace(a) \/ WritesWorkspace(a)
  BY <1>2, <1>21, OpenSessionFrame, StartAskFrame, TurnBeginsFrame, ReadsWorkspaceFrame,
     WritesWorkspaceFrame
<1>22. CASE \E r \in Runs, a \in Actors : \/ SeedMessage(r, a) \/ SessionOpens(r, a) \/ AcceptedTurnEnds(r, a)
  BY <1>2, <1>22, SeedMessageFrame, SessionOpensFrame, AcceptedTurnEndsFrame
<1> QED
  BY <1>3, <1>4, <1>5, <1>6, <1>7, <1>8, <1>9, <1>20, <1>21, <1>22, StepKinds

LEMMA ProgressTypedKept ==
    ASSUME IInv, [Next]_vars
    PROVE  ProgressTyped'
<1>1. ProgressTyped /\ plan \in Plans
  BY DEF IInv, Types
<1>2. Scripts' = Scripts
  BY StepKinds
<1>3. /\ issued \in Nat /\ run \in Nat
      /\ \A r \in Runs : r \in Nat /\ Len(Scripts[r]) \in Nat /\ Calls(r) = 1 .. Len(Scripts[r])
  BY <1>1, ScriptIs DEF ProgressTyped
<1>4. run' \in Runs /\ engine' \in {"live", "over", "down"}
  <2> HIDE DEF Runs
  <2> QED
    BY <1>1, ProgressIs DEF ProgressTyped
<1>5. issued' \in 0 .. Len(Scripts[run']) /\ answered' \subseteq 1 .. issued'
  <2>1. CASE UNCHANGED <<run, engine, issued, answered>>
    BY <1>1, <2>1 DEF ProgressTyped
  <2>2. CASE /\ UNCHANGED <<run, engine>>
             /\ issued' = issued + 1 /\ issued + 1 \in Calls(run)
             /\ answered' \in {answered, answered \union {issued + 1}}
    BY <1>1, <1>3, <2>2 DEF ProgressTyped
  <2>3. CASE /\ UNCHANGED <<run, engine, issued>>
             /\ \E i \in 1 .. issued : answered' = answered \union {i}
    BY <1>1, <2>3 DEF ProgressTyped
  <2>4. CASE issued' = 0 /\ answered' = {}
    BY <1>3, <1>4, <2>4
  <2> QED
    BY <2>1, <2>2, <2>3, <2>4, ProgressIs
<1> QED
  BY <1>2, <1>4, <1>5 DEF ProgressTyped

\* A process that dies keeps the rows it has, and loses the rest.
LEMMA EnginesTyped ==
    ASSUME IInv, [Next]_vars, RunEnds \/ Amend \/ Crash \/ CrashInAdmission \/ Resume
    PROVE  CacheTyped' /\ CursorTyped' /\ WorkTyped'
<1>1. JournalTyped /\ plan \in Plans /\ run \in Runs /\ shut \in BOOLEAN
  BY DEF IInv, Types, ProgressTyped, CursorTyped
<1>2. Scripts' = Scripts /\ 1 \in Runs
  BY <1>1, ScriptIs, StepKinds
<1>3. \E r \in Runs : EngineState(r)
  BY <1>1, <1>2 DEF RunEnds, Amend, Crash, CrashInAdmission, ProcessDies, Resume
<1>4. shut' \in BOOLEAN
  <2>1. shut' = FALSE \/ shut' = shut \/ shut' = (run > 1 /\ WasClosed(run))
    BY DEF RunEnds, Amend, Crash, CrashInAdmission, ProcessDies, Resume
  <2> QED
    BY <1>1, <2>1
<1> QED
  BY <1>1, <1>2, <1>3, <1>4, EngineStateTyped

LEMMA CacheTypedKept ==
    ASSUME IInv, [Next]_vars
    PROVE  CacheTyped'
<1>1. CacheTyped
  BY DEF IInv, Types
<1>2. Entries' = Entries /\ Answers' = Answers
  BY StepKinds, SetsStay
<1>3. CASE UNCHANGED cache
  BY <1>1, <1>2, <1>3 DEF CacheTyped
<1>4. CASE RunEnds \/ Amend \/ Crash \/ CrashInAdmission \/ Resume
  BY <1>4, EnginesTyped
<1>20. CASE \/ AskReplayed \/ TryImportedSettle \/ AskLive
            \/ WorldReplayed \/ WorldImported \/ WorldLive
            \/ UNCHANGED vars
  BY <1>3, <1>20, AskReplayedFrame, TryImportedSettleFrame, AskLiveFrame,
     WorldReplayedFrame, WorldImportedFrame, WorldLiveFrame DEF vars, durable, progress, imports, working,
     driver, ghosts
<1>21. CASE \E a \in Actors : \/ OpenSession(a) \/ StartAsk(a) \/ TurnBegins(a)
                              \/ ReadsWorkspace(a) \/ WritesWorkspace(a) \/ SubmitAccepted(a)
                              \/ UntypedTurnEnds(a) \/ TurnFails(a)
  BY <1>3, <1>21, OpenSessionFrame, StartAskFrame, TurnBeginsFrame, ReadsWorkspaceFrame,
     WritesWorkspaceFrame, SubmitAcceptedFrame, UntypedTurnEndsFrame, TurnFailsFrame
<1>22. CASE \E r \in Runs, a \in Actors : \/ SeedMessage(r, a) \/ SessionOpens(r, a) \/ AcceptedTurnEnds(r, a)
  BY <1>3, <1>22, SeedMessageFrame, SessionOpensFrame, AcceptedTurnEndsFrame
<1>23. CASE \E i \in worldBusy : SettleWorldRead(i)
  BY <1>3, <1>23, SettleWorldReadFrame
<1> QED
  BY <1>4, <1>20, <1>21, <1>22, <1>23, StepKinds

\* A step of the cursor of a, from one that is not beyond its entries.
LEMMA ReconcileIs ==
    ASSUME CacheTyped, CursorTyped, NEW a \in Actors, NEW seq \in Nat, NEW h, NEW live \in BOOLEAN
    PROVE  LET next == ReconcileRecorded(a, seq, h, live)
               follows == ~ live /\ HasEntry(a, seq) /\ EntryAt(a, seq).hash = h
           IN  /\ next \in [Actors -> [consumed : Nat, diverged : BOOLEAN]]
               /\ \A b \in Actors \ {a} : next[b] = cursor[b]
               /\ next[a].diverged <=> (cursor[a].diverged \/ ~ follows)
               /\ next[a].consumed =
                      IF cursor[a].diverged \/ ~ follows \/ seq + 1 <= cursor[a].consumed
                      THEN cursor[a].consumed ELSE seq + 1
               /\ next[a].consumed <= Len(cache.entries[a])
<1>1. /\ cursor \in [Actors -> [consumed : Nat, diverged : BOOLEAN]]
      /\ cursor[a].consumed \in Nat /\ cursor[a].diverged \in BOOLEAN
      /\ cursor[a].consumed <= Len(cache.entries[a])
      /\ Len(cache.entries[a]) \in Nat
  BY DEF CacheTyped, CursorTyped
<1> DEFINE next == ReconcileRecorded(a, seq, h, live)
           follows == ~ live /\ HasEntry(a, seq) /\ EntryAt(a, seq).hash = h
<1>2. CASE cursor[a].diverged
  BY <1>1, <1>2 DEF ReconcileRecorded
<1>3. CASE ~ cursor[a].diverged /\ ~ follows
  BY <1>1, <1>3 DEF ReconcileRecorded, Diverge
<1>4. CASE ~ cursor[a].diverged /\ follows
  <2> DEFINE c == cursor[a].consumed
             m == Max({c, seq + 1})
  <2>1. next = [cursor EXCEPT ![a].consumed = m]
    BY <1>4 DEF ReconcileRecorded, Consume
  <2>2. m = IF c <= seq + 1 THEN seq + 1 ELSE c
    BY <1>1, MaxOfTwo
  <2> HIDE DEF m
  <2>3. m = (IF seq + 1 <= c THEN c ELSE seq + 1) /\ m \in Nat
    BY <1>1, <2>2
  <2>4. seq < Len(cache.entries[a])
    BY <1>4 DEF HasEntry
  <2>5. m <= Len(cache.entries[a])
    BY <1>1, <2>3, <2>4
  <2>6. /\ next \in [Actors -> [consumed : Nat, diverged : BOOLEAN]]
        /\ \A b \in Actors \ {a} : next[b] = cursor[b]
        /\ next[a].diverged = cursor[a].diverged /\ next[a].consumed = m
    <3> HIDE DEF next, follows, c
    <3> QED
      BY <1>1, <2>1, <2>3
  <2> QED
    BY <1>1, <1>4, <2>3, <2>5, <2>6
<1> QED
  BY <1>2, <1>3, <1>4

\* How an ask moves the cursor of its subagent.
CursorMoves(a, seq, follows) ==
    /\ cursor' \in [Actors -> [consumed : Nat, diverged : BOOLEAN]]
    /\ \A b \in Actors \ {a} : cursor'[b] = cursor[b]
    /\ cursor'[a].diverged <=> (cursor[a].diverged \/ ~ follows)
    /\ cursor'[a].consumed =
           IF cursor[a].diverged \/ ~ follows \/ seq + 1 <= cursor[a].consumed
           THEN cursor[a].consumed ELSE seq + 1
    /\ cursor'[a].consumed <= Len(cache.entries[a])

LEMMA AskIs ==
    ASSUME IInv, AskReplayed \/ TryImportedSettle \/ AskLive
    PROVE  LET i == issued + 1
               a == NextCall.who
               seq == ActorSeq(run, i)
           IN  /\ a \in Actors /\ i \in Calls(run) /\ i \in Nat /\ seq \in Nat
               /\ engine = "live" /\ run \in Runs /\ NextCall = Scripts[run][i]
               /\ NextCall.hash \in Hashes
               /\ i \in AsksIn(run, a)
               /\ AskReplayed => CursorMoves(a, seq,
                      i \notin wasLive /\ HasEntry(a, seq) /\ EntryAt(a, seq).hash = NextCall.hash)
               /\ TryImportedSettle => CursorMoves(a, seq, TRUE)
               /\ AskLive => CursorMoves(a, seq, FALSE)
<1> DEFINE i == issued + 1
           a == NextCall.who
           seq == ActorSeq(run, i)
<1>1. CacheTyped /\ CursorTyped /\ plan \in Plans
  BY DEF IInv, Types
<1>2. MayCall({"ask"})
  BY DEF AskReplayed, TryImportedSettle, AskLive, MissesImport
<1>3. /\ i \in Calls(run) /\ i \in Nat /\ a \in Actors /\ engine = "live" /\ run \in Runs
      /\ NextCall = Scripts[run][i] /\ NextCall.hash \in Hashes
  <2>1. /\ i \in Calls(run) /\ issued \in Nat /\ engine = "live" /\ run \in Runs
        /\ NextCall = Scripts[run][i] /\ NextCall.op \in {"ask"} /\ NextCall.hash \in Hashes
        /\ NextCall.op = "ask" => NextCall.who \in Actors
    BY <1>2, CallIs
  <2> QED
    BY <2>1
<1>4. i \in AsksIn(run, a)
  BY <1>3 DEF AsksIn
<1>5. seq \in Nat
  BY <1>1, <1>3, <1>4, ActorSeqIs
<1> HIDE DEF i, a, seq
<1>6. \A h, live : live \in BOOLEAN /\ cursor' = ReconcileRecorded(a, seq, h, live) =>
          CursorMoves(a, seq, ~ live /\ HasEntry(a, seq) /\ EntryAt(a, seq).hash = h)
  <2>1. ASSUME NEW h, NEW live \in BOOLEAN, cursor' = ReconcileRecorded(a, seq, h, live)
        PROVE  CursorMoves(a, seq, ~ live /\ HasEntry(a, seq) /\ EntryAt(a, seq).hash = h)
    BY <1>1, <1>3, <1>5, <2>1, ReconcileIs DEF CursorMoves
  <2> QED
    BY <2>1
<1>7. ASSUME AskReplayed
      PROVE  CursorMoves(a, seq,
                 i \notin wasLive /\ HasEntry(a, seq) /\ EntryAt(a, seq).hash = NextCall.hash)
  <2>1. cursor' = ReconcileRecorded(a, seq, NextCall.hash, i \in wasLive)
    BY <1>7 DEF AskReplayed, a, i, seq
  <2>2. (i \in wasLive) \in BOOLEAN
    OBVIOUS
  <2>3. CursorMoves(a, seq, i \notin wasLive /\ HasEntry(a, seq) /\ EntryAt(a, seq).hash = NextCall.hash)
    BY <1>6, <2>1, <2>2
  <2> QED
    BY <2>3 DEF CursorMoves
<1>8. ASSUME TryImportedSettle PROVE CursorMoves(a, seq, TRUE)
  <2>1. Follows(a, seq, NextCall.hash) /\ cursor' = Consume(a, seq)
    BY <1>8 DEF TryImportedSettle, a, i, seq
  <2>2. ~ cursor[a].diverged /\ HasEntry(a, seq) /\ EntryAt(a, seq).hash = NextCall.hash
    BY <2>1 DEF Follows, Usable
  <2>3. cursor' = ReconcileRecorded(a, seq, NextCall.hash, FALSE)
    BY <2>1, <2>2 DEF ReconcileRecorded
  <2>4. CursorMoves(a, seq, ~ FALSE /\ HasEntry(a, seq) /\ EntryAt(a, seq).hash = NextCall.hash)
    BY <1>6, <2>3
  <2> QED
    BY <2>2, <2>4 DEF CursorMoves
<1>9. ASSUME AskLive PROVE CursorMoves(a, seq, FALSE)
  <2>1. cursor' = Diverge(a)
    BY <1>9 DEF AskLive, a
  <2>2. cursor' = ReconcileRecorded(a, seq, NextCall.hash, TRUE)
    <3>1. CASE cursor[a].diverged
      <4>1. cursor \in [Actors -> [consumed : Nat, diverged : BOOLEAN]]
        BY <1>1 DEF CursorTyped
      <4>2. cursor[a].diverged = TRUE
        BY <1>3, <3>1, <4>1
      <4>3. Diverge(a) = cursor
        BY <1>3, <4>1, <4>2 DEF Diverge
      <4> QED
        BY <2>1, <3>1, <4>3 DEF ReconcileRecorded
    <3>2. CASE ~ cursor[a].diverged
      BY <2>1, <3>2 DEF ReconcileRecorded
    <3> QED
      BY <3>1, <3>2
  <2>3. CursorMoves(a, seq, ~ TRUE /\ HasEntry(a, seq) /\ EntryAt(a, seq).hash = NextCall.hash)
    BY <1>6, <2>2
  <2> QED
    BY <2>3 DEF CursorMoves
<1>10. /\ AskReplayed => CursorMoves(a, seq,
              i \notin wasLive /\ HasEntry(a, seq) /\ EntryAt(a, seq).hash = NextCall.hash)
       /\ TryImportedSettle => CursorMoves(a, seq, TRUE)
       /\ AskLive => CursorMoves(a, seq, FALSE)
  BY <1>7, <1>8, <1>9
<1> QED
  BY <1>3, <1>4, <1>5, <1>10 DEF i, a, seq

LEMMA CursorTypedKept ==
    ASSUME IInv, [Next]_vars
    PROVE  CursorTyped'
<1>1. CursorTyped /\ CacheTyped /\ plan \in Plans
  BY DEF IInv, Types
<1>2. CASE UNCHANGED <<cache, cursor, used, shut>>
  BY <1>1, <1>2 DEF CursorTyped
<1>3. CASE RunEnds \/ Amend \/ Crash \/ CrashInAdmission \/ Resume
  BY <1>3, EnginesTyped
<1>4. CASE AskReplayed \/ TryImportedSettle \/ AskLive
  <2> DEFINE a == NextCall.who
  <2>1. \E follows : CursorMoves(a, ActorSeq(run, issued + 1), follows)
    BY <1>4, AskIs
  <2>2. /\ cursor' \in [Actors -> [consumed : Nat, diverged : BOOLEAN]]
        /\ \A b \in Actors : b # a => cursor'[b] = cursor[b]
        /\ cursor'[a].consumed <= Len(cache.entries[a])
    BY <2>1 DEF CursorMoves
  <2>3. UNCHANGED <<cache, used, shut>>
    BY <1>4, AskReplayedFrame, TryImportedSettleFrame, AskLiveFrame
  <2> HIDE DEF a
  <2>4. \A b \in Actors : cursor'[b].consumed <= Len(cache.entries[b])
    BY <1>1, <2>2 DEF CursorTyped
  <2> QED
    BY <1>1, <2>2, <2>3, <2>4 DEF CursorTyped
<1>5. CASE WorldImported
  <2> DEFINE h == NextCall.hash
  <2>1. used' = [used EXCEPT ![h] = @ + 1] /\ used[h] < Len(cache.world[h]) /\ MayCall({"read", "run"})
    BY <1>5 DEF WorldImported, WorldImportLeft
  <2>2. h \in Hashes
    BY <2>1, CallIs
  <2> HIDE DEF h
  <2>3. used[h] \in Nat /\ Len(cache.world[h]) \in Nat
    BY <1>1, <2>2 DEF CursorTyped, CacheTyped
  <2>4. used' \in [Hashes -> Nat] /\ \A g \in Hashes : used'[g] <= Len(cache.world[g])
    BY <1>1, <2>1, <2>2, <2>3 DEF CursorTyped
  <2> QED
    BY <1>1, <1>5, <2>4, WorldImportedFrame DEF CursorTyped
<1>6. CASE WorldLive \/ \E a \in Actors : WritesWorkspace(a)
  <2>1. shut' \in {shut, TRUE}
    BY <1>6 DEF WorldLive, WritesWorkspace, CloseImportCache, KeepImportCache
  <2>2. UNCHANGED <<cache, cursor, used>>
    BY <1>6, WorldLiveFrame, WritesWorkspaceFrame
  <2> QED
    BY <1>1, <2>1, <2>2 DEF CursorTyped
<1>20. CASE WorldReplayed \/ UNCHANGED vars
  BY <1>2, <1>20, WorldReplayedFrame DEF vars, durable, progress, imports, working,
     driver, ghosts
<1>21. CASE \E a \in Actors : \/ OpenSession(a) \/ StartAsk(a) \/ TurnBegins(a)
                              \/ ReadsWorkspace(a) \/ SubmitAccepted(a) \/ UntypedTurnEnds(a)
                              \/ TurnFails(a)
  BY <1>2, <1>21, OpenSessionFrame, StartAskFrame, TurnBeginsFrame, ReadsWorkspaceFrame,
     SubmitAcceptedFrame, UntypedTurnEndsFrame, TurnFailsFrame
<1>22. CASE \E r \in Runs, a \in Actors : \/ SeedMessage(r, a) \/ SessionOpens(r, a) \/ AcceptedTurnEnds(r, a)
  BY <1>2, <1>22, SeedMessageFrame, SessionOpensFrame, AcceptedTurnEndsFrame
<1>23. CASE \E i \in worldBusy : SettleWorldRead(i)
  BY <1>2, <1>23, SettleWorldReadFrame
<1> QED
  BY <1>3, <1>4, <1>5, <1>6, <1>20, <1>21, <1>22, <1>23, StepKinds

\* Admitting an ask, and the end of one, as the queue of a subagent sees it.
PumpIs(a, i) ==
    /\ \A b \in Actors \ {a} : queue'[b] = queue[b] /\ current'[b] = current[b]
    /\ IF current[a] = NoCall
       THEN /\ current'[a] = Head(Append(queue[a], i))
            /\ queue'[a] = Tail(Append(queue[a], i))
       ELSE current'[a] = current[a] /\ queue'[a] = Append(queue[a], i)
SettleIs(a) ==
    /\ \A b \in Actors \ {a} : queue'[b] = queue[b] /\ current'[b] = current[b]
    /\ IF queue[a] = <<>>
       THEN current'[a] = NoCall /\ queue'[a] = <<>>
       ELSE current'[a] = Head(queue[a]) /\ queue'[a] = Tail(queue[a])

LEMMA QueueIs ==
    ASSUME WorkTyped, NEW a \in Actors, NEW i \in Nat
    PROVE  /\ Pump(a, Append(queue[a], i)) =>
                  /\ PumpIs(a, i)
                  /\ queue' \in [Actors -> Seq(Nat)] /\ current' \in [Actors -> Nat]
           /\ \A j, row : Settle(j, a, row) =>
                  /\ SettleIs(a)
                  /\ queue' \in [Actors -> Seq(Nat)] /\ current' \in [Actors -> Nat]
<1>1. /\ queue \in [Actors -> Seq(Nat)] /\ current \in [Actors -> Nat]
      /\ queue[a] \in Seq(Nat) /\ Append(queue[a], i) \in Seq(Nat) /\ Append(queue[a], i) # <<>>
  <2>1. queue \in [Actors -> Seq(Nat)] /\ current \in [Actors -> Nat]
    BY DEF WorkTyped
  <2>2. queue[a] \in Seq(Nat)
    BY <2>1
  <2> DEFINE q == queue[a]
  <2> HIDE DEF q
  <2>3. q \in Seq(Nat)
    BY <2>2 DEF q
  <2>4. Append(q, i) \in Seq(Nat) /\ Len(Append(q, i)) = Len(q) + 1 /\ Len(q) \in Nat
    BY <2>3
  <2>5. Append(q, i) # <<>>
    BY <2>4, EmptyIs
  <2> QED
    BY <2>1, <2>2, <2>4, <2>5 DEF q
<1> DEFINE w == Append(queue[a], i)
<1>2. Head(w) \in Nat /\ Tail(w) \in Seq(Nat)
  BY <1>1
<1>3. ASSUME Pump(a, w)
      PROVE  /\ PumpIs(a, i)
             /\ queue' \in [Actors -> Seq(Nat)] /\ current' \in [Actors -> Nat]
  <2> HIDE DEF w
  <2>1. CASE current[a] = 0
    <3>1. /\ current' = [current EXCEPT ![a] = Head(w)] /\ queue' = [queue EXCEPT ![a] = Tail(w)]
      BY <1>3, <2>1 DEF Pump, NoCall
    <3> QED
      BY <1>1, <1>2, <2>1, <3>1 DEF PumpIs, w, NoCall
  <2>2. CASE current[a] # 0
    <3>1. current' = current /\ queue' = [queue EXCEPT ![a] = w]
      BY <1>3, <2>2 DEF Pump, NoCall
    <3> QED
      BY <1>1, <2>2, <3>1 DEF PumpIs, w, NoCall
  <2> QED
    BY <2>1, <2>2
<1>4. ASSUME NEW j, NEW row, Settle(j, a, row)
      PROVE  /\ SettleIs(a)
             /\ queue' \in [Actors -> Seq(Nat)] /\ current' \in [Actors -> Nat]
  <2>1. /\ current' = [current EXCEPT ![a] = IF queue[a] = <<>> THEN 0 ELSE Head(queue[a])]
        /\ queue' = [queue EXCEPT ![a] = IF queue[a] = <<>> THEN queue[a] ELSE Tail(queue[a])]
    BY <1>4 DEF Settle, NoCall
  <2>2. queue[a] # <<>> => Head(queue[a]) \in Nat /\ Tail(queue[a]) \in Seq(Nat)
    BY <1>1
  <2> QED
    BY <1>1, <2>1, <2>2 DEF SettleIs, NoCall
<1> QED
  BY <1>3, <1>4

LEMMA WorkTypedKept ==
    ASSUME IInv, [Next]_vars
    PROVE  WorkTyped'
<1>1. WorkTyped /\ issued \in Nat
  BY DEF IInv, Types, ProgressTyped
<1>2. CASE UNCHANGED <<queue, current, worldBusy, issued>>
  BY <1>1, <1>2 DEF WorkTyped
<1>3. CASE RunEnds \/ Amend \/ Crash \/ CrashInAdmission \/ Resume
  BY <1>3, EnginesTyped
<1>4. CASE AskReplayed \/ TryImportedSettle \/ AskLive
  <2>1. NextCall.who \in Actors /\ issued + 1 \in Nat
    BY <1>4, AskIs
  <2>2. \/ UNCHANGED <<queue, current>>
        \/ Pump(NextCall.who, Append(queue[NextCall.who], issued + 1))
    BY <1>4, TryImportedSettleFrame DEF AskReplayed, AskLive, AdmitLive
  <2>3. queue' \in [Actors -> Seq(Nat)] /\ current' \in [Actors -> Nat]
    BY <1>1, <2>1, <2>2, QueueIs DEF WorkTyped
  <2>4. worldBusy' = worldBusy /\ issued' = issued + 1
    BY <1>4, AskReplayedFrame, TryImportedSettleFrame, AskLiveFrame
       DEF AskReplayed, TryImportedSettle, AskLive, AdmitLive, Answered, Pending
  <2> QED
    BY <1>1, <2>3, <2>4 DEF WorkTyped
<1>5. CASE WorldReplayed \/ WorldImported \/ WorldLive
  <2>1. /\ UNCHANGED <<queue, current>> /\ issued' = issued + 1
        /\ worldBusy' \in {worldBusy, worldBusy \union {issued + 1}}
    BY <1>5, WorldReplayedFrame, WorldImportedFrame, WorldLiveFrame
       DEF WorldReplayed, WorldImported, WorldLive, Answered, Pending
  <2> QED
    BY <1>1, <2>1 DEF WorkTyped
<1>6. ASSUME NEW i \in worldBusy, SettleWorldRead(i)
      PROVE  WorkTyped'
  <2>1. worldBusy' = worldBusy \ {i} /\ UNCHANGED <<queue, current, issued>>
    BY <1>6, SettleWorldReadFrame DEF SettleWorldRead
  <2> QED
    BY <1>1, <2>1 DEF WorkTyped
<1>7. ASSUME NEW a \in Actors, SubmitAccepted(a) \/ UntypedTurnEnds(a) \/ TurnFails(a)
      PROVE  WorkTyped'
  <2>1. \E j, row : Settle(j, a, row)
    BY <1>7 DEF SubmitAccepted, UntypedTurnEnds, TurnFails
  <2>2. queue' \in [Actors -> Seq(Nat)] /\ current' \in [Actors -> Nat]
    BY <1>1, <2>1, QueueIs
  <2>3. UNCHANGED <<worldBusy, issued>>
    BY <1>7, SubmitAcceptedFrame, UntypedTurnEndsFrame, TurnFailsFrame
  <2> QED
    BY <1>1, <2>2, <2>3 DEF WorkTyped
<1>20. CASE UNCHANGED vars
  BY <1>2, <1>20 DEF vars, durable, progress, imports, working,
     driver, ghosts
<1>21. CASE \E a \in Actors : \/ OpenSession(a) \/ StartAsk(a) \/ TurnBegins(a)
                              \/ ReadsWorkspace(a) \/ WritesWorkspace(a)
  BY <1>2, <1>21, OpenSessionFrame, StartAskFrame, TurnBeginsFrame, ReadsWorkspaceFrame,
     WritesWorkspaceFrame
<1>22. CASE \E r \in Runs, a \in Actors : \/ SeedMessage(r, a) \/ SessionOpens(r, a) \/ AcceptedTurnEnds(r, a)
  BY <1>2, <1>22, SeedMessageFrame, SessionOpensFrame, AcceptedTurnEndsFrame
<1> QED
  BY <1>3, <1>4, <1>5, <1>6, <1>7, <1>20, <1>21, <1>22, StepKinds

-----------------------------------------------------------------------------
\* Sessions, turns and what is observed

LEMMA SeedTyped ==
    ASSUME CacheTyped, CursorTyped, NEW a \in Actors
    PROVE  /\ Seed(a) \in Seeds
           /\ Seed(a) = IF cursor[a].consumed = 0 THEN NoSeed
                        ELSE [source |-> cache.source[a],
                              length |-> cache.entries[a][cursor[a].consumed].boundary]
<1>1. /\ cache.entries[a] \in Seq(Entries) /\ cache.source[a] \in Nat
      /\ cursor[a].consumed \in Nat /\ cursor[a].consumed <= Len(cache.entries[a])
  BY DEF CacheTyped, CursorTyped
<1> DEFINE n == cursor[a].consumed
<1>2. n # 0 => cache.entries[a][n] \in Entries
  <2> HIDE DEF n
  <2>1. n \in Nat /\ n <= Len(cache.entries[a])
    BY <1>1 DEF n
  <2> QED
    BY <1>1, <2>1
<1> QED
  BY <1>1, <1>2 DEF Seed, NoSeed, Seeds, Entries

LEMMA UnopenedTyped == Unopened \in Copies /\ Unopened.copied = 0 /\ Unopened.seed.length = 0
                       /\ Unopened.state = "none"
<1>1. 0 \in Nat
  OBVIOUS
<1> QED
  BY <1>1 DEF Unopened, Copies, NoSeed, Seeds

\* Only the session of a in run r changes.
SessionsOnly(r, a, s) ==
    /\ session'[r][a] = s
    /\ \A q \in Runs : \A b \in Actors :
           ~ (q = r /\ b = a) => session'[q][b] = session[q][b]

LEMMA SessionIs ==
    ASSUME SessionTyped, NEW r \in Runs, NEW a \in Actors, NEW s \in Copies, SetSession(r, a, s)
    PROVE  /\ session' \in [Runs -> [Actors -> Copies]]
           /\ SessionsOnly(r, a, s)
BY DEF SetSession, SessionTyped, SessionsOnly

\* What a step makes of the sessions.
LEMMA SessionsAre ==
    ASSUME IInv, [Next]_vars
    PROVE  /\ session' \in [Runs -> [Actors -> Copies]]
           /\ \/ UNCHANGED session
              \/ session' = PerRun(Unopened) /\ (Crash \/ CrashInAdmission)
              \/ /\ RunEnds
                 /\ \A r \in Runs \ {run} : session'[r] = session[r]
                 /\ \A a \in Actors : session'[run][a] =
                        IF session[run][a].state = "open" THEN Unopened ELSE session[run][a]
              \/ \E a \in Actors :
                     /\ OpenSession(a) /\ session[run][a].state = "none"
                     /\ SessionsOnly(run, a, [state |-> "seeding", seed |-> Seed(a), copied |-> 0])
              \/ \E r \in Runs, a \in Actors :
                     /\ SeedMessage(r, a)
                     /\ SessionsOnly(r, a,
                            [state |-> "seeding", seed |-> session[r][a].seed,
                             copied |-> session[r][a].copied + 1])
              \/ \E r \in Runs, a \in Actors :
                     /\ SessionOpens(r, a) /\ session[r][a].state = "seeding" /\ ~ Copying(r, a)
                     /\ SessionsOnly(r, a, [state |-> "open", seed |-> NoSeed, copied |-> 0])
<1>1. /\ SessionTyped /\ CacheTyped /\ CursorTyped /\ run \in Runs
      /\ StoreTyped /\ session \in [Runs -> [Actors -> Copies]]
  BY DEF IInv, Types, ProgressTyped, SessionTyped
<1>2. ASSUME UNCHANGED session
      PROVE  session' \in [Runs -> [Actors -> Copies]] /\ UNCHANGED session
  BY <1>1, <1>2
<1>3. CASE Crash \/ CrashInAdmission
  <2>1. session' = PerRun(Unopened)
    BY <1>3 DEF Crash, CrashInAdmission, ProcessDies
  <2>2. session' \in [Runs -> [Actors -> Copies]]
    BY <2>1, UnopenedTyped DEF PerRun, PerActor
  <2> QED
    BY <1>3, <2>1, <2>2
<1>4. CASE RunEnds
  <2>1. session' = [session EXCEPT ![run] = [a \in Actors |->
            IF session[run][a].state = "open" THEN Unopened ELSE session[run][a]]]
    BY <1>4 DEF RunEnds
  <2> DEFINE f == [a \in Actors |->
            IF session[run][a].state = "open" THEN Unopened ELSE session[run][a]]
  <2>2. f \in [Actors -> Copies]
    BY <1>1, UnopenedTyped
  <2>3. /\ session' \in [Runs -> [Actors -> Copies]] /\ session'[run] = f
        /\ \A r \in Runs \ {run} : session'[r] = session[r]
    <3> HIDE DEF f
    <3>1. session' = [session EXCEPT ![run] = f]
      BY <2>1 DEF f
    <3> QED
      BY <1>1, <2>2, <3>1
  <2> QED
    BY <1>4, <2>3
<1>5. ASSUME NEW a \in Actors, OpenSession(a)
      PROVE  /\ session' \in [Runs -> [Actors -> Copies]] /\ session[run][a].state = "none"
             /\ SessionsOnly(run, a, [state |-> "seeding", seed |-> Seed(a), copied |-> 0])
  <2> DEFINE s == [state |-> "seeding", seed |-> Seed(a), copied |-> 0]
  <2>1. SetSession(run, a, s) /\ session[run][a].state = "none"
    BY <1>5 DEF OpenSession
  <2>2. s \in Copies
    BY <1>1, SeedTyped DEF Copies
  <2> HIDE DEF s
  <2>3. session' \in [Runs -> [Actors -> Copies]] /\ SessionsOnly(run, a, s)
    BY <1>1, <2>1, <2>2, SessionIs
  <2> QED
    BY <2>1, <2>3 DEF s
<1>6. ASSUME NEW r \in Runs, NEW a \in Actors, SeedMessage(r, a)
      PROVE  /\ session' \in [Runs -> [Actors -> Copies]]
             /\ SessionsOnly(r, a, [state |-> "seeding", seed |-> session[r][a].seed,
                                    copied |-> session[r][a].copied + 1])
  <2> DEFINE s == [state |-> "seeding", seed |-> session[r][a].seed,
                   copied |-> session[r][a].copied + 1]
             o == session[r][a]
  <2>1. SetSession(r, a, [o EXCEPT !.copied = o.copied + 1]) /\ o.state = "seeding"
    BY <1>6 DEF SeedMessage, Copying
  <2>2. o \in Copies
    BY <1>1
  <2>3. s \in Copies /\ s = [o EXCEPT !.copied = o.copied + 1]
    <3> HIDE DEF o
    <3>1. o.copied + 1 \in Nat /\ o.seed \in Seeds
      BY <2>2 DEF Copies
    <3>2. [o EXCEPT !.copied = o.copied + 1]
              = [state |-> "seeding", seed |-> o.seed, copied |-> o.copied + 1]
      BY <2>1, <2>2 DEF Copies
    <3>3. [state |-> "seeding", seed |-> o.seed, copied |-> o.copied + 1] \in Copies
      BY <3>1 DEF Copies
    <3> QED
      BY <3>2, <3>3 DEF o
  <2> HIDE DEF s, o
  <2>4. session' \in [Runs -> [Actors -> Copies]] /\ SessionsOnly(r, a, s)
    BY <1>1, <2>1, <2>3, SessionIs
  <2> QED
    BY <2>4 DEF s
<1>7. ASSUME NEW r \in Runs, NEW a \in Actors, SessionOpens(r, a)
      PROVE  /\ session' \in [Runs -> [Actors -> Copies]]
             /\ session[r][a].state = "seeding" /\ ~ Copying(r, a)
             /\ SessionsOnly(r, a, [state |-> "open", seed |-> NoSeed, copied |-> 0])
  <2> DEFINE s == [state |-> "open", seed |-> NoSeed, copied |-> 0]
  <2>1. SetSession(r, a, s) /\ session[r][a].state = "seeding" /\ ~ Copying(r, a)
    BY <1>7 DEF SessionOpens
  <2>2. s \in Copies
    BY UnopenedTyped DEF Copies, NoSeed, Seeds
  <2> HIDE DEF s
  <2>3. session' \in [Runs -> [Actors -> Copies]] /\ SessionsOnly(r, a, s)
    BY <1>1, <2>1, <2>2, SessionIs
  <2> QED
    BY <2>1, <2>3 DEF s
<1>8. CASE \E a \in Actors : OpenSession(a)
  BY <1>5, <1>8
<1>9. CASE \E r \in Runs, a \in Actors : SeedMessage(r, a)
  BY <1>6, <1>9
<1>10. CASE \E r \in Runs, a \in Actors : SessionOpens(r, a)
  BY <1>7, <1>10
<1>20. CASE \/ AskReplayed \/ TryImportedSettle \/ AskLive
            \/ WorldReplayed \/ WorldImported \/ WorldLive
            \/ Amend \/ Resume \/ UNCHANGED vars
  BY <1>2, <1>20, AskReplayedFrame, TryImportedSettleFrame, AskLiveFrame,
     WorldReplayedFrame, WorldImportedFrame, WorldLiveFrame, AmendFrame, ResumeFrame DEF vars, durable, progress, imports, working,
     driver, ghosts
<1>21. CASE \E a \in Actors : \/ StartAsk(a) \/ TurnBegins(a) \/ ReadsWorkspace(a)
                              \/ WritesWorkspace(a) \/ SubmitAccepted(a) \/ UntypedTurnEnds(a)
                              \/ TurnFails(a)
  BY <1>2, <1>21, StartAskFrame, TurnBeginsFrame, ReadsWorkspaceFrame, WritesWorkspaceFrame,
     SubmitAcceptedFrame, UntypedTurnEndsFrame, TurnFailsFrame
<1>22. CASE \E r \in Runs, a \in Actors : AcceptedTurnEnds(r, a)
  BY <1>2, <1>22, AcceptedTurnEndsFrame
<1>23. CASE \E i \in worldBusy : SettleWorldRead(i)
  BY <1>2, <1>23, SettleWorldReadFrame
<1> QED
  BY <1>3, <1>4, <1>8, <1>9, <1>10, <1>20, <1>21, <1>22, <1>23, StepKinds

LEMMA SessionTypedKept ==
    ASSUME IInv, [Next]_vars
    PROVE  SessionTyped'
<1>1. /\ SessionTyped /\ run \in Runs /\ StoreTyped
      /\ CacheTyped /\ CursorTyped
  BY DEF IInv, Types, ProgressTyped
<1>2. \A r \in Runs : \A a \in Actors : session[r][a].copied <= session[r][a].seed.length
  BY <1>1 DEF SessionTyped
<1> DEFINE Goal == \A r \in Runs : \A a \in Actors :
                       session'[r][a].copied <= session'[r][a].seed.length
<1>3. ASSUME NEW r \in Runs, NEW a \in Actors, NEW s, SessionsOnly(r, a, s),
             s.copied <= s.seed.length
      PROVE  Goal
  <2>1. ASSUME NEW q \in Runs, NEW b \in Actors
        PROVE  session'[q][b].copied <= session'[q][b].seed.length
    BY <1>2, <1>3 DEF SessionsOnly
  <2> QED
    BY <2>1
<1>4. Goal
  <2>1. CASE UNCHANGED session
    BY <1>2, <2>1
  <2>2. CASE session' = PerRun(Unopened)
    BY <2>2, UnopenedTyped DEF PerRun, PerActor
  <2>3. CASE /\ \A r \in Runs \ {run} : session'[r] = session[r]
             /\ \A a \in Actors : session'[run][a] =
                    IF session[run][a].state = "open" THEN Unopened ELSE session[run][a]
    BY <1>2, <2>3, UnopenedTyped
  <2>4. ASSUME NEW a \in Actors,
               SessionsOnly(run, a, [state |-> "seeding", seed |-> Seed(a), copied |-> 0])
        PROVE  Goal
    <3> DEFINE s == [state |-> "seeding", seed |-> Seed(a), copied |-> 0]
    <3>1. Seed(a).length \in Nat
      BY <1>1, SeedTyped DEF Seeds
    <3>2. s.copied <= s.seed.length
      BY <3>1
    <3> HIDE DEF s, Goal
    <3> QED
      BY <1>1, <1>3, <2>4, <3>2 DEF s
  <2>5. ASSUME NEW r \in Runs, NEW a \in Actors, SeedMessage(r, a),
               SessionsOnly(r, a, [state |-> "seeding", seed |-> session[r][a].seed,
                                   copied |-> session[r][a].copied + 1])
        PROVE  Goal
    <3> DEFINE s == [state |-> "seeding", seed |-> session[r][a].seed,
                     copied |-> session[r][a].copied + 1]
    <3>1. session[r][a].copied \in Nat /\ session[r][a].seed.length \in Nat
          /\ session[r][a].copied < session[r][a].seed.length
      BY <1>1, <2>5, SeedIs
    <3>2. s.copied <= s.seed.length
      BY <3>1
    <3> HIDE DEF s, Goal
    <3> QED
      BY <1>3, <2>5, <3>2 DEF s
  <2>6. ASSUME NEW r \in Runs, NEW a \in Actors,
               SessionsOnly(r, a, [state |-> "open", seed |-> NoSeed, copied |-> 0])
        PROVE  Goal
    <3> DEFINE s == [state |-> "open", seed |-> NoSeed, copied |-> 0]
    <3>1. s.copied <= s.seed.length
      BY DEF NoSeed
    <3> HIDE DEF s, Goal
    <3> QED
      BY <1>3, <2>6, <3>1 DEF s
  <2> HIDE DEF Goal
  <2> QED
    BY <2>1, <2>2, <2>3, <2>4, <2>5, <2>6, SessionsAre
<1>5. session' \in [Runs -> [Actors -> Copies]]
  BY SessionsAre
<1>6. Runs' = Runs
  BY StepKinds
<1> QED
  BY <1>4, <1>5, <1>6 DEF SessionTyped

\* Only the turns of a in run r change.
TurnsOnly(r, a) ==
    /\ turns' \in [Runs -> [Actors -> Seq(Turns)]]
    /\ \A q \in Runs : \A b \in Actors :
           ~ (q = r /\ b = a) => turns'[q][b] = turns[q][b]

\* What a step makes of the queues of turns.
LEMMA TurnsAre ==
    ASSUME IInv, [Next]_vars
    PROVE  \/ UNCHANGED <<turns, asked>>
           \/ /\ Crash \/ CrashInAdmission
              /\ turns' = PerRun(<<>>) /\ asked' = PerRun(NoCall)
           \/ /\ RunEnds
              /\ \A r \in Runs \ {run} : turns'[r] = turns[r]
              /\ \A a \in Actors : turns'[run][a] =
                     IF turns[run][a] # <<>> /\ Head(turns[run][a]).accepted
                     THEN <<Head(turns[run][a])>> ELSE <<>>
           \/ \E a \in Actors :
                  /\ StartAsk(a) /\ TurnsOnly(run, a)
                  /\ turns'[run][a] = Append(turns[run][a], Turn(current[a]))
                  /\ asked'[run][a] = current[a]
                  /\ \A b \in Actors \ {a} : asked'[run][b] = asked[run][b]
           \/ \E a \in Actors :
                  /\ TurnBegins(a) /\ TurnsOnly(run, a) /\ asked' = asked
                  /\ turns[run][a] # <<>> /\ ~ Head(turns[run][a]).begun
                  /\ turns'[run][a] = [turns[run][a] EXCEPT ![1].begun = TRUE]
           \/ \E a \in Actors :
                  /\ SubmitAccepted(a) /\ TurnsOnly(run, a) /\ asked' = asked
                  /\ turns'[run][a] = [turns[run][a] EXCEPT ![1].accepted = TRUE]
           \/ \E a \in Actors :
                  /\ UntypedTurnEnds(a) \/ TurnFails(a)
                  /\ TurnsOnly(run, a) /\ asked' = asked
                  /\ turns'[run][a] = Tail(turns[run][a])
           \/ \E r \in Runs, a \in Actors :
                  /\ AcceptedTurnEnds(r, a) /\ TurnsOnly(r, a) /\ asked' = asked
                  /\ turns[r][a] # <<>> /\ Head(turns[r][a]).accepted
                  /\ turns'[r][a] = Tail(turns[r][a])
<1>1. /\ TurnsTyped /\ run \in Runs /\ WorkTyped
      /\ turns \in [Runs -> [Actors -> Seq(Turns)]] /\ asked \in [Runs -> [Actors -> Nat]]
  BY DEF IInv, Types, ProgressTyped, TurnsTyped
<1>2. CASE UNCHANGED <<turns, asked>>
  BY <1>2
<1>3. CASE Crash \/ CrashInAdmission
  BY <1>3 DEF Crash, CrashInAdmission, ProcessDies
<1>4. ASSUME NEW r \in Runs, NEW a \in Actors, NEW w \in Seq(Turns),
             turns' = [turns EXCEPT ![r][a] = w]
      PROVE  TurnsOnly(r, a) /\ turns'[r][a] = w
  BY <1>1, <1>4 DEF TurnsOnly
<1>5. CASE RunEnds
  <2> DEFINE f == [a \in Actors |->
                    IF turns[run][a] # <<>> /\ Head(turns[run][a]).accepted
                    THEN <<Head(turns[run][a])>> ELSE <<>>]
  <2>1. turns' = [turns EXCEPT ![run] = f]
    BY <1>5 DEF RunEnds
  <2>2. \A r \in Runs \ {run} : turns'[r] = turns[r]
    BY <1>1, <2>1
  <2>3. turns'[run] = f
    <3> HIDE DEF f
    <3> QED
      BY <1>1, <2>1
  <2>4. \A a \in Actors : turns'[run][a] =
            IF turns[run][a] # <<>> /\ Head(turns[run][a]).accepted
            THEN <<Head(turns[run][a])>> ELSE <<>>
    BY <2>3
  <2> QED
    BY <1>5, <2>2, <2>4
<1>6. ASSUME NEW a \in Actors, StartAsk(a)
      PROVE  /\ TurnsOnly(run, a)
             /\ turns'[run][a] = Append(turns[run][a], Turn(current[a]))
             /\ asked'[run][a] = current[a]
             /\ \A b \in Actors \ {a} : asked'[run][b] = asked[run][b]
  <2>1. /\ turns' = [turns EXCEPT ![run][a] = Append(turns[run][a], Turn(current[a]))]
        /\ asked' = [asked EXCEPT ![run][a] = current[a]]
    BY <1>6 DEF StartAsk
  <2>2. turns[run][a] \in Seq(Turns) /\ current[a] \in Nat
    BY <1>1 DEF WorkTyped
  <2>3. Append(turns[run][a], Turn(current[a])) \in Seq(Turns)
    BY <2>2 DEF Turn, Turns
  <2>4. asked'[run][a] = current[a] /\ \A b \in Actors \ {a} : asked'[run][b] = asked[run][b]
    BY <1>1, <2>1
  <2> QED
    BY <1>1, <1>4, <2>1, <2>3, <2>4
<1>7. ASSUME NEW a \in Actors, NEW t \in Turns, turns[run][a] # <<>>
      PROVE  [turns[run][a] EXCEPT ![1] = t] \in Seq(Turns)
  <2> DEFINE w == turns[run][a]
  <2>1. w \in Seq(Turns)
    BY <1>1
  <2> HIDE DEF w
  <2>2. [w EXCEPT ![1] = t] \in Seq(Turns)
    <3> DEFINE n == Len(w)
               v == [w EXCEPT ![1] = t]
    <3>1. n \in Nat /\ w \in [1 .. n -> Turns]
      BY <2>1
    <3> HIDE DEF n
    <3>2. v \in [1 .. n -> Turns]
      BY <3>1
    <3> HIDE DEF v
    <3>3. v \in Seq(Turns)
      BY <3>1, <3>2
    <3> QED
      BY <3>3 DEF v
  <2> QED
    BY <2>2 DEF w
<1>8. ASSUME NEW a \in Actors, TurnBegins(a)
      PROVE  /\ TurnsOnly(run, a) /\ asked' = asked
             /\ turns[run][a] # <<>> /\ ~ Head(turns[run][a]).begun
             /\ turns'[run][a] = [turns[run][a] EXCEPT ![1].begun = TRUE]
  <2> DEFINE w == turns[run][a]
             t == [w[1] EXCEPT !.begun = TRUE]
  <2>1. /\ turns' = [turns EXCEPT ![run][a] = [w EXCEPT ![1] = t]]
        /\ w # <<>> /\ ~ Head(w).begun /\ asked' = asked
    BY <1>8 DEF TurnBegins
  <2>2. w \in Seq(Turns)
    BY <1>1
  <2>3. w[1] \in Turns
    BY <2>1, <2>2
  <2>4. t \in Turns
    BY <2>3 DEF Turns
  <2>5. [w EXCEPT ![1] = t] \in Seq(Turns)
    BY <1>7, <2>1, <2>4
  <2> QED
    BY <1>1, <1>4, <2>1, <2>5
<1>9. ASSUME NEW a \in Actors, SubmitAccepted(a)
      PROVE  /\ TurnsOnly(run, a) /\ asked' = asked
             /\ turns'[run][a] = [turns[run][a] EXCEPT ![1].accepted = TRUE]
  <2> DEFINE w == turns[run][a]
             t == [w[1] EXCEPT !.accepted = TRUE]
  <2>1. /\ turns' = [turns EXCEPT ![run][a] = [w EXCEPT ![1] = t]]
        /\ InTurn(a) /\ asked' = asked
    BY <1>9 DEF SubmitAccepted
  <2>2. w \in Seq(Turns) /\ w # <<>>
    BY <1>1, <2>1 DEF InTurn
  <2>3. w[1] \in Turns
    BY <2>2
  <2>4. t \in Turns
    BY <2>3 DEF Turns
  <2>5. [w EXCEPT ![1] = t] \in Seq(Turns)
    BY <1>7, <2>2, <2>4
  <2> QED
    BY <1>1, <1>4, <2>1, <2>5
<1>10. ASSUME NEW a \in Actors, UntypedTurnEnds(a) \/ TurnFails(a)
       PROVE  /\ TurnsOnly(run, a) /\ asked' = asked
              /\ turns'[run][a] = Tail(turns[run][a])
  <2>1. /\ turns' = [turns EXCEPT ![run][a] = Tail(turns[run][a])]
        /\ InTurn(a) /\ asked' = asked
    BY <1>10 DEF UntypedTurnEnds, TurnFails
  <2>2. Tail(turns[run][a]) \in Seq(Turns)
    BY <1>1, <2>1 DEF InTurn
  <2> QED
    BY <1>1, <1>4, <2>1, <2>2
<1>11. ASSUME NEW r \in Runs, NEW a \in Actors, AcceptedTurnEnds(r, a)
       PROVE  /\ TurnsOnly(r, a) /\ asked' = asked
              /\ turns[r][a] # <<>> /\ Head(turns[r][a]).accepted
              /\ turns'[r][a] = Tail(turns[r][a])
  <2>1. /\ turns' = [turns EXCEPT ![r][a] = Tail(turns[r][a])]
        /\ turns[r][a] # <<>> /\ Head(turns[r][a]).accepted /\ asked' = asked
    BY <1>11 DEF AcceptedTurnEnds
  <2>2. Tail(turns[r][a]) \in Seq(Turns)
    BY <1>1, <2>1
  <2> QED
    BY <1>4, <2>1, <2>2
<1>12. CASE \E a \in Actors : \/ StartAsk(a) \/ TurnBegins(a) \/ SubmitAccepted(a)
                              \/ UntypedTurnEnds(a) \/ TurnFails(a)
  BY <1>6, <1>8, <1>9, <1>10, <1>12
<1>13. CASE \E r \in Runs, a \in Actors : AcceptedTurnEnds(r, a)
  BY <1>11, <1>13
<1>20. CASE \/ AskReplayed \/ TryImportedSettle \/ AskLive
            \/ WorldReplayed \/ WorldImported \/ WorldLive
            \/ Amend \/ Resume \/ UNCHANGED vars
  BY <1>2, <1>20, AskReplayedFrame, TryImportedSettleFrame, AskLiveFrame,
     WorldReplayedFrame, WorldImportedFrame, WorldLiveFrame, AmendFrame, ResumeFrame DEF vars, durable, progress, imports, working,
     driver, ghosts
<1>21. CASE \E a \in Actors : OpenSession(a) \/ ReadsWorkspace(a) \/ WritesWorkspace(a)
  BY <1>2, <1>21, OpenSessionFrame, ReadsWorkspaceFrame, WritesWorkspaceFrame
<1>22. CASE \E r \in Runs, a \in Actors : SeedMessage(r, a) \/ SessionOpens(r, a)
  BY <1>2, <1>22, SeedMessageFrame, SessionOpensFrame
<1>23. CASE \E i \in worldBusy : SettleWorldRead(i)
  BY <1>2, <1>23, SettleWorldReadFrame
<1> QED
  BY <1>3, <1>5, <1>12, <1>13, <1>20, <1>21, <1>22, <1>23, StepKinds

LEMMA AskedTypedKept ==
    ASSUME IInv, [Next]_vars
    PROVE  /\ asked' \in [Runs -> [Actors -> Nat]]
           /\ \A r \in Runs : \A a \in Actors : asked'[r][a] \in {NoCall} \union Calls(r)
<1>1. /\ asked \in [Runs -> [Actors -> Nat]] /\ run \in Runs /\ plan \in Plans
      /\ \A r \in Runs : \A a \in Actors : asked[r][a] \in {0} \union Calls(r)
      /\ WorkTyped /\ 0 \in Nat
  BY DEF IInv, Types, ProgressTyped, TurnsTyped, NoCall
<1>2. CASE UNCHANGED asked
  BY <1>1, <1>2 DEF NoCall
<1>3. CASE Crash \/ CrashInAdmission
  <2>1. asked' = PerRun(0)
    BY <1>3 DEF Crash, CrashInAdmission, ProcessDies, NoCall
  <2> QED
    BY <1>1, <2>1 DEF PerRun, PerActor, NoCall
<1>4. CASE RunEnds
  <2> DEFINE f == [a \in Actors |-> IF turns'[run][a] = <<>> THEN 0 ELSE asked[run][a]]
  <2>1. asked' = [asked EXCEPT ![run] = f]
    BY <1>4 DEF RunEnds, NoCall
  <2>2. f \in [Actors -> Nat] /\ \A a \in Actors : f[a] \in {0} \union Calls(run)
    BY <1>1
  <2> HIDE DEF f
  <2>3. asked' \in [Runs -> [Actors -> Nat]]
    BY <1>1, <2>1, <2>2
  <2>4. \A r \in Runs : asked'[r] = IF r = run THEN f ELSE asked[r]
    BY <1>1, <2>1
  <2> QED
    BY <1>1, <2>2, <2>3, <2>4 DEF NoCall
<1>5. ASSUME NEW a \in Actors, StartAsk(a)
      PROVE  /\ asked' \in [Runs -> [Actors -> Nat]]
             /\ \A r \in Runs : \A b \in Actors : asked'[r][b] \in {0} \union Calls(r)
  <2>1. asked' = [asked EXCEPT ![run][a] = current[a]] /\ current[a] # 0
    BY <1>5 DEF StartAsk, Busy, NoCall
  <2>2. OpenAsk(a, current[a])
    BY <2>1 DEF IInv, AsksOpen, NoCall
  <2>3. current[a] \in Calls(run) /\ current[a] \in Nat
    BY <1>1, <2>2 DEF OpenAsk, AskOf, IInv, Types, JournalTyped, WorkTyped
  <2>4. asked' \in [Runs -> [Actors -> Nat]]
    BY <1>1, <2>1, <2>3
  <2>5. \A r \in Runs : \A b \in Actors :
            asked'[r][b] = IF r = run /\ b = a THEN current[a] ELSE asked[r][b]
    BY <1>1, <2>1
  <2> QED
    BY <1>1, <2>3, <2>4, <2>5
<1>6. CASE \E a \in Actors : StartAsk(a)
  BY <1>5, <1>6 DEF NoCall
<1>20. CASE \/ AskReplayed \/ TryImportedSettle \/ AskLive
            \/ WorldReplayed \/ WorldImported \/ WorldLive
            \/ Amend \/ Resume \/ UNCHANGED vars
  BY <1>2, <1>20, AskReplayedFrame, TryImportedSettleFrame, AskLiveFrame,
     WorldReplayedFrame, WorldImportedFrame, WorldLiveFrame, AmendFrame, ResumeFrame DEF vars, durable, progress, imports, working,
     driver, ghosts
<1>21. CASE \E a \in Actors : \/ OpenSession(a) \/ TurnBegins(a) \/ ReadsWorkspace(a)
                              \/ WritesWorkspace(a) \/ SubmitAccepted(a) \/ UntypedTurnEnds(a)
                              \/ TurnFails(a)
  BY <1>2, <1>21, OpenSessionFrame, TurnBeginsFrame, ReadsWorkspaceFrame,
     WritesWorkspaceFrame, SubmitAcceptedFrame, UntypedTurnEndsFrame, TurnFailsFrame
<1>22. CASE \E r \in Runs, a \in Actors : \/ SeedMessage(r, a) \/ SessionOpens(r, a) \/ AcceptedTurnEnds(r, a)
  BY <1>2, <1>22, SeedMessageFrame, SessionOpensFrame, AcceptedTurnEndsFrame
<1>23. CASE \E i \in worldBusy : SettleWorldRead(i)
  BY <1>2, <1>23, SettleWorldReadFrame
<1> QED
  BY <1>3, <1>4, <1>6, <1>20, <1>21, <1>22, <1>23, StepKinds

LEMMA TurnsTypedKept ==
    ASSUME IInv, [Next]_vars
    PROVE  TurnsTyped'
<1>1. /\ turns \in [Runs -> [Actors -> Seq(Turns)]] /\ run \in Runs
      /\ counted \in [Runs -> [Actors -> BOOLEAN]]
  BY DEF IInv, Types, ProgressTyped, TurnsTyped
<1>2. turns' \in [Runs -> [Actors -> Seq(Turns)]]
  <2>1. CASE RunEnds
    <3> DEFINE f == [a \in Actors |->
                    IF turns[run][a] # <<>> /\ Head(turns[run][a]).accepted
                    THEN <<Head(turns[run][a])>> ELSE <<>>]
    <3>1. turns' = [turns EXCEPT ![run] = f]
      BY <2>1 DEF RunEnds
    <3>2. ASSUME NEW a \in Actors
          PROVE  (IF turns[run][a] # <<>> /\ Head(turns[run][a]).accepted
                  THEN <<Head(turns[run][a])>> ELSE <<>>) \in Seq(Turns)
      <4>1. turns[run][a] \in Seq(Turns)
        BY <1>1
      <4>2. turns[run][a] # <<>> => Head(turns[run][a]) \in Turns
        BY <4>1
      <4>3. <<>> \in Seq(Turns) /\ \A t \in Turns : <<t>> \in Seq(Turns)
        OBVIOUS
      <4> QED
        BY <4>2, <4>3
    <3>3. f \in [Actors -> Seq(Turns)]
      BY <3>2
    <3> HIDE DEF f
    <3> QED
      BY <1>1, <3>1, <3>3
  <2>2. CASE turns' = PerRun(<<>>)
    BY <2>2, EmptyIs DEF PerRun, PerActor
  <2>3. CASE UNCHANGED turns
    BY <1>1, <2>3
  <2>4. CASE \E r, a : TurnsOnly(r, a)
    BY <2>4 DEF TurnsOnly
  <2> QED
    BY <2>1, <2>2, <2>3, <2>4, TurnsAre
<1>3. counted' \in [Runs -> [Actors -> BOOLEAN]]
  <2>1. CASE UNCHANGED counted
    BY <1>1, <2>1
  <2>2. CASE RunEnds
    <3> DEFINE f == [a \in Actors |-> turns'[run][a] # <<>> /\ counted[run][a]]
    <3>1. counted' = [counted EXCEPT ![run] = f]
      BY <2>2 DEF RunEnds
    <3>2. f \in [Actors -> BOOLEAN]
      OBVIOUS
    <3> HIDE DEF f
    <3> QED
      BY <1>1, <3>1, <3>2
  <2>3. CASE Crash \/ CrashInAdmission
    <3>1. counted' = PerRun(FALSE)
      BY <2>3 DEF Crash, CrashInAdmission, ProcessDies
    <3> QED
      BY <3>1 DEF PerRun, PerActor
  <2>4. CASE \E a \in Actors : StartAsk(a) \/ ReadsWorkspace(a) \/ WritesWorkspace(a)
    <3>1. PICK a \in Actors : StartAsk(a) \/ ReadsWorkspace(a) \/ WritesWorkspace(a)
      BY <2>4
    <3>2. \E b \in BOOLEAN : counted' = [counted EXCEPT ![run][a] = b]
      BY <3>1 DEF StartAsk, ReadsWorkspace, WritesWorkspace
    <3> QED
      BY <1>1, <3>2
<2>20. CASE \/ AskReplayed \/ TryImportedSettle \/ AskLive
            \/ WorldReplayed \/ WorldImported \/ WorldLive
            \/ Amend \/ Resume \/ UNCHANGED vars
  BY <2>1, <2>20, AskReplayedFrame, TryImportedSettleFrame, AskLiveFrame,
     WorldReplayedFrame, WorldImportedFrame, WorldLiveFrame, AmendFrame, ResumeFrame DEF vars, durable, progress, imports, working,
     driver, ghosts
<2>21. CASE \E a \in Actors : \/ OpenSession(a) \/ TurnBegins(a) \/ SubmitAccepted(a)
                              \/ UntypedTurnEnds(a) \/ TurnFails(a)
  BY <2>1, <2>21, OpenSessionFrame, TurnBeginsFrame, SubmitAcceptedFrame,
     UntypedTurnEndsFrame, TurnFailsFrame
<2>22. CASE \E r \in Runs, a \in Actors : \/ SeedMessage(r, a) \/ SessionOpens(r, a) \/ AcceptedTurnEnds(r, a)
  BY <2>1, <2>22, SeedMessageFrame, SessionOpensFrame, AcceptedTurnEndsFrame
<2>23. CASE \E i \in worldBusy : SettleWorldRead(i)
  BY <2>1, <2>23, SettleWorldReadFrame
  <2> QED
    BY <2>2, <2>3, <2>4, <2>20, <2>21, <2>22, <2>23, StepKinds
<1>4. /\ asked' \in [Runs -> [Actors -> Nat]]
      /\ \A r \in Runs : \A a \in Actors : asked'[r][a] \in {NoCall} \union Calls(r)
  BY AskedTypedKept
<1>5. Runs' = Runs /\ \A r \in Runs : Calls(r)' = Calls(r)
  BY StepKinds
<1> QED
  BY <1>2, <1>3, <1>4, <1>5 DEF TurnsTyped

LEMMA GhostsTypedKept ==
    ASSUME IInv, [Next]_vars
    PROVE  GhostsTyped'
<1>1. /\ GhostsTyped /\ run \in Runs /\ plan \in Plans
  BY DEF IInv, Types, ProgressTyped
<1>2. Scripts' = Scripts
  BY StepKinds
<1>3. CASE UNCHANGED <<split, dirty, stale, executed>>
  BY <1>1, <1>2, <1>3 DEF GhostsTyped
<1>4. CASE AskReplayed \/ AskLive
  <2> DEFINE a == NextCall.who
             seq == ActorSeq(run, issued + 1)
  <2>1. /\ a \in Actors /\ seq \in Nat
    BY <1>4, AskIs
  <2>2. \E c : split' = NoteSplit(a, seq, c)
    BY <1>4 DEF AskReplayed, AskLive
  <2>3. UNCHANGED <<dirty, stale, executed>>
    BY <1>4, AskReplayedFrame, AskLiveFrame
  <2> HIDE DEF a, seq
  <2>4. split' = split \/ split' = [split EXCEPT ![run][a] = seq]
    BY <2>2 DEF NoteSplit
  <2>5. split' \in [Runs -> [Actors -> Int]]
    BY <1>1, <2>1, <2>4 DEF GhostsTyped
  <2> QED
    BY <1>1, <1>2, <2>3, <2>5 DEF GhostsTyped
<1>5. CASE TryImportedSettle \/ WorldImported
  <2>1. stale' \in BOOLEAN /\ UNCHANGED <<split, dirty, executed>>
    <3>1. stale' \in BOOLEAN
      BY <1>1, <1>5 DEF TryImportedSettle, WorldImported, GhostsTyped
    <3> QED
      BY <1>5, <3>1, TryImportedSettleFrame, WorldImportedFrame
  <2> QED
    BY <1>1, <1>2, <2>1 DEF GhostsTyped
<1>6. CASE WorldLive
  <2>1. dirty' = (dirty \/ NextCall.op = "run") /\ UNCHANGED <<split, stale>>
        /\ executed' = [executed EXCEPT ![run][issued + 1] = @ + 1]
    BY <1>6, WorldLiveFrame DEF WorldLive
  <2>2. dirty' \in BOOLEAN
    BY <1>1, <2>1 DEF GhostsTyped
  <2>3. DOMAIN executed' = Runs /\ \A r \in Runs : DOMAIN executed'[r] = Calls(r)
    BY <1>1, <2>1 DEF GhostsTyped
  <2> QED
    BY <1>1, <1>2, <2>1, <2>2, <2>3 DEF GhostsTyped
<1>7. CASE Amend \/ \E a \in Actors : WritesWorkspace(a)
  <2>1. dirty' \in BOOLEAN /\ UNCHANGED <<split, stale, executed>>
    BY <1>7, AmendFrame, WritesWorkspaceFrame DEF Amend, WritesWorkspace
  <2> QED
    BY <1>1, <1>2, <2>1 DEF GhostsTyped
<1>20. CASE \/ CrashInAdmission \/ WorldReplayed \/ RunEnds
            \/ Crash \/ Resume \/ UNCHANGED vars
  BY <1>3, <1>20, CrashInAdmissionFrame, WorldReplayedFrame, RunEndsFrame, CrashFrame,
     ResumeFrame DEF vars, durable, progress, imports, working,
     driver, ghosts
<1>21. CASE \E a \in Actors : \/ OpenSession(a) \/ StartAsk(a) \/ TurnBegins(a)
                              \/ ReadsWorkspace(a) \/ SubmitAccepted(a) \/ UntypedTurnEnds(a)
                              \/ TurnFails(a)
  BY <1>3, <1>21, OpenSessionFrame, StartAskFrame, TurnBeginsFrame, ReadsWorkspaceFrame,
     SubmitAcceptedFrame, UntypedTurnEndsFrame, TurnFailsFrame
<1>22. CASE \E r \in Runs, a \in Actors : \/ SeedMessage(r, a) \/ SessionOpens(r, a) \/ AcceptedTurnEnds(r, a)
  BY <1>3, <1>22, SeedMessageFrame, SessionOpensFrame, AcceptedTurnEndsFrame
<1>23. CASE \E i \in worldBusy : SettleWorldRead(i)
  BY <1>3, <1>23, SettleWorldReadFrame
<1> QED
  BY <1>4, <1>5, <1>6, <1>7, <1>20, <1>21, <1>22, <1>23, StepKinds

LEMMA TypesKept ==
    ASSUME IInv, [Next]_vars
    PROVE  Types'
<1>1. plan' \in Plans
  BY StepKinds DEF IInv, Types
<1> QED
  BY <1>1, JournalTypedKept, StoreTypedKept, ProgressTypedKept, CacheTypedKept, CursorTypedKept,
     WorkTypedKept, SessionTypedKept, TurnsTypedKept, GhostsTypedKept DEF Types

-----------------------------------------------------------------------------
\* Rows

\* The end of an accepted turn adds to its row.
RowIsEnded(r, a) ==
    LET i == Head(turns[r][a]).call IN
    /\ DOMAIN journal' = DOMAIN journal
    /\ \A q \in DOMAIN journal : q # r => journal'[q] = journal[q]
    /\ DOMAIN journal'[r] = DOMAIN journal[r]
    /\ \A j \in DOMAIN journal[r] : j # i => journal'[r][j] = journal[r][j]
    /\ i \in DOMAIN journal[r]
    /\ journal'[r][i] = Row(journal[r][i].status, journal[r][i].answer,
           IF StillAsked(r, a, i) THEN Len(transcript[r][a]) + 1 ELSE journal[r][i].boundary,
           ~ counted[r][a])

LEMMA EndedIs ==
    ASSUME IInv, NEW r \in Runs, NEW a \in Actors, AcceptedTurnEnds(r, a)
    PROVE  /\ RowIsEnded(r, a) /\ r = run
           /\ turns[r][a] # <<>> /\ Head(turns[r][a]).accepted
           /\ Head(turns[r][a]).call \in Calls(r)
           /\ AskOf(r, a, Head(turns[r][a]).call)
           /\ Status(r, Head(turns[r][a]).call) = "completed"
           /\ journal[r][Head(turns[r][a]).call].boundary = NoBoundary
<1>0. turns[r][a] # <<>> /\ Head(turns[r][a]).accepted =>
          /\ r = run /\ Head(turns[r][a]) = turns[r][a][1]
          /\ turns[r][a][1].call \in Calls(r) /\ AskOf(r, a, turns[r][a][1].call)
          /\ Status(r, turns[r][a][1].call) = "completed"
          /\ journal[r][turns[r][a][1].call].boundary = NoBoundary
  BY AcceptedIs
<1> DEFINE i == Head(turns[r][a]).call
           b == IF StillAsked(r, a, i) THEN Len(transcript[r][a]) + 1 ELSE journal[r][i].boundary
           p == ~ counted[r][a]
<1>1. /\ turns[r][a] # <<>> /\ Head(turns[r][a]).accepted
      /\ journal' = [journal EXCEPT ![r][i].pure = ~ counted[r][a],
               ![r][i].boundary = IF StillAsked(r, a, i) THEN Len(transcript[r][a]) + 1 ELSE @]
  BY DEF AcceptedTurnEnds
<1>2. /\ i \in DOMAIN journal[r] /\ r \in DOMAIN journal /\ r = run /\ i \in Calls(r)
      /\ AskOf(r, a, i) /\ Status(r, i) = "completed" /\ journal[r][i].boundary = NoBoundary
  <2>1. /\ r = run /\ i \in Calls(r) /\ AskOf(r, a, i) /\ Status(r, i) = "completed"
        /\ journal[r][i].boundary = NoBoundary
    BY <1>0, <1>1
  <2>2. i \in DOMAIN journal[r] /\ DOMAIN journal = Runs
    BY <2>1 DEF AskOf, IInv, Types, JournalTyped
  <2> QED
    BY <2>1, <2>2
<1> HIDE DEF i
<1>3. journal[r][i] \in Rows
  BY <1>2 DEF IInv, Types, JournalTyped
<1>4. b \in Nat /\ p \in BOOLEAN
  <2>1. IsSeq(transcript[r][a]) /\ counted[r][a] \in BOOLEAN
    BY DEF IInv, Types, StoreTyped, TurnsTyped
  <2>2. Len(transcript[r][a]) + 1 \in Nat /\ journal[r][i].boundary \in Nat
    BY <1>3, <2>1, EmptyIs DEF Rows
  <2> QED
    BY <2>1, <2>2
<1>5. /\ DOMAIN journal' = DOMAIN journal
      /\ \A q \in DOMAIN journal : q # r => journal'[q] = journal[q]
      /\ DOMAIN journal'[r] = DOMAIN journal[r]
      /\ \A j \in DOMAIN journal[r] : j # i => journal'[r][j] = journal[r][j]
      /\ journal'[r][i] \in Rows
      /\ journal'[r][i].status = journal[r][i].status
      /\ journal'[r][i].answer = journal[r][i].answer
      /\ journal'[r][i].boundary = b
      /\ journal'[r][i].pure = p
  <2>1. journal' = [journal EXCEPT ![r][i].pure = p, ![r][i].boundary = b]
    BY <1>1 DEF i
  <2> HIDE DEF b, p
  <2> QED
    BY <1>2, <1>3, <1>4, <2>1 DEF Rows
<1> HIDE DEF b, p
<1>6. journal'[r][i] = Row(journal[r][i].status, journal[r][i].answer, b, p)
  BY <1>5 DEF Rows, Row
<1> QED
  BY <1>1, <1>2, <1>5, <1>6 DEF RowIsEnded, i, b, p

\* What a step makes of the rows.
LEMMA RowsAre ==
    ASSUME IInv, [Next]_vars
    PROVE  \/ UNCHANGED journal
           \/ /\ AskReplayed /\ Recorded(run, issued + 1)
              /\ Status(run, issued + 1) = "running" /\ RowIsPut(issued + 1, Running)
           \/ /\ AskLive \/ CrashInAdmission
              /\ ~ Recorded(run, issued + 1) /\ RowIsPut(issued + 1, Running)
           \/ /\ TryImportedSettle /\ ~ Recorded(run, issued + 1)
              /\ LET e == EntryAt(NextCall.who, ActorSeq(run, issued + 1)) IN
                 RowIsPut(issued + 1, Row("completed", e.answer, e.boundary, e.pure))
           \/ /\ WorldImported /\ Unanswered(issued + 1)
              /\ LET h == NextCall.hash IN
                 RowIsPut(issued + 1, Row("completed", cache.world[h][used[h] + 1], NoBoundary, FALSE))
           \/ WorldLive /\ Unanswered(issued + 1) /\ RowIsPut(issued + 1, Running)
           \/ \E a \in Actors :
                  /\ InTurn(a)
                  /\ \/ /\ SubmitAccepted(a) 
                        /\ RowIsPut(TurnCall(a),
                               Row("completed", <<run, TurnCall(a)>>, NoBoundary, FALSE))
                     \/ /\ UntypedTurnEnds(a)
                        /\ RowIsPut(TurnCall(a),
                               Row("completed", <<run, TurnCall(a)>>,
                                   Len(transcript[run][a]) + 1, ~ counted[run][a]))
                     \/ TurnFails(a) /\ RowIsPut(TurnCall(a), FailedRow)
           \/ \E i \in worldBusy :
                  /\ SettleWorldRead(i)
                  /\ \/ RowIsPut(i, Row("completed", <<run, i>>, NoBoundary, FALSE))
                     \/ RowIsPut(i, FailedRow)
           \/ \E a \in Actors : AcceptedTurnEnds(run, a) /\ RowIsEnded(run, a)
<1>1. run \in DOMAIN journal
  BY DEF IInv, Types, JournalTyped, ProgressTyped
<1>2. \A i, row : SetRow(i, row) => RowIsPut(i, row)
  BY <1>1, SetRowPuts
<1>3. CASE UNCHANGED journal
  BY <1>3
<1>4. CASE AskReplayed
  <2>1. /\ Recorded(run, issued + 1)
        /\ \/ UNCHANGED journal
           \/ Status(run, issued + 1) = "running" /\ SetRow(issued + 1, Running)
    BY <1>4 DEF AskReplayed, AdmitLive, Status
  <2> QED
    BY <1>2, <1>4, <2>1
<1>5. CASE AskLive \/ CrashInAdmission
  <2>1. ~ Recorded(run, issued + 1) /\ SetRow(issued + 1, Running)
    BY <1>5 DEF AskLive, CrashInAdmission, AdmitLive, MissesImport
  <2> QED
    BY <1>2, <1>5, <2>1
<1>6. CASE TryImportedSettle
  <2> DEFINE e == EntryAt(NextCall.who, ActorSeq(run, issued + 1))
  <2>1. /\ ~ Recorded(run, issued + 1)
        /\ SetRow(issued + 1, Row("completed", e.answer, e.boundary, e.pure))
    BY <1>6 DEF TryImportedSettle
  <2> HIDE DEF e
  <2>2. RowIsPut(issued + 1, Row("completed", e.answer, e.boundary, e.pure))
    BY <1>2, <2>1
  <2> QED
    BY <1>6, <2>1, <2>2 DEF e
<1>7. CASE WorldImported
  <2> DEFINE h == NextCall.hash
             row == Row("completed", cache.world[h][used[h] + 1], NoBoundary, FALSE)
  <2>1. Unanswered(issued + 1) /\ SetRow(issued + 1, row)
    BY <1>7 DEF WorldImported
  <2> HIDE DEF row
  <2>2. RowIsPut(issued + 1, row)
    BY <1>2, <2>1
  <2> QED
    BY <1>7, <2>1, <2>2 DEF row
<1>8. CASE WorldLive
  <2>1. Unanswered(issued + 1) /\ SetRow(issued + 1, Running)
    BY <1>8 DEF WorldLive
  <2> QED
    BY <1>2, <1>8, <2>1
<1>9. ASSUME NEW a \in Actors, SubmitAccepted(a) \/ UntypedTurnEnds(a) \/ TurnFails(a)
      PROVE  /\ InTurn(a)
             /\ \/ /\ SubmitAccepted(a)
                   /\ RowIsPut(TurnCall(a),
                               Row("completed", <<run, TurnCall(a)>>, NoBoundary, FALSE))
                \/ /\ UntypedTurnEnds(a)
                   /\ RowIsPut(TurnCall(a),
                               Row("completed", <<run, TurnCall(a)>>,
                                   Len(transcript[run][a]) + 1, ~ counted[run][a]))
                \/ TurnFails(a) /\ RowIsPut(TurnCall(a), FailedRow)
  <2>1. /\ InTurn(a)
        /\ SubmitAccepted(a) => SetRow(TurnCall(a),
               Row("completed", <<run, TurnCall(a)>>, NoBoundary, FALSE))
        /\ UntypedTurnEnds(a) => SetRow(TurnCall(a),
               Row("completed", <<run, TurnCall(a)>>, Len(transcript[run][a]) + 1, ~ counted[run][a]))
        /\ TurnFails(a) => SetRow(TurnCall(a), FailedRow)
    BY <1>9 DEF SubmitAccepted, UntypedTurnEnds, TurnFails, Settle
  <2> QED
    BY <1>2, <1>9, <2>1
<1>10. ASSUME NEW i \in worldBusy, SettleWorldRead(i)
       PROVE  \/ RowIsPut(i, Row("completed", <<run, i>>, NoBoundary, FALSE))
              \/ RowIsPut(i, FailedRow)
  <2>1. \/ SetRow(i, Row("completed", <<run, i>>, NoBoundary, FALSE))
        \/ SetRow(i, FailedRow)
    BY <1>10 DEF SettleWorldRead
  <2> QED
    BY <1>2, <2>1
<1>11. ASSUME NEW r \in Runs, NEW a \in Actors, AcceptedTurnEnds(r, a)
       PROVE  \E b \in Actors : AcceptedTurnEnds(run, b) /\ RowIsEnded(run, b)
  BY <1>11, EndedIs
<1>12. CASE \E a \in Actors : SubmitAccepted(a) \/ UntypedTurnEnds(a) \/ TurnFails(a)
  BY <1>9, <1>12
<1>13. CASE \E i \in worldBusy : SettleWorldRead(i)
  BY <1>10, <1>13
<1>14. CASE \E r \in Runs, a \in Actors : AcceptedTurnEnds(r, a)
  BY <1>11, <1>14
<1>20. CASE \/ WorldReplayed \/ RunEnds \/ Amend
            \/ Crash \/ Resume \/ UNCHANGED vars
  BY <1>3, <1>20, WorldReplayedFrame, RunEndsFrame, AmendFrame, CrashFrame, ResumeFrame DEF vars, durable, progress, imports, working,
     driver, ghosts
<1>21. CASE \E a \in Actors : \/ OpenSession(a) \/ StartAsk(a) \/ TurnBegins(a)
                              \/ ReadsWorkspace(a) \/ WritesWorkspace(a)
  BY <1>3, <1>21, OpenSessionFrame, StartAskFrame, TurnBeginsFrame, ReadsWorkspaceFrame,
     WritesWorkspaceFrame
<1>22. CASE \E r \in Runs, a \in Actors : SeedMessage(r, a) \/ SessionOpens(r, a)
  BY <1>3, <1>22, SeedMessageFrame, SessionOpensFrame
<1> QED
  BY <1>4, <1>5, <1>6, <1>7, <1>8, <1>12, <1>13, <1>14, <1>20, <1>21, <1>22, StepKinds

\* A row is put where there is none, or over one that is running.
LEMMA RowsStay ==
    ASSUME IInv, [Next]_vars, NEW r \in Runs, NEW i \in DOMAIN journal[r], Status(r, i) # "running"
    PROVE  /\ i \in DOMAIN journal'[r]
           /\ journal'[r][i].status = journal[r][i].status
           /\ journal'[r][i].answer = journal[r][i].answer
           /\ \/ journal'[r][i] = journal[r][i]
              \/ \E a \in Actors : /\ AcceptedTurnEnds(run, a) /\ r = run
                                   /\ i = Head(turns[run][a]).call /\ AskOf(run, a, i)
<1>1. run \in Runs /\ DOMAIN journal = Runs
  BY DEF IInv, Types, JournalTyped, ProgressTyped
<1>2. ASSUME NEW j, NEW row, RowIsPut(j, row), j \in DOMAIN journal[run] => Status(run, j) = "running"
      PROVE  i \in DOMAIN journal'[r] /\ journal'[r][i] = journal[r][i]
  <2>1. CASE r # run
    BY <1>1, <1>2, <2>1 DEF RowIsPut
  <2>2. CASE r = run
    BY <1>1, <1>2, <2>2 DEF RowIsPut
  <2> QED
    BY <2>1, <2>2
<1>3. ASSUME NEW a \in Actors, AcceptedTurnEnds(run, a), RowIsEnded(run, a)
      PROVE  /\ i \in DOMAIN journal'[r]
             /\ journal'[r][i].status = journal[r][i].status
             /\ journal'[r][i].answer = journal[r][i].answer
             /\ \/ journal'[r][i] = journal[r][i]
                \/ r = run /\ i = Head(turns[run][a]).call /\ AskOf(run, a, i)
  <2>1. CASE r = run /\ i = Head(turns[run][a]).call
    <3> DEFINE b == IF StillAsked(run, a, i) THEN Len(transcript[run][a]) + 1
                    ELSE journal[run][i].boundary
               p == ~ counted[run][a]
    <3>1. /\ DOMAIN journal'[r] = DOMAIN journal[r]
          /\ journal'[r][i] = Row(journal[r][i].status, journal[r][i].answer, b, p)
      BY <1>3, <2>1 DEF RowIsEnded
    <3>2. AskOf(run, a, i)
      BY <1>1, <1>3, <2>1, EndedIs
    <3> HIDE DEF b, p
    <3> QED
      BY <2>1, <3>1, <3>2 DEF Row
  <2>2. CASE ~ (r = run /\ i = Head(turns[run][a]).call)
    BY <1>1, <1>3, <2>2 DEF RowIsEnded
  <2> QED
    BY <2>1, <2>2
<1>4. ASSUME NEW a \in Actors, InTurn(a) PROVE Status(run, TurnCall(a)) = "running"
  BY <1>4, InTurnIs DEF OpenAsk
<1>5. \A j \in worldBusy : Status(run, j) = "running"
  BY DEF IInv, WorldOpen, OpenAsk
<1>6. CASE UNCHANGED journal
  BY <1>6
<1>7. CASE \E row : /\ RowIsPut(issued + 1, row)
                    /\ \/ ~ Recorded(run, issued + 1) \/ Status(run, issued + 1) = "running"
                       \/ Unanswered(issued + 1)
  <2>1. issued + 1 \in DOMAIN journal[run] => Status(run, issued + 1) = "running"
    BY <1>7 DEF Recorded, Unanswered, Status
  <2> QED
    BY <1>2, <1>7, <2>1
<1>8. CASE \E a \in Actors : InTurn(a) /\ \E row : RowIsPut(TurnCall(a), row)
  BY <1>2, <1>4, <1>8
<1>9. CASE \E j \in worldBusy : \E row : RowIsPut(j, row)
  BY <1>2, <1>5, <1>9
<1>10. CASE \E a \in Actors : AcceptedTurnEnds(run, a) /\ RowIsEnded(run, a)
  BY <1>3, <1>10
<1> QED
  BY <1>6, <1>7, <1>8, <1>9, <1>10, RowsAre

\* The same after a step.
OpensNext(a, i) ==
    /\ i \in 1 .. issued' /\ i \in DOMAIN journal'[run']
    /\ Scripts'[run'][i].who = a /\ journal'[run'][i].status = "running"

\* An ask that is open stays so until it is settled or the engine ends.
LEMMA OpenAskKept ==
    ASSUME IInv, [Next]_vars, NEW a, NEW i, OpenAsk(a, i)
    PROVE  \/ OpensNext(a, i)
           \/ issued' = 0
           \/ \E b \in Actors : /\ SubmitAccepted(b) \/ UntypedTurnEnds(b) \/ TurnFails(b)
                                /\ i = TurnCall(b) /\ InTurn(b) /\ a = b
           \/ i \in worldBusy /\ SettleWorldRead(i) /\ a = NoActor
<1>1. /\ run \in Runs /\ DOMAIN journal = Runs /\ issued \in Nat /\ i \in 1 .. issued
      /\ i \in DOMAIN journal[run] /\ Scripts[run][i].who = a /\ Status(run, i) = "running"
  BY DEF OpenAsk, AskOf, IInv, Types, JournalTyped, ProgressTyped
<1>2. Scripts' = Scripts
  BY StepKinds
<1>3. SUFFICES ASSUME issued' # 0 PROVE
           \/ OpensNext(a, i)
           \/ \E b \in Actors : /\ SubmitAccepted(b) \/ UntypedTurnEnds(b) \/ TurnFails(b)
                                /\ i = TurnCall(b) /\ InTurn(b) /\ a = b
           \/ i \in worldBusy /\ SettleWorldRead(i) /\ a = NoActor
  OBVIOUS
<1>4. run' = run /\ i \in 1 .. issued' /\ issued + 1 # i
  <2>1. run' = run /\ issued' \in {issued, issued + 1}
    BY <1>3, ProgressIs
  <2> QED
    BY <1>1, <2>1
<1>5. i \in DOMAIN journal'[run] /\ journal'[run][i].status = "running" => OpensNext(a, i)
  BY <1>1, <1>2, <1>4 DEF OpensNext
<1>6. \A j, row : RowIsPut(j, row) /\ j # i =>
          i \in DOMAIN journal'[run] /\ journal'[run][i].status = "running"
  BY <1>1 DEF RowIsPut, Status
<1>7. CASE UNCHANGED journal
  BY <1>1, <1>5, <1>7 DEF Status
<1>8. CASE \E row : RowIsPut(issued + 1, row)
  BY <1>4, <1>5, <1>6, <1>8
<1>9. CASE \E b \in Actors : /\ InTurn(b)
                             /\ SubmitAccepted(b) \/ UntypedTurnEnds(b) \/ TurnFails(b)
                             /\ \E row : RowIsPut(TurnCall(b), row)
  <2>1. PICK b \in Actors : /\ InTurn(b)
                            /\ SubmitAccepted(b) \/ UntypedTurnEnds(b) \/ TurnFails(b)
                            /\ \E row : RowIsPut(TurnCall(b), row)
    BY <1>9
  <2>2. Scripts[run][TurnCall(b)].who = b
    BY <2>1, InTurnIs DEF OpenAsk, AskOf
  <2>3. CASE i = TurnCall(b)
    BY <1>1, <2>1, <2>2, <2>3
  <2>4. CASE i # TurnCall(b)
    BY <1>5, <1>6, <2>1, <2>4
  <2> QED
    BY <2>3, <2>4
<1>10. CASE \E j \in worldBusy : SettleWorldRead(j) /\ \E row : RowIsPut(j, row)
  <2>1. PICK j \in worldBusy : SettleWorldRead(j) /\ \E row : RowIsPut(j, row)
    BY <1>10
  <2>2. Scripts[run][j].who = NoActor
    BY DEF IInv, WorldOpen, OpenAsk, AskOf
  <2>3. CASE i = j
    BY <1>1, <2>1, <2>2, <2>3
  <2>4. CASE i # j
    BY <1>5, <1>6, <2>1, <2>4
  <2> QED
    BY <2>3, <2>4
<1>11. CASE \E b \in Actors : AcceptedTurnEnds(run, b) /\ RowIsEnded(run, b)
  <2>1. PICK b \in Actors : AcceptedTurnEnds(run, b) /\ RowIsEnded(run, b)
    BY <1>11
  <2>2. Status(run, Head(turns[run][b]).call) = "completed"
    BY <1>1, <2>1, EndedIs
  <2>3. i # Head(turns[run][b]).call
    BY <1>1, <2>2
  <2> QED
    BY <1>1, <1>5, <2>1, <2>3 DEF RowIsEnded, Status
<1> QED
  BY <1>7, <1>8, <1>9, <1>10, <1>11, RowsAre

-----------------------------------------------------------------------------
\* Open asks and turns are kept

\* What a step makes of the queue of a subagent.
LEMMA QueuesAre ==
    ASSUME IInv, [Next]_vars
    PROVE  \/ UNCHANGED <<queue, current>>
           \/ /\ AskReplayed \/ AskLive
              /\ NextCall.who \in Actors /\ PumpIs(NextCall.who, issued + 1)
              /\ OpensNext(NextCall.who, issued + 1) /\ run' = run
           \/ \E a \in Actors :
                  /\ SubmitAccepted(a) \/ UntypedTurnEnds(a) \/ TurnFails(a)
                  /\ InTurn(a) /\ SettleIs(a)
           \/ /\ queue' = PerActor(<<>>) /\ current' = PerActor(NoCall)
              /\ RunEnds \/ Amend \/ Crash \/ CrashInAdmission \/ Resume
<1>1. WorkTyped
  BY DEF IInv, Types
<1>2. CASE UNCHANGED <<queue, current>>
  BY <1>2
<1>3. CASE AskReplayed \/ AskLive
  <2> DEFINE a == NextCall.who
             i == issued + 1
  <2>1. a \in Actors /\ i \in Nat /\ i \in AsksIn(run, a) /\ run \in Runs
    BY <1>3, AskIs
  <2>2. UNCHANGED <<queue, current>> \/ AdmitLive(i, a)
    BY <1>3 DEF AskReplayed, AskLive
  <2>3. CASE AdmitLive(i, a)
    <3> HIDE DEF a, i
    <3>1. Pump(a, Append(queue[a], i)) /\ SetRow(i, Running) /\ issued' = i
      BY <2>3 DEF AdmitLive, Pending
    <3>2. PumpIs(a, i)
      BY <1>1, <2>1, <3>1, QueueIs
    <3>3. RowIsPut(i, Running) /\ run' = run /\ Scripts' = Scripts
      BY <1>3, <2>1, <3>1, SetRowPuts, AskReplayedFrame, AskLiveFrame, StepKinds
         DEF IInv, Types, JournalTyped
    <3>4. i \in 1 .. issued'
      <4>1. issued \in Nat
        BY DEF IInv, Types, ProgressTyped
      <4> QED
        BY <3>1, <4>1 DEF i
    <3>5. OpensNext(a, i)
      BY <2>1, <3>3, <3>4 DEF OpensNext, RowIsPut, AsksIn, Running, Row
    <3> QED
      BY <1>3, <2>1, <3>2, <3>3, <3>5 DEF a, i
  <2> QED
    BY <1>2, <2>2, <2>3
<1>4. CASE TryImportedSettle
  BY <1>2, <1>4, TryImportedSettleFrame
<1>5. ASSUME NEW a \in Actors, SubmitAccepted(a) \/ UntypedTurnEnds(a) \/ TurnFails(a)
      PROVE  InTurn(a) /\ SettleIs(a)
  <2>1. InTurn(a) /\ \E j, row : Settle(j, a, row)
    BY <1>5 DEF SubmitAccepted, UntypedTurnEnds, TurnFails
  <2> QED
    BY <1>1, <2>1, QueueIs
<1>6. CASE \E a \in Actors : SubmitAccepted(a) \/ UntypedTurnEnds(a) \/ TurnFails(a)
  BY <1>5, <1>6
<1>7. CASE RunEnds \/ Amend \/ Crash \/ CrashInAdmission \/ Resume
  BY <1>7 DEF RunEnds, Amend, Crash, CrashInAdmission, ProcessDies, Resume, EngineState
<1>20. CASE \/ TryImportedSettle \/ WorldReplayed \/ WorldImported
            \/ WorldLive \/ UNCHANGED vars
  BY <1>2, <1>20, TryImportedSettleFrame, WorldReplayedFrame, WorldImportedFrame,
     WorldLiveFrame DEF vars, durable, progress, imports, working,
     driver, ghosts
<1>21. CASE \E a \in Actors : \/ OpenSession(a) \/ StartAsk(a) \/ TurnBegins(a)
                              \/ ReadsWorkspace(a) \/ WritesWorkspace(a)
  BY <1>2, <1>21, OpenSessionFrame, StartAskFrame, TurnBeginsFrame, ReadsWorkspaceFrame,
     WritesWorkspaceFrame
<1>22. CASE \E r \in Runs, a \in Actors : \/ SeedMessage(r, a) \/ SessionOpens(r, a) \/ AcceptedTurnEnds(r, a)
  BY <1>2, <1>22, SeedMessageFrame, SessionOpensFrame, AcceptedTurnEndsFrame
<1>23. CASE \E i \in worldBusy : SettleWorldRead(i)
  BY <1>2, <1>23, SettleWorldReadFrame
<1> QED
  BY <1>3, <1>4, <1>6, <1>7, <1>20, <1>21, <1>22, <1>23, StepKinds

LEMMA AsksOpenKept ==
    ASSUME IInv, [Next]_vars
    PROVE  AsksOpen'
<1>1. WorkTyped /\ ProgressTyped /\ AsksOpen
  BY DEF IInv, Types
<1>2. \A a \in Actors : /\ queue[a] \in Seq(Nat) /\ current[a] \in Nat
                        /\ Len(queue[a]) \in Nat /\ DOMAIN queue[a] = 1 .. Len(queue[a])
  <2>1. \A a \in Actors : queue[a] \in Seq(Nat) /\ current[a] \in Nat
    BY <1>1 DEF WorkTyped
  <2> QED
    BY <2>1
<1> DEFINE Opens(a) ==
               /\ current'[a] # 0 => OpensNext(a, current'[a])
               /\ current'[a] = 0 => queue'[a] = <<>>
               /\ \A n \in DOMAIN queue'[a] :
                      OpensNext(a, queue'[a][n]) /\ current'[a] < queue'[a][n]
               /\ \A m, n \in DOMAIN queue'[a] : m < n => queue'[a][m] < queue'[a][n]
\* Asks that are open, and of a subagent no ask of which is settled.
<1>3. ASSUME NEW a \in Actors, NEW i, OpenAsk(a, i), issued' # 0,
             ~ \E b \in Actors : /\ SubmitAccepted(b) \/ UntypedTurnEnds(b) \/ TurnFails(b)
                                 /\ i = TurnCall(b) /\ InTurn(b) /\ a = b
      PROVE  OpensNext(a, i)
  <2>1. NoActor \notin Actors
    BY ChainAssumption
  <2> QED
    BY <1>3, <2>1, OpenAskKept
<1>4. ASSUME NEW a \in Actors, queue'[a] = queue[a], current'[a] = current[a], issued' # 0,
             ~ (SubmitAccepted(a) \/ UntypedTurnEnds(a) \/ TurnFails(a))
      PROVE  Opens(a)
  <2>1. /\ current[a] # 0 => OpenAsk(a, current[a])
        /\ current[a] = 0 => queue[a] = <<>>
        /\ \A n \in DOMAIN queue[a] : OpenAsk(a, queue[a][n]) /\ current[a] < queue[a][n]
        /\ \A m, n \in DOMAIN queue[a] : m < n => queue[a][m] < queue[a][n]
    BY <1>1 DEF AsksOpen, NoCall
  <2>2. \A i : OpenAsk(a, i) => OpensNext(a, i)
    BY <1>3, <1>4
  <2>3. current'[a] # 0 => OpensNext(a, current'[a])
    BY <1>4, <2>1, <2>2
  <2>4. ASSUME NEW n \in DOMAIN queue'[a]
        PROVE  OpensNext(a, queue'[a][n]) /\ current'[a] < queue'[a][n]
    BY <1>4, <2>1, <2>2
  <2> QED
    BY <1>4, <2>1, <2>3, <2>4
<1>5. engine' # "live" => \A a \in Actors : current'[a] = 0
  <2>1. CASE UNCHANGED engine
    <3>1. CASE engine # "live"
      <4>1. \A a \in Actors : current[a] = 0
        BY <1>1, <3>1 DEF AsksOpen, NoCall
      <4>2. ~ (AskReplayed \/ AskLive)
        BY <3>1 DEF AskReplayed, AskLive, MissesImport, MayCall
      <4>3. ~ \E a \in Actors : InTurn(a)
        BY <3>1 DEF InTurn
      <4>4. \/ UNCHANGED <<queue, current>>
            \/ current' = PerActor(0)
        BY <4>2, <4>3, QueuesAre DEF NoCall
      <4> QED
        BY <4>1, <4>4 DEF PerActor
    <3> QED
      BY <2>1, <3>1
  <2>2. CASE RunEnds \/ Amend \/ Crash \/ CrashInAdmission \/ Resume
    BY <2>2 DEF RunEnds, Amend, Crash, CrashInAdmission, ProcessDies, Resume, EngineState,
                PerActor, NoCall
  <2> QED
    BY <2>1, <2>2, ProgressIs
<1>6. \A a \in Actors : Opens(a)
  <2>1. CASE UNCHANGED <<queue, current>> /\ issued' # 0
             /\ ~ \E a \in Actors : SubmitAccepted(a) \/ UntypedTurnEnds(a) \/ TurnFails(a)
    <3> HIDE DEF Opens
    <3> QED
      BY <1>4, <2>1
  <2>2. CASE queue' = PerActor(<<>>) /\ current' = PerActor(0)
    <3>1. \A a \in Actors : queue'[a] = <<>> /\ current'[a] = 0 /\ DOMAIN queue'[a] = {}
      BY <2>2, EmptyIs DEF PerActor
    <3> QED
      BY <3>1
  <2>3. CASE /\ AskReplayed \/ AskLive
             /\ NextCall.who \in Actors /\ PumpIs(NextCall.who, issued + 1)
             /\ OpensNext(NextCall.who, issued + 1)
    <3> DEFINE a == NextCall.who
               i == issued + 1
    <3>1. issued \in Nat /\ issued' # 0 /\ i \in Nat
      <4>1. issued \in Nat
        BY <1>1 DEF ProgressTyped
      <4>2. issued' = i
        BY <2>3 DEF AskReplayed, AskLive, AdmitLive, Answered, Pending
      <4> QED
        BY <4>1, <4>2
    <3>2. ~ \E b \in Actors : SubmitAccepted(b) \/ UntypedTurnEnds(b) \/ TurnFails(b)
      <4>1. ASSUME NEW b \in Actors, SubmitAccepted(b) \/ UntypedTurnEnds(b) \/ TurnFails(b)
            PROVE  issued' = issued
        BY <4>1, SubmitAcceptedFrame, UntypedTurnEndsFrame, TurnFailsFrame
      <4>2. issued' = i
        BY <2>3 DEF AskReplayed, AskLive, AdmitLive, Answered, Pending
      <4> QED
        BY <3>1, <4>1, <4>2
    <3> HIDE DEF a, i
    <3>3. /\ a \in Actors /\ PumpIs(a, i) /\ OpensNext(a, i)
          /\ \A j \in 1 .. issued : j < i
      <4>1. \A j \in 1 .. issued : j < issued + 1
        BY <3>1
      <4> QED
        BY <2>3, <4>1 DEF a, i
    <3>4. /\ current[a] # 0 => OpenAsk(a, current[a]) /\ current[a] < i
          /\ current[a] = 0 => queue[a] = <<>>
          /\ \A n \in DOMAIN queue[a] : /\ OpenAsk(a, queue[a][n]) /\ current[a] < queue[a][n]
                                        /\ queue[a][n] < i
          /\ \A m, n \in DOMAIN queue[a] : m < n => queue[a][m] < queue[a][n]
      BY <1>1, <3>3 DEF AsksOpen, OpenAsk, NoCall
    <3>5. \A j : OpenAsk(a, j) => OpensNext(a, j)
      BY <1>3, <3>1, <3>2, <3>3
    <3>6. CASE current[a] = 0
      <4>1. queue[a] = <<>>
        BY <3>4, <3>6
      <4>2. Append(queue[a], i) = <<i>>
        BY <4>1
      <4>3. current'[a] = i /\ queue'[a] = <<>>
        BY <3>3, <3>6, <4>2 DEF PumpIs, NoCall
      <4>4. Opens(a)
        BY <3>1, <3>3, <4>3, EmptyIs DEF i
      <4>5. \A b \in Actors \ {a} : Opens(b)
        <5> HIDE DEF Opens
        <5> QED
          BY <1>4, <3>1, <3>2, <3>3 DEF PumpIs
      <4> HIDE DEF Opens
      <4> QED
        BY <4>4, <4>5
    <3>7. CASE current[a] # 0
      <4> DEFINE q == queue[a]
      <4>1. current'[a] = current[a] /\ queue'[a] = Append(q, i)
        BY <3>3, <3>7 DEF PumpIs, NoCall
      <4>2. /\ q \in Seq(Nat) /\ Len(q) \in Nat /\ DOMAIN q = 1 .. Len(q)
            /\ current[a] \in Nat
        BY <1>2, <3>3
      <4> HIDE DEF q
      <4>3. /\ DOMAIN queue'[a] = 1 .. Len(q) + 1 /\ queue'[a][Len(q) + 1] = i
            /\ \A n \in 1 .. Len(q) : queue'[a][n] = q[n] /\ q[n] \in Nat
        BY <3>1, <4>1, <4>2
      <4>4. \A n \in 1 .. Len(q) : OpensNext(a, q[n])  /\ current[a] < q[n] /\ q[n] < i
        BY <3>4, <3>5, <4>2 DEF q
      <4>5. OpensNext(a, current'[a])
        BY <3>4, <3>5, <3>7, <4>1
      <4>6. ASSUME NEW n \in DOMAIN queue'[a]
            PROVE  OpensNext(a, queue'[a][n]) /\ current'[a] < queue'[a][n]
        <5>1. CASE n = Len(q) + 1
          BY <3>3, <3>4, <3>7, <4>1, <4>3, <5>1 DEF i
        <5>2. CASE n # Len(q) + 1
          <6>1. n \in 1 .. Len(q)
            BY <4>2, <4>3, <5>2
          <6>2. queue'[a][n] = q[n]
            BY <4>3, <6>1
          <6> QED
            BY <4>1, <4>4, <6>1, <6>2 DEF q
        <5> QED
          BY <5>1, <5>2
      <4>7. ASSUME NEW m \in DOMAIN queue'[a], NEW n \in DOMAIN queue'[a], m < n
            PROVE  queue'[a][m] < queue'[a][n]
        <5>1. m \in 1 .. Len(q) /\ m \in Nat
          BY <4>2, <4>3, <4>7
        <5>2. CASE n = Len(q) + 1
          BY <4>3, <4>4, <5>1, <5>2
        <5>3. CASE n # Len(q) + 1
          <6>1. n \in 1 .. Len(q)
            BY <4>2, <4>3, <5>3
          <6>2. q[m] < q[n]
            BY <3>4, <4>2, <4>7, <5>1, <6>1 DEF q
          <6> QED
            BY <4>3, <5>1, <6>1, <6>2
        <5> QED
          BY <5>2, <5>3
      <4>8. Opens(a)
        BY <3>7, <4>1, <4>5, <4>6, <4>7
      <4>9. \A b \in Actors \ {a} : Opens(b)
        <5> HIDE DEF Opens
        <5> QED
          BY <1>4, <3>1, <3>2, <3>3 DEF PumpIs
      <4> HIDE DEF Opens
      <4> QED
        BY <4>8, <4>9
    <3> QED
      BY <3>6, <3>7
  <2>4. ASSUME NEW a \in Actors, SubmitAccepted(a) \/ UntypedTurnEnds(a) \/ TurnFails(a),
               InTurn(a), SettleIs(a)
        PROVE  \A b \in Actors : Opens(b)
    <3>1. issued' = issued /\ current[a] \in 1 .. issued /\ TurnCall(a) = current[a]
          /\ current[a] # 0
      BY <2>4, SubmitAcceptedFrame, UntypedTurnEndsFrame, TurnFailsFrame, InTurnIs
         DEF OpenAsk, NoCall
    <3>2. issued' # 0
      BY <1>1, <3>1 DEF ProgressTyped
    <3>3. ASSUME NEW b \in Actors, SubmitAccepted(b) \/ UntypedTurnEnds(b) \/ TurnFails(b)
          PROVE  b = a
      <4>1. InTurn(b) /\ SettleIs(b)
        <5>1. InTurn(b) /\ \E j, row : Settle(j, b, row)
          BY <3>3 DEF SubmitAccepted, UntypedTurnEnds, TurnFails
        <5> QED
          BY <1>1, <5>1, QueueIs
      <4>2. /\ OpenAsk(b, current[b]) /\ current[b] # 0
            /\ \A n \in DOMAIN queue[b] : current[b] < queue[b][n]
        BY <1>1, <4>1, InTurnIs DEF AsksOpen, NoCall
      <4>3. current'[b] # current[b]
        <5>1. CASE queue[b] = <<>>
          BY <4>1, <4>2, <5>1 DEF SettleIs, NoCall
        <5>2. CASE queue[b] # <<>>
          <6>1. current'[b] = Head(queue[b])
            BY <4>1, <5>2 DEF SettleIs
          <6>2. 1 \in DOMAIN queue[b] /\ Head(queue[b]) = queue[b][1]
            BY <1>2, <5>2
          <6>3. current[b] < current'[b] /\ current[b] \in Nat
            BY <1>2, <4>2, <6>1, <6>2
          <6> QED
            BY <6>3
        <5> QED
          BY <5>1, <5>2
      <4> QED
        BY <2>4, <4>3 DEF SettleIs
    <3>4. \A j : OpenAsk(a, j) /\ j # current[a] => OpensNext(a, j)
      BY <1>3, <3>1, <3>2, <3>3
    <3>5. /\ \A n \in DOMAIN queue[a] : OpenAsk(a, queue[a][n]) /\ current[a] < queue[a][n]
          /\ \A m, n \in DOMAIN queue[a] : m < n => queue[a][m] < queue[a][n]
      BY <1>1 DEF AsksOpen
    <3>6. \A b \in Actors \ {a} : Opens(b)
      <4> HIDE DEF Opens
      <4> QED
        BY <1>4, <2>4, <3>2, <3>3 DEF SettleIs
    <3>7. Opens(a)
      <4>1. CASE queue[a] = <<>>
        <5>1. current'[a] = 0 /\ queue'[a] = <<>> /\ DOMAIN queue'[a] = {}
          BY <2>4, <4>1, EmptyIs DEF SettleIs, NoCall
        <5> QED
          BY <5>1
      <4>2. CASE queue[a] # <<>>
        <5> DEFINE q == queue[a]
        <5>1. current'[a] = Head(q) /\ queue'[a] = Tail(q)
          BY <2>4, <4>2 DEF SettleIs
        <5>2. q \in Seq(Nat) /\ q # <<>> /\ current[a] \in Nat
          BY <1>2, <4>2
        <5>3. /\ \A n \in DOMAIN q : OpenAsk(a, q[n]) /\ current[a] < q[n]
              /\ \A m, n \in DOMAIN q : m < n => q[m] < q[n]
          BY <3>5
        <5> HIDE DEF q
        <5>4. /\ Len(q) \in Nat /\ DOMAIN q = 1 .. Len(q) /\ Len(q) >= 1 /\ Head(q) = q[1]
              /\ DOMAIN Tail(q) = 1 .. (Len(q) - 1)
              /\ \A n \in 1 .. (Len(q) - 1) : Tail(q)[n] = q[n + 1]
              /\ \A n \in 1 .. Len(q) : q[n] \in Nat
          BY <5>2
        <5>5. \A n \in 1 .. Len(q) : q[n] # current[a] /\ OpenAsk(a, q[n]) /\ q[n] # 0
          BY <5>2, <5>3, <5>4
        <5>6. \A n \in 1 .. Len(q) : OpenAsk(a, q[n])
          BY <5>5
        <5>7. ASSUME NEW n \in 1 .. Len(q), NEW x, x = q[n] PROVE OpensNext(a, x)
          BY <3>4, <5>5, <5>7
        <5>8. current'[a] # 0 /\ OpensNext(a, current'[a])
          <6>1. current'[a] = q[1] /\ 1 \in 1 .. Len(q)
            BY <5>1, <5>4
          <6>2. \A x : x = q[1] => OpensNext(a, x)
            BY <5>7, <6>1
          <6> QED
            BY <5>5, <6>1, <6>2
        <5>9. ASSUME NEW n \in DOMAIN queue'[a]
              PROVE  OpensNext(a, queue'[a][n]) /\ current'[a] < queue'[a][n]
          <6>1. n \in 1 .. (Len(q) - 1) /\ queue'[a][n] = q[n + 1]
            BY <5>1, <5>4
          <6>2. n + 1 \in 1 .. Len(q) /\ 1 \in 1 .. Len(q) /\ 1 < n + 1
            BY <5>4, <6>1
          <6>3. q[1] < q[n + 1]
            BY <5>3, <5>4, <6>2
          <6>4. \A x : x = q[n + 1] => OpensNext(a, x)
            BY <5>7, <6>2
          <6> QED
            BY <5>1, <5>4, <6>1, <6>3, <6>4
        <5>10. ASSUME NEW m \in DOMAIN queue'[a], NEW n \in DOMAIN queue'[a], m < n
               PROVE  queue'[a][m] < queue'[a][n]
          <6>1. /\ m + 1 \in 1 .. Len(q) /\ queue'[a][m] = q[m + 1]
                /\ n + 1 \in 1 .. Len(q) /\ queue'[a][n] = q[n + 1] /\ m + 1 < n + 1
            BY <5>1, <5>4, <5>10
          <6> QED
            BY <5>3, <5>4, <6>1
        <5> QED
          BY <5>8, <5>9, <5>10
      <4> QED
        BY <4>1, <4>2
    <3> HIDE DEF Opens
    <3> QED
      BY <3>6, <3>7
  <2>5. CASE UNCHANGED <<queue, current>> /\ issued' = 0
             /\ ~ \E a \in Actors : SubmitAccepted(a) \/ UntypedTurnEnds(a) \/ TurnFails(a)
    <3>1. \/ issued = 0
          \/ RunEnds \/ Amend \/ Crash \/ CrashInAdmission \/ Resume
      BY <1>1, <2>5, ProgressIs DEF ProgressTyped
    <3>2. CASE RunEnds \/ Amend \/ Crash \/ CrashInAdmission \/ Resume
      BY <2>2, <3>2 DEF RunEnds, Amend, Crash, CrashInAdmission, ProcessDies, Resume, EngineState,
                        NoCall
    <3>3. CASE issued = 0
      <4>1. \A a \in Actors : \A i : ~ OpenAsk(a, i)
        BY <3>3 DEF OpenAsk
      <4>2. \A a \in Actors : current[a] = 0 /\ queue[a] = <<>>
        BY <1>1, <4>1 DEF AsksOpen, NoCall
      <4>3. \A a \in Actors : queue'[a] = <<>> /\ current'[a] = 0 /\ DOMAIN queue'[a] = {}
        BY <2>5, <4>2, EmptyIs
      <4> QED
        BY <4>3
    <3> HIDE DEF Opens
    <3> QED
      BY <3>1, <3>2, <3>3
  <2>6. CASE \E a \in Actors : SubmitAccepted(a) \/ UntypedTurnEnds(a) \/ TurnFails(a)
    <3>1. PICK a \in Actors : SubmitAccepted(a) \/ UntypedTurnEnds(a) \/ TurnFails(a)
      BY <2>6
    <3>2. InTurn(a) /\ \E j, row : Settle(j, a, row)
      BY <3>1 DEF SubmitAccepted, UntypedTurnEnds, TurnFails
    <3> HIDE DEF Opens
    <3> QED
      BY <1>1, <2>4, <3>1, <3>2, QueueIs
  <2> HIDE DEF Opens
  <2> QED
    BY <2>1, <2>2, <2>3, <2>5, <2>6, QueuesAre DEF NoCall
<1> QED
  BY <1>5, <1>6 DEF AsksOpen, NoCall, OpensNext, OpenAsk, AskOf, Status

LEMMA WorldOpenKept ==
    ASSUME IInv, [Next]_vars
    PROVE  WorldOpen'
<1>1. WorldOpen /\ issued \in Nat /\ run \in Runs
  BY DEF IInv, Types, ProgressTyped
<1>2. NoActor \notin Actors
  BY ChainAssumption
<1>3. CASE issued' = 0
  <2>1. WorkTyped'
    BY WorkTypedKept
  <2>2. worldBusy' \subseteq 1 .. issued'
    BY <2>1 DEF WorkTyped
  <2>3. worldBusy' = {}
    BY <1>3, <2>2
  <2> QED
    BY <2>3 DEF WorldOpen
<1>4. CASE issued' # 0 /\ worldBusy' \subseteq worldBusy
           /\ \A i \in worldBusy : SettleWorldRead(i) => worldBusy' = worldBusy \ {i}
  <2>1. ASSUME NEW i \in worldBusy' PROVE OpensNext(NoActor, i)
    <3>1. OpenAsk(NoActor, i)
      BY <1>1, <1>4 DEF WorldOpen
    <3> QED
      BY <1>2, <1>4, <3>1, OpenAskKept
  <2> QED
    BY <2>1 DEF WorldOpen, OpensNext, OpenAsk, AskOf, Status
<1>5. CASE WorldLive
  <2>1. /\ MayCall({"read", "run"}) /\ worldBusy' = worldBusy \union {issued + 1}
        /\ issued' = issued + 1 /\ SetRow(issued + 1, Running) /\ run' = run
    BY <1>5, WorldLiveFrame DEF WorldLive, Pending
  <2>2. RowIsPut(issued + 1, Running) /\ Scripts' = Scripts
    BY <2>1, SetRowPuts, StepKinds DEF IInv, Types, JournalTyped, ProgressTyped
  <2>3. Scripts[run][issued + 1].who = NoActor
    BY <2>1, CallIs
  <2>4. ASSUME NEW x, x = issued + 1 PROVE OpensNext(NoActor, x)
    BY <1>1, <2>1, <2>2, <2>3, <2>4 DEF OpensNext, RowIsPut, Running, Row
  <2>5. ASSUME NEW i \in worldBusy PROVE OpensNext(NoActor, i)
    <3>1. OpenAsk(NoActor, i)
      BY <1>1 DEF WorldOpen
    <3>2. issued' # 0
      BY <1>1, <2>1
    <3>3. ~ SettleWorldRead(i)
      <4>1. SettleWorldRead(i) => issued' = issued
        BY SettleWorldReadFrame
      <4> QED
        BY <1>1, <2>1, <4>1
    <3> QED
      BY <1>2, <3>1, <3>2, <3>3, OpenAskKept
  <2> QED
    BY <2>1, <2>4, <2>5 DEF WorldOpen, OpensNext, OpenAsk, AskOf, Status
<1>6. CASE \E i \in worldBusy : SettleWorldRead(i)
  <2>1. \A i \in worldBusy : SettleWorldRead(i) => worldBusy' = worldBusy \ {i}
    BY DEF SettleWorldRead
  <2> QED
    BY <1>3, <1>4, <1>6, <2>1
<1>7. CASE UNCHANGED worldBusy
  <2>1. \A i \in worldBusy : ~ SettleWorldRead(i)
    BY <1>7 DEF SettleWorldRead
  <2> QED
    BY <1>3, <1>4, <1>7, <2>1
<1>8. CASE RunEnds \/ Amend \/ Crash \/ CrashInAdmission \/ Resume
  BY <1>3, <1>8 DEF RunEnds, Amend, Crash, CrashInAdmission, ProcessDies, Resume, EngineState
<1>20. CASE \/ AskReplayed \/ TryImportedSettle \/ AskLive
            \/ WorldReplayed \/ WorldImported \/ UNCHANGED vars
  BY <1>7, <1>20, AskReplayedFrame, TryImportedSettleFrame, AskLiveFrame,
     WorldReplayedFrame, WorldImportedFrame DEF vars, durable, progress, imports, working,
     driver, ghosts
<1>21. CASE \E a \in Actors : \/ OpenSession(a) \/ StartAsk(a) \/ TurnBegins(a)
                              \/ ReadsWorkspace(a) \/ WritesWorkspace(a) \/ SubmitAccepted(a)
                              \/ UntypedTurnEnds(a) \/ TurnFails(a)
  BY <1>7, <1>21, OpenSessionFrame, StartAskFrame, TurnBeginsFrame, ReadsWorkspaceFrame,
     WritesWorkspaceFrame, SubmitAcceptedFrame, UntypedTurnEndsFrame, TurnFailsFrame
<1>22. CASE \E r \in Runs, a \in Actors : \/ SeedMessage(r, a) \/ SessionOpens(r, a) \/ AcceptedTurnEnds(r, a)
  BY <1>7, <1>22, SeedMessageFrame, SessionOpensFrame, AcceptedTurnEndsFrame
<1> QED
  BY <1>5, <1>6, <1>8, <1>20, <1>21, <1>22, StepKinds

\* A turn of a subagent that a step leaves alone still fits.
LEMMA TurnStays ==
    ASSUME IInv, [Next]_vars, run' = run, NEW a \in Actors, NEW n \in DOMAIN turns[run][a],
           ~ AcceptedTurnEnds(run, a),
           ~ turns[run][a][n].accepted =>
               /\ engine' = engine /\ asked'[run][a] = asked[run][a]
               /\ ~ (SubmitAccepted(a) \/ UntypedTurnEnds(a) \/ TurnFails(a))
           \* turn n' of the next queue is this one, but for begun
    PROVE  LET t == turns[run][a][n] IN
           IF t.accepted
           THEN /\ n = 1 /\ t.begun
                /\ t.call \in DOMAIN journal'[run] /\ Scripts'[run][t.call].who = a
                /\ journal'[run][t.call].status = "completed"
                /\ journal'[run][t.call].boundary = NoBoundary
           ELSE /\ engine' = "live" /\ n = Len(turns[run][a])
                /\ current'[a] # NoCall /\ t.call = current'[a] /\ asked'[run][a] = current'[a]
<1> DEFINE t == turns[run][a][n]
<1>1. TurnFits(a, n) /\ run \in Runs /\ Scripts' = Scripts
  BY StepKinds DEF IInv, TurnsFit, Types, ProgressTyped
<1>2. CASE t.accepted
  <2>1. /\ n = 1 /\ t.begun /\ AskOf(run, a, t.call) /\ Status(run, t.call) = "completed"
        /\ journal[run][t.call].boundary = NoBoundary
    BY <1>1, <1>2 DEF TurnFits
  <2> DEFINE i == t.call
  <2>2. i \in DOMAIN journal[run] /\ Scripts[run][i].who = a /\ Status(run, i) # "running"
    BY <2>1 DEF AskOf
  <2> HIDE DEF i, t
  <2>3. ~ \E b \in Actors : AcceptedTurnEnds(run, b) /\ AskOf(run, b, i)
    BY <2>2 DEF AskOf
  <2>4. i \in DOMAIN journal'[run] /\ journal'[run][i] = journal[run][i]
    BY <1>1, <2>2, <2>3, RowsStay
  <2> QED
    BY <1>1, <1>2, <2>1, <2>2, <2>4 DEF Status, i, t
<1>3. CASE ~ t.accepted
  <2>1. /\ engine = "live" /\ n = Len(turns[run][a])
        /\ current[a] # NoCall /\ t.call = current[a] /\ asked[run][a] = current[a]
    BY <1>1, <1>3 DEF TurnFits
  <2>2. /\ engine' = "live" /\ asked'[run][a] = asked[run][a]
        /\ ~ (SubmitAccepted(a) \/ UntypedTurnEnds(a) \/ TurnFails(a))
    BY <1>3, <2>1
  <2>3. current'[a] = current[a]
    <3>1. CASE UNCHANGED <<queue, current>>
      BY <3>1
    <3>2. CASE \E b \in Actors : PumpIs(b, issued + 1)
      BY <2>1, <3>2 DEF PumpIs
    <3>3. CASE \E b \in Actors : /\ SubmitAccepted(b) \/ UntypedTurnEnds(b) \/ TurnFails(b)
                                 /\ SettleIs(b)
      BY <2>2, <3>3 DEF SettleIs
    <3>4. CASE RunEnds \/ Amend \/ Crash \/ CrashInAdmission \/ Resume
      <4>1. engine' # "live" \/ Amend \/ Resume
        BY <3>4 DEF RunEnds, Crash, CrashInAdmission, ProcessDies
      <4> QED
        BY <2>1, <2>2, <4>1 DEF Amend, Resume
    <3> QED
      BY <3>1, <3>2, <3>3, <3>4, QueuesAre
  <2> QED
    BY <1>3, <2>1, <2>2, <2>3
<1> QED
  BY <1>2, <1>3

\* No turn is left of a run that is amended.
LEMMA AmendedIsDone ==
    ASSUME IInv, Amend
    PROVE  \A r \in Runs : \A a \in Actors : turns[r][a] = <<>>
<1>1. /\ engine = "over" /\ CompletedAsksHaveBoundaries(run) /\ run \in Runs /\ plan \in Plans
  BY DEF Amend, IInv, Types, ProgressTyped
<1>2. ASSUME NEW a \in Actors, turns[run][a] # <<>>
      PROVE  FALSE
  <2>1. turns[run][a] \in Seq(Turns)
    BY <1>1 DEF IInv, Types, TurnsTyped
  <2>2. 1 \in DOMAIN turns[run][a]
    BY <1>2, <2>1
  <2>3. TurnFits(a, 1)
    BY <2>2 DEF IInv, TurnsFit
  <2> DEFINE i == turns[run][a][1].call
  <2>4. AskOf(run, a, i) /\ Status(run, i) = "completed" /\ journal[run][i].boundary = NoBoundary
    BY <1>1, <2>3 DEF TurnFits
  <2> HIDE DEF i
  <2>5. i \in Calls(run) /\ Scripts[run][i].who = a /\ i \in DOMAIN journal[run]
    BY <1>1, <2>4 DEF AskOf, IInv, Types, JournalTyped
  <2>6. Scripts[run][i].op = "ask"
    BY <1>1, <2>5, ScriptIs
  <2> QED
    BY <1>1, <2>4, <2>5, <2>6 DEF CompletedAsksHaveBoundaries, Completed, Recorded, Status
<1> QED
  BY <1>2 DEF IInv, TurnsFit

LEMMA TurnsFitKept ==
    ASSUME IInv, [Next]_vars
    PROVE  TurnsFit'
<1>1. /\ run \in Runs /\ TurnsFit /\ TurnsTyped /\ WorkTyped
      /\ \A r \in Runs : \A a \in Actors : turns[r][a] \in Seq(Turns)
      /\ run' \in Runs
  <2>1. run' \in Runs
    BY ProgressTypedKept, StepKinds DEF ProgressTyped
  <2>2. /\ run \in Runs /\ TurnsFit /\ TurnsTyped /\ WorkTyped
    BY DEF IInv, Types, ProgressTyped
  <2> QED
    BY <2>1, <2>2, StepKinds DEF TurnsTyped
<1>2. Scripts' = Scripts
  BY StepKinds
<1> DEFINE FitsNext(a, n) ==
               LET t == turns'[run'][a][n] IN
               IF t.accepted
               THEN /\ n = 1 /\ t.begun
                    /\ t.call \in DOMAIN journal'[run'] /\ Scripts'[run'][t.call].who = a
                    /\ journal'[run'][t.call].status = "completed"
                    /\ journal'[run'][t.call].boundary = NoBoundary
               ELSE /\ engine' = "live" /\ n = Len(turns'[run'][a])
                    /\ current'[a] # NoCall /\ t.call = current'[a]
                    /\ asked'[run'][a] = current'[a]
           Fits(a) == \A n \in DOMAIN turns'[run'][a] : FitsNext(a, n)
           Others == \A r \in Runs \ {run'} : \A a \in Actors : turns'[r][a] = <<>>
<1>3. SUFFICES (\A a \in Actors : Fits(a)) /\ Others
  BY <1>2 DEF TurnsFit, TurnFits, AskOf, Status
<1>4. CASE \A r \in Runs : \A a \in Actors : turns'[r][a] = <<>>
  <2>1. \A a \in Actors : DOMAIN turns'[run'][a] = {}
    BY <1>1, <1>4, EmptyIs
  <2> QED
    BY <1>4, <2>1
\* The queue of a is as it was, and so are the flags it depends on.
<1>5. ASSUME NEW a \in Actors, run' = run, turns'[run][a] = turns[run][a],
             ~ AcceptedTurnEnds(run, a),
             \/ \A n \in DOMAIN turns[run][a] : turns[run][a][n].accepted
             \/ /\ engine' = engine /\ asked'[run][a] = asked[run][a]
                /\ ~ (SubmitAccepted(a) \/ UntypedTurnEnds(a) \/ TurnFails(a))
      PROVE  Fits(a)
  <2>1. ASSUME NEW n \in DOMAIN turns'[run'][a] PROVE FitsNext(a, n)
    <3>1. n \in DOMAIN turns[run][a]
      BY <1>5
    <3>2. ~ turns[run][a][n].accepted =>
              /\ engine' = engine /\ asked'[run][a] = asked[run][a]
              /\ ~ (SubmitAccepted(a) \/ UntypedTurnEnds(a) \/ TurnFails(a))
      BY <1>5, <3>1
    <3>3. LET t == turns[run][a][n] IN
          IF t.accepted
          THEN /\ n = 1 /\ t.begun
               /\ t.call \in DOMAIN journal'[run] /\ Scripts'[run][t.call].who = a
               /\ journal'[run][t.call].status = "completed"
               /\ journal'[run][t.call].boundary = NoBoundary
          ELSE /\ engine' = "live" /\ n = Len(turns[run][a])
               /\ current'[a] # NoCall /\ t.call = current'[a] /\ asked'[run][a] = current'[a]
      <4> HIDE DEF FitsNext, Fits, Others
      <4> QED
        BY <1>5, <3>1, <3>2, TurnStays
    <3> QED
      BY <1>5, <3>3
  <2> QED
    BY <2>1
<1>6. CASE UNCHANGED <<turns, asked>>
  <2>1. CASE Amend
    <3>1. \A r \in Runs : \A a \in Actors : turns'[r][a] = <<>>
      BY <1>6, <2>1, AmendedIsDone
    <3> QED
      BY <1>4, <3>1
  <2>2. CASE run' = run /\ (engine' = engine \/ engine # "live")
    <3>1. \A a \in Actors : ~ AcceptedTurnEnds(run, a)
      <4>1. ASSUME NEW a \in Actors, AcceptedTurnEnds(run, a) PROVE FALSE
        <5>1. turns'[run][a] = Tail(turns[run][a]) /\ turns[run][a] # <<>>
          BY <1>1, <4>1 DEF AcceptedTurnEnds, TurnsTyped
        <5>2. turns[run][a] \in Seq(Turns)
          BY <1>1
        <5>3. Len(Tail(turns[run][a])) # Len(turns[run][a])
          BY <5>1, <5>2
        <5> QED
          BY <1>6, <5>1, <5>3
      <4> QED
        BY <4>1
    <3>2. \A a \in Actors : ~ (SubmitAccepted(a) \/ UntypedTurnEnds(a) \/ TurnFails(a))
      <4>1. ASSUME NEW a \in Actors, UntypedTurnEnds(a) \/ TurnFails(a) PROVE FALSE
        <5>1. turns'[run][a] = Tail(turns[run][a]) /\ turns[run][a] # <<>>
          <6>1. turns' = [turns EXCEPT ![run][a] = Tail(turns[run][a])] /\ turns[run][a] # <<>>
            BY <4>1 DEF UntypedTurnEnds, TurnFails, InTurn
          <6> QED
            BY <1>1, <6>1 DEF TurnsTyped
        <5>2. turns[run][a] \in Seq(Turns)
          BY <1>1
        <5>3. Len(Tail(turns[run][a])) # Len(turns[run][a])
          BY <5>1, <5>2
        <5> QED
          BY <1>6, <5>1, <5>3
      <4>2. ASSUME NEW a \in Actors, SubmitAccepted(a) PROVE FALSE
        <5>1. /\ turns' = [turns EXCEPT ![run][a][1].accepted = TRUE]
              /\ InTurn(a)
          BY <4>2 DEF SubmitAccepted
        <5>2. turns[run][a] \in Seq(Turns) /\ turns[run][a] # <<>>
              /\ ~ turns[run][a][1].accepted
          BY <5>1, InTurnIs
        <5>3. turns'[run][a][1].accepted
          BY <1>1, <5>1, <5>2 DEF TurnsTyped, Turns
        <5> QED
          BY <1>6, <5>2, <5>3
      <4> QED
        BY <4>1, <4>2
    <3>3. \A a \in Actors : \/ \A n \in DOMAIN turns[run][a] : turns[run][a][n].accepted
                            \/ engine' = engine
      BY <1>1, <2>2 DEF TurnsFit, TurnFits
    <3>4. \A a \in Actors : Fits(a)
      <4> HIDE DEF Fits
      <4> QED
        BY <1>5, <1>6, <2>2, <3>1, <3>2, <3>3
    <3>5. Others
      BY <1>1, <1>6, <2>2 DEF TurnsFit
    <3> QED
      BY <3>4, <3>5
  <2>3. CASE Crash \/ CrashInAdmission
    <3>1. turns' = PerRun(<<>>)
      BY <2>3 DEF Crash, CrashInAdmission, ProcessDies
    <3> QED
      BY <1>4, <3>1 DEF PerRun, PerActor
  <2>4. CASE RunEnds
    <3>1. /\ run' = run
          /\ \A a \in Actors : turns'[run][a] =
                 IF turns[run][a] # <<>> /\ Head(turns[run][a]).accepted
                 THEN <<Head(turns[run][a])>> ELSE <<>>
      BY <1>1, <2>4, RunEndsFrame DEF RunEnds, TurnsTyped
    <3>2. \A a \in Actors : ~ AcceptedTurnEnds(run, a)
      <4>1. ASSUME NEW a \in Actors, AcceptedTurnEnds(run, a) PROVE FALSE
        BY <2>4, <4>1, AcceptedTurnEndsFrame DEF RunEnds
      <4> QED
        BY <4>1
    <3>3. ASSUME NEW a \in Actors PROVE \A n \in DOMAIN turns[run][a] : turns[run][a][n].accepted
      <4>1. CASE turns[run][a] = <<>>
        BY <4>1, EmptyIs
      <4>2. CASE turns[run][a] # <<>>
        <5>1. turns[run][a] = <<Head(turns[run][a])>> /\ Head(turns[run][a]).accepted
          BY <1>6, <3>1, <4>2, EmptyIs
        <5> DEFINE t == Head(turns[run][a])
        <5> HIDE DEF t
        <5>2. turns[run][a] = <<t>> /\ t.accepted
          BY <5>1 DEF t
        <5> QED
          BY <5>2
      <4> QED
        BY <4>1, <4>2
    <3>4. \A a \in Actors : Fits(a)
      <4> HIDE DEF Fits
      <4> QED
        BY <1>5, <1>6, <3>1, <3>2, <3>3
    <3>5. Others
      BY <1>1, <1>6, <3>1 DEF TurnsFit
    <3> QED
      BY <3>4, <3>5
  <2> QED
    BY <2>1, <2>2, <2>3, <2>4, ProgressIs
\* Only the turns of a change, and no engine comes or goes.
<1>7. ASSUME NEW a \in Actors, TurnsOnly(run, a), run' = run, engine' = engine,
             \A b \in Actors \ {a} : asked'[run][b] = asked[run][b],
             \A b \in Actors \ {a} : /\ ~ (SubmitAccepted(b) \/ UntypedTurnEnds(b) \/ TurnFails(b))
                                     /\ ~ AcceptedTurnEnds(run, b),
             Fits(a)
      PROVE  (\A b \in Actors : Fits(b)) /\ Others
  <2>1. \A b \in Actors \ {a} : turns'[run][b] = turns[run][b]
    BY <1>1, <1>7 DEF TurnsOnly
  <2>2. \A b \in Actors \ {a} : Fits(b)
    <3> HIDE DEF Fits
    <3> QED
      BY <1>5, <1>7, <2>1
  <2>3. Others
    BY <1>1, <1>7 DEF TurnsOnly, TurnsFit
  <2> HIDE DEF Fits, Others
  <2> QED
    BY <1>7, <2>2, <2>3
\* One turn at a time ends.
<1>8. ASSUME NEW a \in Actors, NEW b \in Actors, a # b, run' = run,
             turns'[run][a] = turns[run][a]
      PROVE  /\ ~ (SubmitAccepted(a) \/ UntypedTurnEnds(a) \/ TurnFails(a))
             /\ ~ AcceptedTurnEnds(run, a)
  <2>1. ASSUME AcceptedTurnEnds(run, a) \/ UntypedTurnEnds(a) \/ TurnFails(a) PROVE FALSE
    <3>1. turns'[run][a] = Tail(turns[run][a]) /\ turns[run][a] # <<>>
      <4>1. turns' = [turns EXCEPT ![run][a] = Tail(turns[run][a])] /\ turns[run][a] # <<>>
        BY <2>1 DEF AcceptedTurnEnds, UntypedTurnEnds, TurnFails, InTurn
      <4> QED
        BY <1>1, <4>1 DEF TurnsTyped
    <3>2. turns[run][a] \in Seq(Turns)
      BY <1>1
    <3>3. Len(Tail(turns[run][a])) # Len(turns[run][a])
      BY <3>1, <3>2
    <3> QED
      BY <1>8, <3>1, <3>3
  <2>2. ASSUME SubmitAccepted(a) PROVE FALSE
    <3>1. /\ turns' = [turns EXCEPT ![run][a][1].accepted = TRUE]
          /\ InTurn(a)
      BY <2>2 DEF SubmitAccepted
    <3>2. turns[run][a] \in Seq(Turns) /\ turns[run][a] # <<>>
          /\ ~ turns[run][a][1].accepted
      BY <3>1, InTurnIs
    <3>3. turns'[run][a][1].accepted
      BY <1>1, <3>1, <3>2 DEF TurnsTyped, Turns
    <3> QED
      BY <1>8, <3>2, <3>3
  <2> QED
    BY <2>1, <2>2
<1>9. ASSUME NEW a \in Actors, TurnsOnly(run, a), run' = run, engine' = engine,
             \A b \in Actors \ {a} : asked'[run][b] = asked[run][b],
             Fits(a)
      PROVE  (\A b \in Actors : Fits(b)) /\ Others
  <2>1. \A b \in Actors \ {a} : turns'[run][b] = turns[run][b]
    BY <1>1, <1>9 DEF TurnsOnly
  <2> HIDE DEF Fits, Others
  <2>2. ASSUME NEW b \in Actors \ {a}
        PROVE  /\ ~ (SubmitAccepted(b) \/ UntypedTurnEnds(b) \/ TurnFails(b))
               /\ ~ AcceptedTurnEnds(run, b)
    BY <1>8, <1>9, <2>1
  <2> QED
    BY <1>7, <1>9, <2>2
<1>10. CASE turns' = PerRun(<<>>)
  <2> HIDE DEF Fits, Others
  <2> QED
    BY <1>4, <1>10 DEF PerRun, PerActor
<1>11. CASE /\ RunEnds
            /\ \A r \in Runs \ {run} : turns'[r] = turns[r]
            /\ \A a \in Actors : turns'[run][a] =
                   IF turns[run][a] # <<>> /\ Head(turns[run][a]).accepted
                   THEN <<Head(turns[run][a])>> ELSE <<>>
  <2>1. run' = run /\ UNCHANGED journal
    BY <1>11, RunEndsFrame
  <2>2. ASSUME NEW a \in Actors, NEW n \in DOMAIN turns'[run'][a] PROVE FitsNext(a, n)
    <3>1. turns[run][a] # <<>> /\ Head(turns[run][a]).accepted
      <4>1. turns'[run][a] # <<>>
        <5>1. n \in DOMAIN turns'[run][a]
          BY <2>1, <2>2
        <5>2. DOMAIN <<>> = {}
          BY EmptyIs
        <5> QED
          BY <5>1, <5>2
      <4> QED
        BY <1>11, <4>1
    <3> DEFINE t == Head(turns[run][a])
    <3>2. turns'[run][a] = <<t>>
      BY <1>11, <3>1
    <3>3. t = turns[run][a][1] /\ 1 \in DOMAIN turns[run][a]
      BY <1>1, <3>1
    <3>4. TurnFits(a, 1)
      BY <1>1, <3>3 DEF TurnsFit
    <3> HIDE DEF t
    <3>5. n = 1 /\ turns'[run'][a][n] = t
      BY <2>1, <2>2, <3>2
    <3>6. t.accepted
      BY <3>1 DEF t
    <3> QED
      BY <1>2, <2>1, <3>3, <3>4, <3>5, <3>6 DEF TurnFits, AskOf, Status
  <2>3. Others
    BY <1>1, <1>11, <2>1 DEF TurnsFit
  <2> QED
    BY <2>2, <2>3
<1>12. ASSUME NEW a \in Actors, StartAsk(a), TurnsOnly(run, a),
              turns'[run][a] = Append(turns[run][a], Turn(current[a])),
              asked'[run][a] = current[a],
              \A b \in Actors \ {a} : asked'[run][b] = asked[run][b]
       PROVE  (\A b \in Actors : Fits(b)) /\ Others
  <2> DEFINE w == turns[run][a]
             t == Turn(current[a])
  <2>1. /\ UNCHANGED <<run, engine, journal, current>>
        /\ engine = "live" /\ current[a] # NoCall /\ asked[run][a] # current[a]
    BY <1>12, StartAskFrame DEF StartAsk, Busy
  <2>2. \A n \in DOMAIN w : w[n].accepted /\ n = 1
    BY <1>1, <2>1 DEF TurnsFit, TurnFits
  <2>3. /\ Len(w) \in Nat /\ DOMAIN w = 1 .. Len(w) /\ t \in Turns
        /\ turns'[run][a] = Append(w, t)
        /\ ~ t.accepted /\ t.call = current[a]
    BY <1>1, <1>12 DEF Turn, Turns, WorkTyped
  <2>4. w \in Seq(Turns)
    BY <1>1
  <2> HIDE DEF w, t
  <2>5. /\ Len(turns'[run][a]) = Len(w) + 1 /\ DOMAIN turns'[run][a] = 1 .. Len(w) + 1
        /\ turns'[run][a][Len(w) + 1] = t
        /\ \A n \in 1 .. Len(w) : turns'[run][a][n] = w[n]
    BY <2>3, <2>4
  <2>6. ASSUME NEW n \in DOMAIN turns'[run'][a] PROVE FitsNext(a, n)
    <3>1. CASE n = Len(w) + 1
      BY <1>12, <2>1, <2>3, <2>5, <3>1
    <3>2. CASE n # Len(w) + 1
      <4>1. n \in DOMAIN w
        BY <2>1, <2>3, <2>5, <2>6, <3>2
      <4>2. TurnFits(a, n)
        BY <1>1, <4>1 DEF TurnsFit, w
      <4>3. turns'[run'][a][n] = w[n] /\ w[n].accepted
        BY <2>1, <2>2, <2>3, <2>5, <4>1
      <4> QED
        BY <1>2, <2>1, <4>2, <4>3 DEF TurnFits, AskOf, Status, w
    <3> QED
      BY <3>1, <3>2
  <2>7. Fits(a)
    BY <2>6
  <2> HIDE DEF Fits, Others
  <2> QED
    BY <1>9, <1>12, <2>1, <2>7
<1>13. ASSUME NEW a \in Actors, TurnBegins(a), TurnsOnly(run, a), asked' = asked,
              turns[run][a] # <<>>, 
              turns'[run][a] = [turns[run][a] EXCEPT ![1].begun = TRUE]
       PROVE  (\A b \in Actors : Fits(b)) /\ Others
  <2> DEFINE w == turns[run][a]
             v == turns'[run][a]
  <2>1. UNCHANGED <<run, engine, journal, current>>
    BY <1>13, TurnBeginsFrame
  <2>2. w \in Seq(Turns) /\ w # <<>> /\ v = [w EXCEPT ![1].begun = TRUE] /\ v \in Seq(Turns)
    <3>0. turns' \in [Runs -> [Actors -> Seq(Turns)]] /\ run \in Runs
      BY <1>1, <1>13 DEF TurnsOnly
    <3>1. v \in Seq(Turns)
      BY <3>0
    <3> QED
      BY <1>1, <1>13, <3>1
  <2> HIDE DEF w, v
  <2>3. /\ Len(w) \in Nat /\ DOMAIN w = 1 .. Len(w) /\ DOMAIN v = DOMAIN w
        /\ \A n \in DOMAIN w : w[n] \in Turns
    BY <2>2
  <2>4. Len(v) = Len(w)
    BY <2>2, <2>3
  <2>5. ASSUME NEW n \in DOMAIN w
        PROVE  v[n].call = w[n].call /\ v[n].accepted = w[n].accepted /\ (w[n].begun => v[n].begun)
    <3>1. w[n] \in Turns
      BY <2>3
    <3>2. v[n] = IF n = 1 THEN [w[1] EXCEPT !.begun = TRUE] ELSE w[n]
      BY <2>2, <2>3
    <3> QED
      BY <3>1, <3>2 DEF Turns
  <2>6. ASSUME NEW n \in DOMAIN turns'[run'][a] PROVE FitsNext(a, n)
    <3>1. n \in DOMAIN w /\ turns'[run'][a] = v
      BY <2>1, <2>3 DEF v
    <3>2. TurnFits(a, n)
      BY <1>1, <3>1 DEF TurnsFit, w
    <3> QED
      BY <1>2, <1>13, <2>1, <2>4, <2>5, <3>1, <3>2 DEF TurnFits, AskOf, Status, w
  <2>7. Fits(a)
    BY <2>6
  <2> HIDE DEF Fits, Others
  <2> QED
    BY <1>9, <1>13, <2>1, <2>7
<1>14. ASSUME NEW a \in Actors, SubmitAccepted(a), TurnsOnly(run, a), asked' = asked,
              turns'[run][a] = [turns[run][a] EXCEPT ![1].accepted = TRUE]
       PROVE  (\A b \in Actors : Fits(b)) /\ Others
  <2> DEFINE w == turns[run][a]
             v == turns'[run][a]
             i == TurnCall(a)
  <2>1. UNCHANGED <<run, engine>> /\ InTurn(a)
    BY <1>14, SubmitAcceptedFrame DEF SubmitAccepted
  <2>2. /\ w \in Seq(Turns) /\ Len(w) = 1 /\ w[1].begun /\ w[1].call = i
        /\ v = [w EXCEPT ![1].accepted = TRUE] /\ v \in Seq(Turns)
        /\ Scripts[run][i].who = a
    <3>0. turns' \in [Runs -> [Actors -> Seq(Turns)]] /\ run \in Runs
      BY <1>1, <1>14 DEF TurnsOnly
    <3>1. v \in Seq(Turns)
      BY <3>0
    <3>2. /\ w \in Seq(Turns) /\ Len(w) = 1 /\ Head(w) = w[1] /\ Head(w).begun /\ i = w[1].call
          /\ OpenAsk(a, i)
      BY <2>1, InTurnIs
    <3> QED
      BY <1>14, <3>1, <3>2 DEF OpenAsk, AskOf
  <2>3. RowIsPut(i, Row("completed", <<run, i>>, NoBoundary, FALSE))
    <3>1. SetRow(i, Row("completed", <<run, i>>, NoBoundary, FALSE))
      BY <1>14 DEF SubmitAccepted, Settle
    <3>2. run \in DOMAIN journal
      BY <1>1 DEF IInv, Types, JournalTyped
    <3> QED
      BY <3>1, <3>2, SetRowPuts
  <2> HIDE DEF w, v, i
  <2>4. DOMAIN w = {1} /\ DOMAIN v = {1} /\ w[1] \in Turns
    BY <2>2
  <2>5. v[1] = [w[1] EXCEPT !.accepted = TRUE]
    BY <2>2, <2>4
  <2>6. v[1].accepted /\ v[1].begun /\ v[1].call = i
    BY <2>2, <2>4, <2>5 DEF Turns
  <2>7. /\ i \in DOMAIN journal'[run] /\ journal'[run][i].status = "completed"
        /\ journal'[run][i].boundary = NoBoundary
    BY <2>3 DEF RowIsPut, Row
  <2>8. Fits(a)
    <3>1. ASSUME NEW n \in DOMAIN turns'[run'][a] PROVE FitsNext(a, n)
      BY <1>2, <2>1, <2>2, <2>4, <2>6, <2>7 DEF v
    <3> QED
      BY <3>1
  <2> HIDE DEF Fits, Others
  <2> QED
    BY <1>9, <1>14, <2>1, <2>8
<1>15. ASSUME NEW a \in Actors, UntypedTurnEnds(a) \/ TurnFails(a), TurnsOnly(run, a), asked' = asked,
              turns'[run][a] = Tail(turns[run][a])
       PROVE  (\A b \in Actors : Fits(b)) /\ Others
  <2>1. UNCHANGED <<run, engine>> /\ InTurn(a)
    BY <1>15, UntypedTurnEndsFrame, TurnFailsFrame DEF UntypedTurnEnds, TurnFails
  <2>2. turns[run][a] \in Seq(Turns) /\ Len(turns[run][a]) = 1
    BY <2>1, InTurnIs
  <2>3. DOMAIN Tail(turns[run][a]) = {}
    <3> DEFINE w == turns[run][a]
    <3> HIDE DEF w
    <3>1. w \in Seq(Turns) /\ Len(w) = 1
      BY <2>2 DEF w
    <3>2. w # <<>>
      BY <3>1, EmptyIs
    <3>3. Tail(w) \in Seq(Turns) /\ Len(Tail(w)) = 1 - 1
      BY <3>1, <3>2
    <3>5. DOMAIN Tail(w) = 1 .. Len(Tail(w))
      BY <3>3
    <3> DEFINE n == Len(Tail(w))
               d == DOMAIN Tail(w)
    <3>6. n = 0 /\ d = 1 .. n
      BY <3>3, <3>5
    <3> HIDE DEF n, d
    <3>7. d = {}
      BY <3>6
    <3>4. DOMAIN Tail(w) = {}
      BY <3>7 DEF d
    <3> QED
      BY <3>4 DEF w
  <2>4. Fits(a)
    BY <1>15, <2>1, <2>3
  <2> HIDE DEF Fits, Others
  <2> QED
    BY <1>9, <1>15, <2>1, <2>4
<1>16. ASSUME NEW r \in Runs, NEW a \in Actors, AcceptedTurnEnds(r, a), TurnsOnly(r, a), asked' = asked,
              turns'[r][a] = Tail(turns[r][a])
       PROVE  (\A b \in Actors : Fits(b)) /\ Others
  <2> DEFINE w == turns[run][a]
  <2>1. r = run /\ UNCHANGED <<run, engine, current>> /\ w # <<>> /\ Head(w).accepted
    BY <1>16, EndedIs, AcceptedTurnEndsFrame
  <2>2. w \in Seq(Turns) /\ Len(w) \in {1, 2} /\ turns'[run][a] = Tail(w)
    BY <1>16, <2>1, AcceptedIs
  <2> HIDE DEF w
  <2>3. /\ DOMAIN Tail(w) = 1 .. (Len(w) - 1) /\ Len(Tail(w)) = Len(w) - 1
        /\ \A n \in 1 .. (Len(w) - 1) : Tail(w)[n] = w[n + 1]
    BY <2>1, <2>2
  <2>4. ASSUME NEW n \in DOMAIN turns'[run'][a] PROVE FitsNext(a, n)
    <3>1. n = 1 /\ Len(w) = 2 /\ Len(Tail(w)) = 1 /\ turns'[run'][a][n] = w[2]
      BY <2>1, <2>2, <2>3
    <3>2. 2 \in DOMAIN w
      BY <2>2, <3>1
    <3>3. TurnFits(a, 2)
      BY <1>1, <3>2 DEF TurnsFit, w
    <3>4. ~ w[2].accepted
      <4>1. w[2].accepted => 2 = 1
        BY <3>3 DEF TurnFits, w
      <4> QED
        BY <4>1
    <3>5. /\ engine = "live" /\ current[a] # NoCall /\ w[2].call = current[a]
          /\ asked[run][a] = current[a]
      BY <3>3, <3>4 DEF TurnFits, w
    <3> QED
      BY <1>16, <2>1, <2>2, <3>1, <3>4, <3>5
  <2>5. Fits(a)
    BY <2>4
  <2> HIDE DEF Fits, Others
  <2> QED
    BY <1>9, <1>16, <2>1, <2>5
<1> HIDE DEF Fits, Others
<1> QED
  BY <1>6, <1>10, <1>11, <1>12, <1>13, <1>14, <1>15, <1>16, TurnsAre

-----------------------------------------------------------------------------
\* The first theorems

LEMMA InitIInv == Init => IInv
<1> SUFFICES ASSUME Init PROVE IInv
  OBVIOUS
<1>1. plan \in Plans /\ 1 \in Runs
  BY ScriptIs DEF Init
<1>2. /\ \A r \in Runs : Len(Scripts[r]) \in Nat /\ Calls(r) = 1 .. Len(Scripts[r])
      /\ DOMAIN <<>> = {} /\ <<>> \in Seq(Entries) /\ <<>> \in Seq(Answers)
      /\ <<>> \in Seq(Nat) /\ <<>> \in Seq(Turns) /\ IsSeq(<<>>)
  BY <1>1, ScriptIs, EmptyIs
<1>3. JournalTyped
  BY <1>2 DEF Init, JournalTyped
<1>4. StoreTyped
  BY <1>2 DEF Init, StoreTyped, PerRun, PerActor
<1>5. ProgressTyped
  BY <1>1, <1>2 DEF Init, ProgressTyped
<1>6. CacheTyped
  BY <1>1, <1>3, CacheForTyped DEF Init, CacheTyped
<1>7. CursorTyped
  <2>1. /\ \A a \in Actors : Len(cache.entries[a]) \in Nat
        /\ \A h \in Hashes : Len(cache.world[h]) \in Nat
    <3>1. /\ \A a \in Actors : cache.entries[a] \in Seq(Entries)
          /\ \A h \in Hashes : cache.world[h] \in Seq(Answers)
      BY <1>6 DEF CacheTyped
    <3> QED
      BY <3>1
  <2>2. /\ 0 \in Nat /\ FreshCursor \in [consumed : Nat, diverged : BOOLEAN]
        /\ FreshCursor.consumed = 0
    BY DEF FreshCursor
  <2>3. /\ cursor = [a \in Actors |-> FreshCursor] /\ used = [h \in Hashes |-> 0]
    BY DEF Init, PerActor
  <2>4. /\ cursor \in [Actors -> [consumed : Nat, diverged : BOOLEAN]]
        /\ used \in [Hashes -> Nat]
    BY <2>2, <2>3
  <2>5. /\ \A a \in Actors : cursor[a].consumed <= Len(cache.entries[a])
        /\ \A h \in Hashes : used[h] <= Len(cache.world[h])
    BY <2>1, <2>2, <2>3
  <2> QED
    BY <2>4, <2>5 DEF Init, CursorTyped
<1>8. WorkTyped
  BY <1>2 DEF Init, WorkTyped, PerActor, NoCall
<1>9. SessionTyped
  BY UnopenedTyped DEF Init, SessionTyped, PerRun, PerActor
<1>10. TurnsTyped
  BY <1>2 DEF Init, TurnsTyped, PerRun, PerActor, NoCall
<1>11. GhostsTyped
  <2>1. -1 \in Int /\ split = [r \in Runs |-> [a \in Actors |-> -1]]
    BY DEF Init, PerRun, PerActor
  <2>2. split \in [Runs -> [Actors -> Int]]
    BY <2>1
  <2> QED
    BY <2>2 DEF Init, GhostsTyped
<1>12. AsksOpen
  BY <1>2 DEF Init, AsksOpen, PerActor
<1>13. TurnsFit
  BY <1>1, <1>2 DEF Init, TurnsFit, PerRun, PerActor
<1>14. WorldOpen
  BY DEF Init, WorldOpen
<1> QED
  BY <1>1, <1>3, <1>4, <1>5, <1>6, <1>7, <1>8, <1>9, <1>10, <1>11, <1>12, <1>13, <1>14
     DEF IInv, Types

LEMMA NextIInv == IInv /\ [Next]_vars => IInv'
BY TypesKept, AsksOpenKept, TurnsFitKept, WorldOpenKept DEF IInv

LEMMA TypesGiveTypeOK == IInv => TypeOK
<1> SUFFICES ASSUME IInv PROVE TypeOK
  OBVIOUS
<1>1. /\ plan \in Plans /\ JournalTyped /\ StoreTyped /\ ProgressTyped /\ CacheTyped /\ CursorTyped
      /\ SessionTyped /\ TurnsTyped
  BY DEF IInv, Types
<1>2. ASSUME NEW r \in Runs
      PROVE  /\ DOMAIN journal[r] \subseteq Calls(r)
             /\ \A i \in DOMAIN journal[r] :
                  journal[r][i] \in [status : {"running", "completed", "failed"},
                                     answer : Answers, boundary : Nat,
                                     pure : BOOLEAN]
             /\ sessionRow[r] \subseteq Actors
             /\ queuedEvents[r] \subseteq Calls(r)
             /\ \A a \in Actors :
                  /\ session[r][a].state \in {"none", "seeding", "open"}
                  /\ session[r][a].copied \in 0 .. session[r][a].seed.length
                  /\ asked[r][a] \in {NoCall} \union Calls(r)
  <2>1. ASSUME NEW a \in Actors
        PROVE  /\ session[r][a].state \in {"none", "seeding", "open"}
               /\ session[r][a].copied \in 0 .. session[r][a].seed.length
    <3>1. session[r][a] \in Copies /\ session[r][a].copied <= session[r][a].seed.length
      BY <1>1 DEF SessionTyped
    <3>2. /\ session[r][a].copied \in Nat /\ session[r][a].seed.length \in Nat
          /\ session[r][a].state \in {"none", "seeding", "open"}
      BY <3>1 DEF Copies, Seeds
    <3> QED
      BY <3>1, <3>2
  <2> QED
    BY <1>1, <2>1 DEF JournalTyped, StoreTyped, TurnsTyped, Rows
<1>3. /\ \A a \in Actors : cursor[a].consumed \in 0 .. Len(cache.entries[a])
      /\ \A h \in Hashes : used[h] \in 0 .. Len(cache.world[h])
  <2>1. /\ \A a \in Actors : cache.entries[a] \in Seq(Entries)
        /\ \A h \in Hashes : cache.world[h] \in Seq(Answers)
    BY <1>1 DEF CacheTyped
  <2>2. /\ \A a \in Actors : Len(cache.entries[a]) \in Nat
        /\ \A h \in Hashes : Len(cache.world[h]) \in Nat
    BY <2>1
  <2>3. /\ \A a \in Actors : cursor[a].consumed \in Nat /\ cursor[a].consumed <= Len(cache.entries[a])
        /\ \A h \in Hashes : used[h] \in Nat /\ used[h] <= Len(cache.world[h])
    BY <1>1 DEF CursorTyped
  <2> QED
    BY <2>2, <2>3
<1> QED
  BY <1>1, <1>2, <1>3 DEF TypeOK, ProgressTyped, StoreTyped

THEOREM AlwaysIInv == Spec => []IInv
BY InitIInv, NextIInv, PTL DEF Spec

\* For every plan, whatever its scripts ask for and wherever the process dies,
\* also between the row of an ask and its event, every run stays in its types.
THEOREM TypesAlwaysOK == Spec => []TypeOK
BY AlwaysIInv, TypesGiveTypeOK, PTL

\* For every plan: an answer that is recorded is never replaced, neither by a
\* resumed engine, nor by a turn that ends after its run, nor by the import of
\* the next; and a command whose end is recorded is not run again.
THEOREM AnswersAlwaysFinal == Spec => AnswersFinal
<1> DEFINE Kept == \A r \in Runs : \A i \in DOMAIN journal[r] :
           journal[r][i].status # "running" =>
               /\ i \in DOMAIN journal'[r]
               /\ journal'[r][i].status = journal[r][i].status
               /\ journal'[r][i].answer = journal[r][i].answer
               /\ executed'[r][i] = executed[r][i]
<1>1. IInv /\ [Next]_vars => [Kept]_vars
  <2> SUFFICES ASSUME IInv, [Next]_vars, NEW q \in Runs, NEW k \in DOMAIN journal[q],
                      journal[q][k].status # "running"
               PROVE  /\ k \in DOMAIN journal'[q]
                      /\ journal'[q][k].status = journal[q][k].status
                      /\ journal'[q][k].answer = journal[q][k].answer
                      /\ executed'[q][k] = executed[q][k]
    OBVIOUS
  <2>1. /\ k \in DOMAIN journal'[q]
        /\ journal'[q][k].status = journal[q][k].status
        /\ journal'[q][k].answer = journal[q][k].answer
    BY RowsStay DEF Status
  <2>2. executed'[q][k] = executed[q][k]
    <3>1. CASE UNCHANGED executed
      BY <3>1
    <3>2. CASE WorldLive
      <4>1. /\ executed' = [executed EXCEPT ![run][issued + 1] = @ + 1]
            /\ Unanswered(issued + 1)
        BY <3>2 DEF WorldLive
      <4>2. ~ (q = run /\ k = issued + 1)
        BY <4>1 DEF Unanswered, Recorded
      <4>3. /\ DOMAIN executed = Runs /\ DOMAIN executed[q] = Calls(q) /\ k \in Calls(q)
        BY DEF IInv, Types, GhostsTyped, JournalTyped
      <4> QED
        BY <4>1, <4>2, <4>3
<3>20. CASE \/ AskReplayed \/ TryImportedSettle \/ AskLive
            \/ CrashInAdmission \/ WorldReplayed \/ WorldImported
            \/ RunEnds \/ Amend \/ Crash
            \/ Resume \/ UNCHANGED vars
  BY <3>1, <3>20, AskReplayedFrame, TryImportedSettleFrame, AskLiveFrame,
     CrashInAdmissionFrame, WorldReplayedFrame, WorldImportedFrame, RunEndsFrame,
     AmendFrame, CrashFrame, ResumeFrame DEF vars, durable, progress, imports, working,
     driver, ghosts
<3>21. CASE \E a \in Actors : \/ OpenSession(a) \/ StartAsk(a) \/ TurnBegins(a)
                              \/ ReadsWorkspace(a) \/ WritesWorkspace(a) \/ SubmitAccepted(a)
                              \/ UntypedTurnEnds(a) \/ TurnFails(a)
  BY <3>1, <3>21, OpenSessionFrame, StartAskFrame, TurnBeginsFrame, ReadsWorkspaceFrame,
     WritesWorkspaceFrame, SubmitAcceptedFrame, UntypedTurnEndsFrame, TurnFailsFrame
<3>22. CASE \E r \in Runs, a \in Actors : \/ SeedMessage(r, a) \/ SessionOpens(r, a) \/ AcceptedTurnEnds(r, a)
  BY <3>1, <3>22, SeedMessageFrame, SessionOpensFrame, AcceptedTurnEndsFrame
<3>23. CASE \E i \in worldBusy : SettleWorldRead(i)
  BY <3>1, <3>23, SettleWorldReadFrame
    <3> QED
      BY <3>2, <3>20, <3>21, <3>22, <3>23, StepKinds
  <2> QED
    BY <2>1, <2>2
<1>2. AnswersFinal <=> [][Kept]_vars
  BY DEF AnswersFinal
<1> HIDE DEF Kept
<1> QED
  BY <1>1, <1>2, AlwaysIInv, PTL DEF Spec

-----------------------------------------------------------------------------
\* No stale import

\* What engines make of the import.
LEMMA EnginesAre ==
    ASSUME IInv, [Next]_vars
    PROVE  \/ UNCHANGED <<run, engine, cache, wasLive>>
           \/ /\ RunEnds \/ Crash \/ CrashInAdmission
              /\ run' = run /\ engine' # "live" /\ cache' = CacheFor(1) /\ shut' = FALSE
              /\ wasLive' = {} /\ EngineState(1)
           \/ /\ Resume /\ run' = run /\ engine' = "live" /\ cache' = CacheFor(run)
              /\ shut' = (run > 1 /\ run \in closedEvent) /\ EngineState(run)
              /\ wasLive' = IF run = 1 THEN {} ELSE queuedEvents[run]
           \/ /\ Amend /\ engine = "over" /\ run' = run + 1 /\ run + 1 \in Runs
              /\ engine' = "live" /\ cache' = CacheFor(run + 1) /\ shut' = shut
              /\ wasLive' = wasLive /\ EngineState(run + 1)
              /\ CompletedAsksHaveBoundaries(run)
<1>1. CASE UNCHANGED <<run, engine, cache, wasLive>>
  BY <1>1
<1>2. CASE RunEnds
  <2>1. run' = run
    BY <1>2, RunEndsFrame
  <2> QED
    BY <1>2, <2>1 DEF RunEnds, EngineState
<1>3. CASE Crash \/ CrashInAdmission
  <2>1. /\ ProcessDies /\ run' = run /\ shut' = FALSE /\ wasLive' = {} /\ EngineState(1)
        /\ engine' = IF engine = "live" THEN "down" ELSE engine
    BY <1>3 DEF Crash, CrashInAdmission, ProcessDies
  <2> QED
    BY <1>3, <2>1 DEF EngineState
<1>4. CASE Resume
  <2>1. run' = run
    BY <1>4, ResumeFrame
  <2> QED
    BY <1>4, <2>1 DEF Resume, EngineState, WasClosed
<1>5. CASE Amend
  BY <1>5 DEF Amend, EngineState
<1>20. CASE \/ AskReplayed \/ TryImportedSettle \/ AskLive
            \/ WorldReplayed \/ WorldImported \/ WorldLive
            \/ UNCHANGED vars
  BY <1>1, <1>20, AskReplayedFrame, TryImportedSettleFrame, AskLiveFrame,
     WorldReplayedFrame, WorldImportedFrame, WorldLiveFrame DEF vars, durable, progress, imports, working,
     driver, ghosts
<1>21. CASE \E a \in Actors : \/ OpenSession(a) \/ StartAsk(a) \/ TurnBegins(a)
                              \/ ReadsWorkspace(a) \/ WritesWorkspace(a) \/ SubmitAccepted(a)
                              \/ UntypedTurnEnds(a) \/ TurnFails(a)
  BY <1>1, <1>21, OpenSessionFrame, StartAskFrame, TurnBeginsFrame, ReadsWorkspaceFrame,
     WritesWorkspaceFrame, SubmitAcceptedFrame, UntypedTurnEndsFrame, TurnFailsFrame
<1>22. CASE \E r \in Runs, a \in Actors : \/ SeedMessage(r, a) \/ SessionOpens(r, a) \/ AcceptedTurnEnds(r, a)
  BY <1>1, <1>22, SeedMessageFrame, SessionOpensFrame, AcceptedTurnEndsFrame
<1>23. CASE \E i \in worldBusy : SettleWorldRead(i)
  BY <1>1, <1>23, SettleWorldReadFrame
<1> QED
  BY <1>2, <1>3, <1>4, <1>5, <1>20, <1>21, <1>22, <1>23, StepKinds

\* What is imported comes from rows of the run before.
LEMMA CandidateIs ==
    ASSUME plan \in Plans, NEW r \in Runs, NEW a, NEW k \in DOMAIN CandidateEntries(r, a)
    PROVE  \E i \in DOMAIN journal[r] :
               /\ Scripts[r][i].who = a /\ i \in Calls(r)
               /\ journal[r][i].status = "completed"
               /\ CandidateEntries(r, a)[k] = EntryOf(r, i)
<1>1. k \in DOMAIN CompletedAskPrefix(r, a)
      /\ CandidateEntries(r, a) = CompletedAskPrefix(r, a)
  BY EmptyIs DEF CandidateEntries
<1>2. /\ Completed(r, AsksOf(r, a)[k])
      /\ CompletedAskPrefix(r, a)[k] = EntryOf(r, AsksOf(r, a)[k])
      /\ AsksOf(r, a)[k] \in AsksIn(r, a)
  <2>1. /\ k \in 1 .. Len(CompletedAskPrefix(r, a))
        /\ Len(CompletedAskPrefix(r, a)) \in 0 .. Len(AsksOf(r, a))
    BY <1>1, PrefixIs
  <2>2. Len(AsksOf(r, a)) \in Nat
    BY AsksOfIs
  <2>3. k \in 1 .. Len(AsksOf(r, a))
    BY <2>1, <2>2
  <2> QED
    BY <2>1, <2>3, PrefixIs, AsksOfIs
<1> QED
  BY <1>1, <1>2 DEF Completed, Recorded, AsksIn

LEMMA WorldQueueIs ==
    ASSUME plan \in Plans, NEW r \in Runs, NEW h, NEW k \in DOMAIN WorldQueue(r, h)
    PROVE  \E i \in DOMAIN journal[r] : WorldQueue(r, h)[k] = journal[r][i].answer
<1> DEFINE rows == {i \in Calls(r) : /\ Scripts[r][i].op # "ask"
                                     /\ Scripts[r][i].hash = h
                                     /\ Completed(r, i)}
           order == InOrder(rows)
<1>1. WorldQueue(r, h) = [n \in DOMAIN order |-> journal[r][order[n]].answer]
  BY DEF WorldQueue
<1>2. rows \in SUBSET (1 .. Len(Scripts[r])) /\ Len(Scripts[r]) \in Nat
  BY ScriptIs
<1>3. \A i \in rows : i \in DOMAIN journal[r]
  BY DEF Completed, Recorded
<1> HIDE DEF rows
<1>4. IsFiniteSet(rows) /\ rows \in SUBSET Nat
  <2>1. IsFiniteSet(1 .. Len(Scripts[r]))
    BY <1>2, FS_Interval
  <2>2. rows \in SUBSET Nat
    BY <1>2
  <2> QED
    BY <1>2, <2>1, <2>2, FS_Subset
<1>6. order \in [1 .. Cardinality(rows) -> rows]
  BY <1>4, InOrderIs
<1>5. k \in DOMAIN order /\ WorldQueue(r, h)[k] = journal[r][order[k]].answer
  BY <1>1
<1> QED
  BY <1>3, <1>5, <1>6

\* The gate: a run that amends another and changed the workspace has shut it, and
\* the event that tells a resume so is written.
GateShut ==
    /\ run > 1 /\ (dirty \/ shut) => run \in closedEvent
    /\ engine = "live" /\ run > 1 /\ dirty => shut
    /\ shut => engine = "live"

LEMMA GateShutKept ==
    ASSUME IInv, GateShut, [Next]_vars
    PROVE  GateShut'
<1>1. run \in Nat /\ shut \in BOOLEAN /\ dirty \in BOOLEAN
  <2>1. run \in Runs /\ plan \in Plans /\ shut \in BOOLEAN /\ dirty \in BOOLEAN
    BY DEF IInv, Types, ProgressTyped, CursorTyped, GhostsTyped
  <2> QED
    BY <2>1, ScriptIs
<1>2. CASE UNCHANGED <<run, engine, dirty, shut, closedEvent>>
  BY <1>2 DEF GateShut
<1>3. CASE engine = "live" /\ CloseImportCache /\ UNCHANGED <<run, engine>>
  BY <1>1, <1>3 DEF GateShut, CloseImportCache
<1>4. ASSUME NEW a \in Actors, WritesWorkspace(a) PROVE GateShut'
  BY <1>3, <1>4, WritesWorkspaceFrame DEF WritesWorkspace, InTurn
<1>5. CASE WorldLive
  <2>1. engine = "live" /\ UNCHANGED <<run, engine>>
    BY <1>5, WorldLiveFrame DEF WorldLive, MayCall
  <2>2. CASE NextCall.op = "run"
    BY <1>3, <1>5, <2>1, <2>2 DEF WorldLive
  <2>3. CASE NextCall.op # "run"
    <3>1. UNCHANGED <<shut, closedEvent>> /\ dirty' = dirty
      BY <1>1, <1>5, <2>3 DEF WorldLive, KeepImportCache
    <3> QED
      BY <1>2, <2>1, <3>1
  <2> QED
    BY <2>2, <2>3
<1>6. CASE RunEnds \/ Crash \/ CrashInAdmission
  <2>1. UNCHANGED <<run, dirty, closedEvent>>
    BY <1>6, RunEndsFrame, CrashFrame, CrashInAdmissionFrame
  <2>2. engine' # "live" /\ shut' = FALSE
    BY <1>6 DEF RunEnds, Crash, CrashInAdmission, ProcessDies
  <2> QED
    BY <2>1, <2>2 DEF GateShut
<1>7. CASE Amend
  <2>1. engine = "over" /\ dirty' = FALSE
    BY <1>7 DEF Amend
  <2>2. shut' = shut
    BY <1>7, AmendFrame
  <2>3. ~ shut'
    BY <2>1, <2>2 DEF GateShut
  <2> QED
    BY <2>1, <2>3 DEF GateShut
<1>8. CASE Resume
  <2>1. UNCHANGED <<run, dirty, closedEvent>>
    BY <1>8, ResumeFrame
  <2>2. engine' = "live" /\ shut' = (run > 1 /\ run \in closedEvent)
    BY <1>8 DEF Resume, WasClosed
  <2> QED
    BY <1>1, <2>1, <2>2 DEF GateShut
<1>20. CASE \/ AskReplayed \/ TryImportedSettle \/ AskLive
            \/ WorldReplayed \/ WorldImported \/ UNCHANGED vars
  BY <1>2, <1>20, AskReplayedFrame, TryImportedSettleFrame, AskLiveFrame,
     WorldReplayedFrame, WorldImportedFrame DEF vars, durable, progress, imports, working,
     driver, ghosts
<1>21. CASE \E a \in Actors : \/ OpenSession(a) \/ StartAsk(a) \/ TurnBegins(a)
                              \/ ReadsWorkspace(a) \/ SubmitAccepted(a) \/ UntypedTurnEnds(a)
                              \/ TurnFails(a)
  BY <1>2, <1>21, OpenSessionFrame, StartAskFrame, TurnBeginsFrame, ReadsWorkspaceFrame,
     SubmitAcceptedFrame, UntypedTurnEndsFrame, TurnFailsFrame
<1>22. CASE \E r \in Runs, a \in Actors : \/ SeedMessage(r, a) \/ SessionOpens(r, a) \/ AcceptedTurnEnds(r, a)
  BY <1>2, <1>22, SeedMessageFrame, SessionOpensFrame, AcceptedTurnEndsFrame
<1>23. CASE \E i \in worldBusy : SettleWorldRead(i)
  BY <1>2, <1>23, SettleWorldReadFrame
<1> QED
  BY <1>4, <1>5, <1>6, <1>7, <1>8, <1>20, <1>21, <1>22, <1>23, StepKinds

\* The first run imports nothing, and neither does an engine that is gone.
NothingToImport ==
    engine # "live" \/ run = 1 =>
        /\ \A a \in Actors : cache.entries[a] = <<>>
        /\ \A h \in Hashes : cache.world[h] = <<>>

LEMMA NothingToImportKept ==
    ASSUME IInv, NothingToImport, [Next]_vars
    PROVE  NothingToImport'
<1>1. /\ \A a \in Actors : CacheFor(1).entries[a] = <<>>
      /\ \A h \in Hashes : CacheFor(1).world[h] = <<>>
  BY DEF CacheFor
<1>2. run \in Nat /\ run >= 1
  <2>1. run \in Runs /\ plan \in Plans
    BY DEF IInv, Types, ProgressTyped
  <2> QED
    BY <2>1, ScriptIs
<1>3. CASE UNCHANGED <<run, engine, cache, wasLive>>
  BY <1>3 DEF NothingToImport
<1>4. CASE cache' = CacheFor(1)
  BY <1>1, <1>4 DEF NothingToImport
<1>5. CASE engine' = "live" /\ run' = run /\ cache' = CacheFor(run)
  BY <1>1, <1>5 DEF NothingToImport
<1>6. CASE engine' = "live" /\ run' = run + 1
  BY <1>2, <1>6 DEF NothingToImport
<1> QED
  BY <1>3, <1>4, <1>5, <1>6, EnginesAre

\* The rows of the other runs stay.
LEMMA OtherRowsStay ==
    ASSUME IInv, [Next]_vars
    PROVE  /\ DOMAIN journal' = DOMAIN journal
           /\ \A r \in Runs : r # run => journal'[r] = journal[r]
<1>1. DOMAIN journal = Runs
  BY DEF IInv, Types, JournalTyped
<1>2. \A i, row : RowIsPut(i, row) =>
          /\ DOMAIN journal' = DOMAIN journal
          /\ \A r \in DOMAIN journal : r # run => journal'[r] = journal[r]
  BY DEF RowIsPut
<1>3. \A a : RowIsEnded(run, a) =>
          /\ DOMAIN journal' = DOMAIN journal
          /\ \A r \in DOMAIN journal : r # run => journal'[r] = journal[r]
  BY DEF RowIsEnded
<1>4. CASE UNCHANGED journal
  BY <1>4
<1>5. CASE \E i, row : RowIsPut(i, row)
  BY <1>1, <1>2, <1>5
<1>6. CASE \E a : RowIsEnded(run, a)
  BY <1>1, <1>3, <1>6
<1> QED
  BY <1>4, <1>5, <1>6, RowsAre

\* A run that was amended has the boundaries of all its answers.
Bounded == \A r \in Runs : r < run => CompletedAsksHaveBoundaries(r)

LEMMA BoundedKept ==
    ASSUME IInv, Bounded, [Next]_vars
    PROVE  Bounded'
<1>1. run \in Nat /\ run \in Runs /\ \A r \in Runs : r \in Nat
  <2>1. run \in Runs /\ plan \in Plans
    BY DEF IInv, Types, ProgressTyped
  <2> QED
    BY <2>1, ScriptIs
<1>2. Scripts' = Scripts
  BY StepKinds
<1>3. ASSUME NEW r \in Runs, r < run'
      PROVE  CompletedAsksHaveBoundaries(r) /\ journal'[r] = journal[r]
  <2>1. CASE run' = run
    BY <1>1, <1>3, <2>1, OtherRowsStay DEF Bounded
  <2>2. CASE Amend
    <3>1. run' = run + 1 /\ CompletedAsksHaveBoundaries(run)
      BY <2>2 DEF Amend
    <3>2. journal' = journal
      BY <2>2, AmendFrame
    <3>3. r = run \/ r < run
      BY <1>1, <1>3, <3>1
    <3> QED
      BY <3>1, <3>2, <3>3 DEF Bounded
  <2> QED
    BY <2>1, <2>2, EnginesAre
<1> QED
  BY <1>2, <1>3 DEF Bounded, CompletedAsksHaveBoundaries, Completed, Recorded

\* An answer of run r at call i is this call's own or of an earlier run.
AnswerFits(x, r, i) == x[1] <= r /\ (x[1] = r => x = <<r, i>>)

\* So is every row's, and an ask's is its own while it has no boundary.
RowFits(row, r, i) ==
    /\ AnswerFits(row.answer, r, i)
    /\ Scripts[r][i].op = "ask" /\ row.status = "completed" /\ row.boundary = NoBoundary
           => row.answer = <<r, i>>
RowOrigins == \A r \in Runs : \A i \in DOMAIN journal[r] : RowFits(journal[r][i], r, i)

\* What is imported is of an earlier run, and an ask has its boundary.
EntryOrigins ==
    /\ \A a \in Actors : \A k \in DOMAIN cache.entries[a] :
           /\ cache.entries[a][k].answer[1] < run
           /\ cache.entries[a][k].boundary # NoBoundary
    /\ \A h \in Hashes : \A k \in DOMAIN cache.world[h] : cache.world[h][k][1] < run

LEMMA AnswerRun ==
    ASSUME plan \in Plans
    PROVE  \A x \in Answers : x[1] \in Nat
<1>1. \A r \in Runs : r \in Nat
  BY ScriptIs
<1> QED
  BY <1>1 DEF Answers, NoAnswer

LEMMA AnswersFit ==
    ASSUME plan \in Plans, NEW r \in Nat, 1 <= r, NEW i
    PROVE  /\ AnswerFits(NoAnswer, r, i)
           /\ AnswerFits(<<r, i>>, r, i)
           /\ \A x \in Answers : x[1] < r => AnswerFits(x, r, i)
<1>1. NoAnswer[1] = 0 /\ <<r, i>>[1] = r
  BY DEF NoAnswer
<1>2. \A x \in Answers : x[1] \in Nat
  BY AnswerRun
<1> QED
  BY <1>1, <1>2 DEF AnswerFits

\* The entry an ask is answered with, and the answer a world command gets.
LEMMA EntryIs ==
    ASSUME IInv, NEW a \in Actors, NEW seq \in Nat, HasEntry(a, seq)
    PROVE  /\ seq + 1 \in DOMAIN cache.entries[a]
           /\ EntryAt(a, seq) = cache.entries[a][seq + 1]
           /\ EntryAt(a, seq) \in Entries
<1>1. cache.entries[a] \in Seq(Entries)
  BY DEF IInv, Types, CacheTyped
<1>2. seq + 1 \in 1 .. Len(cache.entries[a]) /\ DOMAIN cache.entries[a] = 1 .. Len(cache.entries[a])
  BY <1>1 DEF HasEntry
<1>3. cache.entries[a][seq + 1] \in Entries
  BY <1>1, <1>2
<1> QED
  BY <1>2, <1>3 DEF EntryAt

LEMMA WorldEntryIs ==
    ASSUME IInv, NEW h \in Hashes, WorldImportLeft(h)
    PROVE  /\ used[h] + 1 \in DOMAIN cache.world[h]
           /\ cache.world[h][used[h] + 1] \in Answers
<1>1. cache.world[h] \in Seq(Answers) /\ used[h] \in Nat
  BY DEF IInv, Types, CacheTyped, CursorTyped
<1>2. used[h] + 1 \in 1 .. Len(cache.world[h]) /\ DOMAIN cache.world[h] = 1 .. Len(cache.world[h])
  BY <1>1 DEF WorldImportLeft
<1> QED
  BY <1>1, <1>2

LEMMA RowOriginsKept ==
    ASSUME IInv, RowOrigins, EntryOrigins, [Next]_vars
    PROVE  RowOrigins'
<1>1. /\ run \in Runs /\ run \in Nat /\ 1 <= run /\ plan \in Plans /\ JournalTyped
      /\ DOMAIN journal = Runs
  <2>1. run \in Runs /\ plan \in Plans /\ JournalTyped
    BY DEF IInv, Types, ProgressTyped
  <2> QED
    BY <2>1, ScriptIs DEF JournalTyped
<1>2. Scripts' = Scripts /\ JournalTyped'
  BY StepKinds, JournalTypedKept
<1>3. ASSUME NEW i, NEW row, RowIsPut(i, row), RowFits(row, run, i) PROVE RowOrigins'
  <2>1. ASSUME NEW r \in Runs, NEW j \in DOMAIN journal'[r]
        PROVE  RowFits(journal'[r][j], r, j)
    <3>1. CASE r # run
      BY <1>1, <1>3, <2>1, <3>1 DEF RowIsPut, RowOrigins
    <3>2. CASE r = run /\ j # i
      <4>1. j \in DOMAIN journal[run] /\ journal'[run][j] = journal[run][j]
        BY <1>3, <2>1, <3>2 DEF RowIsPut
      <4> QED
        BY <1>1, <3>2, <4>1 DEF RowOrigins
    <3>3. CASE r = run /\ j = i
      BY <1>3, <3>3 DEF RowIsPut
    <3> QED
      BY <3>1, <3>2, <3>3
  <2> QED
    BY <1>2, <2>1 DEF RowOrigins, RowFits
<1>4. CASE UNCHANGED journal
  BY <1>2, <1>4 DEF RowOrigins, RowFits
<1>5. \A i : RowFits(Running, run, i) /\ RowFits(FailedRow, run, i)
  BY <1>1, AnswersFit DEF RowFits, Running, FailedRow, Row
<1>6. \A i : \A b, p : RowFits(Row("completed", <<run, i>>, b, p), run, i)
  BY <1>1, AnswersFit DEF RowFits, Row
<1>7. CASE TryImportedSettle
  <2> DEFINE i == issued + 1
             a == NextCall.who
             seq == ActorSeq(run, i)
             e == EntryAt(a, seq)
  <2>1. a \in Actors /\ seq \in Nat /\ HasEntry(a, seq)
    BY <1>7, AskIs DEF TryImportedSettle, Follows
  <2>2. SetRow(i, Row("completed", e.answer, e.boundary, e.pure))
    BY <1>7 DEF TryImportedSettle
  <2> HIDE DEF i
  <2>3. /\ e \in Entries /\ e.answer[1] < run /\ e.boundary # NoBoundary
    BY <2>1, EntryIs DEF EntryOrigins
  <2>4. e.answer \in Answers
    BY <2>3 DEF Entries
  <2> HIDE DEF e
  <2>5. RowFits(Row("completed", e.answer, e.boundary, e.pure), run, i)
    BY <1>1, <2>3, <2>4, AnswersFit DEF RowFits, Row
  <2> QED
    BY <1>1, <1>3, <2>2, <2>5, SetRowPuts
<1>8. CASE WorldImported
  <2> DEFINE i == issued + 1
             h == NextCall.hash
             x == cache.world[h][used[h] + 1]
  <2>1. /\ MayCall({"read", "run"}) /\ WorldImportLeft(h)
        /\ SetRow(i, Row("completed", x, NoBoundary, FALSE))
    BY <1>8 DEF WorldImported
  <2>2. h \in Hashes /\ Scripts[run][i].op \in {"read", "run"}
    BY <2>1, CallIs
  <2>3. x \in Answers /\ x[1] < run
    BY <2>1, <2>2, WorldEntryIs DEF EntryOrigins
  <2> HIDE DEF i, x
  <2>4. RowFits(Row("completed", x, NoBoundary, FALSE), run, i)
    BY <1>1, <2>2, <2>3, AnswersFit DEF RowFits, Row
  <2> QED
    BY <1>1, <1>3, <2>1, <2>4, SetRowPuts
<1>9. ASSUME NEW a \in Actors, AcceptedTurnEnds(run, a)
      PROVE  RowOrigins'
  <2> DEFINE i == Head(turns[run][a]).call
  <2>1. RowIsEnded(run, a) /\ i \in Calls(run) /\ AskOf(run, a, i)
    BY <1>1, <1>9, EndedIs
  <2>2. /\ \A q \in Runs : q # run => journal'[q] = journal[q]
        /\ DOMAIN journal'[run] = DOMAIN journal[run]
        /\ \A j \in DOMAIN journal[run] : j # i => journal'[run][j] = journal[run][j]
        /\ i \in DOMAIN journal[run]
        /\ journal'[run][i].status = journal[run][i].status
        /\ journal'[run][i].answer = journal[run][i].answer
        /\ \/ journal'[run][i].boundary = journal[run][i].boundary
           \/ journal'[run][i].boundary = Len(transcript[run][a]) + 1
    <3>1. /\ DOMAIN journal' = DOMAIN journal
          /\ \A q \in DOMAIN journal : q # run => journal'[q] = journal[q]
          /\ DOMAIN journal'[run] = DOMAIN journal[run]
          /\ \A j \in DOMAIN journal[run] : j # i => journal'[run][j] = journal[run][j]
          /\ i \in DOMAIN journal[run]
      BY <2>1 DEF RowIsEnded
    <3>2. journal'[run][i] = Row(journal[run][i].status, journal[run][i].answer,
              IF StillAsked(run, a, i) THEN Len(transcript[run][a]) + 1
              ELSE journal[run][i].boundary, ~ counted[run][a])
      BY <2>1 DEF RowIsEnded
    <3> HIDE DEF i
    <3>3. /\ journal'[run][i].status = journal[run][i].status
          /\ journal'[run][i].answer = journal[run][i].answer
          /\ \/ journal'[run][i].boundary = journal[run][i].boundary
             \/ journal'[run][i].boundary = Len(transcript[run][a]) + 1
      BY <3>2 DEF Row
    <3> QED
      BY <1>1, <3>1, <3>3
  <2>3. Len(transcript[run][a]) + 1 # 0
    <3>1. Len(transcript[run][a]) \in Nat
      BY <1>1, EmptyIs DEF IInv, Types, StoreTyped
    <3> QED
      BY <3>1
  <2> HIDE DEF i
  <2>4. ASSUME NEW r \in Runs, NEW j \in DOMAIN journal'[r]
        PROVE  RowFits(journal'[r][j], r, j)
    <3>1. CASE r # run
      BY <2>2, <2>4, <3>1 DEF RowOrigins
    <3>2. CASE r = run /\ j # i
      BY <2>2, <2>4, <3>2 DEF RowOrigins
    <3>3. CASE r = run /\ j = i
      <4>1. RowFits(journal[r][j], r, j)
        BY <2>2, <3>3 DEF RowOrigins
      <4>2. RowFits(journal'[run][i], run, i)
        BY <2>2, <2>3, <3>3, <4>1 DEF RowFits
      <4> QED
        BY <3>3, <4>2
    <3> QED
      BY <3>1, <3>2, <3>3
  <2> QED
    BY <1>2, <2>4 DEF RowOrigins, RowFits
<1>10. CASE \E i : RowIsPut(i, Running) \/ RowIsPut(i, FailedRow)
  BY <1>3, <1>5, <1>10
<1>11. CASE \E i, b, p : RowIsPut(i, Row("completed", <<run, i>>, b, p))
  BY <1>3, <1>6, <1>11
<1> QED
  BY <1>4, <1>7, <1>8, <1>9, <1>10, <1>11, RowsAre

\* The import of a run that amends another, made of the rows of the other.
LEMMA CacheOrigins ==
    ASSUME IInv, RowOrigins, NEW r \in Runs, r # 1, CompletedAsksHaveBoundaries(r - 1)
    PROVE  /\ \A a \in Actors : \A k \in DOMAIN CacheFor(r).entries[a] :
                  /\ CacheFor(r).entries[a][k].answer[1] < r
                  /\ CacheFor(r).entries[a][k].boundary # NoBoundary
                  /\ \E i \in DOMAIN journal[r - 1] :
                         /\ journal[r - 1][i].status = "completed"
                         /\ CacheFor(r).entries[a][k] = EntryOf(r - 1, i)
           /\ \A h \in Hashes : \A k \in DOMAIN CacheFor(r).world[h] :
                  CacheFor(r).world[h][k][1] < r
<1>1. r \in Nat /\ r - 1 \in Runs /\ r - 1 \in Nat /\ plan \in Plans /\ JournalTyped
  <2>1. plan \in Plans /\ JournalTyped
    BY DEF IInv, Types
  <2> QED
    BY <2>1, ScriptIs
<1>2. /\ \A a \in Actors : CacheFor(r).entries[a] =
             IF MatchedActor(r, a) THEN CandidateEntries(r - 1, a) ELSE <<>>
      /\ \A h \in Hashes : CacheFor(r).world[h] = WorldQueue(r - 1, h)
  BY DEF CacheFor
<1>3. \A i \in DOMAIN journal[r - 1] :
          /\ journal[r - 1][i].answer[1] \in Nat /\ journal[r - 1][i].answer[1] <= r - 1
          /\ i \in Calls(r - 1)
  <2>1. ASSUME NEW i \in DOMAIN journal[r - 1]
        PROVE  /\ journal[r - 1][i].answer[1] \in Nat
               /\ journal[r - 1][i].answer[1] <= r - 1 /\ i \in Calls(r - 1)
    <3>1. RowFits(journal[r - 1][i], r - 1, i) /\ journal[r - 1][i] \in Rows /\ i \in Calls(r - 1)
      BY <1>1 DEF RowOrigins, JournalTyped
    <3>2. journal[r - 1][i].answer \in Answers
      BY <3>1 DEF Rows
    <3>3. journal[r - 1][i].answer[1] \in Nat
      BY <1>1, <3>2, AnswerRun
    <3> QED
      BY <3>1, <3>3 DEF RowFits, AnswerFits
  <2> QED
    BY <2>1
<1>4. ASSUME NEW a \in Actors, NEW k \in DOMAIN CacheFor(r).entries[a]
      PROVE  /\ CacheFor(r).entries[a][k].answer[1] < r
             /\ CacheFor(r).entries[a][k].boundary # NoBoundary
             /\ \E i \in DOMAIN journal[r - 1] :
                    /\ journal[r - 1][i].status = "completed"
                    /\ CacheFor(r).entries[a][k] = EntryOf(r - 1, i)
  <2>1. /\ CacheFor(r).entries[a] = CandidateEntries(r - 1, a)
        /\ k \in DOMAIN CandidateEntries(r - 1, a)
    BY <1>2, <1>4, EmptyIs
  <2>2. PICK i \in DOMAIN journal[r - 1] :
               /\ Scripts[r - 1][i].who = a /\ i \in Calls(r - 1)
               /\ journal[r - 1][i].status = "completed"
               /\ CandidateEntries(r - 1, a)[k] = EntryOf(r - 1, i)
    BY <1>1, <2>1, CandidateIs
  <2>3. Scripts[r - 1][i].op = "ask"
    BY <1>1, <2>2, ScriptIs
  <2>4. journal[r - 1][i].boundary # NoBoundary
    BY <2>2, <2>3 DEF CompletedAsksHaveBoundaries, Completed, Recorded
  <2>5. /\ CacheFor(r).entries[a][k].answer = journal[r - 1][i].answer
        /\ CacheFor(r).entries[a][k].boundary = journal[r - 1][i].boundary
    BY <2>1, <2>2 DEF EntryOf
  <2> QED
    BY <1>1, <1>3, <2>1, <2>2, <2>4, <2>5
<1>5. ASSUME NEW h \in Hashes, NEW k \in DOMAIN CacheFor(r).world[h]
      PROVE  CacheFor(r).world[h][k][1] < r
  <2>1. PICK i \in DOMAIN journal[r - 1] : WorldQueue(r - 1, h)[k] = journal[r - 1][i].answer
    BY <1>1, <1>2, <1>5, WorldQueueIs
  <2> QED
    BY <1>1, <1>2, <1>3, <2>1
<1> QED
  BY <1>4, <1>5

LEMMA EntryOriginsKept ==
    ASSUME IInv, RowOrigins, EntryOrigins, Bounded, [Next]_vars
    PROVE  EntryOrigins'
<1>1. run \in Runs /\ run \in Nat /\ 1 <= run /\ \A r \in Runs : r \in Nat
  <2>1. run \in Runs /\ plan \in Plans
    BY DEF IInv, Types, ProgressTyped
  <2> QED
    BY <2>1, ScriptIs
<1>2. ASSUME NEW r \in Runs, run' = r, cache' = CacheFor(r), r # 1 => CompletedAsksHaveBoundaries(r - 1)
      PROVE  EntryOrigins'
  <2>1. CASE r = 1
    BY <1>2, <2>1, EmptyIs DEF EntryOrigins, CacheFor
  <2>2. CASE r # 1
    BY <1>2, <2>2, CacheOrigins DEF EntryOrigins
  <2> QED
    BY <2>1, <2>2
<1>3. CASE UNCHANGED <<run, engine, cache, wasLive>>
  BY <1>3 DEF EntryOrigins
<1>4. CASE cache' = CacheFor(1)
  BY <1>4, EmptyIs DEF EntryOrigins, CacheFor
<1>5. CASE Resume /\ run' = run /\ cache' = CacheFor(run)
  <2>1. run # 1 => CompletedAsksHaveBoundaries(run - 1)
    <3>1. ASSUME run # 1 PROVE run - 1 \in Runs /\ run - 1 < run
      <4>1. plan \in Plans
        BY DEF IInv, Types
      <4> QED
        BY <1>1, <3>1, <4>1, ScriptIs
    <3> QED
      BY <3>1 DEF Bounded
  <2> QED
    BY <1>1, <1>2, <1>5, <2>1
<1>6. CASE Amend /\ run' = run + 1 /\ cache' = CacheFor(run + 1) /\ run + 1 \in Runs
           /\ CompletedAsksHaveBoundaries(run)
  <2>1. (run + 1) - 1 = run
    BY <1>1
  <2> QED
    BY <1>2, <1>6, <2>1
<1> QED
  BY <1>3, <1>4, <1>5, <1>6, EnginesAre

\* No run has rows before its time.
RowsBehind == \A r \in Runs : DOMAIN journal[r] # {} => r <= run

LEMMA RowsBehindKept ==
    ASSUME IInv, RowsBehind, [Next]_vars
    PROVE  RowsBehind'
<1>1. run \in Runs /\ \A r \in Runs : r \in Nat
  <2>1. run \in Runs /\ plan \in Plans
    BY DEF IInv, Types, ProgressTyped
  <2> QED
    BY <2>1, ScriptIs
<1>2. Scripts' = Scripts
  BY StepKinds
<1>3. run' = run \/ run' = run + 1
  BY EnginesAre
<1> QED
  BY <1>1, <1>2, <1>3, OtherRowsStay DEF RowsBehind

\* An engine is down only in a run that may crash.
DownByCrash == engine = "down" => run \in plan.crashes

LEMMA DownByCrashKept ==
    ASSUME IInv, DownByCrash, [Next]_vars
    PROVE  DownByCrash'
<1>1. plan' = plan
  BY StepKinds
<1>2. CASE UNCHANGED <<run, engine, cache, wasLive>>
  BY <1>1, <1>2 DEF DownByCrash
<1>3. CASE RunEnds
  BY <1>3 DEF RunEnds, DownByCrash
<1>4. CASE Crash \/ CrashInAdmission
  BY <1>1, <1>4, CrashFrame, CrashInAdmissionFrame
     DEF Crash, CrashInAdmission, ProcessDies, DownByCrash
<1>5. CASE engine' = "live"
  BY <1>5 DEF DownByCrash
<1> QED
  BY <1>2, <1>3, <1>4, <1>5, EnginesAre

\* What looked at the workspace is an ask whose turn may.
TouchedInside ==
    \A x \in touched : \E r \in 1 .. run : \E i \in Calls(r) :
        x = <<r, i>> /\ Scripts[r][i].tools # {}

\* A subagent at the workspace.
AtWork(a) == ReadsWorkspace(a) \/ WritesWorkspace(a)

LEMMA TouchedIs ==
    ASSUME IInv, [Next]_vars
    PROVE  \/ touched' = touched
           \/ \E a \in Actors :
                  /\ AtWork(a) /\ InTurn(a) /\ UNCHANGED <<journal, cache, run>>
                  /\ UNCHANGED <<engine, current, asked, turns>>
                  /\ touched' = touched \union {<<run, TurnCall(a)>>}
                  /\ Scripts[run][TurnCall(a)].tools # {}
<1>1. CASE touched' = touched
  BY <1>1
<1>2. ASSUME NEW a \in Actors, AtWork(a)
      PROVE  /\ InTurn(a) /\ UNCHANGED <<journal, cache, run>>
             /\ UNCHANGED <<engine, current, asked, turns>>
             /\ touched' = touched \union {<<run, TurnCall(a)>>}
             /\ Scripts[run][TurnCall(a)].tools # {}
  <2>1. UNCHANGED <<journal, cache, run>> /\ UNCHANGED <<engine, current, asked, turns>>
    BY <1>2, ReadsWorkspaceFrame, WritesWorkspaceFrame DEF AtWork
  <2> QED
    BY <1>2, <2>1 DEF AtWork, ReadsWorkspace, WritesWorkspace
<1>3. CASE \E a \in Actors : ReadsWorkspace(a) \/ WritesWorkspace(a)
  BY <1>2, <1>3 DEF AtWork
<1>20. CASE \/ AskReplayed \/ TryImportedSettle \/ AskLive
            \/ CrashInAdmission \/ WorldReplayed \/ WorldImported
            \/ WorldLive \/ RunEnds \/ Amend
            \/ Crash \/ Resume \/ UNCHANGED vars
  BY <1>1, <1>20, AskReplayedFrame, TryImportedSettleFrame, AskLiveFrame,
     CrashInAdmissionFrame, WorldReplayedFrame, WorldImportedFrame, WorldLiveFrame,
     RunEndsFrame, AmendFrame, CrashFrame, ResumeFrame DEF vars, durable, progress, imports, working,
     driver, ghosts
<1>21. CASE \E a \in Actors : \/ OpenSession(a) \/ StartAsk(a) \/ TurnBegins(a)
                              \/ SubmitAccepted(a) \/ UntypedTurnEnds(a) \/ TurnFails(a)
  BY <1>1, <1>21, OpenSessionFrame, StartAskFrame, TurnBeginsFrame, SubmitAcceptedFrame,
     UntypedTurnEndsFrame, TurnFailsFrame
<1>22. CASE \E r \in Runs, a \in Actors : \/ SeedMessage(r, a) \/ SessionOpens(r, a) \/ AcceptedTurnEnds(r, a)
  BY <1>1, <1>22, SeedMessageFrame, SessionOpensFrame, AcceptedTurnEndsFrame
<1>23. CASE \E i \in worldBusy : SettleWorldRead(i)
  BY <1>1, <1>23, SettleWorldReadFrame
<1> QED
  BY <1>3, <1>20, <1>21, <1>22, <1>23, StepKinds

LEMMA TouchedInsideKept ==
    ASSUME IInv, TouchedInside, [Next]_vars
    PROVE  TouchedInside'
<1>1. run \in Runs /\ \A r \in Runs : r \in Nat /\ 1 <= r
  <2>1. run \in Runs /\ plan \in Plans
    BY DEF IInv, Types, ProgressTyped
  <2> QED
    BY <2>1, ScriptIs
<1>2. Scripts' = Scripts /\ (run' = run \/ run' = run + 1)
  BY StepKinds, EnginesAre
<1>3. \A r \in 1 .. run : r \in 1 .. run'
  BY <1>1, <1>2
<1>4. ASSUME NEW x \in touched PROVE \E r \in 1 .. run' : \E i \in Calls(r) :
          x = <<r, i>> /\ Scripts[r][i].tools # {}
  BY <1>3 DEF TouchedInside
<1>5. CASE touched' = touched
  BY <1>2, <1>4, <1>5 DEF TouchedInside
<1>6. ASSUME NEW a \in Actors, InTurn(a), run' = run,
             touched' = touched \union {<<run, TurnCall(a)>>},
             Scripts[run][TurnCall(a)].tools # {}
      PROVE  TouchedInside'
  <2>1. TurnCall(a) \in Calls(run) /\ run \in 1 .. run'
    BY <1>1, <1>6, InTurnIs
  <2> QED
    BY <1>2, <1>4, <1>6, <2>1 DEF TouchedInside
<1> QED
  BY <1>5, <1>6, TouchedIs

-----------------------------------------------------------------------------
\* The tool counter

\* A run whose turns are not cut by a crash, and that another may amend.
Watched(r) == r # Len(Scripts) /\ r \notin plan.crashes

\* While such a run is live, an ask that looked at the workspace is settled or in
\* its turn.
Settled(r, i) == i \in DOMAIN journal[r] /\ journal[r][i].status # "running"
TouchedAsked ==
    engine = "live" /\ Watched(run) =>
        \A i \in Calls(run) : <<run, i>> \in touched =>
            \/ Settled(run, i)
            \/ \E a \in Actors : current[a] = i /\ asked[run][a] = i

\* The counter of a session tells whether the ask it is at has looked.
CountsRight ==
    Watched(run) =>
        \A a \in Actors : \A n \in DOMAIN turns[run][a] :
            turns[run][a][n].call = asked[run][a] /\ <<run, asked[run][a]>> \in touched
                => counted[run][a]

\* Where the turns after a step come from.
LEMMA TurnsComeFrom ==
    ASSUME IInv, [Next]_vars, NEW r \in Runs, NEW a \in Actors, NEW n \in DOMAIN turns'[r][a]
    PROVE  \/ \E m \in DOMAIN turns[r][a] : turns'[r][a][n].call = turns[r][a][m].call
           \/ StartAsk(a) /\ r = run /\ turns'[r][a][n].call = current[a]
<1>1. run \in Runs /\ turns[r][a] \in Seq(Turns)
  BY DEF IInv, Types, ProgressTyped, TurnsTyped
<1>2. CASE turns'[r][a] = turns[r][a]
  BY <1>2
<1>3. CASE turns'[r][a] = <<>>
  BY <1>3, EmptyIs
<1>4. CASE turns[r][a] # <<>> /\ turns'[r][a] = <<Head(turns[r][a])>>
  <2>1. n = 1 /\ turns'[r][a][n] = turns[r][a][1] /\ 1 \in DOMAIN turns[r][a]
    BY <1>1, <1>4, TailIs
  <2> QED
    BY <2>1
<1>5. CASE StartAsk(a) /\ r = run /\ turns'[r][a] = Append(turns[r][a], Turn(current[a]))
  <2>1. IsSeq(turns[r][a])
    BY <1>1, SeqIs
  <2>2. /\ DOMAIN turns'[r][a] = 1 .. Len(turns[r][a]) + 1
        /\ DOMAIN turns[r][a] = 1 .. Len(turns[r][a]) /\ Len(turns[r][a]) \in Nat
        /\ \A k \in 1 .. Len(turns[r][a]) : turns'[r][a][k] = turns[r][a][k]
        /\ turns'[r][a][Len(turns[r][a]) + 1] = Turn(current[a])
    BY <1>1, <1>5, <2>1, AppendIs, EmptyIs
  <2>3. CASE n = Len(turns[r][a]) + 1
    BY <1>5, <2>2, <2>3 DEF Turn
  <2>4. CASE n # Len(turns[r][a]) + 1
    <3>1. n \in 1 .. Len(turns[r][a])
      BY <2>2, <2>4
    <3> QED
      BY <2>2, <3>1
  <2> QED
    BY <2>3, <2>4
<1>6. CASE \/ turns'[r][a] = [turns[r][a] EXCEPT ![1].begun = TRUE]
           \/ turns'[r][a] = [turns[r][a] EXCEPT ![1].accepted = TRUE]
  <2>1. n \in DOMAIN turns[r][a] /\ turns[r][a][n] \in Turns
    BY <1>1, <1>6
  <2>2. turns'[r][a][n].call = turns[r][a][n].call
    BY <1>6, <2>1 DEF Turns
  <2> QED
    BY <2>1, <2>2
<1>7. CASE turns[r][a] # <<>> /\ turns'[r][a] = Tail(turns[r][a])
  <2> DEFINE s == turns[r][a]
  <2> HIDE DEF s
  <2>1. /\ Len(s) \in Nat /\ DOMAIN s = 1 .. Len(s) /\ Tail(s) \in Seq(Turns)
        /\ Len(Tail(s)) = Len(s) - 1 /\ n \in DOMAIN Tail(s)
        /\ \A k \in 1 .. Len(s) - 1 : Tail(s)[k] = s[k + 1]
    BY <1>1, <1>7, TailIs DEF s
  <2>2. n \in 1 .. Len(s) - 1
    BY <2>1
  <2>3. n + 1 \in DOMAIN s /\ Tail(s)[n] = s[n + 1]
    BY <2>1, <2>2
  <2> QED
    BY <1>7, <2>3 DEF s
<1>8. \A q \in Runs, b \in Actors : TurnsOnly(q, b) /\ ~ (q = r /\ b = a) => turns'[r][a] = turns[r][a]
  BY DEF TurnsOnly
<1>9. ASSUME NEW b \in Actors, UntypedTurnEnds(b) \/ TurnFails(b)
      PROVE  turns[run][b] # <<>>
  BY <1>9 DEF UntypedTurnEnds, TurnFails, InTurn
<1>10. turns' = PerRun(<<>>) => turns'[r][a] = <<>>
  BY DEF PerRun, PerActor
<1>11. CASE UNCHANGED <<turns, asked>> \/ turns' = PerRun(<<>>)
  BY <1>2, <1>3, <1>10, <1>11
<1>12. CASE /\ \A q \in Runs \ {run} : turns'[q] = turns[q]
            /\ \A b \in Actors : turns'[run][b] =
                   IF turns[run][b] # <<>> /\ Head(turns[run][b]).accepted
                   THEN <<Head(turns[run][b])>> ELSE <<>>
  BY <1>2, <1>3, <1>4, <1>12
<1>13. CASE \E q \in Runs, b \in Actors : TurnsOnly(q, b) /\ ~ (q = r /\ b = a)
  BY <1>2, <1>8, <1>13
<1>14. CASE \/ /\ r = run
               /\ \/ turns'[r][a] = [turns[r][a] EXCEPT ![1].begun = TRUE]
                  \/ turns'[r][a] = [turns[r][a] EXCEPT ![1].accepted = TRUE]
                  \/ /\ UntypedTurnEnds(a) \/ TurnFails(a)
                     /\ turns'[r][a] = Tail(turns[r][a])
                  \/ StartAsk(a) /\ turns'[r][a] = Append(turns[r][a], Turn(current[a]))
            \/ turns[r][a] # <<>> /\ turns'[r][a] = Tail(turns[r][a])
  BY <1>5, <1>6, <1>7, <1>9, <1>14
<1> QED
  BY <1>1, <1>11, <1>12, <1>13, <1>14, TurnsAre

\* When the session of a subagent moves on to another ask.
LEMMA AskedIs ==
    ASSUME IInv, [Next]_vars, NEW q \in Runs, NEW c \in Actors
    PROVE  \/ asked'[q][c] = asked[q][c]
           \/ StartAsk(c) /\ q = run /\ asked'[q][c] = current[c]
           \/ (RunEnds \/ Crash \/ CrashInAdmission) /\ turns'[q][c] = <<>> /\ engine' # "live"
<1>1. run \in Runs /\ asked \in [Runs -> [Actors -> Nat]]
  BY DEF IInv, Types, ProgressTyped, TurnsTyped
<1>2. CASE asked' = asked
  BY <1>2
<1>3. CASE RunEnds
  <2>1. asked' = [asked EXCEPT ![run] = [b \in Actors |->
                    IF turns'[run][b] = <<>> THEN NoCall ELSE asked[run][b]]]
    BY <1>3 DEF RunEnds
  <2>2. engine' # "live"
    BY <1>3 DEF RunEnds
  <2>3. CASE q = run
    BY <1>1, <1>3, <2>1, <2>2, <2>3
  <2>4. CASE q # run
    BY <1>1, <2>1, <2>4
  <2> QED
    BY <2>3, <2>4
<1>4. CASE Crash \/ CrashInAdmission
  <2>1. turns'[q][c] = <<>> /\ engine' # "live"
    BY <1>4 DEF Crash, CrashInAdmission, ProcessDies, PerRun, PerActor
  <2> QED
    BY <1>4, <2>1
<1>5. ASSUME NEW b \in Actors, StartAsk(b)
      PROVE  \/ asked'[q][c] = asked[q][c]
             \/ StartAsk(c) /\ q = run /\ asked'[q][c] = current[c]
  <2>1. asked' = [asked EXCEPT ![run][b] = current[b]]
    BY <1>5 DEF StartAsk
  <2>2. CASE q = run /\ c = b
    BY <1>1, <1>5, <2>1, <2>2
  <2>3. CASE ~ (q = run /\ c = b)
    BY <1>1, <2>1, <2>3
  <2> QED
    BY <2>2, <2>3
<1>6. CASE \E b \in Actors : StartAsk(b)
  BY <1>5, <1>6
<1>20. CASE \/ AskReplayed \/ TryImportedSettle \/ AskLive
            \/ WorldReplayed \/ WorldImported \/ WorldLive
            \/ Amend \/ Resume \/ UNCHANGED vars
  BY <1>2, <1>20, AskReplayedFrame, TryImportedSettleFrame, AskLiveFrame,
     WorldReplayedFrame, WorldImportedFrame, WorldLiveFrame, AmendFrame, ResumeFrame DEF vars, durable, progress, imports, working,
     driver, ghosts
<1>21. CASE \E a \in Actors : \/ OpenSession(a) \/ TurnBegins(a) \/ ReadsWorkspace(a)
                              \/ WritesWorkspace(a) \/ SubmitAccepted(a) \/ UntypedTurnEnds(a)
                              \/ TurnFails(a)
  BY <1>2, <1>21, OpenSessionFrame, TurnBeginsFrame, ReadsWorkspaceFrame,
     WritesWorkspaceFrame, SubmitAcceptedFrame, UntypedTurnEndsFrame, TurnFailsFrame
<1>22. CASE \E r \in Runs, a \in Actors : \/ SeedMessage(r, a) \/ SessionOpens(r, a) \/ AcceptedTurnEnds(r, a)
  BY <1>2, <1>22, SeedMessageFrame, SessionOpensFrame, AcceptedTurnEndsFrame
<1>23. CASE \E i \in worldBusy : SettleWorldRead(i)
  BY <1>2, <1>23, SettleWorldReadFrame
<1> QED
  BY <1>3, <1>4, <1>6, <1>20, <1>21, <1>22, <1>23, StepKinds

\* When its counter changes.
LEMMA CountedIs ==
    ASSUME IInv, [Next]_vars, NEW q \in Runs, NEW c \in Actors
    PROVE  \/ counted'[q][c] = counted[q][c]
           \/ StartAsk(c) /\ q = run
           \/ AtWork(c) /\ q = run /\ counted'[q][c]
           \/ turns'[q][c] = <<>>
<1>1. run \in Runs /\ counted \in [Runs -> [Actors -> BOOLEAN]]
  BY DEF IInv, Types, ProgressTyped, TurnsTyped
<1>2. CASE counted' = counted
  BY <1>2
<1>3. CASE RunEnds
  <2>1. counted' = [counted EXCEPT ![run] = [b \in Actors |->
                    turns'[run][b] # <<>> /\ counted[run][b]]]
    BY <1>3 DEF RunEnds
  <2>3. CASE q = run
    <3>1. counted'[run][c] = (turns'[run][c] # <<>> /\ counted[run][c])
      BY <1>1, <2>1
    <3>2. counted[run][c] \in BOOLEAN
      BY <1>1
    <3>3. CASE turns'[run][c] = <<>>
      BY <2>3, <3>3
    <3>4. CASE turns'[run][c] # <<>>
      BY <2>3, <3>1, <3>2, <3>4
    <3> QED
      BY <3>3, <3>4
  <2>4. CASE q # run
    BY <1>1, <2>1, <2>4
  <2> QED
    BY <2>3, <2>4
<1>4. CASE Crash \/ CrashInAdmission
  BY <1>4 DEF Crash, CrashInAdmission, ProcessDies, PerRun, PerActor
<1>5. ASSUME NEW b \in Actors, StartAsk(b)
      PROVE  \/ counted'[q][c] = counted[q][c]
             \/ StartAsk(c) /\ q = run
  <2>1. counted' = [counted EXCEPT ![run][b] = FALSE]
    BY <1>5 DEF StartAsk
  <2>2. CASE q = run /\ c = b
    BY <1>5, <2>2
  <2>3. CASE ~ (q = run /\ c = b)
    BY <1>1, <2>1, <2>3
  <2> QED
    BY <2>2, <2>3
<1>6. ASSUME NEW b \in Actors, AtWork(b)
      PROVE  \/ counted'[q][c] = counted[q][c]
             \/ AtWork(c) /\ q = run /\ counted'[q][c]
  <2>1. counted' = [counted EXCEPT ![run][b] = TRUE]
    BY <1>6 DEF AtWork, ReadsWorkspace, WritesWorkspace
  <2>2. CASE q = run /\ c = b
    <3>1. counted'[q][c] = TRUE
      BY <1>1, <2>1, <2>2
    <3> QED
      BY <1>6, <2>2, <3>1
  <2>3. CASE ~ (q = run /\ c = b)
    BY <1>1, <2>1, <2>3
  <2> QED
    BY <2>2, <2>3
<1>7. CASE \E b \in Actors : StartAsk(b) \/ ReadsWorkspace(b) \/ WritesWorkspace(b)
  BY <1>5, <1>6, <1>7 DEF AtWork
<1>20. CASE \/ AskReplayed \/ TryImportedSettle \/ AskLive
            \/ WorldReplayed \/ WorldImported \/ WorldLive
            \/ Amend \/ Resume \/ UNCHANGED vars
  BY <1>2, <1>20, AskReplayedFrame, TryImportedSettleFrame, AskLiveFrame,
     WorldReplayedFrame, WorldImportedFrame, WorldLiveFrame, AmendFrame, ResumeFrame DEF vars, durable, progress, imports, working,
     driver, ghosts
<1>21. CASE \E a \in Actors : \/ OpenSession(a) \/ TurnBegins(a) \/ SubmitAccepted(a)
                              \/ UntypedTurnEnds(a) \/ TurnFails(a)
  BY <1>2, <1>21, OpenSessionFrame, TurnBeginsFrame, SubmitAcceptedFrame,
     UntypedTurnEndsFrame, TurnFailsFrame
<1>22. CASE \E r \in Runs, a \in Actors : \/ SeedMessage(r, a) \/ SessionOpens(r, a) \/ AcceptedTurnEnds(r, a)
  BY <1>2, <1>22, SeedMessageFrame, SessionOpensFrame, AcceptedTurnEndsFrame
<1>23. CASE \E i \in worldBusy : SettleWorldRead(i)
  BY <1>2, <1>23, SettleWorldReadFrame
<1> QED
  BY <1>3, <1>4, <1>7, <1>20, <1>21, <1>22, <1>23, StepKinds

LEMMA TouchedAskedKept ==
    ASSUME IInv, TouchedInside, DownByCrash, TouchedAsked, [Next]_vars
    PROVE  TouchedAsked'
<1>1. run \in Runs /\ \A r \in Runs : r \in Nat /\ Calls(r) \in SUBSET Nat /\ 0 \notin Calls(r)
  <2>1. run \in Runs /\ plan \in Plans
    BY DEF IInv, Types, ProgressTyped
  <2>2. \A r \in Runs : 0 \notin Calls(r)
    BY <2>1, ScriptIs
  <2> QED
    BY <2>1, <2>2, ScriptIs
<1>2. plan' = plan /\ Scripts' = Scripts
  BY StepKinds
<1>3. ASSUME engine' = "live", Watched(run'), NEW i \in Calls(run'), <<run', i>> \in touched'
      PROVE  \/ i \in DOMAIN journal'[run'] /\ journal'[run'][i].status # "running"
             \/ \E a \in Actors : current'[a] = i /\ asked'[run'][a] = i
  <2>1. CASE Amend
    <3>1. touched' = touched /\ run' = run + 1
      BY <2>1, AmendFrame DEF Amend
    <3>2. PICK r \in 1 .. run : \E k \in Calls(r) : <<run', i>> = <<r, k>>
      BY <1>3, <3>1 DEF TouchedInside
    <3> QED
      BY <1>1, <3>1, <3>2
  <2>2. CASE Resume
    <3>1. engine = "down" /\ run' = run
      BY <2>2, ResumeFrame DEF Resume
    <3> QED
      BY <1>3, <3>1 DEF DownByCrash, Watched
  <2>3. CASE run' = run /\ engine = "live" /\ <<run, i>> \in touched
    <3>1. Settled(run, i) \/ \E a \in Actors : current[a] = i /\ asked[run][a] = i
      BY <1>3, <2>3 DEF TouchedAsked
    <3>2. CASE Settled(run, i)
      BY <1>1, <2>3, <3>2, RowsStay DEF Settled, Status
    <3>3. ASSUME NEW a \in Actors, current[a] = i, asked[run][a] = i
          PROVE  \/ i \in DOMAIN journal'[run'] /\ journal'[run'][i].status # "running"
                 \/ \E b \in Actors : current'[b] = i /\ asked'[run'][b] = i
      <4>1. i # 0
        BY <1>1, <1>3, <2>3
      <4>2. asked'[run][a] = i
        BY <1>1, <1>3, <3>3, AskedIs
      <4>3. CASE current'[a] = current[a]
        BY <2>3, <3>3, <4>2, <4>3
      <4>4. CASE \E b \in Actors : PumpIs(b, issued + 1)
        BY <3>3, <4>1, <4>3, <4>4 DEF PumpIs
      <4>5. ASSUME NEW b \in Actors, SubmitAccepted(b) \/ UntypedTurnEnds(b) \/ TurnFails(b),
                   InTurn(b), SettleIs(b)
            PROVE  \/ i \in DOMAIN journal'[run'] /\ journal'[run'][i].status # "running"
                   \/ \E c \in Actors : current'[c] = i /\ asked'[run'][c] = i
        <5>1. CASE b # a
          BY <3>3, <4>3, <4>5, <5>1 DEF SettleIs
        <5>2. CASE b = a
          <6>1. TurnCall(a) = i
            BY <3>3, <4>5, <5>2, InTurnIs
          <6>2. \E row : SetRow(i, row) /\ row.status # "running"
            BY <4>5, <5>2, <6>1 DEF SubmitAccepted, UntypedTurnEnds, TurnFails, Settle,
               Row, FailedRow
          <6>3. run \in DOMAIN journal
            BY <1>1 DEF IInv, Types, JournalTyped
          <6> QED
            BY <2>3, <6>2, <6>3, SetRowPuts DEF RowIsPut
        <5> QED
          BY <5>1, <5>2
      <4>6. CASE RunEnds \/ Crash \/ CrashInAdmission
        BY <1>3, <4>6 DEF RunEnds, Crash, CrashInAdmission, ProcessDies
      <4> QED
        BY <2>1, <2>2, <4>3, <4>4, <4>5, <4>6, QueuesAre
    <3> QED
      BY <3>1, <3>2, <3>3
  <2>4. ASSUME NEW a \in Actors, InTurn(a), <<run, i>> = <<run, TurnCall(a)>>, run' = run,
               UNCHANGED <<engine, current, asked, turns>>
        PROVE  \E b \in Actors : current'[b] = i /\ asked'[run'][b] = i
    <3>1. i = TurnCall(a)
      BY <2>4
    <3> QED
      BY <2>4, <3>1, InTurnIs
  <2>5. (engine = "live" /\ run' = run) \/ Amend \/ Resume
    BY <1>3, EnginesAre DEF Crash, CrashInAdmission, ProcessDies
  <2> QED
    BY <1>3, <2>1, <2>2, <2>3, <2>4, <2>5, TouchedIs
<1> QED
  BY <1>2, <1>3 DEF TouchedAsked, Settled, Watched

LEMMA CountsRightKept ==
    ASSUME IInv, TouchedAsked, CountsRight, [Next]_vars
    PROVE  CountsRight'
<1>1. run \in Runs /\ run' \in Runs
  <2>1. Scripts' = Scripts
    BY StepKinds
  <2> QED
    BY <2>1, ProgressTypedKept DEF IInv, Types, ProgressTyped
<1>2. plan' = plan /\ Scripts' = Scripts
  BY StepKinds
<1>3. ASSUME Watched(run'), NEW c \in Actors, NEW n \in DOMAIN turns'[run'][c],
             turns'[run'][c][n].call = asked'[run'][c], <<run', asked'[run'][c]>> \in touched'
      PROVE  counted'[run'][c]
  <2>1. turns'[run'][c] # <<>>
    BY <1>3, EmptyIs
  <2>2. CASE Amend
    BY <1>1, <2>1, <2>2, AmendFrame, AmendedIsDone
  <2>3. ASSUME run' = run, StartAsk(c) PROVE FALSE
    <3>1. /\ engine = "live" /\ current[c] # NoCall /\ asked[run][c] # current[c]
          /\ asked'[run][c] = current[c]
      <4>1. asked' = [asked EXCEPT ![run][c] = current[c]]
        BY <2>3 DEF StartAsk
      <4> QED
        BY <1>1, <2>3, <4>1 DEF StartAsk, Busy, IInv, Types, TurnsTyped
    <3>2. touched' = touched
      BY <2>3, StartAskFrame
    <3>3. OpenAsk(c, current[c])
      BY <3>1 DEF IInv, AsksOpen
    <3>4. current[c] \in Calls(run)
      BY <1>1, <3>3 DEF OpenAsk, AskOf, IInv, Types, JournalTyped
    <3>5. Settled(run, current[c]) \/ \E a \in Actors : current[a] = current[c] /\ asked[run][a] = current[c]
      BY <1>3, <2>3, <3>1, <3>2, <3>4 DEF TouchedAsked
    <3>6. ~ Settled(run, current[c])
      BY <3>3 DEF OpenAsk, Settled, Status
    <3>7. \A a \in Actors : current[a] = current[c] => a = c
      BY <3>1, <3>3 DEF IInv, AsksOpen, OpenAsk, AskOf
    <3> QED
      BY <3>1, <3>5, <3>6, <3>7
  <2>4. ASSUME run' = run, ~ StartAsk(c) PROVE counted'[run'][c]
    <3>1. PICK m \in DOMAIN turns[run][c] : turns'[run][c][n].call = turns[run][c][m].call
      BY <1>1, <1>3, <2>4, TurnsComeFrom
    <3>2. asked'[run][c] = asked[run][c]
      BY <1>1, <2>1, <2>4, AskedIs
    <3>3. turns[run][c][m].call = asked[run][c]
      BY <1>3, <2>4, <3>1, <3>2
    <3>4. CASE AtWork(c)
      <4>1. counted' = [counted EXCEPT ![run][c] = TRUE]
        BY <3>4 DEF AtWork, ReadsWorkspace, WritesWorkspace
      <4> QED
        BY <1>1, <2>4, <4>1 DEF IInv, Types, TurnsTyped
    <3>5. CASE ~ AtWork(c)
      <4>1. counted'[run][c] = counted[run][c]
        BY <1>1, <2>1, <2>4, <3>5, CountedIs
      <4>2. CASE <<run, asked[run][c]>> \in touched
        BY <1>2, <1>3, <2>4, <3>3, <4>1, <4>2 DEF CountsRight, Watched
      <4>3. ASSUME NEW a \in Actors, a # c, InTurn(a),
                   <<run, asked[run][c]>> = <<run, TurnCall(a)>>
            PROVE  FALSE
        <5>1. OpenAsk(a, asked[run][c])
          BY <4>3, InTurnIs
        <5>2. TurnFits(c, m)
          BY <3>1 DEF IInv, TurnsFit
        <5>3. CASE turns[run][c][m].accepted
          BY <3>3, <4>3, <5>1, <5>2, <5>3 DEF TurnFits, OpenAsk, AskOf
        <5>4. CASE ~ turns[run][c][m].accepted
          <6>1. current[c] # NoCall /\ asked[run][c] = current[c]
            BY <5>2, <5>4 DEF TurnFits
          <6>2. OpenAsk(c, asked[run][c])
            BY <6>1 DEF IInv, AsksOpen
          <6> QED
            BY <4>3, <5>1, <6>2 DEF OpenAsk, AskOf
        <5> QED
          BY <5>3, <5>4
      <4> QED
        BY <1>3, <2>4, <3>2, <3>5, <4>2, <4>3, TouchedIs
    <3> QED
      BY <3>4, <3>5
  <2> QED
    BY <2>2, <2>3, <2>4, EnginesAre
<1> QED
  BY <1>2, <1>3 DEF CountsRight, Watched

-----------------------------------------------------------------------------
\* Pure rows

\* A crash cuts no turn that looks at the workspace, unless nobody may amend the
\* run any more.
NoRemnant(p) ==
    \A r \in p.crashes : r = Len(p.scripts) \/ \A i \in DOMAIN p.scripts[r] : p.scripts[r][i].tools = {}

\* A row another run may import as pure, and an entry that was, did not look at
\* the workspace.
PureRows ==
    \A r \in Runs : r # Len(Scripts) =>
        \A i \in DOMAIN journal[r] :
            /\ journal[r][i].status = "completed"
            /\ journal[r][i].boundary # NoBoundary
            /\ journal[r][i].pure
            => journal[r][i].answer \notin touched
PureEntries ==
    \A a \in Actors : \A k \in DOMAIN cache.entries[a] :
        cache.entries[a][k].pure => cache.entries[a][k].answer \notin touched

\* The counter at the end of a turn is right about its answer.
LEMMA EndOfTurn ==
    ASSUME IInv, TouchedInside, CountsRight, NoRemnant(plan), run # Len(Scripts),
           NEW a \in Actors, turns[run][a] # <<>>, asked[run][a] = Head(turns[run][a]).call,
           <<run, asked[run][a]>> \in touched
    PROVE  counted[run][a]
<1>1. turns[run][a] \in Seq(Turns) /\ run \in Runs
  BY DEF IInv, Types, TurnsTyped, ProgressTyped
<1>2. 1 \in DOMAIN turns[run][a] /\ Head(turns[run][a]) = turns[run][a][1]
  BY <1>1, TailIs
<1>3. CASE Watched(run)
  BY <1>2, <1>3 DEF CountsRight
<1>4. CASE ~ Watched(run)
  <2>1. run \in plan.crashes
    BY <1>4 DEF Watched
  <2>2. \A i \in Calls(run) : Scripts[run][i].tools = {}
    BY <2>1 DEF NoRemnant, Scripts
  <2>3. PICK r \in 1 .. run : \E i \in Calls(r) :
               <<run, asked[run][a]>> = <<r, i>> /\ Scripts[r][i].tools # {}
    BY DEF TouchedInside
  <2> QED
    BY <2>2, <2>3
<1> QED
  BY <1>3, <1>4

LEMMA PureRowsKept ==
    ASSUME IInv, TouchedInside, CountsRight, NoRemnant(plan), RowOrigins, RowsBehind,
           PureEntries, PureRows, [Next]_vars
    PROVE  PureRows'
<1>1. /\ run \in Runs /\ \A r \in Runs : r \in Nat /\ Calls(r) \in SUBSET Nat
      /\ plan \in Plans /\ JournalTyped /\ DOMAIN journal = Runs
  <2>1. run \in Runs /\ plan \in Plans /\ JournalTyped
    BY DEF IInv, Types, ProgressTyped
  <2> QED
    BY <2>1, ScriptIs DEF JournalTyped
<1>2. Scripts' = Scripts
  BY StepKinds
<1> DEFINE Clean(row) == row.status = "completed" /\ row.boundary # NoBoundary /\ row.pure
                             => row.answer \notin touched
<1>3. \A r \in Runs : r # Len(Scripts) => \A i \in DOMAIN journal[r] : Clean(journal[r][i])
  BY DEF PureRows
<1>4. SUFFICES ASSUME touched' = touched
               PROVE  \A r \in Runs : r # Len(Scripts) =>
                          \A i \in DOMAIN journal'[r] : Clean(journal'[r][i])
  <2>1. ASSUME NEW a \in Actors, InTurn(a), UNCHANGED <<journal, cache, run>>,
               touched' = touched \union {<<run, TurnCall(a)>>},
               NEW r \in Runs, r # Len(Scripts), NEW i \in DOMAIN journal[r],
               journal[r][i].status = "completed", journal[r][i].boundary # NoBoundary,
               journal[r][i].pure
        PROVE  journal[r][i].answer # <<run, TurnCall(a)>>
    <3>1. SUFFICES ASSUME journal[r][i].answer = <<run, TurnCall(a)>> PROVE FALSE
      OBVIOUS
    <3>2. RowFits(journal[r][i], r, i) /\ r <= run
      BY <2>1 DEF RowOrigins, RowsBehind
    <3>3. journal[r][i].answer[1] = run
      BY <3>1
    <3>4. r = run
      BY <1>1, <3>2, <3>3 DEF RowFits, AnswerFits
    <3>5. TurnCall(a) = i
      BY <3>1, <3>2, <3>3, <3>4 DEF RowFits, AnswerFits
    <3>6. OpenAsk(a, TurnCall(a))
      BY <2>1, InTurnIs
    <3> QED
      BY <2>1, <3>4, <3>5, <3>6 DEF OpenAsk, Status
  <2>2. CASE touched' = touched
    BY <1>2, <1>4, <2>2 DEF PureRows
  <2>3. ASSUME NEW a \in Actors, InTurn(a), UNCHANGED <<journal, cache, run>>,
               touched' = touched \union {<<run, TurnCall(a)>>}
        PROVE  PureRows'
    BY <1>2, <1>3, <2>1, <2>3 DEF PureRows
  <2> QED
    BY <2>2, <2>3, TouchedIs
<1> HIDE DEF Clean
<1>5. CASE UNCHANGED journal
  BY <1>3, <1>5
<1>6. ASSUME NEW i, NEW row, RowIsPut(i, row), run # Len(Scripts) => Clean(row)
      PROVE  \A r \in Runs : r # Len(Scripts) => \A j \in DOMAIN journal'[r] : Clean(journal'[r][j])
  <2>1. ASSUME NEW r \in Runs, r # Len(Scripts), NEW j \in DOMAIN journal'[r]
        PROVE  Clean(journal'[r][j])
    <3>1. CASE r # run
      BY <1>1, <1>3, <1>6, <2>1, <3>1 DEF RowIsPut
    <3>2. CASE r = run /\ j # i
      BY <1>1, <1>3, <1>6, <2>1, <3>2 DEF RowIsPut
    <3>3. CASE r = run /\ j = i
      BY <1>6, <2>1, <3>3 DEF RowIsPut
    <3> QED
      BY <3>1, <3>2, <3>3
  <2> QED
    BY <2>1
<1>7. Clean(Running) /\ Clean(FailedRow) /\ \A x : Clean(Row("completed", x, NoBoundary, FALSE))
  BY DEF Clean, Running, FailedRow, Row
<1>8. CASE TryImportedSettle
  <2> DEFINE i == issued + 1
             a == NextCall.who
             seq == ActorSeq(run, i)
             e == EntryAt(a, seq)
  <2>1. a \in Actors /\ seq \in Nat /\ HasEntry(a, seq)
    BY <1>8, AskIs DEF TryImportedSettle, Follows
  <2>2. SetRow(i, Row("completed", e.answer, e.boundary, e.pure))
    BY <1>8 DEF TryImportedSettle
  <2> HIDE DEF i
  <2>3. e.pure => e.answer \notin touched
    BY <2>1, EntryIs DEF PureEntries
  <2> HIDE DEF e
  <2>4. Clean(Row("completed", e.answer, e.boundary, e.pure))
    BY <2>3 DEF Clean, Row
  <2> QED
    BY <1>1, <1>6, <2>2, <2>4, SetRowPuts
<1>9. ASSUME NEW a \in Actors, UntypedTurnEnds(a), InTurn(a),
             RowIsPut(TurnCall(a), Row("completed", <<run, TurnCall(a)>>,
                                       Len(transcript[run][a]) + 1, ~ counted[run][a]))
      PROVE  \A r \in Runs : r # Len(Scripts) => \A j \in DOMAIN journal'[r] : Clean(journal'[r][j])
  <2>1. /\ turns[run][a] # <<>> /\ TurnCall(a) = asked[run][a]
        /\ asked[run][a] = Head(turns[run][a]).call
    BY <1>9, InTurnIs DEF TurnCall
  <2>2. run # Len(Scripts) /\ <<run, TurnCall(a)>> \in touched => counted[run][a]
    BY <2>1, EndOfTurn
  <2>3. run # Len(Scripts) => Clean(Row("completed", <<run, TurnCall(a)>>,
                                        Len(transcript[run][a]) + 1, ~ counted[run][a]))
    BY <2>2 DEF Clean, Row
  <2> QED
    BY <1>6, <1>9, <2>3
<1>10. ASSUME NEW a \in Actors, AcceptedTurnEnds(run, a)
       PROVE  \A r \in Runs : r # Len(Scripts) => \A j \in DOMAIN journal'[r] : Clean(journal'[r][j])
  <2> DEFINE i == Head(turns[run][a]).call
  <2>1. /\ RowIsEnded(run, a) /\ i \in Calls(run) /\ AskOf(run, a, i)
        /\ journal[run][i].boundary = NoBoundary /\ Status(run, i) = "completed"
        /\ turns[run][a] # <<>>
    BY <1>1, <1>10, EndedIs
  <2>2. /\ \A q \in Runs : q # run => journal'[q] = journal[q]
        /\ DOMAIN journal'[run] = DOMAIN journal[run]
        /\ \A j \in DOMAIN journal[run] : j # i => journal'[run][j] = journal[run][j]
        /\ i \in DOMAIN journal[run]
        /\ journal'[run][i].answer = journal[run][i].answer
        /\ ~ StillAsked(run, a, i) => journal'[run][i].boundary = NoBoundary
        /\ journal'[run][i].pure = ~ counted[run][a]
    BY <1>1, <2>1 DEF RowIsEnded, Row
  <2>3. journal[run][i].answer = <<run, i>>
    <3>1. Scripts[run][i].op = "ask"
      BY <1>1, <2>1, ScriptIs DEF AskOf
    <3> QED
      BY <1>1, <2>1, <2>2, <3>1 DEF RowOrigins, RowFits, Status
  <2>4. run # Len(Scripts) => Clean(journal'[run][i])
    <3>1. CASE ~ StillAsked(run, a, i)
      BY <2>2, <3>1 DEF Clean
    <3>2. CASE StillAsked(run, a, i)
      <4>1. run # Len(Scripts) /\ <<run, i>> \in touched => counted[run][a]
        BY <2>1, <3>2, EndOfTurn DEF StillAsked
      <4>2. run # Len(Scripts) /\ journal'[run][i].pure => <<run, i>> \notin touched
        BY <2>2, <4>1
      <4> QED
        BY <2>2, <2>3, <4>2 DEF Clean
    <3> QED
      BY <3>1, <3>2
  <2> HIDE DEF i
  <2>5. ASSUME NEW r \in Runs, r # Len(Scripts), NEW j \in DOMAIN journal'[r]
        PROVE  Clean(journal'[r][j])
    <3>1. CASE r # run
      BY <1>3, <2>2, <2>5, <3>1
    <3>2. CASE r = run /\ j # i
      BY <1>3, <2>2, <2>5, <3>2
    <3>3. CASE r = run /\ j = i
      BY <2>4, <2>5, <3>3
    <3> QED
      BY <3>1, <3>2, <3>3
  <2> QED
    BY <2>5
<1>11. CASE \E i : RowIsPut(i, Running) \/ RowIsPut(i, FailedRow)
                   \/ \E x : RowIsPut(i, Row("completed", x, NoBoundary, FALSE))
  BY <1>6, <1>7, <1>11
<1> QED
  BY <1>5, <1>8, <1>9, <1>10, <1>11, RowsAre

LEMMA PureEntriesKept ==
    ASSUME IInv, RowOrigins, EntryOrigins, Bounded, PureRows, PureEntries, [Next]_vars
    PROVE  PureEntries'
<1>1. /\ run \in Runs /\ run \in Nat /\ 1 <= run
      /\ \A r \in Runs : r \in Nat /\ 1 <= r /\ r <= Len(Scripts)
      /\ \A r \in Runs : r # 1 => r - 1 \in Runs
      /\ Len(Scripts) \in Nat
  <2>1. run \in Runs /\ plan \in Plans
    BY DEF IInv, Types, ProgressTyped
  <2> QED
    BY <2>1, ScriptIs
<1>2. CASE UNCHANGED <<touched, cache>>
  BY <1>2 DEF PureEntries
<1>3. CASE cache' = CacheFor(1)
  BY <1>3, EmptyIs DEF PureEntries, CacheFor
<1>4. ASSUME NEW r \in Runs, cache' = CacheFor(r), r # 1 => CompletedAsksHaveBoundaries(r - 1),
             touched' = touched
      PROVE  PureEntries'
  <2>1. ASSUME r # 1, NEW a \in Actors, NEW k \in DOMAIN CacheFor(r).entries[a],
               CacheFor(r).entries[a][k].pure
        PROVE  CacheFor(r).entries[a][k].answer \notin touched
    <3>1. CacheFor(r).entries[a][k].boundary # NoBoundary
      BY <1>4, <2>1, CacheOrigins
    <3>2. PICK i \in DOMAIN journal[r - 1] :
                   /\ journal[r - 1][i].status = "completed"
                   /\ CacheFor(r).entries[a][k] = EntryOf(r - 1, i)
      BY <1>4, <2>1, CacheOrigins
    <3>3. r - 1 \in Runs /\ r - 1 # Len(Scripts)
      <4>1. r - 1 \in Runs /\ r \in Nat /\ r <= Len(Scripts)
        BY <1>1, <2>1
      <4> QED
        BY <1>1, <4>1
    <3>4. /\ journal[r - 1][i].boundary # NoBoundary /\ journal[r - 1][i].pure
          /\ CacheFor(r).entries[a][k].answer = journal[r - 1][i].answer
      BY <2>1, <3>1, <3>2 DEF EntryOf
    <3> QED
      BY <3>2, <3>3, <3>4 DEF PureRows
  <2>2. CASE r = 1
    BY <1>3, <1>4, <2>2
  <2>3. CASE r # 1
    BY <1>4, <2>1, <2>3 DEF PureEntries
  <2> QED
    BY <2>2, <2>3
<1>5. ASSUME NEW a \in Actors, cache' = cache, touched' = touched \union {<<run, TurnCall(a)>>}
      PROVE  PureEntries'
  <2>1. ASSUME NEW b \in Actors, NEW k \in DOMAIN cache.entries[b]
        PROVE  cache.entries[b][k].answer # <<run, TurnCall(a)>>
    BY <1>1, <2>1 DEF EntryOrigins
  <2> QED
    BY <1>5, <2>1 DEF PureEntries
<1>6. CASE touched' = touched /\ Resume /\ cache' = CacheFor(run)
  <2>1. run # 1 => CompletedAsksHaveBoundaries(run - 1)
    <3>1. ASSUME run # 1 PROVE run - 1 \in Runs /\ run - 1 < run
      BY <1>1, <3>1
    <3> QED
      BY <3>1 DEF Bounded
  <2> QED
    BY <1>1, <1>4, <1>6, <2>1
<1>7. CASE touched' = touched /\ Amend /\ cache' = CacheFor(run + 1) /\ run + 1 \in Runs
           /\ CompletedAsksHaveBoundaries(run)
  <2>1. (run + 1) - 1 = run
    BY <1>1
  <2> QED
    BY <1>4, <1>7, <2>1
<1>8. CASE touched' = touched
  BY <1>2, <1>3, <1>6, <1>7, <1>8, EnginesAre
<1> QED
  BY <1>5, <1>8, TouchedIs

\* An import that is used after the change is one the change left valid.
LEMMA NotStaleKept ==
    ASSUME IInv, GateShut, NothingToImport, PureEntries, ~ stale, [Next]_vars
    PROVE  ~ stale'
<1>1. /\ run \in Nat /\ 1 <= run /\ shut \in BOOLEAN /\ dirty \in BOOLEAN
      /\ stale \in BOOLEAN
  <2>1. run \in Runs /\ plan \in Plans /\ shut \in BOOLEAN /\ dirty \in BOOLEAN
    BY DEF IInv, Types, ProgressTyped, CursorTyped, GhostsTyped
  <2>2. stale \in BOOLEAN
    BY DEF IInv, Types, GhostsTyped
  <2> QED
    BY <2>1, <2>2, ScriptIs
<1>2. CASE stale' = stale
  BY <1>2
<1>3. CASE TryImportedSettle
  <2> DEFINE a == NextCall.who
             seq == ActorSeq(run, issued + 1)
             e == EntryAt(a, seq)
  <2>1. a \in Actors /\ seq \in Nat /\ HasEntry(a, seq) /\ engine = "live"
        /\ (shut => e.pure)
    BY <1>3, AskIs DEF TryImportedSettle, Follows, MayCall, Usable
  <2>2. stale' = (stale \/ (dirty /\ e.answer \in touched))
    BY <1>3 DEF TryImportedSettle
  <2>3. seq + 1 \in DOMAIN cache.entries[a] /\ e = cache.entries[a][seq + 1]
    BY <2>1, EntryIs
  <2> HIDE DEF a, seq, e
  <2>4. run # 1
    <3>1. cache.entries[a] # <<>>
      BY <2>3, EmptyIs
    <3> QED
      BY <2>1, <3>1 DEF NothingToImport
  <2>5. dirty => shut
    BY <1>1, <2>1, <2>4 DEF GateShut
  <2>6. e.pure => e.answer \notin touched
    BY <2>1, <2>3 DEF PureEntries
  <2> QED
    BY <2>1, <2>2, <2>5, <2>6
<1>4. CASE WorldImported
  <2> DEFINE h == NextCall.hash
  <2>1. /\ engine = "live" /\ WorldImportLeft(h) /\ stale' = (stale \/ dirty) /\ h \in Hashes
    BY <1>4, CallIs DEF WorldImported, MayCall
  <2>2. used[h] + 1 \in DOMAIN cache.world[h] /\ ~ shut
    BY <2>1, WorldEntryIs DEF WorldImportLeft
  <2> HIDE DEF h
  <2>3. run # 1
    <3>1. cache.world[h] # <<>>
      BY <2>2, EmptyIs
    <3> QED
      BY <2>1, <3>1 DEF NothingToImport
  <2> QED
    BY <1>1, <2>1, <2>2, <2>3 DEF GateShut
<1>20. CASE \/ AskReplayed \/ AskLive \/ CrashInAdmission
            \/ WorldReplayed \/ WorldLive \/ RunEnds
            \/ Amend \/ Crash \/ Resume
            \/ UNCHANGED vars
  BY <1>2, <1>20, AskReplayedFrame, AskLiveFrame, CrashInAdmissionFrame, WorldReplayedFrame,
     WorldLiveFrame, RunEndsFrame, AmendFrame, CrashFrame, ResumeFrame DEF vars, durable, progress, imports, working,
     driver, ghosts
<1>21. CASE \E a \in Actors : \/ OpenSession(a) \/ StartAsk(a) \/ TurnBegins(a)
                              \/ ReadsWorkspace(a) \/ WritesWorkspace(a) \/ SubmitAccepted(a)
                              \/ UntypedTurnEnds(a) \/ TurnFails(a)
  BY <1>2, <1>21, OpenSessionFrame, StartAskFrame, TurnBeginsFrame, ReadsWorkspaceFrame,
     WritesWorkspaceFrame, SubmitAcceptedFrame, UntypedTurnEndsFrame, TurnFailsFrame
<1>22. CASE \E r \in Runs, a \in Actors : \/ SeedMessage(r, a) \/ SessionOpens(r, a) \/ AcceptedTurnEnds(r, a)
  BY <1>2, <1>22, SeedMessageFrame, SessionOpensFrame, AcceptedTurnEndsFrame
<1>23. CASE \E i \in worldBusy : SettleWorldRead(i)
  BY <1>2, <1>23, SettleWorldReadFrame
<1> QED
  BY <1>3, <1>4, <1>20, <1>21, <1>22, <1>23, StepKinds

\* What keeps an import from being stale.
GateInv ==
    /\ GateShut /\ NothingToImport /\ Bounded
    /\ RowOrigins /\ EntryOrigins /\ RowsBehind
    /\ DownByCrash /\ TouchedInside /\ TouchedAsked /\ CountsRight
    /\ PureRows /\ PureEntries /\ ~ stale

LEMMA InitGateInv == Init => GateInv
<1> SUFFICES ASSUME Init PROVE GateInv
  OBVIOUS
<1>1. /\ plan \in Plans /\ run = 1 /\ engine = "live" /\ touched = {} /\ ~ stale /\ ~ dirty /\ ~ shut
      /\ \A r \in Runs : r \in Nat /\ 1 <= r
  BY ScriptIs DEF Init
<1>2. /\ \A r \in Runs : journal[r] = <<>> /\ DOMAIN journal[r] = {}
      /\ \A r \in Runs : \A a \in Actors : turns[r][a] = <<>> /\ DOMAIN turns[r][a] = {}
  BY EmptyIs DEF Init, PerRun, PerActor
<1>3. /\ \A a \in Actors : cache.entries[a] = <<>> /\ DOMAIN cache.entries[a] = {}
      /\ \A h \in Hashes : cache.world[h] = <<>> /\ DOMAIN cache.world[h] = {}
  BY EmptyIs DEF Init, CacheFor
<1>4. GateShut /\ DownByCrash /\ NothingToImport
  BY <1>1, <1>3 DEF GateShut, DownByCrash, NothingToImport
<1>5. Bounded
  BY <1>1 DEF Bounded
<1>6. RowOrigins /\ RowsBehind
  BY <1>2 DEF RowOrigins, RowsBehind
<1>7. EntryOrigins
  BY <1>3 DEF EntryOrigins
<1>8. TouchedInside /\ TouchedAsked /\ CountsRight /\ PureRows /\ PureEntries
  BY <1>1, <1>2 DEF TouchedInside, TouchedAsked, CountsRight, PureRows, PureEntries
<1> QED
  BY <1>1, <1>4, <1>5, <1>6, <1>7, <1>8 DEF GateInv

LEMMA NextGateInv ==
    ASSUME IInv, GateInv, NoRemnant(plan), [Next]_vars
    PROVE  GateInv'
<1>1. GateShut' /\ NothingToImport' /\ Bounded' /\ ~ stale'
  BY GateShutKept, NothingToImportKept, BoundedKept, NotStaleKept DEF GateInv
<1>2. RowOrigins' /\ EntryOrigins' /\ RowsBehind'
  BY RowOriginsKept, EntryOriginsKept, RowsBehindKept DEF GateInv
<1>3. DownByCrash' /\ TouchedInside' /\ TouchedAsked' /\ CountsRight'
  BY DownByCrashKept, TouchedInsideKept, TouchedAskedKept, CountsRightKept DEF GateInv
<1>4. PureRows' /\ PureEntries'
  BY PureRowsKept, PureEntriesKept DEF GateInv
<1> QED
  BY <1>1, <1>2, <1>3, <1>4 DEF GateInv

\* For every plan in which a crash cuts no turn that works in the workspace (or
\* cuts it in the last run, which nobody amends): no answer that looked at the
\* workspace is imported after the run changed it.  The configuration `remnant`
\* shows what happens without that: a turn cut by a crash starts again with its
\* counter at zero, and its answer goes for pure.
THEOREM NoStaleImportUnlessRemnant ==
    ASSUME \A p \in Plans : NoRemnant(p)
    PROVE  Spec => []NoStaleImport
<1>1. Init => GateInv
  BY InitGateInv
<1>2. IInv /\ GateInv /\ [Next]_vars => GateInv'
  <2> SUFFICES ASSUME IInv, GateInv, [Next]_vars PROVE GateInv'
    OBVIOUS
  <2>1. NoRemnant(plan)
    BY DEF IInv, Types
  <2> QED
    BY <2>1, NextGateInv
<1>3. GateInv => NoStaleImport
  BY DEF GateInv, NoStaleImport
<1> QED
  BY <1>1, <1>2, <1>3, AlwaysIInv, PTL DEF Spec

-----------------------------------------------------------------------------
\* The import is what a resume rebuilds

\* A plan under which a resumed engine can tell what ran live: no process dies
\* between the row of an ask and its event, or nothing ever closes the import.
Rebuildable(p) ==
    p.torn => \A r \in DOMAIN p.scripts : \A i \in DOMAIN p.scripts[r] :
                  p.scripts[r][i].op # "run" /\ "write" \notin p.scripts[r][i].tools

NeverShut == plan.torn => ~ shut /\ closedEvent = {}

LEMMA NeverShutKept ==
    ASSUME IInv, Rebuildable(plan), NeverShut, [Next]_vars
    PROVE  NeverShut'
<1>1. SUFFICES ASSUME plan.torn PROVE ~ shut' /\ closedEvent' = {}
  BY StepKinds DEF NeverShut
<1>2. /\ ~ shut /\ closedEvent = {}
      /\ \A r \in Runs : \A i \in Calls(r) :
             Scripts[r][i].op # "run" /\ "write" \notin Scripts[r][i].tools
  BY <1>1 DEF NeverShut, Rebuildable, Scripts
<1>3. CASE UNCHANGED <<shut, closedEvent>>
  BY <1>2, <1>3
<1>4. ASSUME NEW a \in Actors, WritesWorkspace(a) PROVE FALSE
  <2>1. InTurn(a) /\ "write" \in Scripts[run][TurnCall(a)].tools
    BY <1>4 DEF WritesWorkspace
  <2> QED
    BY <1>2, <2>1, InTurnIs
<1>5. CASE WorldLive
  <2>1. NextCall.op # "run"
    <3>1. MayCall({"read", "run"})
      BY <1>5 DEF WorldLive
    <3> QED
      BY <1>2, <3>1, CallIs
  <2> QED
    BY <1>3, <1>5, <2>1 DEF WorldLive, KeepImportCache
<1>6. CASE RunEnds \/ Crash \/ CrashInAdmission
  BY <1>2, <1>6 DEF RunEnds, Crash, CrashInAdmission, ProcessDies, durable
<1>7. CASE Resume
  BY <1>2, <1>7 DEF Resume, WasClosed, durable
<1>20. CASE \/ AskReplayed \/ TryImportedSettle \/ AskLive
            \/ WorldReplayed \/ WorldImported \/ Amend
            \/ UNCHANGED vars
  BY <1>3, <1>20, AskReplayedFrame, TryImportedSettleFrame, AskLiveFrame,
     WorldReplayedFrame, WorldImportedFrame, AmendFrame DEF vars, durable, progress, imports, working,
     driver, ghosts
<1>21. CASE \E a \in Actors : \/ OpenSession(a) \/ StartAsk(a) \/ TurnBegins(a)
                              \/ ReadsWorkspace(a) \/ SubmitAccepted(a) \/ UntypedTurnEnds(a)
                              \/ TurnFails(a)
  BY <1>3, <1>21, OpenSessionFrame, StartAskFrame, TurnBeginsFrame, ReadsWorkspaceFrame,
     SubmitAcceptedFrame, UntypedTurnEndsFrame, TurnFailsFrame
<1>22. CASE \E r \in Runs, a \in Actors : \/ SeedMessage(r, a) \/ SessionOpens(r, a) \/ AcceptedTurnEnds(r, a)
  BY <1>3, <1>22, SeedMessageFrame, SessionOpensFrame, AcceptedTurnEndsFrame
<1>23. CASE \E i \in worldBusy : SettleWorldRead(i)
  BY <1>3, <1>23, SettleWorldReadFrame
<1> QED
  BY <1>4, <1>5, <1>6, <1>7, <1>20, <1>21, <1>22, <1>23, StepKinds

\* The events that mark an ask as live.
LEMMA EventsAre ==
    ASSUME IInv, [Next]_vars
    PROVE  \/ queuedEvents' = queuedEvents
           \/ /\ \/ AskReplayed /\ Recorded(run, issued + 1) /\ Status(run, issued + 1) = "running"
                 \/ AskLive /\ ~ Recorded(run, issued + 1)
              /\ UNCHANGED <<run, engine, wasLive>> /\ engine = "live"
              /\ issued + 1 \in Calls(run) /\ issued' = issued + 1
              /\ NextCall.who \in Actors /\ issued + 1 \in AsksIn(run, NextCall.who)
              /\ queuedEvents'[run] = queuedEvents[run] \union {issued + 1}
              /\ \A r \in Runs : r # run => queuedEvents'[r] = queuedEvents[r]
<1>1. run \in Runs /\ DOMAIN queuedEvents = Runs
  BY DEF IInv, Types, ProgressTyped, StoreTyped
<1>2. CASE AskReplayed
  <2>1. \/ queuedEvents' = queuedEvents
        \/ /\ Status(run, issued + 1) = "running" /\ issued' = issued + 1
           /\ queuedEvents' = [queuedEvents EXCEPT ![run] = @ \union {issued + 1}]
    BY <1>2 DEF AskReplayed, AdmitLive, Pending, Status
  <2>2. Recorded(run, issued + 1)
    BY <1>2 DEF AskReplayed
  <2> QED
    BY <1>1, <1>2, <2>1, <2>2, AskIs, AskReplayedFrame
<1>3. CASE AskLive
  <2>1. /\ queuedEvents' = [queuedEvents EXCEPT ![run] = @ \union {issued + 1}]
        /\ issued' = issued + 1 /\ ~ Recorded(run, issued + 1)
    BY <1>3 DEF AskLive, AdmitLive, Pending, MissesImport
  <2> QED
    BY <1>1, <1>3, <2>1, AskIs, AskLiveFrame
<1>4. CASE queuedEvents' = queuedEvents
  BY <1>4
<1>20. CASE \/ TryImportedSettle \/ CrashInAdmission \/ WorldReplayed
            \/ WorldImported \/ WorldLive \/ RunEnds
            \/ Amend \/ Crash \/ Resume
            \/ UNCHANGED vars
  BY <1>4, <1>20, TryImportedSettleFrame, CrashInAdmissionFrame, WorldReplayedFrame,
     WorldImportedFrame, WorldLiveFrame, RunEndsFrame, AmendFrame, CrashFrame, ResumeFrame DEF vars, durable, progress, imports, working,
     driver, ghosts
<1>21. CASE \E a \in Actors : \/ OpenSession(a) \/ StartAsk(a) \/ TurnBegins(a)
                              \/ ReadsWorkspace(a) \/ WritesWorkspace(a) \/ SubmitAccepted(a)
                              \/ UntypedTurnEnds(a) \/ TurnFails(a)
  BY <1>4, <1>21, OpenSessionFrame, StartAskFrame, TurnBeginsFrame, ReadsWorkspaceFrame,
     WritesWorkspaceFrame, SubmitAcceptedFrame, UntypedTurnEndsFrame, TurnFailsFrame
<1>22. CASE \E r \in Runs, a \in Actors : \/ SeedMessage(r, a) \/ SessionOpens(r, a) \/ AcceptedTurnEnds(r, a)
  BY <1>4, <1>22, SeedMessageFrame, SessionOpensFrame, AcceptedTurnEndsFrame
<1>23. CASE \E i \in worldBusy : SettleWorldRead(i)
  BY <1>4, <1>23, SettleWorldReadFrame
<1> QED
  BY <1>2, <1>3, <1>20, <1>21, <1>22, <1>23, StepKinds

\* The rows of a run are those of a first part of its script, of the present run
\* at least of what was asked in this life; only those have events.
RowsDense ==
    /\ \A r \in Runs : \A i \in DOMAIN journal[r] : \A j \in 1 .. i : j \in DOMAIN journal[r]
    /\ \A i \in 1 .. issued : i \in DOMAIN journal[run]
    /\ \A r \in Runs : queuedEvents[r] \subseteq DOMAIN journal[r]

\* Which rows a step adds.
LEMMA RowsGrow ==
    ASSUME IInv, [Next]_vars
    PROVE  \/ \A r \in Runs : DOMAIN journal'[r] = DOMAIN journal[r]
           \/ /\ \A r \in Runs : r # run => DOMAIN journal'[r] = DOMAIN journal[r]
              /\ DOMAIN journal'[run] = DOMAIN journal[run] \union {issued + 1}
              /\ engine = "live" /\ issued + 1 \in Calls(run)
              /\ engine' = "live" => issued' = issued + 1
<1>1. run \in Runs /\ DOMAIN journal = Runs
  BY DEF IInv, Types, ProgressTyped, JournalTyped
<1>2. ASSUME NEW i \in DOMAIN journal[run], NEW row, RowIsPut(i, row)
      PROVE  \A r \in Runs : DOMAIN journal'[r] = DOMAIN journal[r]
  BY <1>1, <1>2 DEF RowIsPut
<1>4. ASSUME NEW row, RowIsPut(issued + 1, row),
             \/ AskReplayed \/ AskLive \/ CrashInAdmission \/ TryImportedSettle
             \/ WorldImported \/ WorldLive
      PROVE  /\ \A r \in Runs : r # run => DOMAIN journal'[r] = DOMAIN journal[r]
             /\ DOMAIN journal'[run] = DOMAIN journal[run] \union {issued + 1}
             /\ engine = "live" /\ issued + 1 \in Calls(run)
             /\ engine' = "live" => issued' = issued + 1
  <2>1. engine = "live" /\ issued + 1 \in Calls(run)
    BY <1>4 DEF AskReplayed, AskLive, CrashInAdmission, TryImportedSettle, MissesImport,
       WorldImported, WorldLive, MayCall
  <2>2. CrashInAdmission => engine' # "live"
    BY <2>1 DEF CrashInAdmission, ProcessDies
  <2>3. ~ CrashInAdmission => issued' = issued + 1
    BY <1>4 DEF AskReplayed, AskLive, AdmitLive, TryImportedSettle, WorldImported,
       WorldLive, Answered, Pending
  <2>4. engine' = "live" => issued' = issued + 1
    BY <2>1, <2>2, <2>3
  <2> QED
    BY <1>1, <1>4, <2>1, <2>4 DEF RowIsPut
<1>6. ASSUME NEW a \in Actors, InTurn(a), NEW row, RowIsPut(TurnCall(a), row)
      PROVE  \A r \in Runs : DOMAIN journal'[r] = DOMAIN journal[r]
  <2>1. TurnCall(a) \in DOMAIN journal[run]
    BY <1>6, InTurnIs DEF OpenAsk, AskOf
  <2> QED
    BY <1>2, <1>6, <2>1
<1>7. ASSUME NEW i \in worldBusy, NEW row, RowIsPut(i, row)
      PROVE  \A r \in Runs : DOMAIN journal'[r] = DOMAIN journal[r]
  <2>1. i \in DOMAIN journal[run]
    BY DEF IInv, WorldOpen, OpenAsk, AskOf
  <2> QED
    BY <1>2, <1>7, <2>1
<1>8. ASSUME NEW a \in Actors, RowIsEnded(run, a)
      PROVE  \A r \in Runs : DOMAIN journal'[r] = DOMAIN journal[r]
  BY <1>1, <1>8 DEF RowIsEnded
<1>9. CASE UNCHANGED journal
  BY <1>9
<1> QED
  BY <1>4, <1>6, <1>7, <1>8, <1>9, RowsAre

\* A call the script makes has its row.
LEMMA NewRowIs ==
    ASSUME IInv, [Next]_vars, issued' = issued + 1
    PROVE  issued + 1 \in DOMAIN journal'[run]
<1>1. run \in DOMAIN journal /\ issued \in Nat /\ run \in Runs
  <2>1. run \in Runs /\ plan \in Plans /\ issued \in 0 .. Len(Scripts[run]) /\ JournalTyped
    BY DEF IInv, Types, ProgressTyped
  <2> QED
    BY <2>1, ScriptIs DEF JournalTyped
<1>2. ASSUME NEW row, SetRow(issued + 1, row) PROVE issued + 1 \in DOMAIN journal'[run]
  BY <1>1, <1>2, SetRowPuts DEF RowIsPut
<1>3. CASE AskReplayed \/ WorldReplayed
  <2>1. issued + 1 \in DOMAIN journal[run]
    BY <1>3 DEF AskReplayed, WorldReplayed, Recorded
  <2> QED
    BY <1>1, <2>1, RowsGrow
<1>4. CASE TryImportedSettle \/ AskLive \/ WorldImported \/ WorldLive
  BY <1>2, <1>4 DEF TryImportedSettle, AskLive, AdmitLive, WorldImported, WorldLive
<1>5. CASE issued' = issued
  BY <1>1, <1>5
<1>6. CASE issued' = 0
  BY <1>1, <1>6
<1>7. CASE CrashInAdmission \/ Crash \/ RunEnds \/ Amend \/ Resume
  BY <1>6, <1>7 DEF CrashInAdmission, Crash, ProcessDies, RunEnds, Amend, Resume, EngineState
<1>20. CASE UNCHANGED vars
  BY <1>5, <1>20 DEF vars, durable, progress, imports, working,
     driver, ghosts
<1>21. CASE \E a \in Actors : \/ OpenSession(a) \/ StartAsk(a) \/ TurnBegins(a)
                              \/ ReadsWorkspace(a) \/ WritesWorkspace(a) \/ SubmitAccepted(a)
                              \/ UntypedTurnEnds(a) \/ TurnFails(a)
  BY <1>5, <1>21, OpenSessionFrame, StartAskFrame, TurnBeginsFrame, ReadsWorkspaceFrame,
     WritesWorkspaceFrame, SubmitAcceptedFrame, UntypedTurnEndsFrame, TurnFailsFrame
<1>22. CASE \E r \in Runs, a \in Actors : \/ SeedMessage(r, a) \/ SessionOpens(r, a) \/ AcceptedTurnEnds(r, a)
  BY <1>5, <1>22, SeedMessageFrame, SessionOpensFrame, AcceptedTurnEndsFrame
<1>23. CASE \E i \in worldBusy : SettleWorldRead(i)
  BY <1>5, <1>23, SettleWorldReadFrame
<1> QED
  BY <1>3, <1>4, <1>7, <1>20, <1>21, <1>22, <1>23, StepKinds

LEMMA RowsDenseKept ==
    ASSUME IInv, RowsDense, [Next]_vars
    PROVE  RowsDense'
<1>1. /\ run \in Runs /\ run' \in Runs /\ Scripts' = Scripts /\ issued \in Nat
      /\ \A r \in Runs : \A i \in DOMAIN journal[r] : i \in Nat
  <2>1. run \in Runs /\ plan \in Plans /\ issued \in 0 .. Len(Scripts[run]) /\ JournalTyped
    BY DEF IInv, Types, ProgressTyped
  <2>2. \A r \in Runs : \A i \in DOMAIN journal[r] : i \in Nat
    BY <2>1, ScriptIs DEF JournalTyped
  <2>3. issued \in Nat
    BY <2>1, ScriptIs
  <2>4. run' \in Runs' /\ Scripts' = Scripts
    BY StepKinds, ProgressTypedKept DEF ProgressTyped
  <2> QED
    BY <2>1, <2>2, <2>3, <2>4
<1>2. \A r \in Runs : DOMAIN journal[r] \subseteq DOMAIN journal'[r]
  BY RowsGrow
<1>3. ASSUME NEW r \in Runs, NEW i \in DOMAIN journal'[r], NEW j \in 1 .. i
      PROVE  j \in DOMAIN journal'[r]
  <2>1. CASE i \in DOMAIN journal[r]
    BY <1>2, <1>3, <2>1 DEF RowsDense
  <2>2. CASE r = run /\ i = issued + 1
    <3>1. j \in 1 .. issued \/ j = i
      BY <1>1, <1>3, <2>2
    <3> QED
      BY <1>2, <1>3, <2>2, <3>1 DEF RowsDense
  <2> QED
    BY <1>3, <2>1, <2>2, RowsGrow
<1>4. ASSUME NEW i \in 1 .. issued' PROVE i \in DOMAIN journal'[run']
  <2>1. CASE issued' = 0
    BY <1>4, <2>1
  <2>2. CASE issued' = issued /\ run' = run
    BY <1>1, <1>2, <1>4, <2>2 DEF RowsDense
  <2>3. CASE issued' = issued + 1 /\ run' = run
    <3>1. i \in 1 .. issued \/ i = issued + 1
      BY <1>1, <1>4, <2>3
    <3>2. issued + 1 \in DOMAIN journal'[run]
      BY <2>3, NewRowIs
    <3> QED
      BY <1>1, <1>2, <2>3, <3>1, <3>2 DEF RowsDense
  <2> QED
    BY <2>1, <2>2, <2>3, ProgressIs
<1>5. ASSUME NEW r \in Runs PROVE queuedEvents'[r] \subseteq DOMAIN journal'[r]
  <2>1. CASE queuedEvents'[r] = queuedEvents[r]
    BY <1>2, <2>1 DEF RowsDense
  <2>2. CASE /\ issued' = issued + 1 /\ run' = run /\ r = run
             /\ queuedEvents'[r] = queuedEvents[r] \union {issued + 1}
    <3>1. issued + 1 \in DOMAIN journal'[run]
      BY <2>2, NewRowIs
    <3> QED
      BY <1>2, <2>2, <3>1 DEF RowsDense
  <2> QED
    BY <2>1, <2>2, EventsAre
<1> QED
  BY <1>1, <1>3, <1>4, <1>5 DEF RowsDense

LEMMA ScriptsStay ==
    ASSUME [Next]_vars
    PROVE  /\ plan' = plan /\ Scripts' = Scripts /\ Persona' = Persona
           /\ \A r, a : AsksIn(r, a)' = AsksIn(r, a)
           /\ \A r, a : AsksOf(r, a)' = AsksOf(r, a)
           /\ \A r, i : ActorSeq(r, i)' = ActorSeq(r, i)
<1>1. plan' = plan /\ Scripts' = Scripts /\ Persona' = Persona
  BY StepKinds
<1> QED
  BY <1>1 DEF AsksIn, AsksOf, ActorSeq

\* What a run offers depends on its rows alone.
LEMMA OffersStay ==
    ASSUME [Next]_vars, NEW r \in Runs, journal'[r] = journal[r]
    PROVE  /\ \A a : CompletedAskPrefix(r, a)' = CompletedAskPrefix(r, a)
           /\ \A h : WorldQueue(r, h)' = WorldQueue(r, h)
<1>1. Scripts' = Scripts /\ \A a : AsksOf(r, a)' = AsksOf(r, a)
  BY ScriptsStay
<1>2. \A i : Completed(r, i)' <=> Completed(r, i)
  BY DEF Completed, Recorded
<1>3. ASSUME NEW a PROVE CompletedAskPrefix(r, a)' = CompletedAskPrefix(r, a)
  <2> DEFINE whole == {n \in 0 .. Len(AsksOf(r, a)) : \A k \in 1 .. n : Completed(r, AsksOf(r, a)[k])}
  <2>1. whole' = whole
    BY <1>1, <1>2
  <2>2. CompletedAskPrefix(r, a) = [k \in 1 .. Max(whole) |-> EntryOf(r, AsksOf(r, a)[k])]
    BY DEF CompletedAskPrefix, EntryOf
  <2>3. CompletedAskPrefix(r, a)' = [k \in 1 .. Max(whole') |-> EntryOf(r, AsksOf(r, a)[k])']
    BY DEF CompletedAskPrefix, EntryOf
  <2>4. \A k : EntryOf(r, AsksOf(r, a)[k])' = EntryOf(r, AsksOf(r, a)[k])
    BY <1>1 DEF EntryOf
  <2> HIDE DEF whole
  <2> QED
    BY <2>1, <2>2, <2>3, <2>4
<1>4. ASSUME NEW h PROVE WorldQueue(r, h)' = WorldQueue(r, h)
  <2> DEFINE rows == {i \in Calls(r) : /\ Scripts[r][i].op # "ask"
                                       /\ Scripts[r][i].hash = h
                                       /\ Completed(r, i)}
  <2>1. rows' = rows
    BY <1>1, <1>2
  <2>2. InOrder(rows)' = InOrder(rows)
    <3> HIDE DEF rows
    <3> QED
      BY <2>1
  <2>3. WorldQueue(r, h) = [n \in DOMAIN InOrder(rows) |-> journal[r][InOrder(rows)[n]].answer]
    BY DEF WorldQueue
  <2>4. WorldQueue(r, h)' = [n \in DOMAIN InOrder(rows)' |-> journal'[r][InOrder(rows)'[n]].answer]
    BY DEF WorldQueue
  <2> HIDE DEF rows
  <2> QED
    BY <2>2, <2>3, <2>4
<1> QED
  BY <1>3, <1>4

\* What a subagent of run r may import.
Offered(r, a) ==
    IF r = 1 THEN <<>> ELSE IF MatchedActor(r, a) THEN CompletedAskPrefix(r - 1, a) ELSE <<>>

LEMMA OfferedStays ==
    ASSUME IInv, [Next]_vars, NEW r \in Runs, r <= run, NEW a
    PROVE  Offered(r, a)' = Offered(r, a)
<1>1. /\ r \in Nat /\ 1 <= r /\ run \in Nat /\ (r # 1 => r - 1 \in Runs)
  <2>1. run \in Runs /\ plan \in Plans
    BY DEF IInv, Types, ProgressTyped
  <2> QED
    BY <2>1, ScriptIs
<1>2. MatchedActor(r, a)' <=> MatchedActor(r, a)
  BY ScriptsStay DEF MatchedActor
<1>3. CASE r = 1
  BY <1>3 DEF Offered
<1>4. CASE r # 1
  <2>1. r - 1 \in Runs /\ r - 1 # run
    BY <1>1, <1>4
  <2>2. journal'[r - 1] = journal[r - 1]
    BY <2>1, OtherRowsStay
  <2>3. CompletedAskPrefix(r - 1, a)' = CompletedAskPrefix(r - 1, a)
    BY <2>1, <2>2, OffersStay
  <2> QED
    BY <1>2, <1>4, <2>3 DEF Offered
<1> QED
  BY <1>3, <1>4

LEMMA OfferedTyped ==
    ASSUME IInv, NEW r \in Runs, NEW a
    PROVE  Offered(r, a) \in Seq(Entries)
<1>1. plan \in Plans /\ JournalTyped /\ <<>> \in Seq(Entries) /\ (r # 1 => r - 1 \in Runs)
  <2>1. plan \in Plans /\ JournalTyped
    BY DEF IInv, Types
  <2> QED
    BY <2>1, ScriptIs, EmptyIs
<1> QED
  BY <1>1, PrefixTyped DEF Offered

\* How many asks of a this life has made.
Made(a) == Cardinality({i \in 1 .. issued : Scripts[run][i].who = a})

LEMMA MadeIs ==
    ASSUME IInv, NEW a
    PROVE  /\ Made(a) \in Nat
           /\ \A i \in AsksIn(run, a) :
                  /\ i <= issued <=> ActorSeq(run, i) < Made(a)
                  /\ i = issued + 1 => ActorSeq(run, i) = Made(a)
<1> DEFINE M == {i \in 1 .. issued : Scripts[run][i].who = a}
           B(i) == {j \in Calls(run) : j < i /\ Scripts[run][j].who = Scripts[run][i].who}
<1>1. /\ run \in Runs /\ issued \in Nat /\ Calls(run) = 1 .. Len(Scripts[run])
      /\ Len(Scripts[run]) \in Nat /\ issued <= Len(Scripts[run])
  <2>1. run \in Runs /\ plan \in Plans /\ issued \in 0 .. Len(Scripts[run])
    BY DEF IInv, Types, ProgressTyped
  <2> QED
    BY <2>1, ScriptIs
<1>2. IsFiniteSet(M) /\ Cardinality(M) \in Nat /\ Made(a) = Cardinality(M)
  <2>1. IsFiniteSet(1 .. issued)
    BY <1>1, FS_Interval
  <2>2. M \in SUBSET (1 .. issued) /\ Made(a) = Cardinality(M)
    BY DEF Made
  <2> HIDE DEF M
  <2> QED
    BY <2>1, <2>2, FS_Subset, FS_CardinalityType
<1>3. ASSUME NEW i \in AsksIn(run, a)
      PROVE  /\ ActorSeq(run, i) = Cardinality(B(i)) /\ IsFiniteSet(B(i))
             /\ Cardinality(B(i)) \in Nat
             /\ i <= issued => B(i) \union {i} \in SUBSET M
             /\ i > issued => M \in SUBSET B(i)
             /\ i = issued + 1 => M = B(i)
             /\ i \notin B(i) /\ i \in Nat
  <2>1. i \in Calls(run) /\ i \in Nat /\ Scripts[run][i].who = a
    BY <1>1 DEF AsksIn
  <2>2. IsFiniteSet(1 .. Len(Scripts[run]))
    BY <1>1, FS_Interval
  <2>3. B(i) \in SUBSET (1 .. Len(Scripts[run])) /\ ActorSeq(run, i) = Cardinality(B(i))
    BY <1>1 DEF ActorSeq
  <2>4. IsFiniteSet(B(i)) /\ Cardinality(B(i)) \in Nat
    <3> HIDE DEF B
    <3> QED
      BY <2>2, <2>3, FS_Subset, FS_CardinalityType
  <2>5. i <= issued => B(i) \union {i} \in SUBSET M
    BY <1>1, <2>1
  <2>6. i > issued => M \in SUBSET B(i)
    BY <1>1, <2>1
  <2>7. i = issued + 1 => M = B(i)
    BY <1>1, <2>1
  <2> QED
    BY <2>1, <2>3, <2>4, <2>5, <2>6, <2>7
<1> HIDE DEF M, B
<1>4. ASSUME NEW i \in AsksIn(run, a)
      PROVE  /\ i <= issued <=> ActorSeq(run, i) < Made(a)
             /\ i = issued + 1 => ActorSeq(run, i) = Made(a)
  <2>1. CASE i <= issued
    <3>1. Cardinality(B(i) \union {i}) = Cardinality(B(i)) + 1
      BY <1>3, FS_AddElement
    <3>2. Cardinality(B(i) \union {i}) <= Cardinality(M)
      BY <1>2, <1>3, <2>1, FS_Subset
    <3>3. ActorSeq(run, i) < Made(a)
      BY <1>2, <1>3, <3>1, <3>2
    <3> QED
      BY <1>1, <1>3, <2>1, <3>3
  <2>2. CASE i > issued
    <3>1. Cardinality(M) <= Cardinality(B(i))
      BY <1>2, <1>3, <2>2, FS_Subset
    <3>2. ~ (ActorSeq(run, i) < Made(a))
      BY <1>2, <1>3, <3>1
    <3> QED
      BY <1>1, <1>2, <1>3, <2>2, <3>2
  <2> QED
    BY <1>1, <1>3, <2>1, <2>2
<1> QED
  BY <1>2, <1>4

\* What a step makes of it.
LEMMA MadeNext ==
    ASSUME IInv, [Next]_vars
    PROVE  /\ run' = run /\ issued' = issued => \A a : Made(a)' = Made(a)
           /\ issued' = 0 => \A a : Made(a)' = 0
           /\ run' = run /\ issued' = issued + 1 =>
                  \A a : Made(a)' = IF a = NextCall.who THEN Made(a) + 1 ELSE Made(a)
<1>1. /\ Scripts' = Scripts /\ issued \in Nat
  <2>1. run \in Runs /\ plan \in Plans /\ issued \in 0 .. Len(Scripts[run])
    BY DEF IInv, Types, ProgressTyped
  <2> QED
    BY <2>1, ScriptIs, StepKinds
<1>2. ASSUME run' = run, issued' = issued, NEW a PROVE Made(a)' = Made(a)
  BY <1>1, <1>2 DEF Made
<1>3. ASSUME issued' = 0, NEW a PROVE Made(a)' = 0
  <2>1. {i \in 1 .. issued' : Scripts'[run'][i].who = a} = {}
    BY <1>3
  <2> QED
    BY <2>1, FS_EmptySet DEF Made
<1>4. ASSUME run' = run, issued' = issued + 1, NEW a, a # NextCall.who PROVE Made(a)' = Made(a)
  <2>1. {i \in 1 .. issued' : Scripts'[run'][i].who = a} = {i \in 1 .. issued : Scripts[run][i].who = a}
    BY <1>1, <1>4 DEF NextCall
  <2> QED
    BY <2>1 DEF Made
<1>5. ASSUME run' = run, issued' = issued + 1, NEW a, a = NextCall.who
      PROVE  Made(a)' = Made(a) + 1
  <2> DEFINE M == {i \in 1 .. issued : Scripts[run][i].who = a}
             N == {i \in 1 .. issued' : Scripts'[run'][i].who = a}
  <2>1. IsFiniteSet(1 .. issued)
    BY <1>1, FS_Interval
  <2>2. M \in SUBSET (1 .. issued)
    OBVIOUS
  <2>3. IsFiniteSet(M)
    <3> HIDE DEF M
    <3> QED
      BY <2>1, <2>2, FS_Subset
  <2>4. N = M \union {issued + 1} /\ issued + 1 \notin M
    BY <1>1, <1>5 DEF NextCall
  <2>5. Made(a)' = Cardinality(N) /\ Made(a) = Cardinality(M)
    BY DEF Made
  <2> HIDE DEF M, N
  <2>6. Cardinality(N) = Cardinality(M) + 1
    BY <2>3, <2>4, FS_AddElement
  <2> QED
    BY <2>5, <2>6
<1> QED
  BY <1>2, <1>3, <1>4, <1>5

\* What a resumed engine knows to have run live is what has an event.
WasLiveRight ==
    engine = "live" /\ run # 1 =>
        \A i \in DOMAIN journal[run] : i > issued => (i \in wasLive <=> i \in queuedEvents[run])

LEMMA WasLiveRightKept ==
    ASSUME IInv, RowsDense, RowsBehind, WasLiveRight, [Next]_vars
    PROVE  WasLiveRight'
<1>1. /\ run \in Runs /\ issued \in Nat /\ run \in Nat
      /\ \A r \in Runs : \A i \in DOMAIN journal[r] : i \in Nat
  <2>1. run \in Runs /\ plan \in Plans /\ issued \in 0 .. Len(Scripts[run]) /\ JournalTyped
    BY DEF IInv, Types, ProgressTyped
  <2>2. \A r \in Runs : \A i \in DOMAIN journal[r] : i \in Nat
    BY <2>1, ScriptIs DEF JournalTyped
  <2> QED
    BY <2>1, <2>2, ScriptIs
<1>2. SUFFICES ASSUME engine' = "live", run' # 1, NEW i \in DOMAIN journal'[run'], i > issued'
               PROVE  i \in wasLive' <=> i \in queuedEvents'[run']
  BY DEF WasLiveRight
<1>3. CASE UNCHANGED <<run, engine, cache, wasLive>>
  <2>1. issued' = issued \/ issued' = issued + 1
    BY <1>2, <1>3, ProgressIs
  <2>2. i \in DOMAIN journal[run]
    BY <1>1, <1>2, <1>3, <2>1, RowsGrow
  <2>3. i \in queuedEvents'[run] <=> i \in queuedEvents[run]
    BY <1>1, <1>2, <1>3, <2>1, EventsAre
  <2>4. i \in Nat /\ i > issued
    BY <1>1, <1>2, <2>1, <2>2
  <2> QED
    BY <1>2, <1>3, <2>2, <2>3, <2>4 DEF WasLiveRight
<1>4. CASE Resume /\ run' = run /\ wasLive' = IF run = 1 THEN {} ELSE queuedEvents[run]
  BY <1>2, <1>4, ResumeFrame
<1>5. CASE Amend /\ run' = run + 1 /\ run + 1 \in Runs
  <2>1. journal' = journal /\ i \in DOMAIN journal[run + 1]
    BY <1>2, <1>5, AmendFrame
  <2>2. run + 1 <= run
    BY <1>5, <2>1 DEF RowsBehind
  <2> QED
    BY <1>1, <2>2
<1> QED
  BY <1>2, <1>3, <1>4, <1>5, EnginesAre

\* Where a subagent departed.
LEMMA SplitIs ==
    ASSUME IInv, [Next]_vars
    PROVE  /\ split' = split \/ AskReplayed \/ AskLive
           /\ \A r \in Runs : \A a \in Actors :
                  split'[r][a] =
                      IF /\ (AskReplayed \/ AskLive) /\ r = run /\ a = NextCall.who
                         /\ cursor'[a].diverged /\ split[r][a] = -1
                      THEN ActorSeq(run, issued + 1) ELSE split[r][a]
<1>1. split \in [Runs -> [Actors -> Int]] /\ run \in Runs
  BY DEF IInv, Types, GhostsTyped, ProgressTyped
<1>2. CASE AskReplayed \/ AskLive
  <2>1. split' = NoteSplit(NextCall.who, ActorSeq(run, issued + 1), cursor')
    BY <1>2 DEF AskReplayed, AskLive
  <2> DEFINE n == ActorSeq(run, issued + 1)
             a == NextCall.who
  <2>2. a \in Actors /\ split' = NoteSplit(a, n, cursor')
    BY <1>2, <2>1, AskIs
  <2> HIDE DEF n, a
  <2>3. CASE cursor'[a].diverged /\ split[run][a] = -1
    <3>1. split' = [split EXCEPT ![run][a] = n]
      BY <2>2, <2>3 DEF NoteSplit
    <3>2. ASSUME NEW r \in Runs, NEW b \in Actors
          PROVE  split'[r][b] = IF r = run /\ b = a THEN n ELSE split[r][b]
      <4>1. CASE r = run
        BY <1>1, <2>2, <3>1, <4>1
      <4>2. CASE r # run
        BY <1>1, <2>2, <3>1, <4>2
      <4> QED
        BY <4>1, <4>2
    <3> QED
      BY <1>2, <2>3, <3>2 DEF n, a
  <2>4. CASE ~ (cursor'[a].diverged /\ split[run][a] = -1)
    <3>1. split' = split
      BY <2>2, <2>4 DEF NoteSplit
    <3> QED
      BY <2>4, <3>1 DEF a
  <2> QED
    BY <2>3, <2>4
<1>3. ASSUME split' = split, ~ (AskReplayed \/ AskLive)
      PROVE  \A r \in Runs : \A a \in Actors :
                  split'[r][a] =
                      IF /\ (AskReplayed \/ AskLive) /\ r = run /\ a = NextCall.who
                         /\ cursor'[a].diverged /\ split[r][a] = -1
                      THEN ActorSeq(run, issued + 1) ELSE split[r][a]
  BY <1>3
<1>4. CASE split' = split
  BY <1>2, <1>3, <1>4
<1>20. CASE \/ TryImportedSettle \/ CrashInAdmission \/ WorldReplayed
            \/ WorldImported \/ WorldLive \/ RunEnds
            \/ Amend \/ Crash \/ Resume
            \/ UNCHANGED vars
  BY <1>4, <1>20, TryImportedSettleFrame, CrashInAdmissionFrame, WorldReplayedFrame,
     WorldImportedFrame, WorldLiveFrame, RunEndsFrame, AmendFrame, CrashFrame, ResumeFrame DEF vars, durable, progress, imports, working,
     driver, ghosts
<1>21. CASE \E a \in Actors : \/ OpenSession(a) \/ StartAsk(a) \/ TurnBegins(a)
                              \/ ReadsWorkspace(a) \/ WritesWorkspace(a) \/ SubmitAccepted(a)
                              \/ UntypedTurnEnds(a) \/ TurnFails(a)
  BY <1>4, <1>21, OpenSessionFrame, StartAskFrame, TurnBeginsFrame, ReadsWorkspaceFrame,
     WritesWorkspaceFrame, SubmitAcceptedFrame, UntypedTurnEndsFrame, TurnFailsFrame
<1>22. CASE \E r \in Runs, a \in Actors : \/ SeedMessage(r, a) \/ SessionOpens(r, a) \/ AcceptedTurnEnds(r, a)
  BY <1>4, <1>22, SeedMessageFrame, SessionOpensFrame, AcceptedTurnEndsFrame
<1>23. CASE \E i \in worldBusy : SettleWorldRead(i)
  BY <1>4, <1>23, SettleWorldReadFrame
<1> QED
  BY <1>2, <1>20, <1>21, <1>22, <1>23, StepKinds

\* An ask of the next call is one of its subagent's.
LEMMA NextAsk ==
    ASSUME IInv, NEW a \in Actors, issued + 1 \in AsksIn(run, a)
    PROVE  NextCall.who = a /\ NextCall = Scripts[run][issued + 1]
BY DEF AsksIn, NextCall

\* What is offered has its boundaries.
LEMMA OfferedBound ==
    ASSUME IInv, Bounded, NEW r \in Runs, r <= run, NEW a \in Actors, NEW k \in DOMAIN Offered(r, a)
    PROVE  Offered(r, a)[k].boundary # NoBoundary
<1>1. r # 1 /\ MatchedActor(r, a) /\ Offered(r, a) = CompletedAskPrefix(r - 1, a)
  BY EmptyIs DEF Offered
<1>2. /\ plan \in Plans /\ r - 1 \in Runs /\ r - 1 < run
  <2>1. plan \in Plans /\ run \in Runs
    BY DEF IInv, Types, ProgressTyped
  <2> QED
    BY <1>1, <2>1, ScriptIs
<1> PICK q \in Runs : q = r - 1 /\ q < run
  BY <1>2
<1>3. /\ k \in 1 .. Len(AsksOf(q, a)) /\ Completed(q, AsksOf(q, a)[k])
      /\ Offered(r, a)[k] = EntryOf(q, AsksOf(q, a)[k])
  <2>1. /\ k \in 1 .. Len(CompletedAskPrefix(q, a))
        /\ Len(CompletedAskPrefix(q, a)) \in 0 .. Len(AsksOf(q, a))
        /\ Len(AsksOf(q, a)) \in Nat
    BY <1>1, <1>2, PrefixIs, AsksOfIs
  <2> QED
    BY <1>1, <1>2, <2>1, PrefixIs
<1>4. PICK i \in AsksIn(q, a) : i = AsksOf(q, a)[k]
  BY <1>2, <1>3, AsksOfIs
<1>5. i \in Calls(q) /\ Scripts[q][i].op = "ask"
  BY <1>2, <1>4, ScriptIs DEF AsksIn
<1>6. journal[q][i].boundary # NoBoundary
  BY <1>3, <1>4, <1>5 DEF Bounded, CompletedAsksHaveBoundaries
<1> QED
  BY <1>3, <1>4, <1>6 DEF EntryOf

\* A running row of an ask stays running until its turn ends.
LEMMA RunningIs ==
    ASSUME IInv, [Next]_vars, NEW a \in Actors, NEW i \in DOMAIN journal[run], i \in AsksIn(run, a),
           Status(run, i) = "running"
    PROVE  \/ i \in DOMAIN journal'[run] /\ journal'[run][i].status = "running"
           \/ /\ InTurn(a) /\ TurnCall(a) = i
              /\ SubmitAccepted(a) \/ UntypedTurnEnds(a) \/ TurnFails(a)
<1>1. run \in Runs /\ plan \in Plans /\ i \in Calls(run) /\ Scripts[run][i].who = a
      /\ NoActor \notin Actors
  <2>1. run \in Runs /\ plan \in Plans
    BY DEF IInv, Types, ProgressTyped
  <2> QED
    BY <2>1, ScriptIs DEF AsksIn
<1>2. CASE UNCHANGED journal
  BY <1>2 DEF Status
<1>3. ASSUME NEW j, RowIsPut(j, Running)
      PROVE  i \in DOMAIN journal'[run] /\ journal'[run][i].status = "running"
  BY <1>3 DEF RowIsPut, Running, Row, Status
<1>4. ASSUME NEW j, NEW row, RowIsPut(j, row), j # i
      PROVE  i \in DOMAIN journal'[run] /\ journal'[run][i].status = "running"
  BY <1>4 DEF RowIsPut, Status
<1>5. CASE TryImportedSettle
  <2>1. ~ Recorded(run, issued + 1)
    BY <1>5 DEF TryImportedSettle
  <2>2. i # issued + 1
    BY <2>1 DEF Recorded
  <2>3. \E row : SetRow(issued + 1, row)
    BY <1>5 DEF TryImportedSettle
  <2>4. run \in DOMAIN journal
    BY <1>1 DEF IInv, Types, JournalTyped
  <2> QED
    BY <1>4, <2>2, <2>3, <2>4, SetRowPuts
<1>6. CASE WorldImported
  <2>1. MayCall({"read", "run"}) /\ \E row : SetRow(issued + 1, row)
    BY <1>6 DEF WorldImported
  <2>2. i # issued + 1
    BY <1>1, <2>1, CallIs
  <2>4. run \in DOMAIN journal
    BY <1>1 DEF IInv, Types, JournalTyped
  <2> QED
    BY <1>4, <2>1, <2>2, <2>4, SetRowPuts
<1>7. ASSUME NEW b \in Actors, InTurn(b), SubmitAccepted(b) \/ UntypedTurnEnds(b) \/ TurnFails(b),
             NEW row, RowIsPut(TurnCall(b), row)
      PROVE  \/ i \in DOMAIN journal'[run] /\ journal'[run][i].status = "running"
             \/ b = a /\ TurnCall(b) = i
  <2>1. Scripts[run][TurnCall(b)].who = b
    BY <1>7, InTurnIs DEF OpenAsk, AskOf
  <2> QED
    BY <1>1, <1>4, <1>7, <2>1
<1>8. ASSUME NEW j \in worldBusy, NEW row, RowIsPut(j, row)
      PROVE  i \in DOMAIN journal'[run] /\ journal'[run][i].status = "running"
  <2>1. Scripts[run][j].who = NoActor
    BY DEF IInv, WorldOpen, OpenAsk, AskOf
  <2> QED
    BY <1>1, <1>4, <1>8, <2>1
<1>9. ASSUME NEW b \in Actors, AcceptedTurnEnds(run, b), RowIsEnded(run, b)
      PROVE  i \in DOMAIN journal'[run] /\ journal'[run][i].status = "running"
  BY <1>9 DEF RowIsEnded, Row, Status
<1> QED
  BY <1>2, <1>3, <1>5, <1>6, <1>7, <1>8, <1>9, RowsAre

-----------------------------------------------------------------------------
\* Decisions

\* Ask i of run r is none that its subagent may import.
Misses(r, a, i) ==
    ~ (/\ ActorSeq(r, i) < Len(Offered(r, a))
       /\ Offered(r, a)[ActorSeq(r, i) + 1].hash = Scripts[r][i].hash)
\* Its row was imported, or written by a life that died before the event.
ImportedRow(r, a, i) ==
    /\ ~ Misses(r, a, i) /\ i \notin queuedEvents[r]
    /\ Status(r, i) = "completed"
    /\ journal[r][i].answer = Offered(r, a)[ActorSeq(r, i) + 1].answer
    /\ journal[r][i].boundary = Offered(r, a)[ActorSeq(r, i) + 1].boundary
TornRow(r, a, i) ==
    plan.torn /\ split[r][a] = -1 /\ Status(r, i) = "running" /\ Misses(r, a, i)
BeforeSplit(r, a, i) == split[r][a] = -1 \/ ActorSeq(r, i) < split[r][a]

\* The rows before a subagent departed are imported; the row at which it did has
\* an event, or matches nothing.
SplitsRight ==
    \A r \in Runs : \A a \in Actors :
        /\ split[r][a] # -1 =>
               \E i \in DOMAIN journal[r] : i \in AsksIn(r, a) /\ ActorSeq(r, i) = split[r][a]
        /\ \A i \in DOMAIN journal[r] : i \in AsksIn(r, a) =>
               /\ BeforeSplit(r, a, i) => ImportedRow(r, a, i) \/ TornRow(r, a, i)
               /\ ActorSeq(r, i) = split[r][a] =>
                      i \in queuedEvents[r] \/ (plan.torn /\ Misses(r, a, i))

\* A row without its event is the last of its subagent.
TornLast ==
    \A r \in Runs : \A a \in Actors : split[r][a] = -1 =>
        \A i, j \in DOMAIN journal[r] :
            i \in AsksIn(r, a) /\ j \in AsksIn(r, a) /\ i < j => Status(r, i) = "completed"

\* The cursor of a subagent tells whether it departed in what this life has asked,
\* and how many imported answers it took.
CursorRight ==
    engine = "live" => \A a \in Actors :
        /\ cursor[a].diverged <=> split[run][a] \in 0 .. Made(a) - 1
        /\ cursor[a].consumed = IF cursor[a].diverged THEN split[run][a] ELSE Made(a)
        /\ current[a] # NoCall => cursor[a].diverged
        /\ ~ cursor[a].diverged =>
               \A i \in AsksIn(run, a) : i <= issued => Status(run, i) = "completed"

\* The import of the engine is what the rows of the predecessor give.
CacheRight ==
    engine = "live" =>
        /\ \A a \in Actors : cache.entries[a] = Offered(run, a)
        /\ \A h \in Hashes : cache.world[h] = IF run = 1 THEN <<>> ELSE WorldQueue(run - 1, h)

\* Where a subagent that has not departed in this life is.
LEMMA AtTheSplit ==
    ASSUME IInv, RowsDense, SplitsRight, CursorRight, engine = "live", NEW a \in Actors,
           ~ cursor[a].diverged, issued + 1 \in AsksIn(run, a)
    PROVE  LET seq == ActorSeq(run, issued + 1) IN
           /\ seq \in Nat /\ seq = Made(a) /\ cursor[a].consumed = seq
           /\ split[run][a] = -1 \/ (split[run][a] \in Nat /\ seq <= split[run][a])
           /\ issued + 1 \notin DOMAIN journal[run] => split[run][a] = -1
<1> DEFINE i == issued + 1
           seq == ActorSeq(run, i)
           s == split[run][a]
<1>1. run \in Runs /\ plan \in Plans /\ JournalTyped /\ issued \in Nat
  <2>1. run \in Runs /\ plan \in Plans /\ JournalTyped /\ issued \in 0 .. Len(Scripts[run])
    BY DEF IInv, Types, ProgressTyped
  <2> QED
    BY <2>1, ScriptIs
<1>2. seq \in Nat /\ seq = Made(a) /\ cursor[a].consumed = seq
  BY <1>1, ActorSeqIs, MadeIs DEF CursorRight
<1>3. ~ (s \in 0 .. Made(a) - 1)
  BY DEF CursorRight
<1>4. ASSUME s # -1
      PROVE  s \in Nat /\ seq <= s /\ i \in DOMAIN journal[run]
  <2>1. PICK j \in DOMAIN journal[run] : j \in AsksIn(run, a) /\ ActorSeq(run, j) = s
    BY <1>1, <1>4 DEF SplitsRight
  <2>2. s \in Nat
    BY <1>1, <2>1, ActorSeqIs
  <2>3. seq <= s
    BY <1>2, <1>3, <2>2
  <2>4. ~ (j < i)
    BY <1>1, <1>2, <2>1, <2>2, <2>3, ActorSeqIs
  <2>5. j \in Nat
    BY <1>1, <2>1, ActorSeqIs
  <2>6. i \in 1 .. j
    BY <1>1, <2>4, <2>5
  <2> QED
    BY <1>1, <2>1, <2>2, <2>3, <2>6 DEF RowsDense
<1> QED
  BY <1>2, <1>4

\* A replay follows the import exactly over the rows that were imported.
LEMMA ReplayDecides ==
    ASSUME IInv, WasLiveRight, SplitsRight, CacheRight, engine = "live", NEW a \in Actors,
           issued + 1 \in AsksIn(run, a), issued + 1 \in DOMAIN journal[run],
           \/ split[run][a] = -1
           \/ split[run][a] \in Nat /\ ActorSeq(run, issued + 1) <= split[run][a]
    PROVE  LET i == issued + 1
               seq == ActorSeq(run, i)
               follows == i \notin wasLive /\ HasEntry(a, seq) /\ EntryAt(a, seq).hash = Scripts[run][i].hash
           IN  /\ follows => BeforeSplit(run, a, i) /\ ImportedRow(run, a, i)
               /\ ~ follows => split[run][a] = seq \/ TornRow(run, a, i)
<1> DEFINE i == issued + 1
           seq == ActorSeq(run, i)
           hit == HasEntry(a, seq) /\ EntryAt(a, seq).hash = Scripts[run][i].hash
<1>1. run \in Runs /\ seq \in Nat /\ issued \in Nat
  <2>1. run \in Runs /\ plan \in Plans /\ issued \in 0 .. Len(Scripts[run])
    BY DEF IInv, Types, ProgressTyped
  <2> QED
    BY <2>1, ScriptIs, ActorSeqIs
<1>2. hit <=> ~ Misses(run, a, i)
  BY DEF CacheRight, HasEntry, EntryAt, Misses
<1>3. hit => run # 1
  BY <1>1, EmptyIs DEF HasEntry, CacheRight, Offered
<1>4. run # 1 => (i \in wasLive <=> i \in queuedEvents[run])
  BY <1>1 DEF WasLiveRight
<1>5. /\ BeforeSplit(run, a, i) => ImportedRow(run, a, i) \/ TornRow(run, a, i)
      /\ seq = split[run][a] => i \in queuedEvents[run] \/ Misses(run, a, i)
  BY <1>1 DEF SplitsRight
<1>6. BeforeSplit(run, a, i) \/ split[run][a] = seq
  BY <1>1 DEF BeforeSplit
<1> HIDE DEF i, seq, hit
<1>7. /\ TornRow(run, a, i) => ~ hit
      /\ ImportedRow(run, a, i) => hit /\ i \notin queuedEvents[run]
  BY <1>2 DEF TornRow, ImportedRow
<1>8. BeforeSplit(run, a, i) /\ split[run][a] = seq => FALSE
  BY <1>1 DEF BeforeSplit, seq
<1>9. (i \notin wasLive /\ hit) => BeforeSplit(run, a, i) /\ ImportedRow(run, a, i)
  BY <1>2, <1>3, <1>4, <1>5, <1>6, <1>7, <1>8
<1>10. ~ (i \notin wasLive /\ hit) => split[run][a] = seq \/ TornRow(run, a, i)
  BY <1>2, <1>3, <1>4, <1>5, <1>6, <1>7, <1>8
<1> QED
  BY <1>9, <1>10 DEF i, seq, hit


\* What a step leaves of an imported row, and of a torn one.
LEMMA MissesStays ==
    ASSUME IInv, [Next]_vars, NEW r \in Runs, r <= run, NEW a, NEW i
    PROVE  Misses(r, a, i)' <=> Misses(r, a, i)
<1>1. Offered(r, a)' = Offered(r, a)
  BY OfferedStays
<1>2. Scripts' = Scripts /\ ActorSeq(r, i)' = ActorSeq(r, i)
  BY ScriptsStay
<1> QED
  BY <1>1, <1>2 DEF Misses

LEMMA ImportedStays ==
    ASSUME IInv, Bounded, [Next]_vars, NEW r \in Runs, r <= run, NEW a \in Actors,
           NEW i \in DOMAIN journal[r], i \in AsksIn(r, a), ImportedRow(r, a, i)
    PROVE  ImportedRow(r, a, i)' /\ i \in DOMAIN journal'[r]
<1>1. ~ Misses(r, a, i) /\ i \notin queuedEvents[r] /\ Status(r, i) = "completed"
      /\ journal[r][i].answer = Offered(r, a)[ActorSeq(r, i) + 1].answer
      /\ journal[r][i].boundary = Offered(r, a)[ActorSeq(r, i) + 1].boundary
  BY DEF ImportedRow
<1>2. run \in Runs /\ plan \in Plans
  BY DEF IInv, Types, ProgressTyped
<1>3. ~ Misses(r, a, i)'
  BY <1>1, MissesStays
<1>4. i \notin queuedEvents'[r]
  BY <1>1, EventsAre DEF Recorded, Status
<1>5. /\ i \in DOMAIN journal'[r] /\ journal'[r][i].status = "completed"
      /\ journal'[r][i].answer = journal[r][i].answer
  BY <1>1, RowsStay DEF Status
<1>6. journal[r][i].boundary # NoBoundary
  <2>1. ActorSeq(r, i) \in Nat
    BY <1>2, ActorSeqIs
  <2>2. ActorSeq(r, i) < Len(Offered(r, a))
    BY <1>1 DEF Misses
  <2>3. Len(Offered(r, a)) \in Nat /\ DOMAIN Offered(r, a) = 1 .. Len(Offered(r, a))
    BY OfferedTyped, SeqIs
  <2>4. ActorSeq(r, i) + 1 \in DOMAIN Offered(r, a)
    BY <2>1, <2>2, <2>3
  <2> QED
    BY <1>1, <2>4, OfferedBound
<1>7. journal'[r][i].boundary = journal[r][i].boundary
  <2>1. CASE journal'[r][i] = journal[r][i]
    BY <2>1
  <2>2. CASE \E b \in Actors : AcceptedTurnEnds(run, b) /\ r = run /\ i = Head(turns[run][b]).call
    <3>1. PICK b \in Actors : AcceptedTurnEnds(run, b) /\ r = run /\ i = Head(turns[run][b]).call
      BY <2>2
    <3>2. journal[r][i].boundary = NoBoundary
      BY <1>2, <3>1, EndedIs
    <3> QED
      BY <1>6, <3>2
  <2> QED
    BY <1>1, <2>1, <2>2, RowsStay
<1>8. Offered(r, a)' = Offered(r, a) /\ ActorSeq(r, i)' = ActorSeq(r, i)
  BY OfferedStays, ScriptsStay
<1> QED
  BY <1>1, <1>3, <1>4, <1>5, <1>7, <1>8 DEF ImportedRow, Status

LEMMA TornStays ==
    ASSUME IInv, CursorRight, [Next]_vars, NEW r \in Runs, r <= run, NEW a \in Actors,
           NEW i \in DOMAIN journal[r], i \in AsksIn(r, a), TornRow(r, a, i), split'[r][a] = -1
    PROVE  TornRow(r, a, i)' /\ i \in DOMAIN journal'[r]
<1>1. Misses(r, a, i)' /\ plan'.torn
  BY MissesStays, ScriptsStay DEF TornRow
<1>2. i \in DOMAIN journal'[r] /\ journal'[r][i].status = "running"
  <2>1. CASE r # run
    BY <2>1, OtherRowsStay DEF TornRow, Status
  <2>2. CASE r = run
    <3>1. ASSUME InTurn(a)
          PROVE  FALSE
      <4>1. engine = "live" /\ current[a] # NoCall
        BY <3>1, InTurnIs
      <4>2. split[run][a] \in 0 .. Made(a) - 1
        BY <4>1 DEF CursorRight
      <4> QED
        BY <2>2, <4>2, MadeIs DEF TornRow
    <3> QED
      BY <2>2, <3>1, RunningIs DEF TornRow, Status
  <2> QED
    BY <2>1, <2>2
<1> QED
  BY <1>1, <1>2 DEF TornRow, Status

\* Where the row of an ask comes from.
LEMMA NewAskRow ==
    ASSUME IInv, [Next]_vars, NEW a \in Actors, NEW i \in AsksIn(run, a),
           i \in DOMAIN journal'[run], i \notin DOMAIN journal[run]
    PROVE  /\ i = issued + 1 /\ a = NextCall.who /\ engine = "live"
           /\ \/ AskLive /\ i \in queuedEvents'[run] /\ journal'[run][i] = Running
              \/ /\ CrashInAdmission /\ MissesImport /\ plan.torn
                 /\ journal'[run][i] = Running
              \/ /\ TryImportedSettle
                 /\ Follows(a, ActorSeq(run, i), Scripts[run][i].hash)
                 /\ journal'[run][i].status = "completed"
                 /\ journal'[run][i].answer = EntryAt(a, ActorSeq(run, i)).answer
                 /\ journal'[run][i].boundary = EntryAt(a, ActorSeq(run, i)).boundary
<1>1. run \in Runs /\ run \in DOMAIN journal
  BY DEF IInv, Types, ProgressTyped, JournalTyped
<1>2. i = issued + 1 /\ engine = "live"
  BY <1>1, RowsGrow
<1>3. a = NextCall.who /\ NextCall = Scripts[run][i]
  BY <1>2, NextAsk
<1>4. ~ WorldImported /\ ~ WorldLive
  <2>1. ASSUME MayCall({"read", "run"})
        PROVE  FALSE
    <3>1. NextCall.op # "ask"
      BY <2>1 DEF MayCall
    <3>2. a = NoActor
      BY <1>3, <2>1, <3>1, CallIs
    <3> QED
      BY <3>2, ChainAssumption
  <2> QED
    BY <2>1 DEF WorldImported, WorldLive
<1>5. \A b \in Actors : InTurn(b) => TurnCall(b) \in DOMAIN journal[run]
  BY InTurnIs DEF OpenAsk, AskOf
<1>6. \A j \in worldBusy : j \in DOMAIN journal[run]
  BY DEF IInv, WorldOpen, OpenAsk, AskOf
<1>7. \/ (AskLive \/ CrashInAdmission) /\ RowIsPut(i, Running)
      \/ /\ TryImportedSettle
         /\ LET e == EntryAt(NextCall.who, ActorSeq(run, i)) IN
            RowIsPut(i, Row("completed", e.answer, e.boundary, e.pure))
  <2>1. \A j, row : RowIsPut(j, row) => i = j \/ i \in DOMAIN journal[run]
    BY DEF RowIsPut
  <2>2. ~ (AskReplayed /\ Recorded(run, issued + 1))
    BY <1>2 DEF Recorded
  <2>3. \A b \in Actors : ~ RowIsEnded(run, b)
    BY <1>1 DEF RowIsEnded
  <2> QED
    BY <1>1, <1>2, <1>4, <1>5, <1>6, <2>1, <2>2, <2>3, RowsAre
<1>8. CASE AskLive
  <2>1. i \in queuedEvents'[run]
    <3>1. queuedEvents' = [queuedEvents EXCEPT ![run] = @ \union {i}]
      BY <1>2, <1>8 DEF AskLive, AdmitLive
    <3>2. run \in DOMAIN queuedEvents
      BY <1>1 DEF IInv, Types, StoreTyped
    <3> QED
      BY <3>1, <3>2
  <2>2. SetRow(i, Running)
    BY <1>2, <1>8 DEF AskLive, AdmitLive
  <2>3. journal'[run][i] = Running
    BY <1>1, <2>2, SetRowPuts DEF RowIsPut
  <2> QED
    BY <1>2, <1>3, <1>8, <2>1, <2>3
<1>9. CASE CrashInAdmission
  <2>1. SetRow(i, Running) /\ MissesImport /\ plan.torn
    BY <1>2, <1>9 DEF CrashInAdmission
  <2>2. journal'[run][i] = Running
    BY <1>1, <2>1, SetRowPuts DEF RowIsPut
  <2> QED
    BY <1>2, <1>3, <1>9, <2>1, <2>2
<1>10. CASE TryImportedSettle
  <2> DEFINE e == EntryAt(a, ActorSeq(run, i))
  <2>1. /\ SetRow(i, Row("completed", e.answer, e.boundary, e.pure))
        /\ Follows(a, ActorSeq(run, i), Scripts[run][i].hash)
    BY <1>2, <1>3, <1>10 DEF TryImportedSettle
  <2> HIDE DEF e
  <2>2. journal'[run][i] = Row("completed", e.answer, e.boundary, e.pure)
    BY <1>1, <2>1, SetRowPuts DEF RowIsPut
  <2> QED
    BY <1>2, <1>3, <1>10, <2>1, <2>2 DEF Row, e
<1> QED
  BY <1>7, <1>8, <1>9, <1>10

\* An ask is issued by the step that decides on it.
LEMMA AskIssues ==
    ASSUME AskReplayed \/ TryImportedSettle \/ AskLive
    PROVE  issued' = issued + 1 /\ run' = run /\ engine' = engine
<1> QED
  BY AskReplayedFrame, TryImportedSettleFrame, AskLiveFrame
     DEF AskReplayed, TryImportedSettle, AskLive, AdmitLive, Answered, Pending

\* What the departures rest on.
Departures ==
    /\ NeverShut /\ RowsDense /\ RowsBehind /\ Bounded
    /\ WasLiveRight /\ CacheRight /\ CursorRight /\ SplitsRight

\* A row that a step adds is imported, torn or marked as live.
LEMMA NewRowRight ==
    ASSUME IInv, Departures, [Next]_vars, NEW r \in Runs, r = run, NEW a \in Actors,
           NEW i \in AsksIn(run, a),
           i \in DOMAIN journal'[run], i \notin DOMAIN journal[run]
    PROVE  LET s == split'[run][a] IN
           /\ s = -1 \/ ActorSeq(run, i) < s => ImportedRow(r, a, i)' \/ TornRow(r, a, i)'
           /\ ActorSeq(run, i) = s => i \in queuedEvents'[run]
<1> USE DEF Departures
<1> DEFINE seq == ActorSeq(run, i)
<1>1. /\ run \in Runs /\ run \in Nat /\ plan \in Plans /\ issued \in Nat
      /\ seq \in Nat /\ seq = Made(a) /\ i = issued + 1 /\ a = NextCall.who /\ engine = "live"
      /\ NextCall = Scripts[run][i] /\ r <= run
  <2>1. run \in Runs /\ plan \in Plans /\ issued \in 0 .. Len(Scripts[run])
    BY DEF IInv, Types, ProgressTyped
  <2>2. i = issued + 1 /\ a = NextCall.who /\ engine = "live"
    BY NewAskRow
  <2> QED
    BY <2>1, <2>2, ScriptIs, ActorSeqIs, MadeIs, NextAsk
<1>2. cursor[a].diverged => split[run][a] \in Int /\ split[run][a] >= 0 /\ split[run][a] < seq
  BY <1>1, MadeIs DEF CursorRight
<1>3. ~ cursor[a].diverged => split[run][a] = -1
  BY <1>1, AtTheSplit
<1>4. HasEntry(a, seq) /\ EntryAt(a, seq).hash = Scripts[run][i].hash <=> ~ Misses(run, a, i)
  BY <1>1 DEF CacheRight, HasEntry, EntryAt, Misses
<1>5. split'[run][a] = IF /\ AskReplayed \/ AskLive
                          /\ cursor'[a].diverged /\ split[run][a] = -1
                       THEN seq ELSE split[run][a]
  BY <1>1, SplitIs
<1>6. ~ AskReplayed
  <2>1. AskReplayed => i \in DOMAIN journal[run]
    BY <1>1 DEF AskReplayed, Recorded
  <2> QED
    BY <2>1
<1>7. (Misses(r, a, i)' <=> Misses(run, a, i)) /\ ActorSeq(r, i)' = seq
      /\ plan' = plan
  BY <1>1, MissesStays, ScriptsStay
<1> HIDE DEF seq
<1>8. CASE AskLive /\ i \in queuedEvents'[run]
  <2>1. cursor'[a].diverged
    BY <1>1, <1>8, AskIs DEF CursorMoves
  <2>2. split'[run][a] \in Int /\ split'[run][a] >= 0 /\ split'[run][a] <= seq
    BY <1>1, <1>2, <1>3, <1>5, <1>8, <2>1
  <2> QED
    BY <1>1, <1>8, <2>2 DEF seq
<1>9. CASE /\ CrashInAdmission /\ MissesImport /\ plan.torn
           /\ journal'[run][i] = Running
  <2>1. split'[run][a] = split[run][a]
    BY <1>9, CrashInAdmissionFrame
  <2>2. CASE cursor[a].diverged
    BY <1>1, <1>2, <2>1, <2>2 DEF seq
  <2>3. CASE ~ cursor[a].diverged
    <3>1. ~ shut
      BY <1>9 DEF NeverShut
    <3>2. ~ Follows(a, seq, Scripts[run][i].hash)
      BY <1>1, <1>9 DEF MissesImport, seq
    <3>3. Misses(run, a, i)
      BY <1>4, <2>3, <3>1, <3>2 DEF Follows, Usable
    <3>4. TornRow(r, a, i)'
      BY <1>3, <1>7, <1>9, <2>1, <2>3, <3>3 DEF TornRow, Status, Running, Row
    <3> QED
      BY <1>1, <1>3, <2>1, <2>3, <3>4 DEF seq
  <2> QED
    BY <2>2, <2>3
<1>10. CASE /\ TryImportedSettle
            /\ Follows(a, seq, Scripts[run][i].hash)
            /\ journal'[run][i].status = "completed"
            /\ journal'[run][i].answer = EntryAt(a, seq).answer
            /\ journal'[run][i].boundary = EntryAt(a, seq).boundary
  <2>1. ~ cursor[a].diverged /\ ~ Misses(run, a, i)
    BY <1>4, <1>10 DEF Follows, Usable
  <2>2. split'[run][a] = -1 /\ queuedEvents' = queuedEvents
    BY <1>3, <1>10, <2>1, TryImportedSettleFrame
  <2>3. i \notin queuedEvents'[run]
    BY <1>1, <2>2 DEF RowsDense
  <2>4. Offered(r, a)' = Offered(run, a)
    BY <1>1, OfferedStays
  <2>5. EntryAt(a, seq) = Offered(run, a)[seq + 1]
    BY <1>1 DEF EntryAt, CacheRight
  <2>6. ImportedRow(r, a, i)'
    BY <1>7, <1>10, <2>1, <2>3, <2>4, <2>5 DEF ImportedRow, Status
  <2> QED
    BY <1>1, <2>2, <2>6 DEF seq
<1> QED
  BY <1>8, <1>9, <1>10, NewAskRow DEF seq

\* A row that was there before keeps to it, also where the subagent departs now.
LEMMA OldRowRight ==
    ASSUME IInv, Departures, [Next]_vars, NEW r \in Runs, r = run, NEW a \in Actors,
           NEW i \in AsksIn(run, a),
           i \in DOMAIN journal[run]
    PROVE  LET s == split'[run][a] IN
           /\ s = -1 \/ ActorSeq(run, i) < s => ImportedRow(r, a, i)' \/ TornRow(r, a, i)'
           /\ ActorSeq(run, i) = s => i \in queuedEvents'[run] \/ (plan.torn /\ Misses(run, a, i))
<1> USE DEF Departures
<1>1. run \in Runs /\ run \in Nat /\ plan \in Plans /\ issued \in Nat /\ ActorSeq(run, i) \in Nat
      /\ i \in Nat /\ r <= run
  <2>1. run \in Runs /\ plan \in Plans /\ issued \in 0 .. Len(Scripts[run])
    BY DEF IInv, Types, ProgressTyped
  <2> QED
    BY <2>1, ScriptIs, ActorSeqIs
<1>2. /\ BeforeSplit(run, a, i) => ImportedRow(run, a, i) \/ TornRow(run, a, i)
      /\ ActorSeq(run, i) = split[run][a] =>
             i \in queuedEvents[run] \/ (plan.torn /\ Misses(run, a, i))
  BY <1>1 DEF SplitsRight
<1>3. ImportedRow(run, a, i) => ImportedRow(r, a, i)'
  BY <1>1, ImportedStays
<1>4. i \in queuedEvents[run] => i \in queuedEvents'[run]
  BY <1>1, EventsAre
<1>5. CASE split'[run][a] = split[run][a]
  <2>1. TornRow(run, a, i) => TornRow(r, a, i)'
    <3>1. TornRow(run, a, i) => split[run][a] = -1
      BY DEF TornRow
    <3> QED
      BY <1>1, <1>5, <3>1, TornStays
  <2> QED
    BY <1>2, <1>3, <1>4, <1>5, <2>1 DEF BeforeSplit
<1>6. CASE split'[run][a] # split[run][a]
  <2> DEFINE s == ActorSeq(run, issued + 1)
  <2>1. /\ AskReplayed \/ AskLive
        /\ a = NextCall.who /\ cursor'[a].diverged /\ split[run][a] = -1
        /\ split'[run][a] = s
    BY <1>1, <1>6, SplitIs
  <2>2. s \in Nat /\ issued + 1 \in AsksIn(run, a) /\ engine = "live"
    BY <2>1, AskIs
  <2>3. ~ cursor[a].diverged
    BY <2>1, <2>2, MadeIs DEF CursorRight
  <2>4. ActorSeq(run, i) < s => ImportedRow(r, a, i)'
    <3>1. ASSUME ActorSeq(run, i) < s
          PROVE  ImportedRow(run, a, i)
      <4>1. i < issued + 1
        BY <1>1, <2>2, <3>1, ActorSeqIs
      <4>2. Status(run, i) = "completed"
        BY <1>1, <2>2, <2>3, <4>1 DEF CursorRight
      <4> QED
        BY <1>2, <2>1, <4>2 DEF BeforeSplit, TornRow
    <3> QED
      BY <1>3, <3>1
  <2>5. ActorSeq(run, i) = s => plan.torn /\ Misses(run, a, i)
    <3>1. ASSUME ActorSeq(run, i) = s
          PROVE  plan.torn /\ Misses(run, a, i)
      <4>1. i = issued + 1
        BY <1>1, <2>2, <3>1, ActorSeqIs
      <4>2. AskReplayed
        BY <2>1, <4>1 DEF AskLive, MissesImport, Recorded
      <4>3. NextCall = Scripts[run][i]
        BY <2>2, <4>1, NextAsk
      <4>4. ~ (i \notin wasLive /\ HasEntry(a, s) /\ EntryAt(a, s).hash = Scripts[run][i].hash)
        BY <2>1, <2>3, <4>1, <4>2, <4>3, AskIs DEF CursorMoves
      <4>5. TornRow(run, a, i)
        BY <2>1, <2>2, <4>1, <4>4, ReplayDecides
      <4> QED
        BY <4>5 DEF TornRow
    <3> QED
      BY <3>1
  <2> HIDE DEF s
  <2> QED
    BY <2>1, <2>2, <2>4, <2>5
<1> QED
  BY <1>5, <1>6

LEMMA SplitsRightKept ==
    ASSUME IInv, Departures, [Next]_vars
    PROVE  SplitsRight'
<1> USE DEF Departures
<1>1. run \in Runs /\ run \in Nat /\ plan \in Plans
  <2>1. run \in Runs /\ plan \in Plans
    BY DEF IInv, Types, ProgressTyped
  <2> QED
    BY <2>1, ScriptIs
<1>2. plan' = plan /\ Scripts' = Scripts
  BY ScriptsStay
<1>3. ASSUME NEW r \in Runs, NEW a \in Actors, split'[r][a] # -1
      PROVE  \E i \in DOMAIN journal'[r] : i \in AsksIn(r, a) /\ ActorSeq(r, i) = split'[r][a]
  <2>1. CASE split[r][a] # -1
    <3>1. split'[r][a] = split[r][a]
      BY <2>1, SplitIs
    <3>2. PICK i \in DOMAIN journal[r] : i \in AsksIn(r, a) /\ ActorSeq(r, i) = split[r][a]
      BY <2>1 DEF SplitsRight
    <3>3. i \in DOMAIN journal'[r]
      BY <3>2, RowsGrow
    <3> QED
      BY <3>1, <3>2, <3>3
  <2>2. CASE split[r][a] = -1
    <3>1. /\ AskReplayed \/ AskLive
          /\ r = run /\ a = NextCall.who /\ split'[r][a] = ActorSeq(run, issued + 1)
      BY <1>3, <2>2, SplitIs
    <3>2. issued + 1 \in DOMAIN journal'[run] /\ issued + 1 \in AsksIn(run, a)
      BY <3>1, AskIssues, NewRowIs, AskIs
    <3> QED
      BY <3>1, <3>2
  <2> QED
    BY <2>1, <2>2
<1>4. ASSUME NEW r \in Runs, NEW a \in Actors, NEW i \in DOMAIN journal'[r], i \in AsksIn(r, a)
      PROVE  /\ split'[r][a] = -1 \/ ActorSeq(r, i) < split'[r][a] =>
                    ImportedRow(r, a, i)' \/ TornRow(r, a, i)'
             /\ ActorSeq(r, i) = split'[r][a] =>
                    i \in queuedEvents'[r] \/ (plan.torn /\ Misses(r, a, i)')
  <2>1. CASE r # run
    <3>1. journal'[r] = journal[r] /\ i \in DOMAIN journal[r]
      BY <1>4, <2>1, OtherRowsStay
    <3>2. r <= run
      BY <3>1 DEF RowsBehind
    <3>3. split'[r][a] = split[r][a]
      BY <2>1, SplitIs
    <3>4. i \in queuedEvents'[r] <=> i \in queuedEvents[r]
      BY <1>1, <2>1, EventsAre
    <3>5. ImportedRow(r, a, i) => ImportedRow(r, a, i)'
      BY <1>4, <3>1, <3>2, ImportedStays
    <3>6. TornRow(r, a, i) => TornRow(r, a, i)'
      <4>1. TornRow(r, a, i) => split'[r][a] = -1
        BY <3>3 DEF TornRow
      <4> QED
        BY <1>4, <3>1, <3>2, <4>1, TornStays
    <3>7. Misses(r, a, i)' <=> Misses(r, a, i)
      BY <3>2, MissesStays
    <3>8. /\ BeforeSplit(r, a, i) => ImportedRow(r, a, i) \/ TornRow(r, a, i)
          /\ ActorSeq(r, i) = split[r][a] =>
                 i \in queuedEvents[r] \/ (plan.torn /\ Misses(r, a, i))
      BY <1>4, <3>1 DEF SplitsRight
    <3> QED
      BY <3>3, <3>4, <3>5, <3>6, <3>7, <3>8 DEF BeforeSplit
  <2>2. CASE r = run /\ i \in DOMAIN journal[run]
    <3>1. r <= run /\ (Misses(r, a, i)' <=> Misses(r, a, i))
      BY <1>1, <2>2, MissesStays
    <3> QED
      BY <1>4, <2>2, <3>1, OldRowRight
  <2>3. CASE r = run /\ i \notin DOMAIN journal[run]
    BY <1>4, <2>3, NewRowRight
  <2> QED
    BY <2>1, <2>2, <2>3
<1>5. \A r \in Runs : \A a \in Actors : \A i :
          AsksIn(r, a)' = AsksIn(r, a) /\ ActorSeq(r, i)' = ActorSeq(r, i)
  BY ScriptsStay
<1> QED
  BY <1>2, <1>3, <1>4, <1>5 DEF SplitsRight, BeforeSplit

LEMMA TornLastKept ==
    ASSUME IInv, Departures, TornLast, [Next]_vars
    PROVE  TornLast'
<1> USE DEF Departures
<1>1. run \in Runs /\ issued \in Nat /\ plan' = plan /\ Scripts' = Scripts
  <2>1. run \in Runs /\ plan \in Plans /\ issued \in 0 .. Len(Scripts[run])
    BY DEF IInv, Types, ProgressTyped
  <2> QED
    BY <2>1, ScriptIs, ScriptsStay
<1>2. SUFFICES ASSUME NEW r \in Runs, NEW a \in Actors, split'[r][a] = -1,
                      NEW i \in DOMAIN journal'[r], NEW j \in DOMAIN journal'[r],
                      i \in AsksIn(r, a), j \in AsksIn(r, a), i < j
               PROVE  journal'[r][i].status = "completed"
  <2>1. \A r \in Runs : \A a \in Actors : AsksIn(r, a)' = AsksIn(r, a)
    BY ScriptsStay
  <2> QED
    BY <1>1, <2>1 DEF TornLast, Status
<1>3. split[r][a] = -1
  BY <1>2, SplitIs
<1>4. i \in Nat /\ j \in Nat
  BY <1>1, <1>2, ActorSeqIs DEF IInv, Types
<1>5. i \in DOMAIN journal[r] => Status(r, i) # "completed" \/ journal'[r][i].status = "completed"
  BY RowsStay DEF Status
<1>6. CASE j \in DOMAIN journal[r]
  <2>1. i \in DOMAIN journal[r]
    <3>1. i \in DOMAIN journal[r] \/ (r = run /\ i = issued + 1)
      BY <1>1, RowsGrow
    <3>2. i \in Nat /\ i \in 1 .. j
      <4>1. i >= 1
        BY <1>1, <1>2, ScriptIs DEF IInv, Types, AsksIn
      <4> QED
        BY <1>2, <1>4, <4>1
    <3> QED
      BY <1>6, <3>2 DEF RowsDense
  <2> QED
    BY <1>2, <1>3, <1>5, <1>6, <2>1 DEF TornLast
<1>7. CASE j \notin DOMAIN journal[r]
  <2>1. r = run
    BY <1>7, OtherRowsStay
  <2>2. /\ j = issued + 1 /\ a = NextCall.who /\ engine = "live"
        /\ AskLive \/ CrashInAdmission \/ TryImportedSettle
    BY <1>2, <1>7, <2>1, NewAskRow
  <2>3. i \in DOMAIN journal[r]
    BY <1>1, <1>2, <1>4, <2>1, <2>2, RowsGrow
  <2>4. ~ cursor[a].diverged
    BY <1>3, <2>1, <2>2, MadeIs DEF CursorRight
  <2>5. Status(r, i) = "completed"
    BY <1>1, <1>2, <1>4, <2>1, <2>2, <2>4 DEF CursorRight
  <2> QED
    BY <1>5, <2>3, <2>5
<1> QED
  BY <1>6, <1>7

\* When a step moves a cursor.
LEMMA CursorsAre ==
    ASSUME IInv, [Next]_vars
    PROVE  \/ AskReplayed \/ TryImportedSettle \/ AskLive
           \/ UNCHANGED <<cursor, run, engine, issued>>
           \/ /\ UNCHANGED <<cursor, run, engine, queue, current>> /\ issued' = issued + 1
              /\ NextCall.who = NoActor
              /\ issued + 1 \in Calls(run) /\ NextCall = Scripts[run][issued + 1]
           \/ (RunEnds \/ Crash \/ CrashInAdmission) /\ engine' # "live"
           \/ /\ Resume \/ Amend
              /\ issued' = 0
              /\ cursor' = PerActor(FreshCursor) /\ current' = PerActor(NoCall)
<1>1. CASE UNCHANGED <<cursor, run, engine, issued>>
  BY <1>1
<1>2. CASE WorldReplayed \/ WorldImported \/ WorldLive
  <2>1. UNCHANGED <<cursor, run, engine, queue, current>>
    BY <1>2, WorldReplayedFrame, WorldImportedFrame, WorldLiveFrame
  <2>2. MayCall({"read", "run"}) /\ issued' = issued + 1
    BY <1>2 DEF WorldReplayed, WorldImported, WorldLive, Answered, Pending
  <2>3. NextCall.op # "ask"
    BY <2>2 DEF MayCall
  <2> QED
    BY <2>1, <2>2, <2>3, CallIs
<1>3. CASE RunEnds \/ Crash \/ CrashInAdmission
  BY <1>3, EnginesAre DEF RunEnds, Crash, CrashInAdmission, ProcessDies, MissesImport, MayCall
<1>4. CASE Resume \/ Amend
  BY <1>4 DEF Resume, Amend, EngineState
<1>20. CASE UNCHANGED vars
  BY <1>1, <1>20 DEF vars, durable, progress, imports, working,
     driver, ghosts
<1>21. CASE \E a \in Actors : \/ OpenSession(a) \/ StartAsk(a) \/ TurnBegins(a)
                              \/ ReadsWorkspace(a) \/ WritesWorkspace(a) \/ SubmitAccepted(a)
                              \/ UntypedTurnEnds(a) \/ TurnFails(a)
  BY <1>1, <1>21, OpenSessionFrame, StartAskFrame, TurnBeginsFrame, ReadsWorkspaceFrame,
     WritesWorkspaceFrame, SubmitAcceptedFrame, UntypedTurnEndsFrame, TurnFailsFrame
<1>22. CASE \E r \in Runs, a \in Actors : \/ SeedMessage(r, a) \/ SessionOpens(r, a) \/ AcceptedTurnEnds(r, a)
  BY <1>1, <1>22, SeedMessageFrame, SessionOpensFrame, AcceptedTurnEndsFrame
<1>23. CASE \E i \in worldBusy : SettleWorldRead(i)
  BY <1>1, <1>23, SettleWorldReadFrame
<1> QED
  BY <1>2, <1>3, <1>4, <1>20, <1>21, <1>22, <1>23, StepKinds

\* One ask moves the cursor of its subagent.
LEMMA CursorAfterAsk ==
    ASSUME IInv, Departures, AskReplayed \/ TryImportedSettle \/ AskLive,
           NEW a \in Actors, a = NextCall.who, [Next]_vars
    PROVE  LET n == Made(a) IN
           /\ cursor'[a].diverged <=> split'[run][a] \in 0 .. n
           /\ cursor'[a].consumed = IF cursor'[a].diverged THEN split'[run][a] ELSE n + 1
           /\ ~ cursor'[a].diverged =>
                  UNCHANGED <<queue, current>> /\ journal'[run][issued + 1].status = "completed"
<1> USE DEF Departures
<1> DEFINE i == issued + 1
           n == Made(a)
           s == split[run][a]
           follows == i \notin wasLive /\ HasEntry(a, n) /\ EntryAt(a, n).hash = Scripts[run][i].hash
<1>1. /\ i \in AsksIn(run, a) /\ ActorSeq(run, i) = n /\ n \in Nat /\ engine = "live"
      /\ run \in Runs /\ s \in Int /\ issued \in Nat /\ NextCall = Scripts[run][i]
  <2>1. run \in Runs /\ plan \in Plans /\ issued \in 0 .. Len(Scripts[run]) /\ s \in Int
    BY DEF IInv, Types, ProgressTyped, GhostsTyped
  <2>2. i \in AsksIn(run, a) /\ engine = "live" /\ NextCall = Scripts[run][i]
    BY AskIs
  <2>3. ActorSeq(run, i) = n /\ n \in Nat
    BY <2>2, MadeIs
  <2>4. issued \in Nat
    BY <2>1, ScriptIs
  <2> QED
    BY <2>1, <2>2, <2>3, <2>4
<1>2. split'[run][a] = IF (AskReplayed \/ AskLive) /\ cursor'[a].diverged /\ s = -1 THEN n ELSE s
  BY <1>1, SplitIs
<1>3. /\ AskReplayed => CursorMoves(a, n, follows)
      /\ TryImportedSettle => CursorMoves(a, n, TRUE)
      /\ AskLive => CursorMoves(a, n, FALSE)
  BY <1>1, AskIs
<1>4. /\ cursor[a].diverged => s >= 0 /\ s < n /\ cursor[a].consumed = s
      /\ ~ cursor[a].diverged => cursor[a].consumed = n
  BY <1>1 DEF CursorRight
<1>5. ~ cursor[a].diverged =>
          /\ s = -1 \/ n <= s
          /\ i \notin DOMAIN journal[run] => s = -1
  BY <1>1, AtTheSplit
<1>6. AskReplayed => i \in DOMAIN journal[run]
  BY DEF AskReplayed, Recorded
<1>7. AskReplayed /\ ~ cursor[a].diverged =>
          /\ follows => (s = -1 \/ n < s) /\ ImportedRow(run, a, i)
          /\ ~ follows => s = n \/ s = -1
  <2>1. ASSUME AskReplayed, ~ cursor[a].diverged
        PROVE  /\ follows => BeforeSplit(run, a, i) /\ ImportedRow(run, a, i)
               /\ ~ follows => split[run][a] = n \/ TornRow(run, a, i)
    <3>1. s = -1 \/ (s \in Nat /\ ActorSeq(run, i) <= s)
      BY <1>1, <1>5, <2>1
    <3> QED
      BY <1>1, <1>6, <2>1, <3>1, ReplayDecides
  <2> QED
    BY <1>1, <2>1 DEF BeforeSplit, TornRow
<1>8. TryImportedSettle \/ AskLive => i \notin DOMAIN journal[run]
  BY DEF TryImportedSettle, AskLive, MissesImport, Recorded
<1>9. cursor[a].diverged \in BOOLEAN /\ cursor'[a].diverged \in BOOLEAN
  BY <1>3, <1>1 DEF CursorMoves, IInv, Types, CursorTyped
<1>10. TryImportedSettle => ~ cursor[a].diverged
  BY <1>1 DEF TryImportedSettle, Follows
<1> HIDE DEF i, n, s, follows
<1>11. /\ cursor'[a].diverged <=> split'[run][a] \in 0 .. n
       /\ cursor'[a].consumed = IF cursor'[a].diverged THEN split'[run][a] ELSE n + 1
  <2>1. CASE AskReplayed
    BY <1>1, <1>2, <1>3, <1>4, <1>5, <1>7, <1>9, <2>1 DEF CursorMoves
  <2>2. CASE TryImportedSettle
    BY <1>1, <1>2, <1>3, <1>4, <1>5, <1>8, <1>9, <1>10, <2>2 DEF CursorMoves
  <2>3. CASE AskLive
    BY <1>1, <1>2, <1>3, <1>4, <1>5, <1>8, <1>9, <2>3 DEF CursorMoves
  <2> QED
    BY <2>1, <2>2, <2>3
<1>12. ASSUME ~ cursor'[a].diverged
       PROVE  UNCHANGED <<queue, current>> /\ journal'[run][i].status = "completed"
  <2>1. CASE AskReplayed
    <3>1. journal[run][i].status = "completed"
      BY <1>3, <1>7, <1>12, <2>1 DEF CursorMoves, ImportedRow, Status
    <3> QED
      BY <2>1, <3>1 DEF AskReplayed, i
  <2>2. CASE TryImportedSettle
    <3>1. SetRow(i, Row("completed", EntryAt(a, ActorSeq(run, i)).answer,
                        EntryAt(a, ActorSeq(run, i)).boundary, EntryAt(a, ActorSeq(run, i)).pure))
      BY <2>2 DEF TryImportedSettle, i
    <3>2. run \in DOMAIN journal
      BY <1>1 DEF IInv, Types, JournalTyped
    <3>3. journal'[run][i].status = "completed"
      BY <3>1, <3>2, SetRowPuts DEF RowIsPut, Row
    <3> QED
      BY <2>2, <3>3, TryImportedSettleFrame
  <2>3. CASE AskLive
    BY <1>3, <1>12, <2>3 DEF CursorMoves
  <2> QED
    BY <2>1, <2>2, <2>3
<1> QED
  BY <1>11, <1>12 DEF i, n, s

\* An ask leaves the queues of the other subagents alone.
LEMMA QueueAtAsk ==
    ASSUME IInv, AskReplayed \/ AskLive, NEW b \in Actors, b # NextCall.who
    PROVE  current'[b] = current[b] /\ queue'[b] = queue[b]
<1>1. UNCHANGED <<queue, current>> \/ Pump(NextCall.who, Append(queue[NextCall.who], issued + 1))
  BY DEF AskReplayed, AskLive, AdmitLive
<1>2. issued + 1 \in Nat /\ NextCall.who \in Actors
  BY AskIs
<1>3. WorkTyped
  BY DEF IInv, Types
<1>4. UNCHANGED <<queue, current>> \/ PumpIs(NextCall.who, issued + 1)
  BY <1>1, <1>2, <1>3, QueueIs
<1> QED
  BY <1>2, <1>4 DEF PumpIs

LEMMA CursorRightKept ==
    ASSUME IInv, Departures, [Next]_vars
    PROVE  CursorRight'
<1> USE DEF Departures
<1>1. /\ run \in Runs /\ issued \in Nat /\ plan \in Plans /\ NoActor \notin Actors
      /\ split \in [Runs -> [Actors -> Int]]
  <2>1. run \in Runs /\ plan \in Plans /\ issued \in 0 .. Len(Scripts[run])
        /\ split \in [Runs -> [Actors -> Int]]
    BY DEF IInv, Types, ProgressTyped, GhostsTyped
  <2> QED
    BY <2>1, ScriptIs
<1>2. SUFFICES ASSUME engine' = "live", NEW a \in Actors
               PROVE  LET s == split'[run'][a] IN
                      /\ cursor'[a].diverged <=> s \in 0 .. Made(a)' - 1
                      /\ cursor'[a].consumed = IF cursor'[a].diverged THEN s ELSE Made(a)'
                      /\ current'[a] # NoCall => cursor'[a].diverged
                      /\ ~ cursor'[a].diverged =>
                             \A i \in AsksIn(run', a) : i <= issued' =>
                                 journal'[run'][i].status = "completed"
  <2>1. \A b : AsksIn(run, b)' = AsksIn(run', b)
    BY ScriptsStay DEF AsksIn
  <2> QED
    BY <2>1 DEF CursorRight, Status
<1>3. CASE UNCHANGED <<run, engine, cursor>> /\ split'[run][a] = split[run][a] /\ Made(a)' = Made(a)
           /\ (current'[a] # NoCall => current[a] # NoCall)
           /\ (issued' = issued \/ (issued' = issued + 1 /\ issued + 1 \notin AsksIn(run, a)))
  <2>1. ~ cursor[a].diverged =>
            \A i \in AsksIn(run, a) : i <= issued => Status(run, i) = "completed"
    BY <1>2, <1>3 DEF CursorRight
  <2>2. ASSUME NEW i \in AsksIn(run, a), i <= issued', ~ cursor[a].diverged
        PROVE  journal'[run][i].status = "completed"
    <3>1. i \in Nat /\ i >= 1
      BY <1>1, ScriptIs DEF AsksIn
    <3>2. i <= issued
      BY <1>1, <1>3, <2>2, <3>1
    <3>3. i \in DOMAIN journal[run] /\ Status(run, i) = "completed"
      BY <1>1, <2>1, <2>2, <3>1, <3>2 DEF RowsDense
    <3> QED
      BY <1>1, <3>3, RowsStay DEF Status
  <2>3. AsksIn(run', a) = AsksIn(run, a)
    BY <1>3
  <2> QED
    BY <1>2, <1>3, <2>2, <2>3 DEF CursorRight
<1>4. CASE UNCHANGED <<cursor, run, engine, issued>>
  <2>1. Made(a)' = Made(a) /\ split'[run][a] = split[run][a]
    <3>1. ~ (AskReplayed \/ AskLive)
      BY <1>1, <1>4, AskIssues
    <3> QED
      BY <1>1, <1>4, <3>1, MadeNext, SplitIs
  <2>2. current'[a] # NoCall => current[a] # NoCall
    <3>1. CASE UNCHANGED <<queue, current>>
      BY <3>1
    <3>2. CASE AskReplayed \/ AskLive
      BY <1>1, <1>4, <3>2, AskIssues
    <3>3. CASE \E b \in Actors : InTurn(b) /\ SettleIs(b)
      <4>1. PICK b \in Actors : InTurn(b) /\ SettleIs(b)
        BY <3>3
      <4>2. current[b] # NoCall
        BY <4>1, InTurnIs
      <4> QED
        BY <4>1, <4>2 DEF SettleIs
    <3>4. CASE current' = PerActor(NoCall)
      BY <3>4 DEF PerActor
    <3> QED
      BY <3>1, <3>2, <3>3, <3>4, QueuesAre
  <2> QED
    BY <1>3, <1>4, <2>1, <2>2
<1>5. CASE /\ UNCHANGED <<cursor, run, engine, queue, current>> /\ issued' = issued + 1
           /\ NextCall.who = NoActor
           /\ issued + 1 \in Calls(run) /\ NextCall = Scripts[run][issued + 1]
  <2>1. Made(a)' = Made(a) /\ issued + 1 \notin AsksIn(run, a)
    BY <1>1, <1>5, MadeNext DEF AsksIn
  <2>2. split'[run][a] = split[run][a]
    BY <1>1, <1>5, SplitIs
  <2> QED
    BY <1>3, <1>5, <2>1, <2>2
<1>6. CASE /\ issued' = 0 /\ cursor' = PerActor(FreshCursor) /\ current' = PerActor(NoCall)
  <2>1. Made(a)' = 0 /\ cursor'[a] = FreshCursor /\ current'[a] = NoCall
    BY <1>6, MadeNext DEF PerActor
  <2>2. \A i \in AsksIn(run', a) : ~ (i <= issued')
    <3>1. run' \in DOMAIN Scripts /\ Scripts' = Scripts
      BY ProgressTypedKept, ScriptsStay DEF ProgressTyped
    <3>2. \A i \in AsksIn(run', a) : i \in Nat /\ i >= 1
      BY <1>1, <3>1, ScriptIs DEF AsksIn
    <3> QED
      BY <1>6, <3>2
  <2> QED
    BY <2>1, <2>2 DEF FreshCursor
<1>7. CASE AskReplayed \/ TryImportedSettle \/ AskLive
  <2>1. /\ run' = run /\ issued' = issued + 1 /\ engine = "live"
        /\ NextCall.who \in Actors /\ issued + 1 \in AsksIn(run, NextCall.who)
    BY <1>7, AskIs, AskIssues
  <2>2. CASE a # NextCall.who
    <3>1. cursor'[a] = cursor[a]
      BY <1>7, <2>1, <2>2, AskIs DEF CursorMoves
    <3>2. split'[run][a] = split[run][a] /\ Made(a)' = Made(a)
      BY <1>1, <2>1, <2>2, SplitIs, MadeNext
    <3>3. current'[a] = current[a]
      <4>1. CASE TryImportedSettle
        BY <4>1, TryImportedSettleFrame
      <4>2. CASE AskReplayed \/ AskLive
        BY <2>1, <2>2, <4>2, QueueAtAsk
      <4> QED
        BY <1>7, <4>1, <4>2
    <3>4. issued + 1 \notin AsksIn(run, a)
      BY <2>1, <2>2 DEF AsksIn
    <3>5. ASSUME NEW i \in AsksIn(run, a), i <= issued', ~ cursor[a].diverged
          PROVE  journal'[run][i].status = "completed"
      <4>1. i \in Nat /\ i >= 1
        BY <1>1, ScriptIs DEF AsksIn
      <4>2. i <= issued
        BY <1>1, <2>1, <3>4, <3>5, <4>1
      <4>3. i \in DOMAIN journal[run] /\ Status(run, i) = "completed"
        BY <1>1, <2>1, <3>5, <4>1, <4>2 DEF RowsDense, CursorRight
      <4> QED
        BY <1>1, <4>3, RowsStay DEF Status
    <3>6. AsksIn(run', a) = AsksIn(run, a)
      BY <2>1
    <3> QED
      BY <2>1, <3>1, <3>2, <3>3, <3>5, <3>6 DEF CursorRight
  <2>3. CASE a = NextCall.who
    <3> DEFINE n == Made(a)
    <3>1. /\ cursor'[a].diverged <=> split'[run][a] \in 0 .. n
          /\ cursor'[a].consumed = IF cursor'[a].diverged THEN split'[run][a] ELSE n + 1
          /\ ~ cursor'[a].diverged =>
                 UNCHANGED <<queue, current>> /\ journal'[run][issued + 1].status = "completed"
      BY <1>7, <2>3, CursorAfterAsk
    <3>2. Made(a)' = n + 1 /\ n \in Nat
      BY <2>1, <2>3, MadeNext, MadeIs
    <3>3. ~ cursor'[a].diverged => ~ cursor[a].diverged
      BY <1>7, <2>3, AskIs DEF CursorMoves
    <3>4. ASSUME NEW i \in AsksIn(run, a), i <= issued', ~ cursor'[a].diverged
          PROVE  journal'[run][i].status = "completed"
      <4>1. i \in Nat /\ i >= 1
        BY <1>1, ScriptIs DEF AsksIn
      <4>2. CASE i <= issued
        <5>1. i \in DOMAIN journal[run] /\ Status(run, i) = "completed"
          BY <1>1, <2>1, <3>3, <3>4, <4>1, <4>2 DEF RowsDense, CursorRight
        <5> QED
          BY <1>1, <5>1, RowsStay DEF Status
      <4>3. CASE i = issued + 1
        BY <3>1, <3>4, <4>3
      <4> QED
        BY <1>1, <2>1, <3>4, <4>1, <4>2, <4>3
    <3>5. AsksIn(run', a) = AsksIn(run, a)
      BY <2>1
    <3>6. current'[a] # NoCall => cursor'[a].diverged
      BY <2>1, <3>1, <3>3 DEF CursorRight
    <3> HIDE DEF n
    <3> QED
      BY <2>1, <3>1, <3>2, <3>4, <3>5, <3>6
  <2> QED
    BY <2>2, <2>3
<1> QED
  BY <1>2, <1>4, <1>5, <1>6, <1>7, CursorsAre
-----------------------------------------------------------------------------
\* Asks are settled in their order

\* Every open ask waits or is under way.
Waits(a, i) == i = current[a] \/ \E n \in DOMAIN queue[a] : queue[a][n] = i
OpenAll ==
    engine = "live" => \A a \in Actors : \A i \in AsksIn(run, a) :
        i <= issued /\ Status(run, i) = "running" => Waits(a, i)

LEMMA PumpKeeps ==
    ASSUME IInv, NEW a \in Actors, NEW i \in Nat, PumpIs(a, i)
    PROVE  Waits(a, i)' /\ \A j : j # NoCall /\ Waits(a, j) => Waits(a, j)'
<1>1. queue[a] \in Seq(Nat)
  BY DEF IInv, Types, WorkTyped
<1>2. IsSeq(queue[a]) /\ Len(queue[a]) \in Nat /\ DOMAIN queue[a] = 1 .. Len(queue[a])
  BY <1>1, SeqIs
<1>3. CASE current[a] = NoCall
  <2>1. queue[a] = <<>>
    BY <1>3 DEF IInv, AsksOpen
  <2>2. current'[a] = i
    BY <1>3, <2>1 DEF PumpIs
  <2>3. \A j : Waits(a, j) => j = NoCall
    BY <1>2, <1>3, <2>1, EmptyIs DEF Waits
  <2> QED
    BY <2>2, <2>3 DEF Waits
<1>4. CASE current[a] # NoCall
  <2>1. current'[a] = current[a] /\ queue'[a] = Append(queue[a], i)
    BY <1>4 DEF PumpIs
  <2>2. /\ IsSeq(queue'[a]) /\ Len(queue'[a]) = Len(queue[a]) + 1
        /\ \A k \in 1 .. Len(queue[a]) : queue'[a][k] = queue[a][k]
        /\ queue'[a][Len(queue[a]) + 1] = i
    BY <1>2, <2>1, AppendIs
  <2>3. DOMAIN queue'[a] = 1 .. Len(queue[a]) + 1
    BY <2>2, EmptyIs
  <2> QED
    BY <1>2, <2>1, <2>2, <2>3 DEF Waits
<1> QED
  BY <1>3, <1>4

LEMMA SettleKeeps ==
    ASSUME IInv, NEW a \in Actors, SettleIs(a)
    PROVE  \A j : j # current[a] /\ Waits(a, j) => Waits(a, j)'
<1>1. queue[a] \in Seq(Nat)
  BY DEF IInv, Types, WorkTyped
<1>2. Len(queue[a]) \in Nat /\ DOMAIN queue[a] = 1 .. Len(queue[a])
  BY <1>1, SeqIs
<1>3. CASE queue[a] = <<>>
  BY <1>2, <1>3, EmptyIs DEF Waits
<1>4. CASE queue[a] # <<>>
  <2>1. current'[a] = Head(queue[a]) /\ queue'[a] = Tail(queue[a])
    BY <1>4 DEF SettleIs
  <2>2. /\ Head(queue[a]) = queue[a][1] /\ Tail(queue[a]) \in Seq(Nat)
        /\ Len(queue[a]) >= 1 /\ Len(Tail(queue[a])) = Len(queue[a]) - 1
        /\ \A k \in 1 .. Len(queue[a]) - 1 : Tail(queue[a])[k] = queue[a][k + 1]
    BY <1>1, <1>4, TailIs
  <2>3. DOMAIN queue'[a] = 1 .. Len(queue[a]) - 1
    BY <2>1, <2>2, SeqIs
  <2>4. ASSUME NEW n \in 1 .. Len(queue[a]), NEW j, j = queue[a][n]
        PROVE  Waits(a, j)'
    <3>1. n = 1 \/ n - 1 \in 1 .. Len(queue[a]) - 1
      BY <1>2, <2>4
    <3>2. n = 1 \/ j = queue'[a][n - 1]
      BY <1>2, <2>1, <2>2, <2>4, <3>1
    <3> QED
      BY <2>1, <2>2, <2>3, <2>4, <3>1, <3>2 DEF Waits
  <2> QED
    BY <1>2, <2>4 DEF Waits
<1> QED
  BY <1>3, <1>4

\* An ask that is not answered at once is admitted.
LEMMA AskPumps ==
    ASSUME IInv, [Next]_vars, AskReplayed \/ TryImportedSettle \/ AskLive
    PROVE  \/ PumpIs(NextCall.who, issued + 1)
           \/ UNCHANGED <<queue, current>> /\ journal'[run][issued + 1].status # "running"
<1>1. run \in DOMAIN journal /\ WorkTyped
  BY DEF IInv, Types, ProgressTyped, JournalTyped
<1>2. issued + 1 \in Nat /\ NextCall.who \in Actors
  BY AskIs
<1>3. CASE AdmitLive(issued + 1, NextCall.who)
  BY <1>1, <1>2, <1>3, QueueIs DEF AdmitLive
<1>4. CASE AskReplayed /\ ~ AdmitLive(issued + 1, NextCall.who)
  BY <1>4 DEF AskReplayed
<1>5. CASE TryImportedSettle
  <2>1. \E row : SetRow(issued + 1, row) /\ row.status = "completed"
    BY <1>5 DEF TryImportedSettle, Row
  <2>2. journal'[run][issued + 1].status = "completed"
    BY <1>1, <2>1, SetRowPuts DEF RowIsPut
  <2> QED
    BY <1>5, <2>2, TryImportedSettleFrame
<1> QED
  BY <1>3, <1>4, <1>5 DEF AskLive

\* The row of a turn that ends is settled, and no other changes.
LEMMA TurnSettles ==
    ASSUME IInv, NEW a \in Actors, SubmitAccepted(a) \/ UntypedTurnEnds(a) \/ TurnFails(a)
    PROVE  /\ journal'[run][TurnCall(a)].status # "running"
           /\ journal'[run][TurnCall(a)].boundary =
                  IF UntypedTurnEnds(a) THEN Len(transcript[run][a]) + 1 ELSE NoBoundary
           /\ DOMAIN journal'[run] = DOMAIN journal[run]
           /\ \A j \in DOMAIN journal[run] : j # TurnCall(a) => journal'[run][j] = journal[run][j]
<1>1. run \in DOMAIN journal
  BY DEF IInv, Types, ProgressTyped, JournalTyped
<1>2. \E row : /\ SetRow(TurnCall(a), row) /\ row.status # "running"
               /\ row.boundary = IF UntypedTurnEnds(a) THEN Len(transcript[run][a]) + 1
                                 ELSE NoBoundary
  BY DEF SubmitAccepted, UntypedTurnEnds, TurnFails, Settle, Row, FailedRow
<1>3. TurnCall(a) \in DOMAIN journal[run]
  <2>1. InTurn(a)
    BY DEF SubmitAccepted, UntypedTurnEnds, TurnFails
  <2> QED
    BY <2>1, InTurnIs DEF OpenAsk, AskOf
<1>4. PICK row : /\ RowIsPut(TurnCall(a), row) /\ row.status # "running"
                /\ row.boundary = IF UntypedTurnEnds(a) THEN Len(transcript[run][a]) + 1
                                  ELSE NoBoundary
  BY <1>1, <1>2, SetRowPuts
<1> QED
  BY <1>3, <1>4 DEF RowIsPut

LEMMA OpenAllKept ==
    ASSUME IInv, RowsDense, OpenAll, [Next]_vars
    PROVE  OpenAll'
<1>1. run \in Runs /\ issued \in Nat /\ plan \in Plans
  <2>1. run \in Runs /\ plan \in Plans /\ issued \in 0 .. Len(Scripts[run])
    BY DEF IInv, Types, ProgressTyped
  <2> QED
    BY <2>1, ScriptIs
<1>2. SUFFICES ASSUME engine' = "live", NEW a \in Actors, NEW i \in AsksIn(run', a),
                      i <= issued', journal'[run'][i].status = "running"
               PROVE  Waits(a, i)'
  <2>1. \A b : AsksIn(run, b)' = AsksIn(run', b)
    BY ScriptsStay DEF AsksIn
  <2> QED
    BY <2>1 DEF OpenAll, Status
<1>3. i \in Nat /\ i >= 1
  <2>1. run' \in DOMAIN Scripts
    BY ProgressTypedKept, ScriptsStay DEF ProgressTyped
  <2> QED
    BY <1>1, <2>1, ScriptIs DEF AsksIn
<1>4. ASSUME run' = run, engine' = engine, i <= issued
      PROVE  i \in DOMAIN journal[run] /\ Status(run, i) = "running" /\ Waits(a, i)
  <2>1. i \in DOMAIN journal[run]
    BY <1>1, <1>3, <1>4 DEF RowsDense
  <2>2. Status(run, i) = "running"
    BY <1>1, <1>2, <1>4, <2>1, RowsStay DEF Status
  <2> QED
    BY <1>2, <1>4, <2>1, <2>2 DEF OpenAll
<1>5. CASE AskReplayed \/ TryImportedSettle \/ AskLive
  <2>1. /\ run' = run /\ issued' = issued + 1 /\ engine' = engine
        /\ NextCall.who \in Actors /\ issued + 1 \in AsksIn(run, NextCall.who)
        /\ issued + 1 \in Nat
    BY <1>5, AskIs, AskIssues
  <2>2. CASE i <= issued
    <3>1. Waits(a, i)
      BY <1>4, <2>1, <2>2
    <3>2. CASE UNCHANGED <<queue, current>>
      BY <3>1, <3>2 DEF Waits
    <3>3. CASE PumpIs(NextCall.who, issued + 1)
      <4>1. CASE a = NextCall.who
        BY <1>3, <2>1, <3>1, <3>3, <4>1, PumpKeeps
      <4>2. CASE a # NextCall.who
        BY <3>1, <3>3, <4>2 DEF PumpIs, Waits
      <4> QED
        BY <4>1, <4>2
    <3> QED
      BY <1>5, <2>1, <3>2, <3>3, AskPumps
  <2>3. CASE i = issued + 1
    <3>1. a = NextCall.who
      BY <1>2, <2>1, <2>3 DEF AsksIn
    <3>2. PumpIs(NextCall.who, i)
      BY <1>2, <1>5, <2>1, <2>3, AskPumps
    <3> QED
      BY <1>3, <3>1, <3>2, PumpKeeps
  <2> QED
    BY <1>1, <1>2, <1>3, <2>1, <2>2, <2>3
<1>6. CASE UNCHANGED <<cursor, run, engine, issued>>
  <2>1. Waits(a, i) /\ Status(run, i) = "running"
    BY <1>2, <1>4, <1>6
  <2>2. CASE UNCHANGED <<queue, current>>
    BY <2>1, <2>2 DEF Waits
  <2>3. CASE AskReplayed \/ AskLive
    BY <1>5, <2>3
  <2>4. ASSUME NEW b \in Actors, SubmitAccepted(b) \/ UntypedTurnEnds(b) \/ TurnFails(b),
               InTurn(b), SettleIs(b)
        PROVE  Waits(a, i)'
    <3>1. CASE a # b
      BY <2>1, <2>4, <3>1 DEF SettleIs, Waits
    <3>2. CASE a = b
      <4>1. TurnCall(a) = current[a] /\ current[a] \in DOMAIN journal[run]
        BY <2>4, <3>2, InTurnIs DEF OpenAsk, AskOf
      <4>2. journal'[run][current[a]].status # "running"
        BY <1>1, <2>4, <3>2, <4>1, TurnSettles
      <4>3. i # current[a]
        BY <1>2, <1>6, <4>2
      <4> QED
        BY <2>1, <2>4, <3>2, <4>3, SettleKeeps
    <3> QED
      BY <3>1, <3>2
  <2>5. CASE RunEnds \/ Amend \/ Crash \/ CrashInAdmission \/ Resume
    <3>1. issued' = 0
      BY <2>5 DEF RunEnds, Amend, Crash, CrashInAdmission, ProcessDies, Resume, EngineState
    <3> QED
      BY <1>2, <1>3, <3>1
  <2> QED
    BY <2>2, <2>3, <2>4, <2>5, QueuesAre
<1>7. CASE /\ UNCHANGED <<cursor, run, engine, queue, current>> /\ issued' = issued + 1
           /\ NextCall.who = NoActor
           /\ issued + 1 \in Calls(run) /\ NextCall = Scripts[run][issued + 1]
  <2>1. i # issued + 1
    BY <1>1, <1>2, <1>7, ScriptIs DEF AsksIn
  <2>2. Waits(a, i)
    BY <1>1, <1>2, <1>3, <1>4, <1>7, <2>1
  <2> QED
    BY <1>7, <2>2 DEF Waits
<1>8. CASE issued' = 0
  BY <1>2, <1>3, <1>8
<1> QED
  BY <1>2, <1>5, <1>6, <1>7, <1>8, CursorsAre

\* The asks of a subagent are settled in their order.
SettledFirst ==
    \A r \in Runs : \A a \in Actors : \A i, j \in DOMAIN journal[r] :
        /\ i \in AsksIn(r, a) /\ j \in AsksIn(r, a) /\ i < j /\ Status(r, j) # "running"
        => Status(r, i) # "running"

\* A row before one that is recorded is recorded.
LEMMA EarlierRow ==
    ASSUME IInv, RowsDense, NEW r \in Runs, NEW a, NEW i \in AsksIn(r, a),
           NEW j \in DOMAIN journal[r], i < j
    PROVE  i \in DOMAIN journal[r]
<1>1. i \in Nat /\ i >= 1
  BY ScriptIs DEF IInv, Types, AsksIn
<1>2. j \in Nat
  BY ScriptIs DEF IInv, Types, JournalTyped
<1>3. i \in 1 .. j
  BY <1>1, <1>2
<1> QED
  BY <1>3 DEF RowsDense

\* What an imported answer says of the asks before it.
LEMMA ImportSettles ==
    ASSUME IInv, Departures, TryImportedSettle, NEW a \in Actors, a = NextCall.who
    PROVE  /\ ~ cursor[a].diverged /\ split[run][a] = -1
           /\ \A i \in AsksIn(run, a) : i < issued + 1 =>
                  i \in DOMAIN journal[run] /\ Status(run, i) = "completed"
<1> USE DEF Departures
<1>1. /\ issued + 1 \in AsksIn(run, a) /\ engine = "live" /\ run \in Runs
      /\ issued + 1 \notin DOMAIN journal[run] /\ ~ cursor[a].diverged
  BY AskIs DEF TryImportedSettle, Recorded, Follows
<1>2. split[run][a] = -1
  BY <1>1, AtTheSplit
<1>3. issued \in Nat /\ \A i \in AsksIn(run, a) : i \in Nat /\ i >= 1
  <2>1. issued \in 0 .. Len(Scripts[run]) /\ plan \in Plans
    BY DEF IInv, Types, ProgressTyped
  <2> QED
    BY <1>1, <2>1, ScriptIs DEF AsksIn
<1>4. ASSUME NEW i \in AsksIn(run, a), i < issued + 1
      PROVE  i \in DOMAIN journal[run] /\ Status(run, i) = "completed"
  <2>1. i \in 1 .. issued /\ i <= issued
    BY <1>3, <1>4
  <2> QED
    BY <1>1, <2>1 DEF RowsDense, CursorRight
<1> QED
  BY <1>1, <1>2, <1>4

LEMMA SettledFirstKept ==
    ASSUME IInv, Departures, OpenAll, SettledFirst, [Next]_vars
    PROVE  SettledFirst'
<1> USE DEF Departures
<1>1. run \in Runs /\ plan' = plan /\ Scripts' = Scripts /\ plan \in Plans
  BY ScriptsStay DEF IInv, Types, ProgressTyped
<1>2. SUFFICES ASSUME NEW r \in Runs, NEW a \in Actors,
                      NEW i \in DOMAIN journal'[r], NEW j \in DOMAIN journal'[r],
                      i \in AsksIn(r, a), j \in AsksIn(r, a), i < j,
                      journal'[r][j].status # "running"
               PROVE  journal'[r][i].status # "running"
  <2>1. \A r \in Runs : \A a \in Actors : AsksIn(r, a)' = AsksIn(r, a)
    BY ScriptsStay
  <2> QED
    BY <1>1, <2>1 DEF SettledFirst, Status
<1>3. i \in DOMAIN journal[r] /\ Status(r, i) # "running" => journal'[r][i].status # "running"
  BY RowsStay DEF Status
<1>4. CASE j \in DOMAIN journal[r] /\ Status(r, j) # "running"
  <2>1. i \in DOMAIN journal[r]
    BY <1>2, <1>4, EarlierRow
  <2> QED
    BY <1>2, <1>3, <1>4, <2>1 DEF SettledFirst
<1>5. CASE j \in DOMAIN journal[r] /\ Status(r, j) = "running"
  <2>1. r = run
    BY <1>2, <1>5, OtherRowsStay DEF Status
  <2>2. InTurn(a) /\ TurnCall(a) = j
    BY <1>2, <1>5, <2>1, RunningIs
  <2>3. current[a] = j /\ engine = "live" /\ j \in 1 .. issued /\ j # NoCall
    BY <2>1, <2>2, InTurnIs DEF OpenAsk
  <2>4. i \in DOMAIN journal[r]
    BY <1>2, <1>5, EarlierRow
  <2>5. Status(run, i) # "running"
    <3>1. ASSUME Status(run, i) = "running"
          PROVE  FALSE
      <4>1. i \in Nat /\ issued \in Nat
        BY <1>1, <1>2, ScriptIs DEF AsksIn, IInv, Types, ProgressTyped
      <4>2. i <= issued
        BY <1>2, <2>3, <4>1
      <4>3. Waits(a, i)
        BY <1>2, <2>1, <2>3, <3>1, <4>2 DEF OpenAll
      <4>4. PICK n \in DOMAIN queue[a] : queue[a][n] = i
        BY <1>2, <2>3, <4>1, <4>3 DEF Waits
      <4>5. current[a] < queue[a][n]
        BY <4>4 DEF IInv, AsksOpen
      <4> QED
        BY <1>2, <2>3, <4>1, <4>4, <4>5
    <3> QED
      BY <3>1
  <2> QED
    BY <1>3, <2>1, <2>4, <2>5
<1>6. CASE j \notin DOMAIN journal[r]
  <2>1. r = run
    BY <1>6, OtherRowsStay
  <2>2. j = issued + 1 /\ a = NextCall.who /\ TryImportedSettle
    BY <1>2, <1>6, <2>1, NewAskRow DEF Running, Row
  <2>3. i \in DOMAIN journal[run] /\ Status(run, i) = "completed"
    BY <1>2, <2>1, <2>2, ImportSettles
  <2> QED
    BY <1>3, <2>1, <2>3
<1> QED
  BY <1>4, <1>5, <1>6

\* No ask is settled beyond one whose accepted turn has not ended.
AcceptedLast ==
    \A a \in Actors : \A n \in DOMAIN turns[run][a] : turns[run][a][n].accepted =>
        \A j \in DOMAIN journal[run] :
            j \in AsksIn(run, a) /\ j > turns[run][a][n].call => Status(run, j) = "running"

\* The entry of an ask that does not miss the import.
LEMMA ImportedEntry ==
    ASSUME IInv, NEW r \in Runs, NEW a \in Actors, NEW i \in AsksIn(r, a), ImportedRow(r, a, i)
    PROVE  ActorSeq(r, i) \in Nat /\ ActorSeq(r, i) + 1 \in DOMAIN Offered(r, a)
<1>1. ActorSeq(r, i) \in Nat
  BY ActorSeqIs DEF IInv, Types
<1>2. ActorSeq(r, i) < Len(Offered(r, a))
  BY DEF ImportedRow, Misses
<1>3. Len(Offered(r, a)) \in Nat /\ DOMAIN Offered(r, a) = 1 .. Len(Offered(r, a))
  BY OfferedTyped, SeqIs
<1> QED
  BY <1>1, <1>2, <1>3

\* An accepted turn is that of an ask which is settled and was not imported.
LEMMA AcceptedSplit ==
    ASSUME IInv, Departures, NEW a \in Actors, NEW n \in DOMAIN turns[run][a],
           turns[run][a][n].accepted
    PROVE  split[run][a] # -1
<1> USE DEF Departures
<1> DEFINE i == turns[run][a][n].call
<1>1. run \in Runs /\ run \in Nat /\ plan \in Plans
  <2>1. run \in Runs /\ plan \in Plans
    BY DEF IInv, Types, ProgressTyped
  <2> QED
    BY <2>1, ScriptIs
<1>2. i \in DOMAIN journal[run] /\ i \in AsksIn(run, a) /\ Status(run, i) = "completed"
      /\ journal[run][i].boundary = NoBoundary
  BY <1>1 DEF IInv, TurnsFit, TurnFits, AskOf, AsksIn, Types, JournalTyped
<1> HIDE DEF i
<1>3. SUFFICES ASSUME split[run][a] = -1
               PROVE  FALSE
  OBVIOUS
<1>4. ImportedRow(run, a, i)
  BY <1>1, <1>2, <1>3 DEF SplitsRight, BeforeSplit, TornRow
<1>5. ActorSeq(run, i) + 1 \in DOMAIN Offered(run, a)
  BY <1>1, <1>2, <1>4, ImportedEntry
<1> QED
  BY <1>1, <1>2, <1>4, <1>5, OfferedBound DEF ImportedRow

\* Where an accepted turn comes from.
LEMMA AcceptedFrom ==
    ASSUME IInv, [Next]_vars, NEW a \in Actors, NEW n \in DOMAIN turns'[run][a],
           turns'[run][a][n].accepted
    PROVE  \/ \E m \in DOMAIN turns[run][a] : /\ turns[run][a][m].accepted
                                             /\ turns'[run][a][n].call = turns[run][a][m].call
           \/ /\ SubmitAccepted(a) /\ InTurn(a)
              /\ turns'[run][a][n].call = TurnCall(a)
<1>1. run \in Runs /\ turns[run][a] \in Seq(Turns)
  BY DEF IInv, Types, ProgressTyped, TurnsTyped
<1>2. Len(turns[run][a]) \in Nat /\ DOMAIN turns[run][a] = 1 .. Len(turns[run][a])
  BY <1>1, SeqIs
<1>3. CASE turns'[run][a] = turns[run][a]
  BY <1>3
<1>4. CASE turns' = PerRun(<<>>)
  BY <1>1, <1>4, EmptyIs DEF PerRun, PerActor
<1>5. CASE turns'[run][a] = IF turns[run][a] # <<>> /\ Head(turns[run][a]).accepted
                            THEN <<Head(turns[run][a])>> ELSE <<>>
  <2>1. turns[run][a] # <<>> /\ turns'[run][a] = <<Head(turns[run][a])>>
    BY <1>5, EmptyIs
  <2>2. n = 1 /\ turns'[run][a][n] = turns[run][a][1] /\ 1 \in DOMAIN turns[run][a]
    BY <1>1, <1>2, <2>1, TailIs
  <2> QED
    BY <2>2
<1>6. CASE turns'[run][a] = Append(turns[run][a], Turn(current[a]))
  <2>1. /\ Len(turns'[run][a]) = Len(turns[run][a]) + 1
        /\ IsSeq(turns'[run][a])
        /\ \A k \in 1 .. Len(turns[run][a]) : turns'[run][a][k] = turns[run][a][k]
        /\ turns'[run][a][Len(turns[run][a]) + 1] = Turn(current[a])
    BY <1>1, <1>6, SeqIs, AppendIs
  <2>2. n \in 1 .. Len(turns[run][a]) + 1
    BY <2>1, EmptyIs
  <2>3. n # Len(turns[run][a]) + 1
    BY <2>1 DEF Turn
  <2> QED
    BY <1>2, <2>1, <2>2, <2>3
<1>7. CASE turns'[run][a] = [turns[run][a] EXCEPT ![1].begun = TRUE]
  <2>1. n \in DOMAIN turns[run][a]
    BY <1>7
  <2>2. turns[run][a][n] \in Turns
    BY <1>1, <1>2, <2>1
  <2>3. /\ turns'[run][a][n].accepted = turns[run][a][n].accepted
        /\ turns'[run][a][n].call = turns[run][a][n].call
    <3>1. CASE n = 1
      <4>1. turns'[run][a][1] = [turns[run][a][1] EXCEPT !.begun = TRUE]
        BY <1>7, <2>1, <3>1
      <4> QED
        BY <2>2, <3>1, <4>1 DEF Turns
    <3>2. CASE n # 1
      BY <1>7, <2>1, <3>2
    <3> QED
      BY <3>1, <3>2
  <2> QED
    BY <1>2, <2>1, <2>3
<1>8. CASE SubmitAccepted(a) /\ turns'[run][a] = [turns[run][a] EXCEPT ![1].accepted = TRUE]
  <2>1. InTurn(a)
    BY <1>8 DEF SubmitAccepted
  <2>2. n = 1 /\ turns'[run][a][1].call = turns[run][a][1].call
    BY <1>1, <1>2, <1>8, <2>1, InTurnIs DEF Turns
  <2> QED
    BY <1>8, <2>1, <2>2, InTurnIs
<1>9. CASE turns[run][a] # <<>> /\ turns'[run][a] = Tail(turns[run][a])
  <2>1. /\ Tail(turns[run][a]) \in Seq(Turns)
        /\ Len(turns[run][a]) >= 1 /\ Len(Tail(turns[run][a])) = Len(turns[run][a]) - 1
        /\ \A k \in 1 .. Len(turns[run][a]) - 1 : Tail(turns[run][a])[k] = turns[run][a][k + 1]
    BY <1>1, <1>9, TailIs
  <2>2. n \in 1 .. Len(turns[run][a]) - 1
    BY <1>9, <2>1, SeqIs
  <2>3. n + 1 \in DOMAIN turns[run][a] /\ turns'[run][a][n] = turns[run][a][n + 1]
    BY <1>2, <1>9, <2>1, <2>2
  <2> QED
    BY <2>3
<1>10. ASSUME NEW b \in Actors, UntypedTurnEnds(b) \/ TurnFails(b)
       PROVE  turns[run][b] # <<>>
  BY <1>10 DEF UntypedTurnEnds, TurnFails, InTurn
<1>11. \A q \in Runs, b \in Actors : TurnsOnly(q, b) =>
           (q = run /\ b = a) \/ turns'[run][a] = turns[run][a]
  BY <1>1 DEF TurnsOnly
<1> QED
  BY <1>1, <1>3, <1>4, <1>5, <1>6, <1>7, <1>8, <1>9, <1>10, <1>11, TurnsAre

LEMMA AcceptedLastKept ==
    ASSUME IInv, Departures, SettledFirst, AcceptedLast, [Next]_vars
    PROVE  AcceptedLast'
<1> USE DEF Departures
<1>1. run \in Runs /\ plan \in Plans /\ run' \in Runs
  BY ProgressTypedKept, ScriptsStay DEF IInv, Types, ProgressTyped
<1>2. SUFFICES ASSUME NEW a \in Actors, NEW n \in DOMAIN turns'[run'][a],
                      turns'[run'][a][n].accepted, NEW j \in DOMAIN journal'[run'],
                      j \in AsksIn(run', a), j > turns'[run'][a][n].call
               PROVE  journal'[run'][j].status = "running"
  <2>1. \A b : AsksIn(run, b)' = AsksIn(run', b)
    BY ScriptsStay DEF AsksIn
  <2> QED
    BY <2>1 DEF AcceptedLast, Status
<1>3. run' = run
  <2>1. CASE Amend
    BY <1>1, <1>2, <2>1, AmendedIsDone, AmendFrame, EmptyIs
  <2>2. CASE ~ Amend
    BY <2>2, EnginesAre
  <2> QED
    BY <2>1, <2>2
<1>4. \/ \E m \in DOMAIN turns[run][a] : /\ turns[run][a][m].accepted
                                         /\ turns'[run][a][n].call = turns[run][a][m].call
      \/ /\ SubmitAccepted(a) /\ InTurn(a)
         /\ turns'[run][a][n].call = TurnCall(a)
  BY <1>1, <1>2, <1>3, AcceptedFrom
<1>5. CASE \E m \in DOMAIN turns[run][a] : /\ turns[run][a][m].accepted
                                           /\ turns'[run][a][n].call = turns[run][a][m].call
  <2>1. PICK m \in DOMAIN turns[run][a] : /\ turns[run][a][m].accepted
                                          /\ turns'[run][a][n].call = turns[run][a][m].call
    BY <1>5
  <2>2. CASE j \in DOMAIN journal[run]
    <3>1. Status(run, j) = "running"
      BY <1>2, <1>3, <2>1, <2>2 DEF AcceptedLast
    <3>2. ~ InTurn(a)
      <4>1. ASSUME InTurn(a)
            PROVE  FALSE
        <5>1. Len(turns[run][a]) = 1 /\ ~ turns[run][a][1].accepted /\ turns[run][a] \in Seq(Turns)
          BY <4>1, InTurnIs
        <5>2. m = 1
          BY <2>1, <5>1, SeqIs
        <5> QED
          BY <2>1, <5>1, <5>2
      <4> QED
        BY <4>1
    <3> QED
      BY <1>2, <1>3, <2>2, <3>1, <3>2, RunningIs
  <2>3. CASE j \notin DOMAIN journal[run]
    <3>1. split[run][a] # -1
      BY <2>1, AcceptedSplit
    <3> QED
      BY <1>2, <1>3, <2>3, <3>1, NewAskRow, ImportSettles DEF Running, Row
  <2> QED
    BY <2>2, <2>3
<1>6. CASE /\ SubmitAccepted(a) /\ InTurn(a)
           /\ turns'[run][a][n].call = TurnCall(a)
  <2>1. TurnCall(a) \in DOMAIN journal[run] /\ TurnCall(a) \in AsksIn(run, a)
        /\ Status(run, TurnCall(a)) = "running" /\ TurnCall(a) \in Nat
    BY <1>6, InTurnIs DEF OpenAsk, AskOf, AsksIn
  <2>2. j # TurnCall(a) /\ TurnCall(a) < j
    <3>1. j \in Nat
      BY <1>1, <1>2, <1>3, ScriptIs DEF AsksIn
    <3> QED
      BY <1>2, <1>3, <1>6, <2>1, <3>1
  <2>3. j \in DOMAIN journal[run] /\ journal'[run][j] = journal[run][j]
    BY <1>2, <1>3, <1>6, <2>2, TurnSettles
  <2>4. Status(run, j) = "running"
    BY <1>1, <1>2, <1>3, <2>1, <2>2, <2>3 DEF SettledFirst
  <2> QED
    BY <1>3, <2>3, <2>4 DEF Status
<1> QED
  BY <1>4, <1>5, <1>6
-----------------------------------------------------------------------------
\* Sessions and boundaries

\* Transcripts and the rows that name a session only grow.
LEMMA TranscriptsGrow ==
    ASSUME IInv, [Next]_vars, NEW r \in Runs, NEW a \in Actors
    PROVE  /\ Len(transcript[r][a]) \in Nat /\ Len(transcript'[r][a]) \in Nat
           /\ Len(transcript[r][a]) <= Len(transcript'[r][a])
<1>1. StoreTyped /\ SessionTyped
  BY DEF IInv, Types
<1>2. IsSeq(transcript[r][a]) /\ Len(transcript[r][a]) \in Nat
  BY <1>1, EmptyIs DEF StoreTyped
<1>3. IsSeq(transcript'[r][a]) /\ Len(transcript'[r][a]) \in Nat
  BY TranscriptTypedKept, EmptyIs
<1>4. CASE UNCHANGED transcript
  BY <1>2, <1>4
<1>5. ASSUME NEW q \in Runs, NEW b \in Actors, SeedMessage(q, b)
      PROVE  Len(transcript[r][a]) <= Len(transcript'[r][a])
  <2> DEFINE k == session[q][b].copied + 1
             x == transcript[session[q][b].seed.source][b][k]
  <2>1. /\ TalksOnly(q, b) /\ k \in Nat
        /\ transcript'[q][b] = CopyInPlace(transcript[q][b], k, x)
    BY <1>1, <1>5, SeedIs
  <2>2. CASE q = r /\ b = a
    <3> HIDE DEF k, x
    <3>1. CASE k <= Len(transcript[r][a])
      <4>1. transcript'[r][a] = [transcript[r][a] EXCEPT ![k] = x]
        BY <2>1, <2>2, <3>1 DEF CopyInPlace
      <4>2. DOMAIN transcript'[r][a] = DOMAIN transcript[r][a]
        BY <4>1
      <4>3. 1 .. Len(transcript'[r][a]) = 1 .. Len(transcript[r][a])
        BY <1>2, <1>3, <4>2, EmptyIs
      <4> QED
        BY <1>2, <1>3, <4>3
    <3>2. CASE ~ (k <= Len(transcript[r][a]))
      <4>1. transcript'[r][a] = Append(transcript[r][a], x)
        BY <2>1, <2>2, <3>2 DEF CopyInPlace
      <4> QED
        BY <1>2, <1>3, <4>1, AppendIs
    <3> QED
      BY <3>1, <3>2
  <2>3. CASE ~ (q = r /\ b = a)
    BY <1>2, <2>1, <2>3 DEF TalksOnly
  <2> QED
    BY <2>2, <2>3
<1>6. ASSUME NEW q \in Runs, NEW b \in Actors, NEW i \in Nat, transcript' = Says(q, b, i)
      PROVE  Len(transcript[r][a]) <= Len(transcript'[r][a])
  <2>1. TalksOnly(q, b) /\ transcript'[q][b] = Append(transcript[q][b], Message(q, i))
    BY <1>1, <1>6, SaysIs
  <2>2. CASE q = r /\ b = a
    BY <1>2, <2>1, <2>2, AppendIs
  <2>3. CASE ~ (q = r /\ b = a)
    BY <1>2, <2>1, <2>3 DEF TalksOnly
  <2> QED
    BY <2>2, <2>3
<1> QED
  BY <1>2, <1>3, <1>4, <1>5, <1>6, TalkIs

LEMMA SessionRowsAre ==
    ASSUME IInv, [Next]_vars
    PROVE  \/ sessionRow' = sessionRow
           \/ \E q \in Runs, b \in Actors :
                  /\ SessionOpens(q, b) /\ session[q][b].state = "seeding"
                  /\ ~ Copying(q, b)
                  /\ sessionRow'[q] = sessionRow[q] \union {b}
                  /\ \A p \in Runs : p # q => sessionRow'[p] = sessionRow[p]
<1>1. DOMAIN sessionRow = Runs
  BY DEF IInv, Types, StoreTyped
<1>2. CASE sessionRow' = sessionRow
  BY <1>2
<1>3. ASSUME NEW q \in Runs, NEW b \in Actors, SessionOpens(q, b)
      PROVE  /\ session[q][b].state = "seeding" /\ ~ Copying(q, b)
             /\ sessionRow'[q] = sessionRow[q] \union {b}
             /\ \A p \in Runs : p # q => sessionRow'[p] = sessionRow[p]
  BY <1>1, <1>3 DEF SessionOpens
<1>20. CASE \/ AskReplayed \/ TryImportedSettle \/ AskLive
            \/ CrashInAdmission \/ WorldReplayed \/ WorldImported
            \/ WorldLive \/ RunEnds \/ Amend
            \/ Crash \/ Resume \/ UNCHANGED vars
  BY <1>2, <1>20, AskReplayedFrame, TryImportedSettleFrame, AskLiveFrame,
     CrashInAdmissionFrame, WorldReplayedFrame, WorldImportedFrame, WorldLiveFrame,
     RunEndsFrame, AmendFrame, CrashFrame, ResumeFrame DEF vars, durable, progress, imports, working,
     driver, ghosts
<1>21. CASE \E a \in Actors : \/ OpenSession(a) \/ StartAsk(a) \/ TurnBegins(a)
                              \/ ReadsWorkspace(a) \/ WritesWorkspace(a) \/ SubmitAccepted(a)
                              \/ UntypedTurnEnds(a) \/ TurnFails(a)
  BY <1>2, <1>21, OpenSessionFrame, StartAskFrame, TurnBeginsFrame, ReadsWorkspaceFrame,
     WritesWorkspaceFrame, SubmitAcceptedFrame, UntypedTurnEndsFrame, TurnFailsFrame
<1>22. CASE \E r \in Runs, a \in Actors : SeedMessage(r, a) \/ AcceptedTurnEnds(r, a)
  BY <1>2, <1>22, SeedMessageFrame, AcceptedTurnEndsFrame
<1>23. CASE \E i \in worldBusy : SettleWorldRead(i)
  BY <1>2, <1>23, SettleWorldReadFrame
<1> QED
  BY <1>3, <1>20, <1>21, <1>22, <1>23, StepKinds

\* How much of the transcript of a subagent was there when it departed: the copy
\* its session begins with.
Depth(r, a) == IF split[r][a] > 0 THEN Offered(r, a)[split[r][a]].boundary ELSE 0

\* What opens a session is the departure, the copy goes as deep as the import
\* was followed, and the transcript has at least that length.
SessionsSeeded ==
    \A r \in Runs : \A a \in Actors :
        /\ session[r][a].state # "none" \/ a \in sessionRow[r] => split[r][a] # -1
        /\ session[r][a].state = "open" => a \in sessionRow[r]
        /\ turns[r][a] # <<>> => a \in sessionRow[r]
        /\ a \in sessionRow[r] => Depth(r, a) <= Len(transcript[r][a])
        /\ session[r][a].state = "seeding" =>
               /\ session[r][a].seed.length = Depth(r, a)
               /\ session[r][a].copied <= Len(transcript[r][a])

LEMMA DepthStays ==
    ASSUME IInv, Departures, [Next]_vars, NEW r \in Runs, NEW a \in Actors, split[r][a] # -1
    PROVE  r <= run /\ split'[r][a] = split[r][a] /\ Depth(r, a)' = Depth(r, a)
<1>1. r <= run
  BY DEF Departures, SplitsRight, RowsBehind
<1>2. split'[r][a] = split[r][a]
  BY SplitIs
<1>3. Offered(r, a)' = Offered(r, a)
  BY <1>1, OfferedStays
<1> QED
  BY <1>1, <1>2, <1>3 DEF Depth

LEMMA DepthTyped ==
    ASSUME IInv, Departures, NEW r \in Runs, NEW a \in Actors, split[r][a] # -1
    PROVE  /\ split[r][a] \in Nat /\ split[r][a] <= Len(Offered(r, a))
           /\ Depth(r, a) \in Nat
<1>1. plan \in Plans /\ split[r][a] \in Int
  BY DEF IInv, Types, GhostsTyped
<1>2. PICK i \in DOMAIN journal[r] : i \in AsksIn(r, a) /\ ActorSeq(r, i) = split[r][a]
  BY DEF Departures, SplitsRight
<1> DEFINE s == split[r][a]
<1>3. s \in Nat
  BY <1>1, <1>2, ActorSeqIs
<1>4. Offered(r, a) \in Seq(Entries) /\ Len(Offered(r, a)) \in Nat
      /\ DOMAIN Offered(r, a) = 1 .. Len(Offered(r, a))
  BY OfferedTyped, SeqIs
<1>5. s # 0 => s \in DOMAIN Offered(r, a)
  <2>1. SUFFICES ASSUME s # 0
                 PROVE  s \in DOMAIN Offered(r, a)
    OBVIOUS
  <2>2. s - 1 \in Nat /\ s - 1 < ActorSeq(r, i)
    BY <1>2, <1>3, <2>1
  <2> DEFINE n == s - 1
  <2> HIDE DEF n
  <2>3. PICK j \in AsksIn(r, a) : j < i /\ ActorSeq(r, j) = n
    BY <1>1, <1>2, <2>2, ActorSeqIs DEF n
  <2>4. j \in DOMAIN journal[r]
    BY <1>2, <2>3, EarlierRow DEF Departures
  <2>5. BeforeSplit(r, a, j)
    BY <1>3, <2>3 DEF BeforeSplit, n
  <2>6. ImportedRow(r, a, j)
    BY <2>3, <2>4, <2>5 DEF Departures, SplitsRight, TornRow
  <2>7. ActorSeq(r, j) + 1 \in DOMAIN Offered(r, a)
    BY <2>3, <2>6, ImportedEntry
  <2> QED
    BY <1>3, <2>3, <2>7 DEF n
<1>6. \A k \in DOMAIN Offered(r, a) : Offered(r, a)[k].boundary \in Nat
  <2>1. \A k \in DOMAIN Offered(r, a) : Offered(r, a)[k] \in Entries
    BY <1>4
  <2> QED
    BY <2>1 DEF Entries
<1> QED
  BY <1>3, <1>4, <1>5, <1>6 DEF Depth

\* A subagent is dispatched only once it has departed from its import.
LEMMA DispatchedSplit ==
    ASSUME IInv, Departures, NEW a \in Actors, Busy(a)
    PROVE  split[run][a] # -1 /\ Seed(a).length = Depth(run, a)
<1> USE DEF Departures
<1> DEFINE s == split[run][a]
<1>1. engine = "live" /\ current[a] # NoCall /\ run \in Runs
  BY DEF Busy, IInv, Types, ProgressTyped
<1>2. cursor[a].diverged /\ cursor[a].consumed = s /\ s \in 0 .. Made(a) - 1
  BY <1>1 DEF CursorRight
<1>3. s \in Nat
  BY <1>2, MadeIs
<1>4. CacheTyped /\ CursorTyped
  BY DEF IInv, Types
<1>5. Seed(a) = IF s = 0 THEN NoSeed
                ELSE [source |-> cache.source[a], length |-> cache.entries[a][s].boundary]
  BY <1>2, <1>4, SeedTyped
<1>6. cache.entries[a] = Offered(run, a)
  BY <1>1 DEF CacheRight
<1> QED
  BY <1>3, <1>5, <1>6 DEF Depth, NoSeed

\* What becomes of one session.
LEMMA SessionFate ==
    ASSUME IInv, [Next]_vars, NEW r \in Runs, NEW a \in Actors
    PROVE  \/ session'[r][a] \in {session[r][a], Unopened}
           \/ /\ OpenSession(a) /\ r = run /\ session[r][a].state = "none"
              /\ session'[r][a] = [state |-> "seeding", seed |-> Seed(a), copied |-> 0]
           \/ /\ SeedMessage(r, a)
              /\ session'[r][a] = [state |-> "seeding", seed |-> session[r][a].seed,
                                   copied |-> session[r][a].copied + 1]
           \/ /\ SessionOpens(r, a)
              /\ session'[r][a] = [state |-> "open", seed |-> NoSeed, copied |-> 0]
<1>1. run \in Runs
  BY DEF IInv, Types, ProgressTyped
<1>2. CASE session'[r][a] \in {session[r][a], Unopened}
  BY <1>2
<1>3. \A q \in Runs, b \in Actors : \A s : SessionsOnly(q, b, s) =>
          \/ q = r /\ b = a /\ session'[r][a] = s
          \/ session'[r][a] = session[r][a]
  BY DEF SessionsOnly
<1>4. session' = PerRun(Unopened) => session'[r][a] = Unopened
  BY DEF PerRun, PerActor
<1>5. ASSUME \A q \in Runs \ {run} : session'[q] = session[q],
             \A b \in Actors : session'[run][b] =
                 IF session[run][b].state = "open" THEN Unopened ELSE session[run][b]
      PROVE  session'[r][a] \in {session[r][a], Unopened}
  BY <1>1, <1>5
<1> QED
  BY <1>1, <1>2, <1>3, <1>4, <1>5, SessionsAre

LEMMA SessionBegins ==
    ASSUME IInv, [Next]_vars, NEW r \in Runs, NEW a \in Actors,
           session[r][a].state = "none", session'[r][a].state # "none"
    PROVE  OpenSession(a) /\ r = run
<1>1. SeedMessage(r, a) \/ SessionOpens(r, a) => session[r][a].state = "seeding"
  BY DEF SeedMessage, SessionOpens, Copying
<1> QED
  BY <1>1, SessionFate, UnopenedTyped

\* A message copied is one of the transcript.
LEMMA SeedReaches ==
    ASSUME IInv, NEW r \in Runs, NEW a \in Actors, SeedMessage(r, a),
           session[r][a].copied <= Len(transcript[r][a])
    PROVE  session[r][a].copied + 1 <= Len(transcript'[r][a])
<1> DEFINE k == session[r][a].copied + 1
           x == transcript[session[r][a].seed.source][a][k]
<1>1. StoreTyped /\ SessionTyped
  BY DEF IInv, Types
<1>2. IsSeq(transcript[r][a]) /\ Len(transcript[r][a]) \in Nat
  BY <1>1, EmptyIs DEF StoreTyped
<1>3. k \in Nat /\ 1 <= k /\ transcript'[r][a] = CopyInPlace(transcript[r][a], k, x)
  BY <1>1, SeedIs
<1>4. k <= Len(transcript[r][a]) + 1
  BY <1>1, <1>2, SeedIs
<1> HIDE DEF k, x
<1>5. Len(transcript'[r][a]) = IF k <= Len(transcript[r][a]) THEN Len(transcript[r][a]) ELSE k
  BY <1>2, <1>3, <1>4, CopyIs
<1> QED
  BY <1>2, <1>3, <1>5 DEF k

LEMMA SessionsSeededKept ==
    ASSUME IInv, Departures, SessionsSeeded, [Next]_vars
    PROVE  SessionsSeeded'
<1>1. run \in Runs /\ plan' = plan /\ Scripts' = Scripts
  BY ScriptsStay DEF IInv, Types, ProgressTyped
<1>2. SUFFICES ASSUME NEW r \in Runs, NEW a \in Actors
               PROVE  /\ session'[r][a].state # "none" \/ a \in sessionRow'[r] => split'[r][a] # -1
                      /\ session'[r][a].state = "open" => a \in sessionRow'[r]
                      /\ turns'[r][a] # <<>> => a \in sessionRow'[r]
                      /\ a \in sessionRow'[r] => Depth(r, a)' <= Len(transcript'[r][a])
                      /\ session'[r][a].state = "seeding" =>
                             /\ session'[r][a].seed.length = Depth(r, a)'
                             /\ session'[r][a].copied <= Len(transcript'[r][a])
  BY <1>1 DEF SessionsSeeded
<1>3. /\ session[r][a].state # "none" \/ a \in sessionRow[r] => split[r][a] # -1
      /\ session[r][a].state = "open" => a \in sessionRow[r]
      /\ turns[r][a] # <<>> => a \in sessionRow[r]
      /\ a \in sessionRow[r] => Depth(r, a) <= Len(transcript[r][a])
      /\ session[r][a].state = "seeding" =>
             /\ session[r][a].seed.length = Depth(r, a)
             /\ session[r][a].copied <= Len(transcript[r][a])
  BY DEF SessionsSeeded
<1>4. split[r][a] # -1 =>
          /\ split'[r][a] # -1 /\ Depth(r, a)' = Depth(r, a)
          /\ Depth(r, a) \in Nat
  BY DepthStays, DepthTyped
<1>5. /\ Len(transcript[r][a]) \in Nat /\ Len(transcript'[r][a]) \in Nat
      /\ Len(transcript[r][a]) <= Len(transcript'[r][a])
  BY TranscriptsGrow
<1>6. session[r][a].state \in {"none", "seeding", "open"} /\ session[r][a].copied \in Nat
      /\ session[r][a].seed.length \in Nat
  BY DEF IInv, Types, SessionTyped, Copies, Seeds
<1>7. a \in sessionRow[r] => a \in sessionRow'[r]
  BY SessionRowsAre
\* a row that names a session is written when the copy is whole
<1>8. a \in sessionRow'[r] => split[r][a] # -1 /\ Depth(r, a) <= Len(transcript[r][a])
  <2>1. CASE a \in sessionRow[r]
    BY <1>3, <2>1
  <2>2. CASE session[r][a].state = "seeding" /\ ~ Copying(r, a)
    <3>1. ~ (session[r][a].copied < session[r][a].seed.length)
          \/ ~ (Len(transcript[r][a]) < session[r][a].seed.length)
      BY <2>2 DEF Copying
    <3> QED
      BY <1>3, <1>4, <1>5, <1>6, <2>2, <3>1
  <2> QED
    BY <2>1, <2>2, SessionRowsAre
\* a session begins at the departure
<1>9. session'[r][a].state # "none" => split'[r][a] # -1
  <2>1. CASE session[r][a].state # "none"
    BY <1>3, <1>4, <2>1
  <2>2. CASE session[r][a].state = "none" /\ session'[r][a].state # "none"
    <3>1. OpenSession(a) /\ r = run
      BY <1>1, <2>2, SessionBegins
    <3>2. split[run][a] # -1
      BY <3>1, DispatchedSplit DEF OpenSession
    <3> QED
      BY <1>4, <3>1, <3>2
  <2> QED
    BY <2>1, <2>2
<1>10. session'[r][a].state = "open" => a \in sessionRow'[r]
  <2>1. CASE session'[r][a] = session[r][a]
    BY <1>3, <1>7, <2>1
  <2>2. ASSUME SessionOpens(r, a)
        PROVE  a \in sessionRow'[r]
    BY <1>1, <2>2 DEF SessionOpens, IInv, Types, StoreTyped
  <2> DEFINE after == session'[r][a]
  <2>3. \/ after \in {session[r][a], Unopened} \/ SessionOpens(r, a)
        \/ after = [state |-> "seeding", seed |-> Seed(a), copied |-> 0]
        \/ after = [state |-> "seeding", seed |-> session[r][a].seed,
                    copied |-> session[r][a].copied + 1]
    BY SessionFate
  <2>4. Unopened.state = "none"
    BY UnopenedTyped
  <2>5. after = session[r][a] \/ SessionOpens(r, a) \/ after.state # "open"
    <3> HIDE DEF after
    <3> QED
      BY <2>3, <2>4
  <2> QED
    BY <2>1, <2>2, <2>5
<1>11. turns'[r][a] # <<>> => a \in sessionRow'[r]
  <2>1. CASE turns[r][a] # <<>>
    BY <1>3, <1>7, <2>1
  <2>2. CASE turns[r][a] = <<>> /\ turns'[r][a] # <<>>
    <3>1. 1 \in DOMAIN turns'[r][a]
      <4>1. turns'[r][a] \in Seq(Turns)
        BY TurnsTypedKept, <1>1 DEF TurnsTyped
      <4>2. Len(turns'[r][a]) \in Nat /\ DOMAIN turns'[r][a] = 1 .. Len(turns'[r][a])
        BY <4>1, SeqIs
      <4>3. Len(turns'[r][a]) >= 1
        BY <2>2, <4>1, TailIs
      <4> QED
        BY <4>2, <4>3
    <3>2. StartAsk(a) /\ r = run
      BY <2>2, <3>1, TurnsComeFrom, EmptyIs
    <3>3. session[r][a].state = "open"
      BY <3>2 DEF StartAsk
    <3> QED
      BY <1>3, <1>7, <3>3
  <2> QED
    BY <2>1, <2>2
<1>12. session'[r][a].state = "seeding" =>
           /\ session'[r][a].seed.length = Depth(r, a)'
           /\ session'[r][a].copied <= Len(transcript'[r][a])
  <2>1. CASE session'[r][a] = session[r][a]
    BY <1>3, <1>4, <1>5, <1>6, <2>1
  <2>2. CASE OpenSession(a) /\ r = run
             /\ session'[r][a] = [state |-> "seeding", seed |-> Seed(a), copied |-> 0]
    <3>1. Seed(a).length = Depth(run, a) /\ split[run][a] # -1
      BY <2>2, DispatchedSplit DEF OpenSession
    <3> QED
      BY <1>4, <1>5, <2>2, <3>1
  <2>3. CASE SeedMessage(r, a)
             /\ session'[r][a] = [state |-> "seeding", seed |-> session[r][a].seed,
                                  copied |-> session[r][a].copied + 1]
    <3>1. session[r][a].state = "seeding"
      BY <2>3 DEF SeedMessage, Copying
    <3>2. session[r][a].copied + 1 <= Len(transcript'[r][a])
      BY <1>3, <2>3, <3>1, SeedReaches
    <3> QED
      BY <1>3, <1>4, <2>3, <3>1, <3>2
  <2>4. session'[r][a].state # "seeding" \/ session'[r][a] = session[r][a]
        \/ (OpenSession(a) /\ r = run
             /\ session'[r][a] = [state |-> "seeding", seed |-> Seed(a), copied |-> 0])
        \/ (SeedMessage(r, a)
             /\ session'[r][a] = [state |-> "seeding", seed |-> session[r][a].seed,
                                  copied |-> session[r][a].copied + 1])
    BY SessionFate, UnopenedTyped
  <2> QED
    BY <2>1, <2>2, <2>3, <2>4
<1> QED
  BY <1>4, <1>5, <1>8, <1>9, <1>10, <1>11, <1>12

\* What an answer that is recorded after a step comes from.
LEMMA CompletedFate ==
    ASSUME IInv, [Next]_vars, NEW a \in Actors, NEW i \in AsksIn(run, a),
           i \in DOMAIN journal'[run], journal'[run][i].status = "completed"
    PROVE  LET long == Len(transcript[run][a]) + 1 IN
           \/ i \in DOMAIN journal[run] /\ journal'[run][i] = journal[run][i]
           \/ /\ i \in DOMAIN journal[run] /\ turns[run][a] # <<>> /\ i = Head(turns[run][a]).call
              /\ \/ Head(turns[run][a]).accepted /\ Status(run, i) = "completed"
                 \/ ~ Head(turns[run][a]).accepted /\ Status(run, i) = "running"
              /\ \A j \in DOMAIN journal[run] : j # i => journal'[run][j] = journal[run][j]
              /\ Len(transcript'[run][a]) = long
              /\ journal'[run][i].boundary \in {NoBoundary, long}
           \/ /\ i \notin DOMAIN journal[run] /\ i = issued + 1 /\ a = NextCall.who
              /\ TryImportedSettle
<1>1. run \in Runs /\ StoreTyped
  BY DEF IInv, Types, ProgressTyped
<1> DEFINE long == Len(transcript[run][a]) + 1
<1>2. ASSUME NEW j, j \in Nat, transcript' = Says(run, a, j)
      PROVE  Len(transcript'[run][a]) = long
  <2>1. transcript'[run][a] = Append(transcript[run][a], Message(run, j))
    BY <1>1, <1>2, SaysIs
  <2>2. IsSeq(transcript[run][a])
    BY <1>1 DEF StoreTyped
  <2> QED
    BY <2>1, <2>2, AppendIs
<1>3. CASE i \notin DOMAIN journal[run]
  BY <1>3, NewAskRow DEF Running, Row
<1>4. CASE i \in DOMAIN journal[run] /\ Status(run, i) # "running"
  <2>1. Status(run, i) = "completed"
    BY <1>1, <1>4, RowsStay DEF Status
  <2>2. ASSUME NEW b \in Actors, AcceptedTurnEnds(run, b), i = Head(turns[run][b]).call,
               AskOf(run, b, i)
        PROVE  /\ turns[run][a] # <<>> /\ i = Head(turns[run][a]).call
               /\ Head(turns[run][a]).accepted
               /\ \A j \in DOMAIN journal[run] : j # i => journal'[run][j] = journal[run][j]
               /\ Len(transcript'[run][a]) = long
               /\ journal'[run][i].boundary \in {NoBoundary, long}
    <3>1. a = b
      BY <2>2 DEF AskOf, AsksIn
    <3>2. /\ RowIsEnded(run, a) /\ turns[run][a] # <<>> /\ Head(turns[run][a]).accepted
          /\ journal[run][i].boundary = NoBoundary
      BY <1>1, <2>2, <3>1, EndedIs
    <3>3. transcript' = Says(run, a, i)
      BY <2>2, <3>1 DEF AcceptedTurnEnds
    <3>4. i \in Nat
      BY <1>1, ActorSeqIs DEF IInv, Types
    <3>5. Len(transcript'[run][a]) = long
      BY <1>2, <3>3, <3>4
    <3>6. journal'[run][i].boundary \in {NoBoundary, long}
      <4>1. journal'[run][i] = Row(journal[run][i].status, journal[run][i].answer,
                IF StillAsked(run, a, i) THEN long ELSE journal[run][i].boundary,
                ~ counted[run][a])
        BY <2>2, <3>1, <3>2 DEF RowIsEnded
      <4> HIDE DEF long
      <4> QED
        BY <3>2, <4>1 DEF Row
    <3> QED
      BY <1>1, <2>2, <3>1, <3>2, <3>5, <3>6 DEF RowIsEnded, IInv, Types, JournalTyped
  <2>3. CASE journal'[run][i] = journal[run][i]
    BY <1>4, <2>3
  <2> HIDE DEF long
  <2> QED
    BY <1>1, <1>4, <2>1, <2>2, <2>3, RowsStay DEF long
<1>5. CASE i \in DOMAIN journal[run] /\ Status(run, i) = "running"
  <2>1. /\ InTurn(a) /\ TurnCall(a) = i
        /\ SubmitAccepted(a) \/ UntypedTurnEnds(a) \/ TurnFails(a)
    BY <1>5, RunningIs
  <2>2. ~ TurnFails(a)
    <3>1. TurnFails(a) => SetRow(i, FailedRow)
      BY <2>1 DEF TurnFails, Settle
    <3>2. run \in DOMAIN journal
      BY <1>1 DEF IInv, Types, JournalTyped
    <3> QED
      BY <3>1, <3>2, SetRowPuts DEF RowIsPut, FailedRow, Row
  <2>3. /\ turns[run][a] # <<>> /\ i = Head(turns[run][a]).call /\ ~ Head(turns[run][a]).accepted
        /\ i \in Nat
    BY <2>1, InTurnIs DEF TurnCall
  <2>4. transcript' = Says(run, a, i)
    BY <2>1, <2>2 DEF SubmitAccepted, UntypedTurnEnds
  <2>5. Len(transcript'[run][a]) = long
    BY <1>2, <2>3, <2>4
  <2>6. /\ journal'[run][i].boundary \in {NoBoundary, long}
        /\ \A j \in DOMAIN journal[run] : j # i => journal'[run][j] = journal[run][j]
    BY <2>1, TurnSettles
  <2> HIDE DEF long
  <2> QED
    BY <1>5, <2>3, <2>5, <2>6 DEF long
<1> QED
  BY <1>3, <1>4, <1>5

\* Later answers have later boundaries.
Monotone ==
    \A r \in Runs : \A a \in Actors : \A i, j \in DOMAIN journal[r] :
        /\ i \in AsksIn(r, a) /\ j \in AsksIn(r, a) /\ i < j
        /\ Status(r, i) = "completed" /\ Status(r, j) = "completed"
        /\ journal[r][j].boundary # NoBoundary
        => journal[r][i].boundary <= journal[r][j].boundary

\* An answer of a subagent that has departed is in its transcript.
LiveRows ==
    \A r \in Runs : \A a \in Actors : \A i \in DOMAIN journal[r] :
        i \in AsksIn(r, a) /\ Status(r, i) = "completed" /\ ~ BeforeSplit(r, a, i) =>
            a \in sessionRow[r] /\ journal[r][i].boundary <= Len(transcript[r][a])

LEMMA OfferedMonotone ==
    ASSUME IInv, Bounded, Monotone, NEW r \in Runs, r <= run, NEW a \in Actors,
           NEW k \in DOMAIN Offered(r, a), NEW l \in DOMAIN Offered(r, a), k <= l
    PROVE  /\ Offered(r, a)[k].boundary \in Nat /\ Offered(r, a)[l].boundary \in Nat
           /\ Offered(r, a)[k].boundary <= Offered(r, a)[l].boundary
<1>1. Offered(r, a) \in Seq(Entries) /\ DOMAIN Offered(r, a) = 1 .. Len(Offered(r, a))
      /\ Len(Offered(r, a)) \in Nat
  BY OfferedTyped, SeqIs
<1>2. Offered(r, a)[k].boundary \in Nat /\ Offered(r, a)[l].boundary \in Nat
  <2>1. Offered(r, a)[k] \in Entries /\ Offered(r, a)[l] \in Entries
    BY <1>1
  <2> QED
    BY <2>1 DEF Entries
<1>3. CASE k = l
  BY <1>2, <1>3
<1>4. CASE k < l
  <2>1. r # 1 /\ Offered(r, a) = CompletedAskPrefix(r - 1, a)
    BY EmptyIs DEF Offered
  <2>2. r - 1 \in Runs /\ plan \in Plans
    <3>1. plan \in Plans
      BY DEF IInv, Types
    <3> QED
      BY <2>1, <3>1, ScriptIs
  <2> DEFINE p == CompletedAskPrefix(r - 1, a)
             asks == AsksOf(r - 1, a)
  <2>3. /\ Len(p) \in 0 .. Len(asks) /\ Len(asks) \in Nat
        /\ k \in 1 .. Len(p) /\ l \in 1 .. Len(p) /\ k \in 1 .. Len(asks) /\ l \in 1 .. Len(asks)
    <3>1. Len(p) \in 0 .. Len(asks) /\ DOMAIN p = 1 .. Len(p) /\ Len(asks) \in Nat
      BY <2>2, PrefixIs, AsksOfIs
    <3>2. k \in 1 .. Len(p) /\ l \in 1 .. Len(p)
      BY <2>1, <3>1
    <3> HIDE DEF p, asks
    <3> QED
      BY <3>1, <3>2
  <2>4. /\ Completed(r - 1, asks[k]) /\ p[k] = EntryOf(r - 1, asks[k])
        /\ Completed(r - 1, asks[l]) /\ p[l] = EntryOf(r - 1, asks[l])
    BY <2>2, <2>3, PrefixIs
  <2>5. asks[k] \in AsksIn(r - 1, a) /\ asks[l] \in AsksIn(r - 1, a) /\ asks[k] < asks[l]
    BY <1>4, <2>2, <2>3, AsksOfIs
  <2>6. Offered(r, a)[l].boundary # NoBoundary
    BY OfferedBound
  <2> HIDE DEF p, asks
  <2>7. p[k].boundary = journal[r - 1][asks[k]].boundary
        /\ p[l].boundary = journal[r - 1][asks[l]].boundary
    BY <2>4 DEF EntryOf
  <2>8. journal[r - 1][asks[k]].boundary <= journal[r - 1][asks[l]].boundary
    BY <2>1, <2>2, <2>4, <2>5, <2>6, <2>7 DEF Monotone, Completed, Recorded, Status, p
  <2> QED
    BY <1>2, <2>1, <2>7, <2>8 DEF p
<1> QED
  BY <1>1, <1>3, <1>4

\* An answer of a subagent with a session, imported or not, is in its transcript.
LEMMA BoundaryReached ==
    ASSUME IInv, Departures, SessionsSeeded, LiveRows, Monotone, NEW r \in Runs,
           NEW a \in Actors, a \in sessionRow[r], NEW i \in DOMAIN journal[r],
           i \in AsksIn(r, a), Status(r, i) = "completed"
    PROVE  journal[r][i].boundary <= Len(transcript[r][a])
<1> USE DEF Departures
<1>1. CASE ~ BeforeSplit(r, a, i)
  BY <1>1 DEF LiveRows
<1>2. CASE BeforeSplit(r, a, i)
  <2>1. split[r][a] # -1 /\ Depth(r, a) <= Len(transcript[r][a]) /\ r <= run
    BY DEF SessionsSeeded, RowsBehind
  <2>2. ImportedRow(r, a, i)
    BY <1>2, <2>1 DEF SplitsRight, TornRow
  <2> DEFINE k == ActorSeq(r, i) + 1
             s == split[r][a]
  <2>3. k \in DOMAIN Offered(r, a) /\ k \in Nat /\ k >= 1 /\ k <= s
    <3>1. ActorSeq(r, i) < s
      BY <1>2, <2>1 DEF BeforeSplit
    <3>2. ActorSeq(r, i) \in Nat /\ k \in DOMAIN Offered(r, a)
      BY <2>2, ImportedEntry
    <3>3. s \in Nat
      BY <2>1, DepthTyped
    <3> QED
      BY <3>1, <3>2, <3>3
  <2>4. s \in Nat /\ s <= Len(Offered(r, a)) /\ Depth(r, a) \in Nat
    BY <2>1, DepthTyped
  <2>5. Len(Offered(r, a)) \in Nat /\ DOMAIN Offered(r, a) = 1 .. Len(Offered(r, a))
    BY OfferedTyped, SeqIs
  <2>6. s \in DOMAIN Offered(r, a) /\ s > 0
    BY <2>3, <2>4, <2>5
  <2>7. journal[r][i].boundary = Offered(r, a)[k].boundary /\ Depth(r, a) = Offered(r, a)[s].boundary
    BY <2>2, <2>6 DEF ImportedRow, Depth
  <2>8. journal[r][i].boundary \in Nat /\ journal[r][i].boundary <= Depth(r, a)
    BY <2>1, <2>3, <2>6, <2>7, OfferedMonotone
  <2>9. Len(transcript[r][a]) \in Nat
    BY EmptyIs DEF IInv, Types, StoreTyped
  <2> HIDE DEF k, s
  <2> QED
    BY <2>1, <2>4, <2>8, <2>9
<1> QED
  BY <1>1, <1>2

\* A subagent that has departed by a recorded answer had done so before.
LEMMA DepartedBefore ==
    ASSUME IInv, Departures, TornLast, [Next]_vars, NEW r \in Runs, NEW a \in Actors,
           NEW i \in DOMAIN journal[r], i \in AsksIn(r, a), Status(r, i) = "completed",
           ~ (split'[r][a] = -1 \/ ActorSeq(r, i) < split'[r][a])
    PROVE  ~ BeforeSplit(r, a, i)
<1> USE DEF Departures
<1>1. run \in Runs /\ plan \in Plans
  BY DEF IInv, Types, ProgressTyped
<1> SUFFICES ASSUME BeforeSplit(r, a, i)
             PROVE  FALSE
  OBVIOUS
<1> DEFINE s == ActorSeq(run, issued + 1)
<1>2. split'[r][a] # split[r][a]
  BY DEF BeforeSplit
<1>3. /\ AskReplayed \/ AskLive
      /\ r = run /\ a = NextCall.who /\ cursor'[a].diverged /\ split[r][a] = -1
      /\ split'[r][a] = s
  BY <1>2, SplitIs
<1>4. issued + 1 \in AsksIn(run, a) /\ engine = "live" /\ s \in Nat
  BY <1>3, AskIs
<1>5. ActorSeq(run, i) \in Nat /\ i \in Nat /\ issued + 1 \in Nat
  BY <1>1, <1>3, <1>4, ActorSeqIs
<1>6. issued + 1 <= i
  <2>1. ~ (i < issued + 1)
    BY <1>1, <1>3, <1>4, <1>5, ActorSeqIs
  <2> QED
    BY <1>5, <2>1
<1>7. issued + 1 \in DOMAIN journal[run]
  <2>1. i = issued + 1 \/ issued + 1 < i
    BY <1>5, <1>6
  <2> QED
    BY <1>1, <1>3, <1>4, <2>1, EarlierRow
<1>8. AskReplayed
  BY <1>3, <1>7 DEF AskLive, MissesImport, Recorded
<1>9. ~ cursor[a].diverged
  BY <1>3, <1>4, MadeIs DEF CursorRight
<1>10. ~ (issued + 1 \notin wasLive /\ HasEntry(a, s) /\ EntryAt(a, s).hash = Scripts[run][issued + 1].hash)
  <2>1. NextCall = Scripts[run][issued + 1]
    BY <1>4, NextAsk
  <2> QED
    BY <1>3, <1>8, <1>9, <2>1, AskIs DEF CursorMoves
<1>11. Status(run, issued + 1) = "running"
  BY <1>3, <1>4, <1>7, <1>10, ReplayDecides DEF TornRow
<1>12. i # issued + 1
  BY <1>3, <1>11
<1>13. issued + 1 < i
  BY <1>5, <1>6, <1>12
<1>14. Status(run, issued + 1) = "completed"
  BY <1>1, <1>3, <1>4, <1>7, <1>13 DEF TornLast
<1> QED
  BY <1>11, <1>14

LEMMA LiveRowsKept ==
    ASSUME IInv, Departures, TornLast, SessionsSeeded, LiveRows, [Next]_vars
    PROVE  LiveRows'
<1> USE DEF Departures
<1>1. run \in Runs /\ plan' = plan /\ Scripts' = Scripts /\ plan \in Plans
  BY ScriptsStay DEF IInv, Types, ProgressTyped
<1>2. SUFFICES ASSUME NEW r \in Runs, NEW a \in Actors, NEW i \in DOMAIN journal'[r],
                      i \in AsksIn(r, a), journal'[r][i].status = "completed",
                      ~ (split'[r][a] = -1 \/ ActorSeq(r, i) < split'[r][a])
               PROVE  a \in sessionRow'[r] /\ journal'[r][i].boundary <= Len(transcript'[r][a])
  <2>1. \A r \in Runs : \A a \in Actors : AsksIn(r, a)' = AsksIn(r, a)
    BY ScriptsStay
  <2>2. \A r \in Runs : \A i : ActorSeq(r, i)' = ActorSeq(r, i)
    BY ScriptsStay
  <2> QED
    BY <1>1, <2>1, <2>2 DEF LiveRows, Status, BeforeSplit
<1>3. /\ Len(transcript[r][a]) \in Nat /\ Len(transcript'[r][a]) \in Nat
      /\ Len(transcript[r][a]) <= Len(transcript'[r][a])
  BY TranscriptsGrow
<1>4. a \in sessionRow[r] => a \in sessionRow'[r]
  BY SessionRowsAre
<1>5. CASE i \in DOMAIN journal[r] /\ journal'[r][i] = journal[r][i]
  <2>1. ~ BeforeSplit(r, a, i)
    BY <1>1, <1>2, <1>5, DepartedBefore DEF Status
  <2>2. a \in sessionRow[r] /\ journal[r][i].boundary <= Len(transcript[r][a])
    BY <1>2, <1>5, <2>1 DEF LiveRows, Status
  <2>3. journal[r][i].boundary \in Nat
    BY <1>5 DEF IInv, Types, JournalTyped, Rows
  <2> QED
    BY <1>3, <1>4, <1>5, <2>2, <2>3
<1>6. CASE ~ (i \in DOMAIN journal[r] /\ journal'[r][i] = journal[r][i])
  <2>1. r = run
    BY <1>6, OtherRowsStay
  <2>2. CASE /\ turns[run][a] # <<>> /\ Len(transcript'[run][a]) = Len(transcript[run][a]) + 1
             /\ journal'[run][i].boundary \in {NoBoundary, Len(transcript[run][a]) + 1}
    <3>1. a \in sessionRow[run]
      BY <1>1, <2>2 DEF SessionsSeeded
    <3> QED
      BY <1>3, <1>4, <2>1, <2>2, <3>1
  <2>3. CASE TryImportedSettle /\ a = NextCall.who
    <3>1. split[run][a] = -1
      BY <2>3, ImportSettles
    <3>2. split'[run][a] = -1
      BY <2>3, <3>1, TryImportedSettleFrame
    <3> QED
      BY <1>2, <2>1, <3>2
  <2> QED
    BY <1>2, <1>6, <2>1, <2>2, <2>3, CompletedFate
<1> QED
  BY <1>5, <1>6

LEMMA MonotoneKept ==
    ASSUME IInv, Departures, SettledFirst, AcceptedLast, SessionsSeeded, LiveRows,
           Monotone, [Next]_vars
    PROVE  Monotone'
<1> USE DEF Departures
<1>1. run \in Runs /\ run \in Nat /\ plan' = plan /\ Scripts' = Scripts /\ plan \in Plans
  <2>1. run \in Runs /\ plan \in Plans
    BY DEF IInv, Types, ProgressTyped
  <2> QED
    BY <2>1, ScriptIs, ScriptsStay
<1>2. SUFFICES ASSUME NEW r \in Runs, NEW a \in Actors,
                      NEW i \in DOMAIN journal'[r], NEW j \in DOMAIN journal'[r],
                      i \in AsksIn(r, a), j \in AsksIn(r, a), i < j,
                      journal'[r][i].status = "completed", journal'[r][j].status = "completed",
                      journal'[r][j].boundary # NoBoundary
               PROVE  journal'[r][i].boundary <= journal'[r][j].boundary
  <2>1. \A r \in Runs : \A a \in Actors : AsksIn(r, a)' = AsksIn(r, a)
    BY ScriptsStay
  <2> QED
    BY <1>1, <2>1 DEF Monotone, Status
<1>3. CASE r # run
  <2>1. journal'[r] = journal[r]
    BY <1>3, OtherRowsStay
  <2> QED
    BY <1>2, <2>1 DEF Monotone, Status
<1>4. i \in Nat /\ j \in Nat /\ i # j
  BY <1>1, <1>2, ActorSeqIs
<1>5. CASE r = run /\ j \in DOMAIN journal[run] /\ journal'[run][j] = journal[run][j]
  <2>1. i \in DOMAIN journal[run] /\ Status(run, i) # "running"
    <3>1. i \in DOMAIN journal[run]
      BY <1>1, <1>2, <1>5, EarlierRow
    <3> QED
      BY <1>1, <1>2, <1>5, <3>1 DEF SettledFirst, Status
  <2>2. CASE journal'[run][i] = journal[run][i]
    BY <1>1, <1>2, <1>5, <2>1, <2>2 DEF Monotone, Status
  <2>3. CASE /\ turns[run][a] # <<>> /\ i = Head(turns[run][a]).call
             /\ Head(turns[run][a]).accepted
    <3>1. 1 \in DOMAIN turns[run][a] /\ Head(turns[run][a]) = turns[run][a][1]
      <4>1. turns[run][a] \in Seq(Turns)
        BY <1>1 DEF IInv, Types, TurnsTyped
      <4>2. Len(turns[run][a]) \in Nat /\ DOMAIN turns[run][a] = 1 .. Len(turns[run][a])
        BY <4>1, SeqIs
      <4>3. Len(turns[run][a]) >= 1 /\ Head(turns[run][a]) = turns[run][a][1]
        BY <2>3, <4>1, TailIs
      <4> QED
        BY <4>2, <4>3
    <3>2. Status(run, j) = "running"
      BY <1>2, <1>4, <1>5, <2>3, <3>1 DEF AcceptedLast
    <3> QED
      BY <1>2, <1>5, <3>2 DEF Status
  <2> QED
    BY <1>2, <1>5, <2>1, <2>2, <2>3, CompletedFate
<1>6. CASE /\ r = run /\ j \in DOMAIN journal[run] /\ turns[run][a] # <<>>
           /\ \A k \in DOMAIN journal[run] : k # j => journal'[run][k] = journal[run][k]
           /\ journal'[run][j].boundary \in {NoBoundary, Len(transcript[run][a]) + 1}
  <2>1. i \in DOMAIN journal[run]
    BY <1>1, <1>2, <1>6, EarlierRow
  <2>2. journal'[run][i] = journal[run][i]
    BY <1>4, <1>6, <2>1
  <2>3. a \in sessionRow[run]
    BY <1>1, <1>6 DEF SessionsSeeded
  <2>4. journal[run][i].boundary <= Len(transcript[run][a])
    BY <1>1, <1>2, <1>6, <2>1, <2>2, <2>3, BoundaryReached DEF Status
  <2>5. Len(transcript[run][a]) \in Nat
    BY <1>1, TranscriptsGrow
  <2>6. journal[run][i].boundary \in Nat
    BY <1>1, <2>1 DEF IInv, Types, JournalTyped, Rows
  <2> QED
    BY <1>2, <1>6, <2>2, <2>4, <2>5, <2>6
<1>7. CASE /\ r = run /\ j \notin DOMAIN journal[run] /\ j = issued + 1 /\ a = NextCall.who
           /\ TryImportedSettle
  <2>1. /\ i \in DOMAIN journal[run] /\ Status(run, i) = "completed" /\ split[run][a] = -1
    BY <1>2, <1>7, ImportSettles
  <2>2. ImportedRow(run, a, i)
    BY <1>1, <1>2, <1>7, <2>1 DEF SplitsRight, BeforeSplit, TornRow
  <2>3. ImportedRow(r, a, i)'
    BY <1>1, <1>2, <1>7, <2>1, <2>2, ImportedStays
  <2>4. ImportedRow(r, a, j)'
    <3>1. split'[run][a] = -1
      BY <1>7, <2>1, TryImportedSettleFrame
    <3>2. ImportedRow(r, a, j)' \/ TornRow(r, a, j)'
      BY <1>1, <1>2, <1>7, <3>1, NewRowRight
    <3> QED
      BY <1>2, <3>2 DEF TornRow, Status
  <2>5. Offered(r, a)' = Offered(r, a) /\ ActorSeq(r, i)' = ActorSeq(r, i)
        /\ ActorSeq(r, j)' = ActorSeq(r, j)
    BY <1>1, <1>7, OfferedStays, ScriptsStay
  <2> DEFINE k == ActorSeq(r, i) + 1
             l == ActorSeq(r, j) + 1
  <2>6. journal'[r][i].boundary = Offered(r, a)[k].boundary
        /\ journal'[r][j].boundary = Offered(r, a)[l].boundary
    BY <2>3, <2>4, <2>5 DEF ImportedRow
  <2>7. k \in DOMAIN Offered(r, a)
    BY <1>2, <1>7, <2>2, ImportedEntry
  <2>8. l \in DOMAIN Offered(r, a)
    <3>1. ActorSeq(r, j) < Len(Offered(r, a))
      BY <2>4, <2>5 DEF ImportedRow, Misses
    <3>2. ActorSeq(r, j) \in Nat
      BY <1>1, <1>2, ActorSeqIs
    <3>3. Len(Offered(r, a)) \in Nat /\ DOMAIN Offered(r, a) = 1 .. Len(Offered(r, a))
      BY OfferedTyped, SeqIs
    <3> QED
      BY <3>1, <3>2, <3>3
  <2>9. k <= l
    <3>1. ActorSeq(r, i) \in Nat /\ ActorSeq(r, j) \in Nat /\ ActorSeq(r, i) < ActorSeq(r, j)
      BY <1>1, <1>2, ActorSeqIs
    <3> QED
      BY <3>1
  <2> HIDE DEF k, l
  <2> QED
    BY <1>1, <1>7, <2>6, <2>7, <2>8, <2>9, OfferedMonotone
<1> QED
  BY <1>2, <1>3, <1>5, <1>6, <1>7, CompletedFate

\* The transcript that is copied from holds what is offered with it.
SourceHolds(r) ==
    \A a \in Actors : \A k \in DOMAIN CompletedAskPrefix(r, a) :
        /\ TranscriptSource(r, a) # NoRun
        /\ CompletedAskPrefix(r, a)[k].boundary <= Len(transcript[TranscriptSource(r, a)][a])

LEMMA SourcesHold ==
    ASSUME IInv, Departures, SessionsSeeded, LiveRows, Monotone
    PROVE  \A r \in Runs : r <= run => SourceHolds(r)
<1> USE DEF Departures
<1>1. /\ run \in Runs /\ plan \in Plans /\ Len(Scripts) \in Nat /\ Runs = 1 .. Len(Scripts)
      /\ sessionRow \in [Runs -> SUBSET Actors]
  <2>1. run \in Runs /\ plan \in Plans /\ sessionRow \in [Runs -> SUBSET Actors]
    BY DEF IInv, Types, ProgressTyped, StoreTyped
  <2> QED
    BY <2>1, ScriptIs
<1> DEFINE Wrong == {r \in Runs : r <= run /\ ~ SourceHolds(r)}
<1>2. SUFFICES ASSUME Wrong # {}
               PROVE  FALSE
  OBVIOUS
<1>3. Wrong \in SUBSET Nat
  BY <1>1
<1>4. PICK r \in Wrong : \A q \in Wrong : r <= q
  <2> HIDE DEF Wrong
  <2> QED
    BY <1>2, <1>3, LeastNumber
<1>5. r \in Runs /\ r \in Nat /\ r <= run /\ ~ SourceHolds(r)
  BY <1>1, <1>4
<1>6. \A q \in Runs : q < r => SourceHolds(q)
  BY <1>1, <1>4, <1>5
<1> HIDE DEF Wrong
<1> SUFFICES ASSUME NEW a \in Actors, NEW k \in DOMAIN CompletedAskPrefix(r, a)
             PROVE  /\ TranscriptSource(r, a) # NoRun
                    /\ CompletedAskPrefix(r, a)[k].boundary
                           <= Len(transcript[TranscriptSource(r, a)][a])
  BY <1>5 DEF SourceHolds
<1> DEFINE i == AsksOf(r, a)[k]
<1>7. k \in 1 .. Len(CompletedAskPrefix(r, a)) /\ k \in 1 .. Len(AsksOf(r, a)) /\ k \in Nat
      /\ k <= Len(CompletedAskPrefix(r, a))
  <2>1. /\ DOMAIN CompletedAskPrefix(r, a) = 1 .. Len(CompletedAskPrefix(r, a))
        /\ Len(CompletedAskPrefix(r, a)) \in 0 .. Len(AsksOf(r, a)) /\ Len(AsksOf(r, a)) \in Nat
    BY <1>1, <1>5, PrefixIs, AsksOfIs
  <2> QED
    BY <2>1
<1>8. Completed(r, i) /\ CompletedAskPrefix(r, a)[k] = EntryOf(r, i)
  BY <1>1, <1>5, <1>7, PrefixIs
<1>9. i \in AsksIn(r, a) /\ ActorSeq(r, i) = k - 1
  BY <1>1, <1>5, <1>7, AsksOfIs
<1> HIDE DEF i
<1>10. i \in DOMAIN journal[r] /\ Status(r, i) = "completed"
       /\ CompletedAskPrefix(r, a)[k].boundary = journal[r][i].boundary
  BY <1>8 DEF Completed, Recorded, EntryOf, Status
<1>11. /\ TranscriptSource(r, a) \in 0 .. r
       /\ TranscriptSource(r, a) # NoRun => a \in sessionRow[TranscriptSource(r, a)]
       /\ \A q \in 1 .. r : a \in sessionRow[q] => q <= TranscriptSource(r, a)
  BY <1>5, TranscriptSourceIs
<1>12. CASE a \in sessionRow[r]
  <2>1. TranscriptSource(r, a) = r
    BY <1>1, <1>5, <1>11, <1>12
  <2> QED
    BY <1>1, <1>5, <1>9, <1>10, <1>12, <2>1, BoundaryReached
<1>13. CASE a \notin sessionRow[r]
  <2>1. BeforeSplit(r, a, i)
    BY <1>5, <1>9, <1>10, <1>13 DEF LiveRows
  <2>2. ImportedRow(r, a, i)
    BY <1>5, <1>9, <1>10, <2>1 DEF SplitsRight, TornRow
  <2>3. k \in DOMAIN Offered(r, a) /\ journal[r][i].boundary = Offered(r, a)[k].boundary
    BY <1>5, <1>7, <1>9, <2>2, ImportedEntry DEF ImportedRow
  <2>4. r # 1 /\ Offered(r, a) = CompletedAskPrefix(r - 1, a)
    BY <2>3, EmptyIs DEF Offered
  <2>5. r - 1 \in Runs /\ r - 1 \in Nat
    BY <1>1, <1>5, <2>4
  <2>6. /\ TranscriptSource(r - 1, a) # NoRun
        /\ Offered(r, a)[k].boundary <= Len(transcript[TranscriptSource(r - 1, a)][a])
    <3>1. SourceHolds(r - 1)
      BY <1>5, <1>6, <2>5
    <3> QED
      BY <2>3, <2>4, <3>1 DEF SourceHolds
  <2>7. TranscriptSource(r, a) = TranscriptSource(r - 1, a)
    <3>1. {q \in 1 .. r : a \in sessionRow[q]} = {q \in 1 .. r - 1 : a \in sessionRow[q]}
      BY <1>5, <1>13, <2>5
    <3> QED
      BY <3>1 DEF TranscriptSource
  <2> QED
    BY <1>10, <2>3, <2>6, <2>7
<1> QED
  BY <1>12, <1>13

\* So all of it is taken.
LEMMA CandidatesAreAll ==
    ASSUME IInv, NEW r \in Runs, SourceHolds(r), NEW a \in Actors
    PROVE  CandidateEntries(r, a) = CompletedAskPrefix(r, a)
<1> DEFINE p == CompletedAskPrefix(r, a)
           source == TranscriptSource(r, a)
<1>1. plan \in Plans /\ JournalTyped
  BY DEF IInv, Types
<1>2. p \in Seq(Entries) /\ Len(p) \in Nat /\ DOMAIN p = 1 .. Len(p)
  BY <1>1, PrefixTyped, SeqIs
<1>3. CASE p = <<>>
  BY <1>3 DEF CandidateEntries
<1>4. CASE p # <<>>
  <2>1. Len(p) \in DOMAIN p /\ Last(p) = p[Len(p)]
    <3> HIDE DEF p
    <3>1. Len(p) >= 1
      BY <1>2, <1>4, TailIs
    <3> QED
      BY <1>2, <3>1 DEF Last
  <2>2. source # NoRun /\ p[Len(p)].boundary <= Len(transcript[source][a])
    BY <2>1 DEF SourceHolds
  <2>3. p[Len(p)].boundary \in Nat
    <3>1. p[Len(p)] \in Entries
      BY <1>2, <2>1
    <3> QED
      BY <3>1 DEF Entries
  <2>4. HonorsBoundary(r, a)
    <3>1. source \in Runs
      <4>1. source \in 0 .. r /\ r \in Nat
        BY <1>1, ScriptIs, TranscriptSourceIs
      <4> QED
        BY <1>1, <2>2, <4>1, ScriptIs
    <3>2. Len(transcript[source][a]) \in Nat
      BY <3>1, EmptyIs DEF IInv, Types, StoreTyped
    <3> QED
      BY <1>4, <2>1, <2>2, <2>3, <3>2 DEF HonorsBoundary
  <2> QED
    BY <2>4 DEF CandidateEntries
<1> QED
  BY <1>3, <1>4

\* The import of run r, as an engine is given it.
LEMMA CacheIs ==
    ASSUME IInv, NEW r \in Runs, r = 1 \/ SourceHolds(r - 1)
    PROVE  /\ \A a \in Actors : CacheFor(r).entries[a] = Offered(r, a)
           /\ \A h \in Hashes :
                  CacheFor(r).world[h] = IF r = 1 THEN <<>> ELSE WorldQueue(r - 1, h)
<1>1. CASE r = 1
  BY <1>1 DEF CacheFor, Offered
<1>2. CASE r # 1
  <2>1. r - 1 \in Runs
    BY <1>2, ScriptIs DEF IInv, Types
  <2>2. \A a \in Actors : CandidateEntries(r - 1, a) = CompletedAskPrefix(r - 1, a)
    BY <1>2, <2>1, CandidatesAreAll
  <2>3. /\ \A a \in Actors : CacheFor(r).entries[a] =
               IF MatchedActor(r, a) THEN CandidateEntries(r - 1, a) ELSE <<>>
        /\ \A h \in Hashes : CacheFor(r).world[h] = WorldQueue(r - 1, h)
    BY <1>2 DEF CacheFor
  <2> QED
    BY <1>2, <2>2, <2>3 DEF Offered
<1> QED
  BY <1>1, <1>2

LEMMA CacheRightKept ==
    ASSUME IInv, Departures, SessionsSeeded, LiveRows, Monotone, [Next]_vars
    PROVE  CacheRight'
<1>1. run \in Runs /\ run \in Nat /\ plan' = plan /\ Scripts' = Scripts
      /\ Runs = 1 .. Len(Scripts) /\ Len(Scripts) \in Nat
  <2>1. run \in Runs /\ plan \in Plans
    BY DEF IInv, Types, ProgressTyped
  <2> QED
    BY <2>1, ScriptIs, ScriptsStay
<1>2. SUFFICES ASSUME engine' = "live"
               PROVE  /\ \A a \in Actors : cache'.entries[a] = Offered(run, a)'
                      /\ \A h \in Hashes : cache'.world[h] =
                             IF run' = 1 THEN <<>> ELSE WorldQueue(run - 1, h)'
  BY DEF CacheRight
<1>3. ASSUME NEW r \in Runs, r = run', r = 1 \/ (r - 1 \in Runs /\ journal'[r - 1] = journal[r - 1])
      PROVE  /\ \A a \in Actors : Offered(run, a)' = Offered(r, a)
             /\ r # 1 => \A h \in Hashes : WorldQueue(run - 1, h)' = WorldQueue(r - 1, h)
  <2>1. r # 1 => /\ \A a : CompletedAskPrefix(r - 1, a)' = CompletedAskPrefix(r - 1, a)
                 /\ \A h : WorldQueue(r - 1, h)' = WorldQueue(r - 1, h)
    BY <1>3, OffersStay
  <2>2. \A a : MatchedActor(r, a)' <=> MatchedActor(r, a)
    BY ScriptsStay DEF MatchedActor
  <2>3. \A a \in Actors : Offered(r, a)' = Offered(r, a)
    BY <2>1, <2>2 DEF Offered
  <2>4. r # 1 => \A h \in Hashes : WorldQueue(run - 1, h)' = WorldQueue(r - 1, h)'
    BY <1>3 DEF WorldQueue, Completed, Recorded
  <2>5. \A a \in Actors : Offered(run, a)' = Offered(r, a)'
    BY <1>3 DEF Offered, MatchedActor, CompletedAskPrefix, AsksOf, Completed, Recorded
  <2> QED
    BY <2>1, <2>3, <2>4, <2>5
<1>4. CASE UNCHANGED <<run, engine, cache, wasLive>>
  <2>1. run = 1 \/ (run - 1 \in Runs /\ journal'[run - 1] = journal[run - 1])
    BY <1>1, OtherRowsStay
  <2>2. /\ \A a \in Actors : Offered(run, a)' = Offered(run, a)
        /\ run # 1 => \A h \in Hashes : WorldQueue(run - 1, h)' = WorldQueue(run - 1, h)
    BY <1>1, <1>3, <1>4, <2>1
  <2> QED
    BY <1>2, <1>4, <2>2 DEF Departures, CacheRight
<1>5. ASSUME NEW r \in Runs, r = run', cache' = CacheFor(r), journal' = journal,
             r = 1 \/ r - 1 <= run
      PROVE  /\ \A a \in Actors : cache'.entries[a] = Offered(run, a)'
             /\ \A h \in Hashes : cache'.world[h] =
                    IF run' = 1 THEN <<>> ELSE WorldQueue(run - 1, h)'
  <2>1. r = 1 \/ (r - 1 \in Runs /\ r - 1 <= run)
    BY <1>1, <1>5
  <2>2. r = 1 \/ SourceHolds(r - 1)
    BY <2>1, SourcesHold
  <2>3. /\ \A a \in Actors : CacheFor(r).entries[a] = Offered(r, a)
        /\ \A h \in Hashes :
               CacheFor(r).world[h] = IF r = 1 THEN <<>> ELSE WorldQueue(r - 1, h)
    BY <2>2, CacheIs
  <2> QED
    BY <1>3, <1>5, <2>1, <2>3
<1>6. CASE Resume /\ run' = run /\ cache' = CacheFor(run)
  BY <1>1, <1>5, <1>6, ResumeFrame
<1>7. CASE Amend /\ run' = run + 1 /\ run + 1 \in Runs /\ cache' = CacheFor(run + 1)
  BY <1>1, <1>5, <1>7, AmendFrame
<1> QED
  BY <1>2, <1>4, <1>6, <1>7, EnginesAre

\* What keeps the import and the decisions about it the same across lives.
ImportInv ==
    /\ Departures /\ TornLast
    /\ OpenAll /\ SettledFirst /\ AcceptedLast
    /\ SessionsSeeded /\ LiveRows /\ Monotone

LEMMA InitImportInv == Init => ImportInv
<1> SUFFICES ASSUME Init
             PROVE  ImportInv
  OBVIOUS
<1>1. IInv
  BY InitIInv
<1>2. /\ run = 1 /\ issued = 0 /\ engine = "live" /\ shut = FALSE /\ closedEvent = {}
      /\ cache = CacheFor(1) /\ wasLive = {}
      /\ queuedEvents = [r \in Runs |-> {}]
      /\ 1 \in Runs /\ plan \in Plans
      /\ \A r \in Runs : /\ DOMAIN journal[r] = {} /\ sessionRow[r] = {}
                         /\ \A a \in Actors : /\ split[r][a] = -1 /\ turns[r][a] = <<>>
                                              /\ session[r][a] = Unopened
      /\ \A a \in Actors : cursor[a] = FreshCursor /\ current[a] = NoCall
  BY ScriptIs, EmptyIs DEF Init, PerRun, PerActor
<1>3. Made(1) \in Nat /\ \A a : Made(a) = 0
  <2>1. \A a : {i \in 1 .. issued : Scripts[run][i].who = a} = {}
    BY <1>2
  <2> QED
    BY <2>1, FS_EmptySet DEF Made
<1>4. RowsDense /\ RowsBehind /\ WasLiveRight /\ NeverShut /\ Bounded
  <2>1. Bounded
    <3>1. \A r \in Runs : ~ (r < run)
      BY <1>2, ScriptIs
    <3> QED
      BY <3>1 DEF Bounded
  <2>2. NeverShut /\ RowsBehind /\ WasLiveRight
    BY <1>2 DEF NeverShut, RowsBehind, WasLiveRight
  <2>3. RowsDense
    BY <1>2 DEF RowsDense
  <2> QED
    BY <2>1, <2>2, <2>3
<1>5. CacheRight
  BY <1>1, <1>2, CacheIs DEF CacheRight
<1>6. SplitsRight /\ TornLast /\ SettledFirst /\ LiveRows /\ Monotone
  BY <1>2 DEF SplitsRight, TornLast, SettledFirst, LiveRows, Monotone
<1>7. CursorRight
  <2>1. \A a \in Actors : \A i \in AsksIn(run, a) : ~ (i <= issued)
    BY <1>2, ScriptIs DEF AsksIn
  <2>2. \A a \in Actors : /\ ~ cursor[a].diverged /\ cursor[a].consumed = 0
                          /\ Made(a) = 0 /\ split[run][a] = -1
    BY <1>2, <1>3 DEF FreshCursor
  <2>3. \A a \in Actors : ~ (split[run][a] \in 0 .. Made(a) - 1)
    BY <2>2
  <2> QED
    BY <1>2, <2>1, <2>2, <2>3 DEF CursorRight
<1>8. OpenAll
  <2>1. \A a \in Actors : \A i \in AsksIn(run, a) : ~ (i <= issued)
    BY <1>2, ScriptIs DEF AsksIn
  <2> QED
    BY <2>1 DEF OpenAll
<1>9. AcceptedLast
  BY <1>2, EmptyIs DEF AcceptedLast
<1>10. SessionsSeeded
  BY <1>2, UnopenedTyped DEF SessionsSeeded
<1> QED
  BY <1>4, <1>5, <1>6, <1>7, <1>8, <1>9, <1>10 DEF ImportInv, Departures

LEMMA NextImportInv ==
    ASSUME IInv, ImportInv, Rebuildable(plan), [Next]_vars
    PROVE  ImportInv'
<1> USE DEF ImportInv
<1>1. NeverShut' /\ RowsDense' /\ RowsBehind' /\ Bounded' /\ WasLiveRight'
  BY NeverShutKept, RowsDenseKept, RowsBehindKept, BoundedKept, WasLiveRightKept DEF Departures
<1>2. CacheRight' /\ CursorRight' /\ SplitsRight' /\ TornLast'
  BY CacheRightKept, CursorRightKept, SplitsRightKept, TornLastKept
<1>3. OpenAll' /\ SettledFirst' /\ AcceptedLast'
  BY OpenAllKept, SettledFirstKept, AcceptedLastKept DEF Departures
<1>4. SessionsSeeded' /\ LiveRows' /\ Monotone'
  BY SessionsSeededKept, LiveRowsKept, MonotoneKept
<1> QED
  BY <1>1, <1>2, <1>3, <1>4 DEF Departures

LEMMA ImportInvIsSound == IInv /\ ImportInv => ImportSound
<1> SUFFICES ASSUME IInv, ImportInv
             PROVE  ImportSound
  OBVIOUS
<1> USE DEF ImportInv
<1>1. TypeOK
  BY TypesGiveTypeOK
<1>2. run \in Runs /\ plan \in Plans /\ JournalTyped /\ CacheTyped
  BY DEF IInv, Types, ProgressTyped
<1>3. ImportReproducible
  <2>1. SUFFICES ASSUME engine = "live"
                 PROVE  /\ cache.entries = CacheFor(run).entries
                        /\ cache.world = CacheFor(run).world
    BY DEF ImportReproducible
  <2>2. run = 1 \/ SourceHolds(run - 1)
    <3>1. run # 1 => run - 1 \in Runs /\ run - 1 <= run
      BY <1>2, ScriptIs
    <3> QED
      BY <3>1, SourcesHold
  <2>3. /\ \A a \in Actors : cache.entries[a] = CacheFor(run).entries[a]
        /\ \A h \in Hashes : cache.world[h] = CacheFor(run).world[h]
    BY <1>2, <2>1, <2>2, CacheIs DEF Departures, CacheRight
  <2>4. /\ cache.entries \in [Actors -> Seq(Entries)] /\ cache.world \in [Hashes -> Seq(Answers)]
        /\ CacheFor(run).entries \in [Actors -> Seq(Entries)]
        /\ CacheFor(run).world \in [Hashes -> Seq(Answers)]
    BY <1>2, CacheForTyped DEF CacheTyped
  <2> QED
    BY <2>3, <2>4
<1>4. DecisionsRebuilt
  BY DEF DecisionsRebuilt, Departures, CursorRight, Made
<1> QED
  BY <1>1, <1>3, <1>4 DEF ImportSound

\* For every plan in which no process dies between the row of an ask and its
\* event, or in which nothing ever closes the import: what a resume rebuilds is
\* the import the engine was given, and every subagent has departed from it, and
\* has followed it, exactly as far as in the life that crashed.  The
\* configuration `torn` shows what a crash in that gap does otherwise: the
\* resumed engine takes the ask for one that was imported.
THEOREM ImportAlwaysSound ==
    ASSUME \A p \in Plans : Rebuildable(p)
    PROVE  Spec => []ImportSound
<1>1. Init => IInv /\ ImportInv
  BY InitIInv, InitImportInv
<1>2. IInv /\ ImportInv /\ [Next]_vars => (IInv /\ ImportInv)'
  <2> SUFFICES ASSUME IInv, ImportInv, [Next]_vars
               PROVE  (IInv /\ ImportInv)'
    OBVIOUS
  <2>1. Rebuildable(plan)
    BY DEF IInv, Types
  <2> QED
    BY <2>1, NextIInv, NextImportInv
<1>3. IInv /\ ImportInv => ImportSound
  BY ImportInvIsSound
<1> QED
  BY <1>1, <1>2, <1>3, PTL DEF Spec
=============================================================================
