------------------------ MODULE AmendedHistoryProofs ------------------------
(***************************************************************************)
(* What the transcripts of AmendedRuns contain: the theorems about what    *)
(* the model sees in a turn, and what a boundary addresses.                *)
(*                                                                         *)
(* StoryInv follows the exchanges through copies, late sessions and late   *)
(* turns; Ordered and Told draw from it, run by run along the chain, what  *)
(* one transcript says.                                                    *)
(***************************************************************************)
EXTENDS AmendedRunsProofs

USE DEF Runs, Calls, NoRun, NoCall, NoBoundary

-----------------------------------------------------------------------------
\* The transcript an import is read with

\* An entry of what a run offers is the row of a completed ask.
LEMMA PrefixRow ==
    ASSUME IInv, NEW r \in Runs, NEW a, NEW k \in DOMAIN CompletedAskPrefix(r, a)
    PROVE  LET i == AsksOf(r, a)[k] IN
           /\ k \in Nat /\ k >= 1 /\ k <= Len(CompletedAskPrefix(r, a))
           /\ k \in 1 .. Len(AsksOf(r, a)) /\ i \in AsksIn(r, a) /\ ActorSeq(r, i) = k - 1
           /\ i \in DOMAIN journal[r] /\ Status(r, i) = "completed"
           /\ CompletedAskPrefix(r, a)[k].answer = journal[r][i].answer
           /\ CompletedAskPrefix(r, a)[k].boundary = journal[r][i].boundary
           /\ journal[r][i].boundary \in Nat
<1> DEFINE i == AsksOf(r, a)[k]
<1>1. plan \in Plans /\ JournalTyped
  BY DEF IInv, Types
<1>2. /\ k \in Nat /\ k >= 1 /\ k <= Len(CompletedAskPrefix(r, a))
      /\ k \in 1 .. Len(AsksOf(r, a)) /\ k \in 1 .. Len(CompletedAskPrefix(r, a))
  <2>1. /\ DOMAIN CompletedAskPrefix(r, a) = 1 .. Len(CompletedAskPrefix(r, a))
        /\ Len(CompletedAskPrefix(r, a)) \in 0 .. Len(AsksOf(r, a)) /\ Len(AsksOf(r, a)) \in Nat
    BY <1>1, PrefixIs, AsksOfIs
  <2> QED
    BY <2>1
<1>3. Completed(r, i) /\ CompletedAskPrefix(r, a)[k] = EntryOf(r, i)
  BY <1>1, <1>2, PrefixIs
<1>4. i \in AsksIn(r, a) /\ ActorSeq(r, i) = k - 1
  BY <1>1, <1>2, AsksOfIs
<1> HIDE DEF i
<1>5. i \in DOMAIN journal[r] /\ Status(r, i) = "completed"
  BY <1>3 DEF Completed, Recorded, Status
<1>6. journal[r][i].boundary \in Nat
  BY <1>1, <1>5 DEF JournalTyped, Rows
<1> QED
  BY <1>2, <1>3, <1>4, <1>5, <1>6 DEF EntryOf, i

\* The row of a completed ask of a subagent that had not departed is the one its
\* predecessor offered.
LEMMA Inherited ==
    ASSUME IInv, ImportInv, NEW r \in Runs, NEW a \in Actors, NEW i \in DOMAIN journal[r],
           i \in AsksIn(r, a), Status(r, i) = "completed", BeforeSplit(r, a, i)
    PROVE  LET k == ActorSeq(r, i) + 1 IN
           /\ r \in Nat /\ r # 1 /\ r <= run /\ r - 1 \in Runs /\ k \in Nat
           /\ Offered(r, a) = CompletedAskPrefix(r - 1, a)
           /\ k \in DOMAIN CompletedAskPrefix(r - 1, a)
           /\ journal[r][i].answer = CompletedAskPrefix(r - 1, a)[k].answer
           /\ journal[r][i].boundary = CompletedAskPrefix(r - 1, a)[k].boundary
           /\ journal[r][i].boundary # NoBoundary
<1> DEFINE k == ActorSeq(r, i) + 1
<1>1. plan \in Plans /\ Runs = 1 .. Len(Scripts) /\ Len(Scripts) \in Nat /\ r \in Nat /\ r <= run
  <2>1. plan \in Plans /\ r <= run
    BY DEF IInv, Types, ImportInv, Departures, RowsBehind
  <2> QED
    BY <2>1, ScriptIs
<1>2. ImportedRow(r, a, i)
  BY DEF ImportInv, Departures, SplitsRight, TornRow
<1>3. k \in DOMAIN Offered(r, a) /\ k \in Nat
  BY <1>2, ImportedEntry
<1>4. r # 1 /\ Offered(r, a) = CompletedAskPrefix(r - 1, a)
  BY <1>3, EmptyIs DEF Offered
<1>5. Offered(r, a)[k].boundary # NoBoundary
  BY <1>1, <1>3, OfferedBound DEF ImportInv, Departures
<1> HIDE DEF k
<1>6. /\ journal[r][i].answer = Offered(r, a)[k].answer
      /\ journal[r][i].boundary = Offered(r, a)[k].boundary
  BY <1>2 DEF ImportedRow, k
<1> QED
  BY <1>1, <1>3, <1>4, <1>5, <1>6 DEF k

\* What a subagent has been given by runs in which it has no session, its import
\* of the first of them already had.
LEMMA LateDepth ==
    ASSUME IInv, ImportInv, NEW p \in Runs, NEW a \in Actors, split[p][a] # -1
    PROVE  \A q \in Runs : p <= q /\ (\A t \in p .. q : a \notin sessionRow[t]) =>
               \A i \in DOMAIN journal[q] :
                   i \in AsksIn(q, a) /\ Status(q, i) = "completed" =>
                       journal[q][i].boundary <= Depth(p, a)
<1> DEFINE Right(q) == \A i \in DOMAIN journal[q] :
                           i \in AsksIn(q, a) /\ Status(q, i) = "completed" =>
                               journal[q][i].boundary <= Depth(p, a)
           Unheld(q) == p <= q /\ \A t \in p .. q : a \notin sessionRow[t]
           Wrong == {q \in Runs : Unheld(q) /\ ~ Right(q)}
<1>1. plan \in Plans /\ Runs = 1 .. Len(Scripts) /\ Len(Scripts) \in Nat
  <2>1. plan \in Plans
    BY DEF IInv, Types
  <2> QED
    BY <2>1, ScriptIs
<1>2. SUFFICES ASSUME Wrong # {}
               PROVE  FALSE
  OBVIOUS
<1>3. Wrong \in SUBSET Nat
  BY <1>1
<1>4. PICK q \in Wrong : \A u \in Wrong : q <= u
  <2> HIDE DEF Wrong
  <2> QED
    BY <1>2, <1>3, LeastNumber
<1>5. q \in Runs /\ q \in Nat /\ p \in Nat /\ Unheld(q) /\ ~ Right(q)
  BY <1>1, <1>4
<1>6. \A u \in Runs : u < q /\ Unheld(u) => Right(u)
  BY <1>1, <1>4, <1>5
<1> HIDE DEF Wrong
<1>7. PICK i \in DOMAIN journal[q] :
          /\ i \in AsksIn(q, a) /\ Status(q, i) = "completed"
          /\ ~ (journal[q][i].boundary <= Depth(p, a))
  BY <1>5
<1>8. a \notin sessionRow[q]
  BY <1>5
<1>9. BeforeSplit(q, a, i)
  BY <1>5, <1>7, <1>8 DEF ImportInv, LiveRows
<1> DEFINE k == ActorSeq(q, i) + 1
           before == CompletedAskPrefix(q - 1, a)
<1>10. /\ q # 1 /\ q <= run /\ q - 1 \in Runs /\ k \in Nat
       /\ Offered(q, a) = before /\ k \in DOMAIN before
       /\ journal[q][i].boundary = before[k].boundary
  BY <1>5, <1>7, <1>9, Inherited
<1>11. CASE q = p
  <2> DEFINE s == split[p][a]
  <2>1. s \in Nat /\ s <= Len(Offered(p, a))
    BY <1>11, DepthTyped DEF ImportInv
  <2>2. ActorSeq(q, i) < s
    BY <1>9, <1>11 DEF BeforeSplit
  <2>3. ActorSeq(q, i) \in Nat
    BY <1>1, <1>5, <1>7, ActorSeqIs
  <2>4. k <= s /\ s > 0
    BY <2>1, <2>2, <2>3
  <2>5. s \in DOMAIN Offered(p, a)
    <3>1. DOMAIN Offered(p, a) = 1 .. Len(Offered(p, a)) /\ Len(Offered(p, a)) \in Nat
      BY OfferedTyped, SeqIs
    <3> HIDE DEF s
    <3> QED
      BY <2>1, <2>4, <3>1
  <2>6. before[k].boundary <= Offered(p, a)[s].boundary
    <3> HIDE DEF s, k, before
    <3> QED
      BY <1>5, <1>10, <1>11, <2>4, <2>5, OfferedMonotone DEF ImportInv, Departures
  <2>7. Depth(p, a) = Offered(p, a)[s].boundary
    BY <2>4 DEF Depth
  <2> QED
    BY <1>7, <1>10, <2>6, <2>7
<1>12. CASE q # p
  <2> DEFINE j == AsksOf(q - 1, a)[k]
  <2>1. q - 1 < q /\ p <= q - 1 /\ \A t \in p .. q - 1 : t \in p .. q
    BY <1>5, <1>12
  <2>2. Right(q - 1)
    BY <1>5, <1>6, <1>10, <2>1
  <2>3. /\ j \in DOMAIN journal[q - 1] /\ j \in AsksIn(q - 1, a)
        /\ Status(q - 1, j) = "completed" /\ before[k].boundary = journal[q - 1][j].boundary
    BY <1>10, PrefixRow
  <2> HIDE DEF j, before, k
  <2>4. journal[q - 1][j].boundary <= Depth(p, a)
    BY <2>2, <2>3
  <2> QED
    BY <1>7, <1>10, <2>3, <2>4
<1> QED
  BY <1>11, <1>12

\* A session from which the copy of run r may be made up to message b: it says
\* there what the session says that the chain now leads to.
Rooted(s, r, a, b) ==
    /\ s \in 1 .. r - 1 /\ a \in sessionRow[s] /\ b <= Len(transcript[s][a])
    /\ \A m \in 1 .. b : transcript[s][a][m] = transcript[TranscriptSource(r - 1, a)][a][m]
\* The same after a step.
RootedNext(s, r, a, b) ==
    /\ s \in 1 .. r - 1 /\ a \in sessionRow'[s] /\ b <= Len(transcript'[s][a])
    /\ \A m \in 1 .. b : transcript'[s][a][m] = transcript'[TranscriptSource(r - 1, a)'][a][m]
\* The engine holds such a session for all that is offered.
SourceKept ==
    engine = "live" => \A a \in Actors : \A k \in DOMAIN Offered(run, a) :
        Rooted(cache.source[a], run, a, Offered(run, a)[k].boundary)
\* The transcript of a run begins with the copy, whole or in part, and a session
\* that is opened again is not copied again.
Copied ==
    \A r \in Runs : \A a \in Actors :
        /\ a \notin sessionRow[r] =>
               Len(transcript[r][a]) = 0 \/ Len(transcript[r][a]) <= Depth(r, a)
        /\ split[r][a] > 0 => \A m \in 1 .. Depth(r, a) : m <= Len(transcript[r][a]) =>
               transcript[r][a][m] = transcript[TranscriptSource(r - 1, a)][a][m]
        /\ session[r][a].state = "seeding" =>
               /\ split[r][a] > 0 => Rooted(session[r][a].seed.source, r, a, Depth(r, a))
               /\ a \in sessionRow[r] => session[r][a].copied = 0

LEMMA SourceIs ==
    ASSUME NEW r \in Nat, NEW a
    PROVE  /\ r # 0 /\ a \in sessionRow[r] => TranscriptSource(r, a) = r
           /\ r # 0 /\ a \notin sessionRow[r] => TranscriptSource(r, a) = TranscriptSource(r - 1, a)
           /\ \A t \in 1 .. r : (\A q \in t .. r : a \notin sessionRow[q]) =>
                  TranscriptSource(r, a) = TranscriptSource(t - 1, a)
<1>1. /\ TranscriptSource(r, a) \in 0 .. r
      /\ \A q \in 1 .. r : a \in sessionRow[q] => q <= TranscriptSource(r, a)
  BY TranscriptSourceIs
<1>2. ASSUME r # 0, a \in sessionRow[r]
      PROVE  TranscriptSource(r, a) = r
  BY <1>1, <1>2
<1>3. ASSUME NEW t \in 1 .. r, \A q \in t .. r : a \notin sessionRow[q]
      PROVE  TranscriptSource(r, a) = TranscriptSource(t - 1, a)
  <2>1. {q \in 1 .. r : a \in sessionRow[q]} = {q \in 1 .. t - 1 : a \in sessionRow[q]}
    <3>1. \A q \in 1 .. r : q \in 1 .. t - 1 \/ q \in t .. r
      OBVIOUS
    <3>2. \A q \in 1 .. t - 1 : q \in 1 .. r
      OBVIOUS
    <3> QED
      BY <1>3, <3>1, <3>2
  <2> QED
    BY <2>1 DEF TranscriptSource
<1>4. ASSUME r # 0, a \notin sessionRow[r]
      PROVE  TranscriptSource(r, a) = TranscriptSource(r - 1, a)
  <2>1. r \in 1 .. r /\ \A q \in r .. r : q = r
    BY <1>4
  <2> QED
    BY <1>3, <1>4, <2>1
<1> QED
  BY <1>2, <1>3, <1>4

\* The session the chain leads to changes when one opens late.
LEMMA SourceMoves ==
    ASSUME IInv, [Next]_vars, NEW r \in Runs, NEW a \in Actors
    PROVE  \/ TranscriptSource(r, a)' = TranscriptSource(r, a)
           \/ \E t \in Runs :
                  /\ t \in 1 .. r /\ SessionOpens(t, a) /\ transcript' = transcript
                  /\ session[t][a].state = "seeding" /\ ~ Copying(t, a)
                  /\ TranscriptSource(r, a)' = t
                  /\ \A q \in t .. r : a \notin sessionRow[q]
<1> DEFINE held == {q \in 1 .. r : a \in sessionRow[q]}
           heldNext == {q \in 1 .. r : a \in sessionRow'[q]}
<1>1. /\ r \in Nat /\ r \in 1 .. r /\ Runs = 1 .. Len(Scripts) /\ Len(Scripts) \in Nat
      /\ sessionRow \in [Runs -> SUBSET Actors]
  <2>1. plan \in Plans /\ sessionRow \in [Runs -> SUBSET Actors]
    BY DEF IInv, Types, StoreTyped
  <2> QED
    BY <2>1, ScriptIs
<1>2. /\ TranscriptSource(r, a) = Max({NoRun} \union held)
      /\ TranscriptSource(r, a)' = Max({NoRun} \union heldNext)
  BY DEF TranscriptSource
<1>3. SUFFICES ASSUME TranscriptSource(r, a)' # TranscriptSource(r, a)
               PROVE  \E t \in Runs :
                          /\ t \in 1 .. r /\ SessionOpens(t, a) /\ transcript' = transcript
                          /\ session[t][a].state = "seeding" /\ ~ Copying(t, a)
                          /\ TranscriptSource(r, a)' = t
                          /\ \A q \in t .. r : a \notin sessionRow[q]
  OBVIOUS
<1>4. heldNext # held
  BY <1>2, <1>3
<1>5. PICK q \in Runs, b \in Actors :
          /\ SessionOpens(q, b) /\ session[q][b].state = "seeding" /\ ~ Copying(q, b)
          /\ sessionRow'[q] = sessionRow[q] \union {b}
          /\ \A p \in Runs : p # q => sessionRow'[p] = sessionRow[p]
  BY <1>4, SessionRowsAre
<1>6. \A p \in 1 .. r : p \in Runs
  BY <1>1
<1>7. b = a /\ q \in 1 .. r /\ a \notin sessionRow[q]
  <2>1. PICK p \in 1 .. r : (a \in sessionRow'[p]) # (a \in sessionRow[p])
    BY <1>4
  <2>2. p = q /\ a \in sessionRow'[q] /\ a \notin sessionRow[q]
    BY <1>5, <1>6, <2>1
  <2> QED
    BY <1>5, <2>1, <2>2
<1>8. transcript' = transcript
  BY <1>5, SessionOpensFrame
<1>9. heldNext = held \union {q}
  BY <1>5, <1>6, <1>7
<1> HIDE DEF held, heldNext
<1> DEFINE top == Max({NoRun} \union held)
<1>10. held \in SUBSET (1 .. r) /\ q \in 1 .. r /\ q \in Nat
  BY <1>7 DEF held
<1>11. top \in {NoRun} \union held /\ \A k \in {NoRun} \union held : k <= top
  <2>1. {NoRun} \union held \in SUBSET (0 .. r)
    BY <1>1, <1>10
  <2>2. {NoRun} \union held # {}
    OBVIOUS
  <2> HIDE DEF NoRun
  <2> QED
    BY <1>1, <2>1, <2>2, MaxIs
<1>12. /\ TranscriptSource(r, a)' \in {NoRun} \union held \union {q}
       /\ \A k \in {NoRun} \union held \union {q} : k <= TranscriptSource(r, a)'
  <2>1. {NoRun} \union (held \union {q}) \in SUBSET (0 .. r)
    <3>1. \A k \in 1 .. r : k \in 0 .. r
      BY <1>1
    <3>2. NoRun \in 0 .. r
      BY <1>1
    <3> QED
      BY <1>10, <3>1, <3>2
  <2>2. {NoRun} \union (held \union {q}) # {}
    OBVIOUS
  <2> HIDE DEF NoRun
  <2> QED
    BY <1>1, <1>2, <1>9, <2>1, <2>2, MaxIs
<1>13. top \in Nat /\ TranscriptSource(r, a)' \in Nat /\ TranscriptSource(r, a)' # top
  <2>1. \A k \in {NoRun} \union held \union {q} : k \in Nat
    BY <1>1, <1>10
  <2>2. top \in Nat /\ TranscriptSource(r, a)' \in Nat
    BY <1>11, <1>12, <2>1
  <2> QED
    BY <1>2, <1>3, <2>2
<1>14. TranscriptSource(r, a)' = q /\ top < q
  <2>1. top <= TranscriptSource(r, a)' /\ q <= TranscriptSource(r, a)'
    BY <1>11, <1>12
  <2>2. TranscriptSource(r, a)' = q \/ TranscriptSource(r, a)' <= top
    BY <1>11, <1>12
  <2> QED
    BY <1>10, <1>13, <2>1, <2>2
<1>15. \A p \in q .. r : a \notin sessionRow[p]
  <2>1. SUFFICES ASSUME NEW p \in q .. r, a \in sessionRow[p]
                 PROVE  FALSE
    OBVIOUS
  <2>2. p \in held /\ p \in Nat /\ q <= p
    BY <1>10, <2>1 DEF held
  <2> QED
    BY <1>10, <1>11, <1>13, <1>14, <2>2
<1> QED
  BY <1>5, <1>7, <1>8, <1>14, <1>15

\* Messages of a session whose row is written stay where they are.
LEMMA HolderStays ==
    ASSUME IInv, ImportInv, Copied, [Next]_vars, NEW r \in Runs, NEW a \in Actors,
           a \in sessionRow[r]
    PROVE  \A m \in 1 .. Len(transcript[r][a]) :
               /\ m \in 1 .. Len(transcript'[r][a])
               /\ transcript'[r][a][m] = transcript[r][a][m]
<1> DEFINE s == transcript[r][a]
<1>1. StoreTyped /\ SessionTyped /\ IsSeq(s) /\ Len(s) \in Nat
  BY EmptyIs DEF IInv, Types, StoreTyped
<1>2. CASE transcript'[r][a] = s
  BY <1>2
<1>3. CASE SeedMessage(r, a)
  <2> DEFINE c == session[r][a]
  <2>1. /\ c.state = "seeding" /\ c.copied \in Nat
        /\ c.copied > 0 \/ Len(s) < c.seed.length
    BY <1>1, <1>3, SeedIs
  <2>2. c.state = "seeding"
    BY <1>1, <1>3, SeedIs
  <2>3. c.copied = 0
    BY <2>2 DEF Copied
  <2>4. c.seed.length = Depth(r, a) /\ Depth(r, a) <= Len(s) /\ split[r][a] # -1
    BY <2>2 DEF ImportInv, SessionsSeeded
  <2>5. Depth(r, a) \in Nat
    BY <2>4, DepthTyped DEF ImportInv
  <2> HIDE DEF c, s
  <2> QED
    BY <1>1, <2>1, <2>3, <2>4, <2>5
<1>4. CASE \E i : transcript'[r][a] = Append(s, i)
  <2> HIDE DEF s
  <2>1. PICK i : transcript'[r][a] = Append(s, i)
    BY <1>4
  <2>2. /\ Len(Append(s, i)) = Len(s) + 1
        /\ \A k \in 1 .. Len(s) : Append(s, i)[k] = s[k]
    BY <1>1, AppendIs
  <2> QED
    BY <1>1, <2>1, <2>2 DEF s
<1> HIDE DEF s
<1>5. ASSUME NEW q \in Runs, NEW b \in Actors, SeedMessage(q, b)
      PROVE  transcript'[r][a] = s \/ SeedMessage(r, a)
  BY <1>1, <1>5, SeedIs DEF TalksOnly, s
<1>6. ASSUME NEW q \in Runs, NEW b \in Actors, NEW i \in Nat, transcript' = Says(q, b, i)
      PROVE  transcript'[r][a] = s \/ \E x : transcript'[r][a] = Append(s, x)
  BY <1>1, <1>6, SaysIs DEF TalksOnly, s
<1> QED
  BY <1>2, <1>3, <1>4, <1>5, <1>6, TalkIs DEF s

\* The copy of a session that opens is whole.
LEMMA OpensWhole ==
    ASSUME IInv, ImportInv, NEW r \in Runs, NEW a \in Actors,
           session[r][a].state = "seeding", ~ Copying(r, a)
    PROVE  /\ split[r][a] # -1 /\ Depth(r, a) \in Nat
           /\ Len(transcript[r][a]) \in Nat /\ Depth(r, a) <= Len(transcript[r][a])
<1> DEFINE c == session[r][a]
           n == Len(transcript[r][a])
<1>1. /\ split[r][a] # -1 /\ c.seed.length = Depth(r, a) /\ c.copied <= n
  BY DEF ImportInv, SessionsSeeded
<1>2. Depth(r, a) \in Nat
  BY <1>1, DepthTyped DEF ImportInv
<1>3. n \in Nat /\ c.copied \in Nat
  <2>1. session[r][a] \in Copies
    BY DEF IInv, Types, SessionTyped
  <2>2. n \in Nat
    BY EmptyIs DEF IInv, Types, StoreTyped
  <2> QED
    BY <2>1, <2>2 DEF Copies
<1>4. ~ (c.copied < c.seed.length /\ (c.copied > 0 \/ n < c.seed.length))
  BY DEF Copying
<1> HIDE DEF c, n
<1>5. Depth(r, a) <= n
  BY <1>1, <1>2, <1>3, <1>4
<1> QED
  BY <1>1, <1>2, <1>3, <1>5 DEF n

\* A session that opens late agrees, over the import its run had, with the one
\* the chain led to before.
LEMMA LateAgrees ==
    ASSUME IInv, ImportInv, Copied, NEW r \in Runs, NEW a \in Actors, NEW t \in Runs,
           t \in 1 .. r, session[t][a].state = "seeding", ~ Copying(t, a),
           \A q \in t .. r : a \notin sessionRow[q],
           NEW k \in DOMAIN CompletedAskPrefix(r, a)
    PROVE  LET b == CompletedAskPrefix(r, a)[k].boundary IN
           /\ b \in Nat /\ b <= Depth(t, a) /\ b <= Len(transcript[t][a])
           /\ \A m \in 1 .. b :
                  transcript[t][a][m] = transcript[TranscriptSource(r, a)][a][m]
<1> DEFINE b == CompletedAskPrefix(r, a)[k].boundary
           i == AsksOf(r, a)[k]
<1>1. r \in Nat /\ t \in Nat /\ t <= r
  <2>1. plan \in Plans
    BY DEF IInv, Types
  <2> QED
    BY <2>1, ScriptIs
<1>2. /\ i \in AsksIn(r, a) /\ i \in DOMAIN journal[r] /\ Status(r, i) = "completed"
      /\ b = journal[r][i].boundary /\ b \in Nat
  BY PrefixRow
<1>3. /\ split[t][a] # -1 /\ Depth(t, a) \in Nat
      /\ Len(transcript[t][a]) \in Nat /\ Depth(t, a) <= Len(transcript[t][a])
  BY OpensWhole
<1>4. b <= Depth(t, a)
  <2> HIDE DEF i, b
  <2> QED
    BY <1>1, <1>2, <1>3, LateDepth
<1>5. TranscriptSource(r, a) = TranscriptSource(t - 1, a)
  BY <1>1, SourceIs
<1> HIDE DEF b
<1>6. ASSUME NEW m \in 1 .. b
      PROVE  transcript[t][a][m] = transcript[TranscriptSource(r, a)][a][m]
  <2>1. m \in 1 .. Depth(t, a) /\ m <= Len(transcript[t][a]) /\ Depth(t, a) # 0
    BY <1>2, <1>3, <1>4, <1>6
  <2>2. split[t][a] > 0
    BY <2>1 DEF Depth
  <2> QED
    BY <1>5, <2>1, <2>2 DEF Copied
<1>7. b <= Len(transcript[t][a])
  BY <1>2, <1>3, <1>4
<1> QED
  BY <1>2, <1>4, <1>6, <1>7 DEF b

\* What the chain says up to the boundary of an answer that is offered stays.
LEMMA SourceAgrees ==
    ASSUME IInv, ImportInv, Copied, [Next]_vars, NEW r \in Runs, r <= run, NEW a \in Actors,
           NEW k \in DOMAIN CompletedAskPrefix(r, a)
    PROVE  LET b == CompletedAskPrefix(r, a)[k].boundary
               s == TranscriptSource(r, a)
               t == TranscriptSource(r, a)'
           IN  /\ b \in Nat /\ s \in 1 .. r /\ a \in sessionRow[s]
               /\ b <= Len(transcript[s][a])
               /\ \A m \in 1 .. b : transcript'[t][a][m] = transcript[s][a][m]
<1> DEFINE b == CompletedAskPrefix(r, a)[k].boundary
           s == TranscriptSource(r, a)
<1>1. /\ r \in Nat /\ Runs = 1 .. Len(Scripts) /\ Len(Scripts) \in Nat
  <2>1. plan \in Plans
    BY DEF IInv, Types
  <2> QED
    BY <2>1, ScriptIs
<1>2. b \in Nat
  BY PrefixRow
<1>3. s # NoRun /\ b <= Len(transcript[s][a])
  <2>1. SourceHolds(r)
    BY SourcesHold DEF ImportInv
  <2> QED
    BY <2>1 DEF SourceHolds
<1>4. s \in 0 .. r /\ a \in sessionRow[s]
  BY <1>1, <1>3, TranscriptSourceIs
<1> HIDE DEF s, b
<1>5. s \in 1 .. r /\ s \in Runs
  BY <1>1, <1>3, <1>4
<1>6. Len(transcript[s][a]) \in Nat
  BY <1>5, EmptyIs DEF IInv, Types, StoreTyped
<1>7. \A m \in 1 .. b : transcript'[s][a][m] = transcript[s][a][m]
  <2>1. \A m \in 1 .. b : m \in 1 .. Len(transcript[s][a])
    BY <1>2, <1>3, <1>6
  <2> QED
    BY <1>4, <1>5, <2>1, HolderStays
<1>8. CASE TranscriptSource(r, a)' = s
  BY <1>2, <1>3, <1>4, <1>5, <1>7, <1>8 DEF s, b
<1>9. CASE \E t \in Runs :
               /\ t \in 1 .. r /\ SessionOpens(t, a) /\ transcript' = transcript
               /\ session[t][a].state = "seeding" /\ ~ Copying(t, a)
               /\ TranscriptSource(r, a)' = t
               /\ \A q \in t .. r : a \notin sessionRow[q]
  <2>1. PICK t \in Runs :
               /\ t \in 1 .. r /\ SessionOpens(t, a) /\ transcript' = transcript
               /\ session[t][a].state = "seeding" /\ ~ Copying(t, a)
               /\ TranscriptSource(r, a)' = t
               /\ \A q \in t .. r : a \notin sessionRow[q]
    BY <1>9
  <2>2. \A m \in 1 .. b : transcript[t][a][m] = transcript[s][a][m]
    BY <2>1, LateAgrees DEF b, s
  <2> QED
    BY <1>2, <1>3, <1>4, <1>5, <2>1, <2>2 DEF b, s
<1> QED
  BY <1>8, <1>9, SourceMoves DEF s

\* A session the copy may be made from stays one.
LEMMA RootedStays ==
    ASSUME IInv, ImportInv, Copied, [Next]_vars, NEW r \in Runs, r <= run, r # 1,
           NEW a \in Actors, NEW k \in DOMAIN CompletedAskPrefix(r - 1, a), NEW s,
           Rooted(s, r, a, CompletedAskPrefix(r - 1, a)[k].boundary)
    PROVE  RootedNext(s, r, a, CompletedAskPrefix(r - 1, a)[k].boundary)
<1> DEFINE b == CompletedAskPrefix(r - 1, a)[k].boundary
           p == r - 1
<1>1. /\ r \in Nat /\ p \in Runs /\ p <= run /\ s \in Runs /\ s \in 1 .. p
      /\ a \in sessionRow[s] /\ b <= Len(transcript[s][a])
      /\ \A m \in 1 .. b : transcript[s][a][m] = transcript[TranscriptSource(p, a)][a][m]
  <2>1. plan \in Plans /\ run \in Runs
    BY DEF IInv, Types, ProgressTyped
  <2>2. s \in 1 .. r - 1 /\ r \in Nat /\ p \in Runs /\ p <= run /\ s \in Runs
    BY <2>1, ScriptIs DEF Rooted
  <2> QED
    BY <2>2 DEF Rooted
<1>2. b \in Nat /\ \A m \in 1 .. b :
          transcript'[TranscriptSource(p, a)'][a][m] = transcript[TranscriptSource(p, a)][a][m]
  <2> HIDE DEF p
  <2>1. k \in DOMAIN CompletedAskPrefix(p, a)
    BY DEF p
  <2> QED
    BY <1>1, <2>1, SourceAgrees DEF p
<1> HIDE DEF b
<1>3. Len(transcript[s][a]) \in Nat /\ Len(transcript'[s][a]) \in Nat
      /\ Len(transcript[s][a]) <= Len(transcript'[s][a])
  BY <1>1, TranscriptsGrow
<1>4. \A m \in 1 .. b : transcript'[s][a][m] = transcript[s][a][m]
  <2>1. \A m \in 1 .. b : m \in 1 .. Len(transcript[s][a])
    BY <1>1, <1>2, <1>3
  <2> QED
    BY <1>1, <2>1, HolderStays
<1>5. a \in sessionRow'[s]
  BY <1>1, SessionRowsAre
<1>6. b <= Len(transcript'[s][a])
  BY <1>1, <1>2, <1>3
<1> QED
  BY <1>1, <1>2, <1>4, <1>5, <1>6 DEF b, RootedNext

\* What becomes of one transcript.
Speaks(r, a) ==
    \/ r = run /\ (TurnBegins(a) \/ SubmitAccepted(a) \/ UntypedTurnEnds(a))
    \/ AcceptedTurnEnds(r, a)
LEMMA TalkFate ==
    ASSUME IInv, [Next]_vars, NEW r \in Runs, NEW a \in Actors
    PROVE  LET s == transcript[r][a]
               c == session[r][a]
               i == Head(turns[r][a]).call
           IN  \/ transcript'[r][a] = s
               \/ /\ SeedMessage(r, a) /\ c.state = "seeding"
                  /\ c.copied \in Nat /\ c.seed.length \in Nat /\ c.copied < c.seed.length
                  /\ transcript'[r][a] = CopyInPlace(s, c.copied + 1,
                                             transcript[c.seed.source][a][c.copied + 1])
               \/ /\ Speaks(r, a) /\ turns[r][a] # <<>>
                  /\ i \in Nat /\ i \in Calls(r)
                  /\ transcript'[r][a] = Append(s, <<r, i>>)
<1>1. StoreTyped /\ SessionTyped
  BY DEF IInv, Types
<1>2. CASE UNCHANGED transcript
  BY <1>2
<1>3. ASSUME NEW q \in Runs, NEW b \in Actors, SeedMessage(q, b), ~ (q = r /\ b = a)
      PROVE  transcript'[r][a] = transcript[r][a]
  BY <1>1, <1>3, SeedIs DEF TalksOnly
<1>4. CASE SeedMessage(r, a)
  BY <1>1, <1>4, SeedIs
<1>5. ASSUME NEW q \in Runs, NEW b \in Actors, NEW i \in Nat,
             transcript' = Says(q, b, i), ~ (q = r /\ b = a)
      PROVE  transcript'[r][a] = transcript[r][a]
  BY <1>1, <1>5, SaysIs DEF TalksOnly
<1>6. ASSUME NEW i \in Nat, transcript' = Says(r, a, i)
      PROVE  transcript'[r][a] = Append(transcript[r][a], <<r, i>>)
  BY <1>1, <1>6, SaysIs DEF Message
<1> QED
  BY <1>2, <1>3, <1>4, <1>5, <1>6, TalkIs DEF Speaks

\* Where a subagent departed is the entry it had followed last.
LEMMA DepthEntry ==
    ASSUME IInv, ImportInv, NEW r \in Runs, NEW a \in Actors, split[r][a] > 0
    PROVE  /\ r # 1 /\ r <= run /\ r - 1 \in Runs
           /\ Offered(r, a) = CompletedAskPrefix(r - 1, a)
           /\ split[r][a] \in DOMAIN CompletedAskPrefix(r - 1, a)
           /\ Depth(r, a) = CompletedAskPrefix(r - 1, a)[split[r][a]].boundary
<1> DEFINE s == split[r][a]
<1>1. plan \in Plans /\ Runs = 1 .. Len(Scripts) /\ Len(Scripts) \in Nat /\ s \in Int
  <2>1. plan \in Plans /\ s \in Int
    BY DEF IInv, Types, GhostsTyped
  <2> QED
    BY <2>1, ScriptIs
<1>2. s # -1
  BY <1>1
<1>3. DOMAIN journal[r] # {}
  BY <1>2 DEF ImportInv, Departures, SplitsRight
<1>4. r <= run
  BY <1>3 DEF ImportInv, Departures, RowsBehind
<1>5. s <= Len(Offered(r, a)) /\ s \in Nat
  BY <1>2, DepthTyped DEF ImportInv
<1>6. s \in DOMAIN Offered(r, a)
  <2>1. DOMAIN Offered(r, a) = 1 .. Len(Offered(r, a)) /\ Len(Offered(r, a)) \in Nat
    BY OfferedTyped, SeqIs
  <2> HIDE DEF s
  <2>2. s > 0
    BY DEF s
  <2> QED
    BY <1>5, <2>1, <2>2
<1>7. r # 1 /\ Offered(r, a) = CompletedAskPrefix(r - 1, a)
  BY <1>6, EmptyIs DEF Offered
<1>8. r - 1 \in Runs
  BY <1>1, <1>7
<1> QED
  BY <1>4, <1>6, <1>7, <1>8 DEF Depth

\* Nothing is said before a subagent departs from its import.
LEMMA SilentBefore ==
    ASSUME IInv, ImportInv, Copied, NEW r \in Runs, NEW a \in Actors, split[r][a] = -1
    PROVE  /\ Len(transcript[r][a]) = 0 /\ DOMAIN transcript[r][a] = {}
           /\ Depth(r, a) = 0
           /\ a \notin sessionRow[r] /\ session[r][a].state = "none" /\ turns[r][a] = <<>>
<1>1. a \notin sessionRow[r] /\ session[r][a].state = "none" /\ turns[r][a] = <<>>
  BY DEF ImportInv, SessionsSeeded
<1>2. Depth(r, a) = 0
  BY DEF Depth
<1>3. Len(transcript[r][a]) = 0 \/ Len(transcript[r][a]) <= 0
  BY <1>1, <1>2 DEF Copied
<1>4. Len(transcript[r][a]) \in Nat /\ DOMAIN transcript[r][a] = 1 .. Len(transcript[r][a])
  BY EmptyIs DEF IInv, Types, StoreTyped
<1>5. Len(transcript[r][a]) = 0
  BY <1>3, <1>4
<1> QED
  BY <1>1, <1>2, <1>4, <1>5

\* It does not depart and speak, or copy, in one step.
LEMMA SilentAtDeparture ==
    ASSUME IInv, ImportInv, Copied, [Next]_vars, NEW r \in Runs, NEW a \in Actors,
           split[r][a] = -1
    PROVE  /\ Len(transcript'[r][a]) = 0 /\ DOMAIN transcript'[r][a] = {}
           /\ Depth(r, a) = 0
           /\ a \notin sessionRow'[r]
<1>1. /\ Len(transcript[r][a]) = 0 /\ DOMAIN transcript[r][a] = {} /\ Depth(r, a) = 0
      /\ a \notin sessionRow[r] /\ session[r][a].state = "none" /\ turns[r][a] = <<>>
  BY SilentBefore
<1>2. transcript'[r][a] = transcript[r][a]
  BY <1>1, TalkFate
<1>3. a \notin sessionRow'[r]
  BY <1>1, SessionRowsAre
<1> QED
  BY <1>1, <1>2, <1>3

\* A transcript without a session row is at most as long as the copy.
LEMMA ShortKept ==
    ASSUME IInv, ImportInv, Copied, [Next]_vars, NEW r \in Runs, NEW a \in Actors,
           a \notin sessionRow'[r], split[r][a] # -1
    PROVE  Len(transcript'[r][a]) <= Depth(r, a)
<1> DEFINE c == session[r][a]
           n == Len(transcript[r][a])
           d == Depth(r, a)
<1>1. a \notin sessionRow[r]
  BY SessionRowsAre
<1>2. n <= d /\ n \in Nat /\ d \in Nat /\ IsSeq(transcript[r][a])
  <2>1. n = 0 \/ n <= d
    BY <1>1 DEF Copied
  <2>2. n \in Nat /\ IsSeq(transcript[r][a])
    BY EmptyIs DEF IInv, Types, StoreTyped
  <2>3. d \in Nat
    BY DepthTyped DEF ImportInv
  <2> HIDE DEF n, d
  <2> QED
    BY <2>1, <2>2, <2>3
<1>3. turns[r][a] = <<>>
  BY <1>1 DEF ImportInv, SessionsSeeded
<1>4. CASE transcript'[r][a] = transcript[r][a]
  BY <1>2, <1>4
<1>5. ASSUME c.state = "seeding", c.copied \in Nat, c.copied < c.seed.length,
             NEW x, transcript'[r][a] = CopyInPlace(transcript[r][a], c.copied + 1, x)
      PROVE  Len(transcript'[r][a]) <= d
  <2>1. c.seed.length = d /\ c.copied <= n
    BY <1>5 DEF ImportInv, SessionsSeeded
  <2> HIDE DEF c, n, d
  <2>2. c.copied + 1 \in Nat /\ 1 <= c.copied + 1 /\ c.copied + 1 <= n + 1 /\ c.copied + 1 <= d
    BY <1>2, <1>5, <2>1
  <2>3. Len(transcript'[r][a]) = IF c.copied + 1 <= n THEN n ELSE c.copied + 1
    BY <1>2, <1>5, <2>2, CopyIs DEF n
  <2> QED
    BY <1>2, <2>2, <2>3
<1> QED
  BY <1>3, <1>4, <1>5, TalkFate

\* What is copied is what the chain says there, and stays so.
LEMMA AgreesKept ==
    ASSUME IInv, ImportInv, Copied, [Next]_vars, NEW r \in Runs, NEW a \in Actors,
           split[r][a] > 0, NEW m \in 1 .. Depth(r, a), m <= Len(transcript'[r][a])
    PROVE  transcript'[r][a][m] = transcript'[TranscriptSource(r - 1, a)'][a][m]
<1> DEFINE c == session[r][a]
           s == transcript[r][a]
           d == Depth(r, a)
           p == r - 1
           before == transcript[TranscriptSource(p, a)][a]
<1>1. /\ r # 1 /\ r <= run /\ p \in Runs /\ r \in Nat /\ p <= run /\ split[r][a] # -1
      /\ split[r][a] \in DOMAIN CompletedAskPrefix(p, a)
      /\ d = CompletedAskPrefix(p, a)[split[r][a]].boundary
  <2>1. plan \in Plans /\ run \in Runs /\ split[r][a] \in Int
    BY DEF IInv, Types, ProgressTyped, GhostsTyped
  <2> QED
    BY <2>1, ScriptIs, DepthEntry
<1>2. d \in Nat /\ \A k \in 1 .. d : transcript'[TranscriptSource(p, a)'][a][k] = before[k]
  <2> HIDE DEF p, d
  <2> QED
    BY <1>1, SourceAgrees
<1>3. IsSeq(s) /\ Len(s) \in Nat
  BY EmptyIs DEF IInv, Types, StoreTyped
<1>4. \A k \in 1 .. d : k <= Len(s) => s[k] = before[k]
  BY DEF Copied
<1> SUFFICES transcript'[r][a][m] = before[m]
  BY <1>2
<1> HIDE DEF before, p
<1>5. CASE transcript'[r][a] = s
  BY <1>4, <1>5
<1>6. ASSUME NEW i, transcript'[r][a] = Append(s, i), turns[r][a] # <<>>
      PROVE  transcript'[r][a][m] = before[m]
  <2>1. d <= Len(s)
    BY <1>6 DEF ImportInv, SessionsSeeded
  <2> HIDE DEF s, d
  <2>2. m \in 1 .. d /\ m <= Len(s) /\ m \in 1 .. Len(s)
    BY <1>2, <1>3, <2>1 DEF d
  <2> QED
    BY <1>3, <1>4, <1>6, <2>2, AppendIs
<1>7. ASSUME c.state = "seeding", c.copied \in Nat, c.copied < c.seed.length,
             transcript'[r][a] = CopyInPlace(s, c.copied + 1,
                                     transcript[c.seed.source][a][c.copied + 1])
      PROVE  transcript'[r][a][m] = before[m]
  <2> DEFINE k == c.copied + 1
             x == transcript[c.seed.source][a][k]
  <2>1. c.seed.length = d /\ c.copied <= Len(s)
    BY <1>7 DEF ImportInv, SessionsSeeded
  <2>2. Rooted(c.seed.source, r, a, d)
    BY <1>7 DEF Copied
  <2>3. \A j \in 1 .. d : transcript[c.seed.source][a][j] = before[j]
    BY <2>2 DEF Rooted, before, p
  <2>4. transcript'[r][a] = CopyInPlace(s, k, x)
    BY <1>7
  <2>5. k \in Nat /\ 1 <= k /\ k <= Len(s) + 1 /\ k \in 1 .. d
    <3> HIDE DEF c, s, d
    <3> QED
      BY <1>2, <1>3, <1>7, <2>1
  <2>6. x = before[k]
    BY <2>3, <2>5
  <2> HIDE DEF x, k, s, c, d
  <2>7. /\ Len(CopyInPlace(s, k, x)) = IF k <= Len(s) THEN Len(s) ELSE k
        /\ CopyInPlace(s, k, x)[k] = x
        /\ \A j \in 1 .. Len(s) : j # k => CopyInPlace(s, k, x)[j] = s[j]
    BY <1>3, <2>5, CopyIs
  <2>8. CASE m = k
    BY <2>4, <2>6, <2>7, <2>8
  <2>9. CASE m # k
    <3>1. m \in 1 .. d /\ m \in 1 .. Len(s)
      <4>1. m \in 1 .. d /\ m <= Len(CopyInPlace(s, k, x))
        BY <2>4 DEF d
      <4> QED
        BY <1>2, <1>3, <2>5, <2>7, <2>9, <4>1
    <3>2. s[m] = before[m]
      BY <1>3, <1>4, <3>1
    <3> QED
      BY <2>4, <2>7, <2>9, <3>1, <3>2
  <2> QED
    BY <2>8, <2>9
<1> QED
  BY <1>5, <1>6, <1>7, TalkFate

\* The copy of a session begins with what its subagent followed of the import.
LEMMA SeedIsRooted ==
    ASSUME IInv, ImportInv, SourceKept, NEW a \in Actors, Busy(a), split[run][a] > 0
    PROVE  Rooted(Seed(a).source, run, a, Depth(run, a))
<1> DEFINE s == split[run][a]
<1>1. run \in Runs /\ CacheTyped /\ CursorTyped /\ engine = "live" /\ current[a] # NoCall
      /\ s \in Int
  BY DEF IInv, Types, ProgressTyped, GhostsTyped, Busy
<1>2. cursor[a].diverged /\ cursor[a].consumed = s
  BY <1>1 DEF ImportInv, Departures, CursorRight
<1>3. s # 0
  BY <1>1
<1>4. Seed(a).source = cache.source[a]
  BY <1>1, <1>2, <1>3, SeedTyped
<1>5. s \in DOMAIN Offered(run, a) /\ Depth(run, a) = Offered(run, a)[s].boundary
  BY <1>1, DepthEntry
<1> HIDE DEF s
<1> QED
  BY <1>1, <1>4, <1>5 DEF SourceKept

\* A session whose row is written is not copied into.
LEMMA HolderNotCopied ==
    ASSUME IInv, ImportInv, Copied, NEW r \in Runs, NEW a \in Actors, a \in sessionRow[r]
    PROVE  ~ SeedMessage(r, a)
<1> SUFFICES ASSUME SeedMessage(r, a)
             PROVE  FALSE
  OBVIOUS
<1> DEFINE c == session[r][a]
           n == Len(transcript[r][a])
<1>1. /\ c.state = "seeding"
      /\ c.copied > 0 \/ n < c.seed.length
  BY SeedIs DEF IInv, Types
<1>2. c.copied = 0 /\ c.seed.length = Depth(r, a) /\ Depth(r, a) <= n /\ split[r][a] # -1
  BY <1>1 DEF Copied, ImportInv, SessionsSeeded
<1>3. Depth(r, a) \in Nat /\ n \in Nat
  BY <1>2, DepthTyped, EmptyIs DEF ImportInv, IInv, Types, StoreTyped
<1> HIDE DEF c, n
<1> QED
  BY <1>1, <1>2, <1>3

\* What becomes of the copy of a session that is being seeded.
LEMMA SeedFate ==
    ASSUME IInv, ImportInv, Copied, SourceKept, [Next]_vars, NEW r \in Runs, NEW a \in Actors,
           session'[r][a].state = "seeding"
    PROVE  /\ split[r][a] # -1
           /\ split[r][a] > 0 => Rooted(session'[r][a].seed.source, r, a, Depth(r, a))
           /\ a \in sessionRow'[r] => session'[r][a].copied = 0
<1>1. session[r][a].state = "seeding" =>
          /\ split[r][a] # -1
          /\ split[r][a] > 0 => Rooted(session[r][a].seed.source, r, a, Depth(r, a))
          /\ a \in sessionRow[r] => session[r][a].copied = 0
  BY DEF Copied, ImportInv, SessionsSeeded
<1>2. CASE session'[r][a] = session[r][a]
  <2>1. a \in sessionRow'[r] => a \in sessionRow[r]
    <3>1. SUFFICES ASSUME a \in sessionRow'[r], a \notin sessionRow[r]
                   PROVE  FALSE
      OBVIOUS
    <3>2. SessionOpens(r, a)
      BY <3>1, SessionRowsAre
    <3>3. SetSession(r, a, [state |-> "open", seed |-> NoSeed, copied |-> 0])
      BY <3>2 DEF SessionOpens
    <3>4. [state |-> "open", seed |-> NoSeed, copied |-> 0] \in Copies
      BY DEF Copies, Seeds, NoSeed
    <3>5. session'[r][a].state = "open"
      BY <3>3, <3>4, SessionIs DEF IInv, Types, SessionsOnly
    <3> QED
      BY <3>5
  <2> QED
    BY <1>1, <1>2, <2>1
<1>3. CASE session'[r][a] = Unopened
  BY <1>3, UnopenedTyped
<1>4. CASE /\ OpenSession(a) /\ r = run
           /\ session'[r][a] = [state |-> "seeding", seed |-> Seed(a), copied |-> 0]
  <2>1. Busy(a)
    BY <1>4 DEF OpenSession
  <2> QED
    BY <1>4, <2>1, DispatchedSplit, SeedIsRooted DEF ImportInv
<1>5. CASE /\ SeedMessage(r, a)
           /\ session'[r][a] = [state |-> "seeding", seed |-> session[r][a].seed,
                                copied |-> session[r][a].copied + 1]
  <2>1. a \notin sessionRow[r] /\ sessionRow' = sessionRow
    BY <1>5, HolderNotCopied, SeedMessageFrame
  <2>2. session[r][a].state = "seeding"
    BY <1>5, SeedIs DEF IInv, Types
  <2> QED
    BY <1>1, <1>5, <2>1, <2>2
<1> QED
  BY <1>2, <1>3, <1>4, <1>5, SessionFate

LEMMA CopiedKept ==
    ASSUME IInv, ImportInv, Copied, SourceKept, [Next]_vars
    PROVE  Copied'
<1>1. Scripts' = Scripts
  BY ScriptsStay
<1>2. SUFFICES ASSUME NEW r \in Runs, NEW a \in Actors
               PROVE  /\ a \notin sessionRow'[r] =>
                             \/ Len(transcript'[r][a]) = 0
                             \/ Len(transcript'[r][a]) <= Depth(r, a)'
                      /\ split'[r][a] > 0 =>
                             \A m \in 1 .. Depth(r, a)' : m <= Len(transcript'[r][a]) =>
                                 transcript'[r][a][m]
                                     = transcript'[TranscriptSource(r - 1, a)'][a][m]
                      /\ session'[r][a].state = "seeding" =>
                             /\ split'[r][a] > 0 =>
                                    RootedNext(session'[r][a].seed.source, r, a, Depth(r, a)')
                             /\ a \in sessionRow'[r] => session'[r][a].copied = 0
  BY <1>1 DEF Copied, Rooted, RootedNext
<1>3. CASE split[r][a] = -1
  <2>1. /\ Len(transcript'[r][a]) = 0 /\ a \notin sessionRow'[r]
        /\ session'[r][a].state # "seeding"
    BY <1>3, SilentAtDeparture, SeedFate
  <2>2. \A m \in 1 .. Depth(r, a)' : ~ (m <= Len(transcript'[r][a]))
    BY <2>1
  <2> QED
    BY <2>1, <2>2
<1>4. CASE split[r][a] # -1
  <2>1. split'[r][a] = split[r][a] /\ Depth(r, a)' = Depth(r, a)
    BY <1>4, DepthStays DEF ImportInv
  <2>2. a \notin sessionRow'[r] => Len(transcript'[r][a]) <= Depth(r, a)
    BY <1>4, ShortKept
  <2>3. split[r][a] > 0 =>
            \A m \in 1 .. Depth(r, a) : m <= Len(transcript'[r][a]) =>
                transcript'[r][a][m] = transcript'[TranscriptSource(r - 1, a)'][a][m]
    BY AgreesKept
  <2>4. ASSUME session'[r][a].state = "seeding", split[r][a] > 0
        PROVE  RootedNext(session'[r][a].seed.source, r, a, Depth(r, a))
    <3> DEFINE s == session'[r][a].seed.source
               k == split[r][a]
    <3>1. Rooted(s, r, a, Depth(r, a))
      BY <2>4, SeedFate
    <3>2. /\ r # 1 /\ r <= run /\ k \in DOMAIN CompletedAskPrefix(r - 1, a)
          /\ Depth(r, a) = CompletedAskPrefix(r - 1, a)[k].boundary
      BY <2>4, DepthEntry
    <3> HIDE DEF s, k
    <3>3. RootedNext(s, r, a, Depth(r, a))
      BY <3>1, <3>2, RootedStays
    <3> QED
      BY <3>3 DEF s
  <2>5. session'[r][a].state = "seeding" => (a \in sessionRow'[r] => session'[r][a].copied = 0)
    BY SeedFate
  <2> QED
    BY <2>1, <2>2, <2>3, <2>4, <2>5
<1> QED
  BY <1>3, <1>4

\* What the engine of run r, after a step, is offered.
LEMMA OfferedNext ==
    ASSUME IInv, [Next]_vars, NEW r \in Runs, r = run', r = 1 \/ journal'[r - 1] = journal[r - 1],
           NEW a \in Actors
    PROVE  /\ Offered(run, a)' = Offered(r, a)
           /\ \A k \in DOMAIN Offered(r, a) :
                  /\ r # 1 /\ r - 1 \in Runs /\ Offered(r, a) = CompletedAskPrefix(r - 1, a)
<1>1. r = 1 \/ r - 1 \in Runs
  <2>1. plan \in Plans
    BY DEF IInv, Types
  <2> QED
    BY <2>1, ScriptIs
<1>2. r # 1 => CompletedAskPrefix(r - 1, a)' = CompletedAskPrefix(r - 1, a)
  BY <1>1, OffersStay
<1>3. MatchedActor(r, a)' <=> MatchedActor(r, a)
  BY ScriptsStay DEF MatchedActor
<1>4. Offered(r, a)' = Offered(r, a)
  BY <1>2, <1>3 DEF Offered
<1>5. Offered(run, a)' = Offered(r, a)'
  BY DEF Offered, MatchedActor, CompletedAskPrefix, AsksOf, Completed, Recorded
<1>6. \A k \in DOMAIN Offered(r, a) : r # 1 /\ Offered(r, a) = CompletedAskPrefix(r - 1, a)
  BY EmptyIs DEF Offered
<1> QED
  BY <1>1, <1>4, <1>5, <1>6

\* An engine is given the session the chain leads to.
LEMMA SourceGiven ==
    ASSUME IInv, ImportInv, NEW r \in Runs, r # 1, r - 1 \in Runs, r - 1 <= run,
           NEW a \in Actors, NEW k \in DOMAIN CompletedAskPrefix(r - 1, a)
    PROVE  Rooted(CacheFor(r).source[a], r, a, CompletedAskPrefix(r - 1, a)[k].boundary)
<1> DEFINE p == r - 1
           s == TranscriptSource(p, a)
<1>1. p \in Nat
  <2>1. plan \in Plans
    BY DEF IInv, Types
  <2> QED
    BY <2>1, ScriptIs
<1>2. CacheFor(r).source[a] = s
  BY DEF CacheFor
<1>3. s # NoRun /\ CompletedAskPrefix(p, a)[k].boundary <= Len(transcript[s][a])
  <2>1. SourceHolds(p)
    BY SourcesHold DEF ImportInv
  <2> QED
    BY <2>1 DEF SourceHolds
<1>4. s \in 0 .. p /\ a \in sessionRow[s]
  BY <1>1, <1>3, TranscriptSourceIs
<1> HIDE DEF s
<1>5. s \in 1 .. p
  BY <1>1, <1>3, <1>4
<1> QED
  BY <1>2, <1>3, <1>4, <1>5 DEF Rooted, s

LEMMA SourceKeptKept ==
    ASSUME IInv, ImportInv, Copied, SourceKept, [Next]_vars
    PROVE  SourceKept'
<1>1. run \in Runs /\ Runs' = Runs /\ plan \in Plans
  BY ScriptsStay DEF IInv, Types, ProgressTyped
<1>2. run' \in Runs
  BY <1>1, NextIInv DEF IInv, Types, ProgressTyped
<1>3. PICK r \in Runs : r = run'
  BY <1>2
<1>4. SUFFICES ASSUME engine' = "live", NEW a \in Actors, NEW k \in DOMAIN Offered(run, a)'
               PROVE  RootedNext(cache'.source[a], r, a, Offered(run, a)'[k].boundary)
  BY <1>3 DEF SourceKept, Rooted, RootedNext, TranscriptSource
<1>5. r = 1 \/ (r - 1 \in Runs /\ r - 1 <= run /\ journal'[r - 1] = journal[r - 1])
  <2>1. r = 1 \/ (r - 1 \in Runs /\ r - 1 < r /\ r \in Nat)
    BY <1>1, ScriptIs
  <2>2. r = run \/ (r = run + 1 /\ Amend)
    BY <1>3, EnginesAre
  <2>3. CASE r = run
    <3>1. r # 1 => r - 1 # run /\ r - 1 <= run
      BY <2>1, <2>3
    <3> QED
      BY <2>1, <3>1, OtherRowsStay
  <2>4. CASE r = run + 1 /\ Amend
    <3>1. r - 1 = run
      BY <1>1, <2>4, ScriptIs
    <3> QED
      BY <1>1, <2>1, <2>4, <3>1, AmendFrame
  <2> QED
    BY <2>2, <2>3, <2>4
<1> DEFINE before == CompletedAskPrefix(r - 1, a)
<1>6. /\ Offered(run, a)' = before /\ Offered(r, a) = before /\ k \in DOMAIN before
      /\ r # 1 /\ r - 1 \in Runs /\ r - 1 <= run
  BY <1>3, <1>4, <1>5, OfferedNext
<1> HIDE DEF before
<1>7. CASE UNCHANGED <<run, engine, cache, wasLive>>
  <2>1. r = run /\ Offered(run, a) = before
    BY <1>3, <1>6, <1>7
  <2>2. Rooted(cache.source[a], r, a, before[k].boundary)
    BY <1>4, <1>6, <1>7, <2>1 DEF SourceKept
  <2>3. r <= run
    BY <1>1, <2>1, ScriptIs
  <2> DEFINE s == cache.source[a]
  <2> HIDE DEF s
  <2>4. RootedNext(s, r, a, before[k].boundary)
    BY <1>6, <2>2, <2>3, RootedStays DEF before, s
  <2> QED
    BY <1>6, <1>7, <2>4 DEF s
<1>8. CASE cache' = CacheFor(r) /\ UNCHANGED durable
  <2>1. Rooted(CacheFor(r).source[a], r, a, before[k].boundary)
    BY <1>6, SourceGiven DEF before
  <2>2. sessionRow' = sessionRow /\ transcript' = transcript
    BY <1>8 DEF durable
  <2>3. TranscriptSource(r - 1, a)' = TranscriptSource(r - 1, a)
    BY <2>2 DEF TranscriptSource
  <2> DEFINE s == CacheFor(r).source[a]
  <2> HIDE DEF s
  <2>4. cache'.source[a] = s
    BY <1>8 DEF s
  <2> QED
    BY <1>6, <2>1, <2>2, <2>3, <2>4 DEF Rooted, RootedNext, s
<1>9. Resume \/ Amend => UNCHANGED durable
  BY DEF Resume, Amend
<1> QED
  BY <1>3, <1>4, <1>7, <1>8, <1>9, EnginesAre

-----------------------------------------------------------------------------
\* What a session adds to its copy

\* A message of run r's own: that of an ask its subagent made after it departed,
\* by the time the asks before it were settled.
OwnMessage(r, a, x) ==
    \E i \in DOMAIN journal[r] :
        /\ i \in AsksIn(r, a) /\ ~ BeforeSplit(r, a, i) /\ x = <<r, i>>
        /\ \A j \in AsksIn(r, a) : j < i => Settled(r, j)
\* Beyond the copy a transcript holds such messages in the order of the script,
\* and none beyond an ask whose accepted turn has not ended.
AddedRight ==
    \A r \in Runs : \A a \in Actors :
        /\ \A n \in DOMAIN transcript[r][a] : n > Depth(r, a) =>
               OwnMessage(r, a, transcript[r][a][n])
        /\ \A n, m \in DOMAIN transcript[r][a] : n > Depth(r, a) /\ n <= m =>
               transcript[r][a][n][2] <= transcript[r][a][m][2]
        /\ \A t \in DOMAIN turns[r][a] : turns[r][a][t].accepted =>
               \A n \in DOMAIN transcript[r][a] : n > Depth(r, a) =>
                   transcript[r][a][n][2] <= turns[r][a][t].call

\* A settled ask stays settled, and a message of an ask stays one.
LEMMA OwnStays ==
    ASSUME IInv, ImportInv, [Next]_vars, NEW r \in Runs, NEW a \in Actors, NEW x,
           OwnMessage(r, a, x)
    PROVE  OwnMessage(r, a, x)'
<1>1. PICK i \in DOMAIN journal[r] :
          /\ i \in AsksIn(r, a) /\ ~ BeforeSplit(r, a, i) /\ x = <<r, i>>
          /\ \A j \in AsksIn(r, a) : j < i => Settled(r, j)
  BY DEF OwnMessage
<1>2. i \in DOMAIN journal'[r]
  BY RowsGrow
<1>3. ASSUME NEW j, Settled(r, j)
      PROVE  Settled(r, j)'
  BY <1>3, RowsStay DEF Settled, Status
<1>4. split'[r][a] = split[r][a]
  BY <1>1, DepthStays DEF BeforeSplit, ImportInv
<1>5. AsksIn(r, a)' = AsksIn(r, a) /\ ActorSeq(r, i)' = ActorSeq(r, i)
  BY ScriptsStay
<1>6. ~ BeforeSplit(r, a, i)'
  BY <1>1, <1>4, <1>5 DEF BeforeSplit
<1> QED
  BY <1>1, <1>2, <1>3, <1>5, <1>6 DEF OwnMessage

\* The ask a subagent is busy with was made after it departed, and every ask
\* before it is settled.
LEMMA BusyAsk ==
    ASSUME IInv, ImportInv, engine = "live", NEW a \in Actors, current[a] # NoCall
    PROVE  /\ current[a] \in Nat /\ current[a] \in AsksIn(run, a)
           /\ current[a] \in DOMAIN journal[run] /\ Status(run, current[a]) = "running"
           /\ ~ Settled(run, current[a])
           /\ OwnMessage(run, a, <<run, current[a]>>)
<1> DEFINE i == current[a]
<1>1. run \in Runs /\ plan \in Plans /\ issued \in Nat /\ issued \in 0 .. Len(Scripts[run])
      /\ DOMAIN Scripts[run] = 1 .. Len(Scripts[run]) /\ Len(Scripts[run]) \in Nat
  <2>1. run \in Runs /\ plan \in Plans /\ issued \in 0 .. Len(Scripts[run])
    BY DEF IInv, Types, ProgressTyped
  <2> QED
    BY <2>1, ScriptIs
<1>2. i \in 1 .. issued /\ i \in DOMAIN journal[run] /\ Scripts[run][i].who = a
      /\ Status(run, i) = "running"
  BY DEF IInv, AsksOpen, OpenAsk, AskOf
<1>3. i \in AsksIn(run, a) /\ i \in Nat
  BY <1>1, <1>2 DEF AsksIn
<1>4. split[run][a] # -1
  <2>1. Busy(a)
    BY DEF Busy
  <2> QED
    BY <2>1, DispatchedSplit DEF ImportInv
<1>5. ~ BeforeSplit(run, a, i)
  BY <1>1, <1>2, <1>3, <1>4 DEF ImportInv, Departures, SplitsRight, ImportedRow, TornRow
<1>6. ASSUME NEW j \in AsksIn(run, a), j < i
      PROVE  Settled(run, j)
  <2>1. j \in DOMAIN journal[run]
    BY <1>1, <1>2, <1>6, EarlierRow DEF ImportInv, Departures
  <2>2. j \in Nat /\ j <= issued
    BY <1>1, <1>2, <1>6, ActorSeqIs
  <2>3. SUFFICES ASSUME Status(run, j) = "running"
                 PROVE  FALSE
    BY <2>1 DEF Settled, Status
  <2>4. Waits(a, j)
    BY <2>2, <2>3 DEF ImportInv, OpenAll
  <2>5. j = i \/ i < j
    BY <2>4 DEF Waits, IInv, AsksOpen
  <2> HIDE DEF i
  <2> QED
    BY <1>3, <1>6, <2>2, <2>5
<1>7. ~ Settled(run, i)
  BY <1>2 DEF Settled, Status
<1>8. OwnMessage(run, a, <<run, i>>)
  BY <1>2, <1>3, <1>5, <1>6 DEF OwnMessage
<1> HIDE DEF i
<1> QED
  BY <1>2, <1>3, <1>7, <1>8 DEF i

\* Its messages are the last so far.
LEMMA BusyIsLast ==
    ASSUME IInv, ImportInv, AddedRight, engine = "live", NEW a \in Actors, current[a] # NoCall,
           NEW n \in DOMAIN transcript[run][a], n > Depth(run, a)
    PROVE  transcript[run][a][n][2] <= current[a]
<1>1. run \in Runs /\ plan \in Plans
  BY DEF IInv, Types, ProgressTyped
<1>2. PICK j \in DOMAIN journal[run] :
          /\ j \in AsksIn(run, a) /\ transcript[run][a][n] = <<run, j>>
          /\ \A l \in AsksIn(run, a) : l < j => Settled(run, l)
  BY <1>1 DEF AddedRight, OwnMessage
<1>3. current[a] \in Nat /\ ~ (current[a] < j)
  BY <1>2, BusyAsk
<1>4. j \in Nat
  BY <1>1, <1>2, ActorSeqIs
<1> QED
  BY <1>2, <1>3, <1>4

\* What is said is said for the ask of the turn, and nothing was for a later one.
LEMMA Spoken ==
    ASSUME IInv, ImportInv, AddedRight, [Next]_vars, NEW r \in Runs, NEW a \in Actors,
           Speaks(r, a), turns[r][a] # <<>>
    PROVE  LET i == Head(turns[r][a]).call IN
           /\ r = run /\ split[r][a] # -1 /\ i \in Nat
           /\ OwnMessage(r, a, <<r, i>>)
           /\ \A n \in DOMAIN transcript[r][a] : n > Depth(r, a) =>
                  transcript[r][a][n][2] <= i
<1> DEFINE i == Head(turns[r][a]).call
<1>1. split[r][a] # -1
  BY DEF ImportInv, SessionsSeeded
<1>2. turns[r][a] \in Seq(Turns) /\ Head(turns[r][a]) = turns[r][a][1]
      /\ 1 \in DOMAIN turns[r][a]
  <2>1. turns[r][a] \in Seq(Turns)
    BY DEF IInv, Types, TurnsTyped
  <2> QED
    BY <2>1, TailIs, SeqIs
<1>3. CASE r = run /\ (TurnBegins(a) \/ SubmitAccepted(a) \/ UntypedTurnEnds(a))
  <2>1. engine = "live" /\ ~ turns[r][a][1].accepted
    <3>1. CASE TurnBegins(a)
      <4>1. engine = "live" /\ ~ turns[r][a][1].begun
        BY <1>2, <1>3, <3>1 DEF TurnBegins
      <4> QED
        BY <1>2, <1>3, <4>1 DEF IInv, TurnsFit, TurnFits
    <3>2. CASE SubmitAccepted(a) \/ UntypedTurnEnds(a)
      <4>1. InTurn(a)
        BY <3>2 DEF SubmitAccepted, UntypedTurnEnds
      <4> QED
        BY <1>2, <1>3, <4>1, InTurnIs
    <3> QED
      BY <1>3, <3>1, <3>2
  <2>2. current[a] # NoCall /\ turns[r][a][1].call = current[a]
    BY <1>2, <1>3, <2>1 DEF IInv, TurnsFit, TurnFits
  <2> HIDE DEF i
  <2>3. i = current[a]
    BY <1>2, <2>2 DEF i
  <2> QED
    BY <1>1, <1>3, <2>1, <2>2, <2>3, BusyAsk, BusyIsLast DEF i
<1>4. CASE AcceptedTurnEnds(r, a)
  <2>1. /\ r = run /\ Head(turns[r][a]).accepted /\ i \in Calls(r) /\ AskOf(r, a, i)
        /\ Status(r, i) = "completed" /\ journal[r][i].boundary = NoBoundary
    BY <1>4, EndedIs
  <2>2. i \in AsksIn(r, a) /\ i \in DOMAIN journal[r]
    BY <2>1 DEF AskOf, AsksIn
  <2>3. ~ BeforeSplit(r, a, i)
    BY <2>1, <2>2, Inherited
  <2>4. ASSUME NEW j \in AsksIn(r, a), j < i
        PROVE  Settled(r, j)
    <3>1. j \in DOMAIN journal[r]
      BY <2>2, <2>4, EarlierRow DEF ImportInv, Departures
    <3>2. Status(r, i) # "running"
      BY <2>1
    <3>3. Status(r, j) # "running"
      BY <2>2, <2>4, <3>1, <3>2 DEF ImportInv, SettledFirst
    <3> QED
      BY <3>1, <3>3 DEF Settled, Status
  <2>5. \A n \in DOMAIN transcript[r][a] : n > Depth(r, a) => transcript[r][a][n][2] <= i
    BY <1>2, <2>1 DEF AddedRight
  <2>6. i \in Nat
    BY <2>2, ActorSeqIs DEF IInv, Types
  <2> HIDE DEF i
  <2>7. OwnMessage(r, a, <<r, i>>)
    BY <2>2, <2>3, <2>4 DEF OwnMessage
  <2> QED
    BY <1>1, <2>1, <2>5, <2>6, <2>7 DEF i
<1> QED
  BY <1>3, <1>4 DEF Speaks

\* Beyond the copy a transcript only grows, at its end.
LEMMA OwnFate ==
    ASSUME IInv, ImportInv, Copied, [Next]_vars, NEW r \in Runs, NEW a \in Actors,
           split[r][a] # -1, NEW n \in DOMAIN transcript'[r][a], n > Depth(r, a)
    PROVE  /\ n \in Nat
           /\ \/ n \in DOMAIN transcript[r][a] /\ transcript'[r][a][n] = transcript[r][a][n]
              \/ /\ n = Len(transcript[r][a]) + 1 /\ Speaks(r, a) /\ turns[r][a] # <<>>
                 /\ transcript'[r][a][n] = <<r, Head(turns[r][a]).call>>
<1> DEFINE s == transcript[r][a]
           c == session[r][a]
           d == Depth(r, a)
<1>1. IsSeq(s) /\ Len(s) \in Nat /\ DOMAIN s = 1 .. Len(s)
  BY EmptyIs DEF IInv, Types, StoreTyped
<1>2. DOMAIN transcript'[r][a] = 1 .. Len(transcript'[r][a]) /\ Len(transcript'[r][a]) \in Nat
  BY TranscriptTypedKept, EmptyIs
<1>3. n \in Nat /\ n >= 1 /\ n <= Len(transcript'[r][a]) /\ d \in Nat
  BY <1>2, DepthTyped DEF ImportInv
<1>4. CASE transcript'[r][a] = s
  BY <1>3, <1>4
<1>5. ASSUME NEW x, transcript'[r][a] = Append(s, x)
      PROVE  \/ n \in DOMAIN s /\ transcript'[r][a][n] = s[n]
             \/ n = Len(s) + 1 /\ transcript'[r][a][n] = x
  <2> HIDE DEF s
  <2>1. /\ Len(Append(s, x)) = Len(s) + 1
        /\ \A k \in 1 .. Len(s) : Append(s, x)[k] = s[k]
        /\ Append(s, x)[Len(s) + 1] = x
    BY <1>1, AppendIs
  <2>2. n \in 1 .. Len(s) \/ n = Len(s) + 1
    BY <1>1, <1>3, <1>5, <2>1
  <2> QED
    BY <1>1, <1>5, <2>1, <2>2
<1>6. ASSUME c.state = "seeding", c.copied \in Nat, c.copied < c.seed.length,
             NEW x, transcript'[r][a] = CopyInPlace(s, c.copied + 1, x)
      PROVE  n \in DOMAIN s /\ transcript'[r][a][n] = s[n]
  <2> DEFINE k == c.copied + 1
  <2>1. c.seed.length = d /\ c.copied <= Len(s)
    BY <1>6 DEF ImportInv, SessionsSeeded
  <2>2. k \in Nat /\ 1 <= k /\ k <= Len(s) + 1 /\ k <= d
    <3> HIDE DEF c, s, d
    <3> QED
      BY <1>1, <1>3, <1>6, <2>1
  <2>3. transcript'[r][a] = CopyInPlace(s, k, x)
    BY <1>6
  <2>4. n > d
    OBVIOUS
  <2> HIDE DEF k, s, d
  <2>5. /\ Len(CopyInPlace(s, k, x)) = IF k <= Len(s) THEN Len(s) ELSE k
        /\ \A j \in 1 .. Len(s) : j # k => CopyInPlace(s, k, x)[j] = s[j]
    BY <1>1, <2>2, CopyIs
  <2>6. n # k /\ n \in 1 .. Len(s)
    BY <1>1, <1>3, <2>2, <2>3, <2>4, <2>5
  <2> QED
    BY <1>1, <2>3, <2>5, <2>6
<1> HIDE DEF d
<1> QED
  BY <1>3, <1>4, <1>5, <1>6, TalkFate

LEMMA AddedRightKept ==
    ASSUME IInv, ImportInv, Copied, AddedRight, [Next]_vars
    PROVE  AddedRight'
<1>1. Scripts' = Scripts
  BY ScriptsStay
<1>2. SUFFICES ASSUME NEW r \in Runs, NEW a \in Actors
               PROVE  /\ \A n \in DOMAIN transcript'[r][a] : n > Depth(r, a)' =>
                             \A x : x = transcript'[r][a][n] => OwnMessage(r, a, x)'
                      /\ \A n, m \in DOMAIN transcript'[r][a] : n > Depth(r, a)' /\ n <= m =>
                             transcript'[r][a][n][2] <= transcript'[r][a][m][2]
                      /\ \A t \in DOMAIN turns'[r][a] : turns'[r][a][t].accepted =>
                             \A n \in DOMAIN transcript'[r][a] : n > Depth(r, a)' =>
                                 transcript'[r][a][n][2] <= turns'[r][a][t].call
  BY <1>1 DEF AddedRight, OwnMessage
<1>3. CASE split[r][a] = -1
  BY <1>3, SilentAtDeparture
<1>4. CASE split[r][a] # -1
  <2> DEFINE s == transcript[r][a]
             d == Depth(r, a)
             i == Head(turns[r][a]).call
  <2>1. Depth(r, a)' = d
    BY <1>4, DepthStays DEF ImportInv
  <2>2. /\ DOMAIN transcript'[r][a] = 1 .. Len(transcript'[r][a])
        /\ Len(transcript'[r][a]) \in Nat
        /\ DOMAIN s = 1 .. Len(s) /\ Len(s) \in Nat /\ d \in Nat
    <3>1. d \in Nat
      BY <1>4, DepthTyped DEF ImportInv
    <3> QED
      BY <3>1, TranscriptTypedKept, EmptyIs DEF IInv, Types, StoreTyped
  <2>3. ASSUME NEW n \in DOMAIN transcript'[r][a], n > d
        PROVE  \/ n \in DOMAIN s /\ transcript'[r][a][n] = s[n]
               \/ /\ n = Len(s) + 1 /\ Speaks(r, a) /\ turns[r][a] # <<>>
                  /\ transcript'[r][a][n] = <<r, i>>
    BY <1>4, <2>3, OwnFate
  <2>4. ASSUME Speaks(r, a), turns[r][a] # <<>>
        PROVE  /\ r = run /\ i \in Nat /\ OwnMessage(r, a, <<r, i>>)
               /\ \A n \in DOMAIN s : n > d => s[n][2] <= i
    BY <2>4, Spoken
  <2>5. ASSUME NEW n \in DOMAIN s, n > d
        PROVE  OwnMessage(r, a, s[n]) /\ s[n][2] \in Nat
    <3>1. OwnMessage(r, a, s[n])
      BY <2>5 DEF AddedRight
    <3>2. PICK j : j \in AsksIn(r, a) /\ s[n] = <<r, j>>
      BY <3>1 DEF OwnMessage
    <3>3. j \in Nat
      BY <3>2, ActorSeqIs DEF IInv, Types
    <3> QED
      BY <3>1, <3>2, <3>3
  <2>6. ASSUME NEW n \in DOMAIN transcript'[r][a], n > d, NEW x, x = transcript'[r][a][n]
        PROVE  OwnMessage(r, a, x)'
    <3> HIDE DEF s, i, d
    <3>1. OwnMessage(r, a, x)
      BY <2>3, <2>4, <2>5, <2>6
    <3> QED
      BY <3>1, OwnStays
  <2>7. ASSUME NEW n \in DOMAIN transcript'[r][a], NEW m \in DOMAIN transcript'[r][a],
               n > d, n <= m
        PROVE  transcript'[r][a][n][2] <= transcript'[r][a][m][2]
    <3>1. n \in Nat /\ m \in Nat /\ m > d
      BY <2>2, <2>7
    <3>2. CASE m \in DOMAIN s /\ transcript'[r][a][m] = s[m]
      <4>1. n \in DOMAIN s /\ n # Len(s) + 1
        <5> HIDE DEF s, d
        <5> QED
          BY <2>2, <2>7, <3>1, <3>2
      <4>2. transcript'[r][a][n] = s[n]
        BY <2>3, <2>7, <4>1
      <4>3. s[n][2] <= s[m][2]
        BY <2>7, <3>2, <4>1 DEF AddedRight
      <4> QED
        BY <3>2, <4>2, <4>3
    <3>3. CASE /\ m = Len(s) + 1 /\ Speaks(r, a) /\ turns[r][a] # <<>>
               /\ transcript'[r][a][m] = <<r, i>>
      <4> HIDE DEF s, i, d
      <4>1. CASE n \in DOMAIN s /\ transcript'[r][a][n] = s[n]
        BY <2>4, <2>7, <3>3, <4>1
      <4>2. CASE transcript'[r][a][n] = <<r, i>>
        BY <2>4, <3>3, <4>2
      <4> QED
        BY <2>3, <2>7, <4>1, <4>2
    <3> QED
      BY <2>3, <3>1, <3>2, <3>3
  <2>8. ASSUME NEW t \in DOMAIN turns'[r][a], turns'[r][a][t].accepted,
               NEW n \in DOMAIN transcript'[r][a], n > d
        PROVE  transcript'[r][a][n][2] <= turns'[r][a][t].call
    <3>1. r = run
      <4>1. SUFFICES ASSUME r # run
                     PROVE  FALSE
        OBVIOUS
      <4>2. turns[r][a] = <<>>
        BY <4>1 DEF IInv, TurnsFit
      <4> QED
        BY <2>8, <4>1, <4>2, TurnsComeFrom
    <3>2. turns[r][a] \in Seq(Turns)
      BY DEF IInv, Types, TurnsTyped
    <3>3. ASSUME NEW k \in DOMAIN turns[r][a], turns[r][a][k].accepted,
                 turns'[r][a][t].call = turns[r][a][k].call
          PROVE  transcript'[r][a][n][2] <= turns'[r][a][t].call
      <4>1. k = 1
        BY <3>1, <3>3 DEF IInv, TurnsFit, TurnFits
      <4>2. i = turns[r][a][k].call
        <5>1. turns[r][a] # <<>>
          BY <3>3
        <5> QED
          BY <3>2, <4>1, <5>1, TailIs
      <4>3. CASE n \in DOMAIN s /\ transcript'[r][a][n] = s[n]
        <5>1. s[n][2] <= turns[r][a][k].call
          BY <2>8, <3>3, <4>3 DEF AddedRight
        <5> QED
          BY <3>3, <4>3, <5>1
      <4>4. CASE Speaks(r, a) /\ turns[r][a] # <<>> /\ transcript'[r][a][n] = <<r, i>>
        <5>1. i \in Nat
          BY <2>4, <4>4
        <5> HIDE DEF i
        <5> QED
          BY <3>3, <4>2, <4>4, <5>1
      <4> QED
        BY <2>3, <2>8, <4>3, <4>4
    <3>4. CASE SubmitAccepted(a) /\ InTurn(a) /\ turns'[r][a][t].call = TurnCall(a)
      <4>1. Speaks(r, a) /\ turns[r][a] # <<>> /\ TurnCall(a) = i
        BY <3>1, <3>4 DEF Speaks, InTurn, TurnCall
      <4>2. i \in Nat /\ \A k \in DOMAIN s : k > d => s[k][2] <= i
        BY <2>4, <4>1
      <4> HIDE DEF s, i, d
      <4> QED
        BY <2>3, <2>8, <3>4, <4>1, <4>2
    <3> QED
      BY <2>8, <3>1, <3>3, <3>4, AcceptedFrom
  <2> QED
    BY <2>1, <2>6, <2>7, <2>8
<1> QED
  BY <1>3, <1>4

\* The answer of an ask that ran is its own, and the session has it: beyond the
\* copy, not beyond the boundary, and with nothing of a later ask before that.
LiveAnswers ==
    \A r \in Runs : \A a \in Actors : \A i \in DOMAIN journal[r] :
        i \in AsksIn(r, a) /\ Status(r, i) = "completed" /\ ~ BeforeSplit(r, a, i) =>
            LET b == journal[r][i].boundary IN
            /\ journal[r][i].answer = <<r, i>>
            /\ \E n \in DOMAIN transcript[r][a] :
                   /\ n > Depth(r, a) /\ transcript[r][a][n] = <<r, i>>
                   /\ b # NoBoundary => n <= b
            /\ \A n \in DOMAIN transcript[r][a] :
                   n > Depth(r, a) /\ n <= b => transcript[r][a][n][2] <= i

\* A turn that settles its ask says so and answers with it.
LEMMA TurnAnswers ==
    ASSUME IInv, NEW a \in Actors, SubmitAccepted(a) \/ UntypedTurnEnds(a)
    PROVE  LET s == transcript[run][a]
               i == TurnCall(a)
           IN  /\ Speaks(run, a) /\ turns[run][a] # <<>> /\ i = Head(turns[run][a]).call
               /\ transcript'[run][a] = Append(s, <<run, i>>)
               /\ journal'[run][i].answer = <<run, i>>
               /\ journal'[run][i].boundary \in {NoBoundary, Len(s) + 1}
<1> DEFINE s == transcript[run][a]
           i == TurnCall(a)
<1>1. run \in Runs /\ run \in DOMAIN journal /\ StoreTyped
  BY DEF IInv, Types, ProgressTyped, JournalTyped
<1>2. Speaks(run, a) /\ turns[run][a] # <<>> /\ i = Head(turns[run][a]).call
  BY DEF Speaks, SubmitAccepted, UntypedTurnEnds, InTurn, TurnCall
<1>3. transcript' = Says(run, a, i)
  BY DEF SubmitAccepted, UntypedTurnEnds
<1>4. transcript'[run][a] = Append(s, <<run, i>>)
  BY <1>1, <1>3, SaysIs DEF Message
<1>5. CASE SubmitAccepted(a)
  <2>1. SetRow(i, Row("completed", <<run, i>>, NoBoundary, FALSE))
    BY <1>5 DEF SubmitAccepted, Settle
  <2>2. journal'[run][i] = Row("completed", <<run, i>>, NoBoundary, FALSE)
    BY <1>1, <2>1, SetRowPuts DEF RowIsPut
  <2> QED
    BY <1>2, <1>4, <2>2 DEF Row
<1>6. CASE UntypedTurnEnds(a)
  <2>1. SetRow(i, Row("completed", <<run, i>>, Len(s) + 1, ~ counted[run][a]))
    BY <1>6 DEF UntypedTurnEnds, Settle
  <2>2. journal'[run][i] = Row("completed", <<run, i>>, Len(s) + 1, ~ counted[run][a])
    BY <1>1, <2>1, SetRowPuts DEF RowIsPut
  <2> QED
    BY <1>2, <1>4, <2>2 DEF Row
<1> QED
  BY <1>5, <1>6

\* An ask that is settled by a step is imported, or it is that of the turn.
LEMMA SettledFate ==
    ASSUME IInv, Departures, [Next]_vars, NEW r \in Runs, NEW a \in Actors,
           NEW i \in DOMAIN journal'[r], i \in AsksIn(r, a),
           journal'[r][i].status = "completed",
           ~ (split'[r][a] = -1 \/ ActorSeq(r, i) < split'[r][a])
    PROVE  \/ i \in DOMAIN journal[r] /\ Status(r, i) = "completed"
           \/ r = run /\ (SubmitAccepted(a) \/ UntypedTurnEnds(a)) /\ i = TurnCall(a)
<1>1. SUFFICES ASSUME ~ (i \in DOMAIN journal[r] /\ Status(r, i) = "completed")
               PROVE  r = run /\ (SubmitAccepted(a) \/ UntypedTurnEnds(a)) /\ i = TurnCall(a)
  OBVIOUS
<1>2. r = run
  BY <1>1, OtherRowsStay DEF Status
<1>3. CASE i \in DOMAIN journal[run] /\ Status(run, i) = "running"
  <2>1. /\ InTurn(a) /\ TurnCall(a) = i
        /\ SubmitAccepted(a) \/ UntypedTurnEnds(a) \/ TurnFails(a)
    BY <1>2, <1>3, RunningIs
  <2>2. ~ TurnFails(a)
    <3>1. SUFFICES ASSUME TurnFails(a)
                   PROVE  FALSE
      OBVIOUS
    <3>2. SetRow(i, FailedRow) /\ run \in DOMAIN journal
      BY <2>1, <3>1 DEF TurnFails, Settle, IInv, Types, JournalTyped, ProgressTyped
    <3>3. journal'[run][i] = FailedRow
      BY <3>2, SetRowPuts DEF RowIsPut
    <3> QED
      BY <1>2, <3>3 DEF FailedRow, Row
  <2> QED
    BY <1>2, <2>1, <2>2
<1>4. CASE TryImportedSettle /\ a = NextCall.who
  <2>1. split[run][a] = -1
    BY <1>4, ImportSettles
  <2>2. split'[run][a] = -1
    BY <1>4, <2>1, TryImportedSettleFrame
  <2> QED
    BY <1>2, <2>2
<1>5. ASSUME i \in DOMAIN journal[run], journal'[run][i] = journal[run][i]
      PROVE  FALSE
  BY <1>1, <1>2, <1>5 DEF Status
<1> QED
  BY <1>1, <1>2, <1>3, <1>4, <1>5, CompletedFate

\* What a recorded answer of the subagent's own keeps.
LEMMA OldAnswerKept ==
    ASSUME IInv, ImportInv, Copied, AddedRight, LiveAnswers, [Next]_vars,
           NEW r \in Runs, NEW a \in Actors, NEW i \in DOMAIN journal[r], i \in AsksIn(r, a),
           Status(r, i) = "completed", ~ BeforeSplit(r, a, i)
    PROVE  LET b == journal'[r][i].boundary IN
           /\ journal'[r][i].answer = <<r, i>>
           /\ \E n \in DOMAIN transcript'[r][a] :
                  /\ n > Depth(r, a) /\ transcript'[r][a][n] = <<r, i>>
                  /\ b # NoBoundary => n <= b
           /\ \A n \in DOMAIN transcript'[r][a] :
                  n > Depth(r, a) /\ n <= b => transcript'[r][a][n][2] <= i
<1> DEFINE s == transcript[r][a]
           next == transcript'[r][a]
           d == Depth(r, a)
<1>1. /\ DOMAIN next = 1 .. Len(next) /\ Len(next) \in Nat
      /\ DOMAIN s = 1 .. Len(s) /\ Len(s) \in Nat
  BY TranscriptTypedKept, EmptyIs DEF IInv, Types, StoreTyped
<1>2. /\ journal'[r][i].answer = journal[r][i].answer
      /\ \/ journal'[r][i] = journal[r][i]
         \/ AcceptedTurnEnds(r, a) /\ i = Head(turns[r][a]).call
  <2>1. \A b \in Actors : AskOf(run, b, i) /\ r = run => a = b
    BY DEF AskOf, AsksIn
  <2> QED
    BY <2>1, RowsStay
<1>3. a \in sessionRow[r] /\ journal[r][i].boundary <= Len(s) /\ journal[r][i].boundary \in Nat
  <2>1. journal[r][i].boundary \in Nat
    BY DEF IInv, Types, JournalTyped, Rows
  <2> QED
    BY <2>1 DEF ImportInv, LiveRows
<1>4. \A n \in DOMAIN s : n \in DOMAIN next /\ next[n] = s[n]
  BY <1>1, <1>3, HolderStays
<1>5. PICK n \in DOMAIN s :
          /\ n > d /\ s[n] = <<r, i>>
          /\ journal[r][i].boundary # NoBoundary => n <= journal[r][i].boundary
  BY DEF LiveAnswers
<1>6. split[r][a] # -1 /\ d \in Nat
  BY DepthTyped DEF BeforeSplit, ImportInv
<1>7. CASE journal'[r][i] = journal[r][i]
  <2>1. ASSUME NEW m \in DOMAIN next, m > d, m <= journal[r][i].boundary
        PROVE  next[m][2] <= i
    <3>1. m \in DOMAIN s
      <4> HIDE DEF s, next, d
      <4> QED
        BY <1>1, <1>3, <2>1
    <3>2. s[m][2] <= i
      BY <2>1, <3>1 DEF LiveAnswers
    <3> QED
      BY <1>4, <3>1, <3>2
  <2> QED
    BY <1>2, <1>4, <1>5, <1>7, <2>1 DEF LiveAnswers
<1>8. CASE AcceptedTurnEnds(r, a) /\ i = Head(turns[r][a]).call
  <2>1. /\ RowIsEnded(r, a) /\ r = run /\ turns[r][a] # <<>>
        /\ journal[r][i].boundary = NoBoundary
    BY <1>8, EndedIs
  <2>2. journal'[r][i].boundary \in {NoBoundary, Len(s) + 1}
    BY <1>8, <2>1 DEF RowIsEnded, Row
  <2>3. Speaks(r, a)
    BY <1>8 DEF Speaks
  <2>4. i \in Nat /\ \A m \in DOMAIN s : m > d => s[m][2] <= i
    BY <1>8, <2>1, <2>3, Spoken
  <2>5. ASSUME NEW m \in DOMAIN next, m > d
        PROVE  next[m][2] <= i
    <3>1. \/ m \in DOMAIN s /\ next[m] = s[m]
          \/ next[m] = <<r, i>>
      BY <1>6, <1>8, <2>5, OwnFate
    <3> HIDE DEF s, next, d
    <3> QED
      BY <2>4, <2>5, <3>1
  <2>6. n <= Len(s) + 1
    <3> HIDE DEF s, d
    <3> QED
      BY <1>1, <1>5
  <2> QED
    BY <1>2, <1>4, <1>5, <2>2, <2>5, <2>6 DEF LiveAnswers
<1> QED
  BY <1>2, <1>7, <1>8

\* What one has that the step records.
LEMMA NewAnswerKept ==
    ASSUME IInv, ImportInv, Copied, AddedRight, [Next]_vars,
           NEW a \in Actors, SubmitAccepted(a) \/ UntypedTurnEnds(a), NEW i, i = TurnCall(a)
    PROVE  LET b == journal'[run][i].boundary IN
           /\ journal'[run][i].answer = <<run, i>>
           /\ \E n \in DOMAIN transcript'[run][a] :
                  /\ n > Depth(run, a) /\ transcript'[run][a][n] = <<run, i>>
                  /\ b # NoBoundary => n <= b
           /\ \A n \in DOMAIN transcript'[run][a] :
                  n > Depth(run, a) /\ n <= b => transcript'[run][a][n][2] <= i
<1> DEFINE s == transcript[run][a]
           next == transcript'[run][a]
           d == Depth(run, a)
<1>1. run \in Runs /\ IsSeq(s) /\ Len(s) \in Nat
  BY EmptyIs DEF IInv, Types, ProgressTyped, StoreTyped
<1>2. /\ Speaks(run, a) /\ turns[run][a] # <<>> /\ i = Head(turns[run][a]).call
      /\ next = Append(s, <<run, i>>)
      /\ journal'[run][i].answer = <<run, i>>
      /\ journal'[run][i].boundary \in {NoBoundary, Len(s) + 1}
  BY TurnAnswers
<1>3. /\ split[run][a] # -1 /\ i \in Nat
      /\ \A m \in DOMAIN s : m > d => s[m][2] <= i
  BY <1>1, <1>2, Spoken
<1>4. d <= Len(s) /\ d \in Nat
  <2>1. a \in sessionRow[run]
    BY <1>1, <1>2 DEF ImportInv, SessionsSeeded
  <2> QED
    BY <1>1, <1>3, <2>1, DepthTyped DEF ImportInv, SessionsSeeded
<1>5. ASSUME NEW m \in DOMAIN next, m > d
      PROVE  next[m][2] <= i
  <2>1. \/ m \in DOMAIN s /\ next[m] = s[m]
        \/ next[m] = <<run, i>>
    BY <1>1, <1>2, <1>3, <1>5, OwnFate
  <2> HIDE DEF s, next, d
  <2> QED
    BY <1>3, <1>5, <2>1
<1>6. Len(s) + 1 \in DOMAIN next /\ next[Len(s) + 1] = <<run, i>> /\ Len(s) + 1 > d
  <2> HIDE DEF s, next, d
  <2>1. IsSeq(next) /\ Len(next) = Len(s) + 1 /\ next[Len(s) + 1] = <<run, i>>
    BY <1>1, <1>2, AppendIs
  <2>2. DOMAIN next = 1 .. Len(next)
    BY <2>1, EmptyIs
  <2> QED
    BY <1>1, <1>4, <2>1, <2>2
<1>7. \E n \in DOMAIN next :
          /\ n > d /\ next[n] = <<run, i>>
          /\ journal'[run][i].boundary # NoBoundary => n <= journal'[run][i].boundary
  <2>1. Len(s) + 1 <= Len(s) + 1
    BY <1>1
  <2> HIDE DEF s, next, d
  <2> QED
    BY <1>2, <1>6, <2>1
<1> QED
  BY <1>2, <1>5, <1>7

LEMMA LiveAnswersKept ==
    ASSUME IInv, ImportInv, Copied, AddedRight, LiveAnswers, [Next]_vars
    PROVE  LiveAnswers'
<1>1. Scripts' = Scripts
  BY ScriptsStay
<1>2. SUFFICES ASSUME NEW r \in Runs, NEW a \in Actors, NEW i \in DOMAIN journal'[r],
                      i \in AsksIn(r, a), journal'[r][i].status = "completed",
                      ~ (split'[r][a] = -1 \/ ActorSeq(r, i) < split'[r][a])
               PROVE  LET b == journal'[r][i].boundary IN
                      /\ journal'[r][i].answer = <<r, i>>
                      /\ \E n \in DOMAIN transcript'[r][a] :
                             /\ n > Depth(r, a)' /\ transcript'[r][a][n] = <<r, i>>
                             /\ b # NoBoundary => n <= b
                      /\ \A n \in DOMAIN transcript'[r][a] :
                             n > Depth(r, a)' /\ n <= b => transcript'[r][a][n][2] <= i
  <2>1. \A r \in Runs : \A a \in Actors : AsksIn(r, a)' = AsksIn(r, a)
    BY ScriptsStay
  <2>2. \A r \in Runs : \A i : ActorSeq(r, i)' = ActorSeq(r, i)
    BY ScriptsStay
  <2> QED
    BY <1>1, <2>1, <2>2 DEF LiveAnswers, Status, BeforeSplit
<1>3. \/ i \in DOMAIN journal[r] /\ Status(r, i) = "completed"
      \/ r = run /\ (SubmitAccepted(a) \/ UntypedTurnEnds(a)) /\ i = TurnCall(a)
  BY <1>2, SettledFate DEF ImportInv
<1>4. CASE i \in DOMAIN journal[r] /\ Status(r, i) = "completed"
  <2>1. ~ BeforeSplit(r, a, i)
    BY <1>2, <1>4, DepartedBefore DEF ImportInv
  <2>2. Depth(r, a)' = Depth(r, a)
    BY <2>1, DepthStays DEF ImportInv, BeforeSplit
  <2> QED
    BY <1>2, <1>4, <2>1, <2>2, OldAnswerKept
<1>5. CASE r = run /\ (SubmitAccepted(a) \/ UntypedTurnEnds(a)) /\ i = TurnCall(a)
  <2>1. Depth(r, a)' = Depth(r, a)
    <3>1. Speaks(r, a) /\ turns[r][a] # <<>>
      BY <1>5, TurnAnswers
    <3>2. split[r][a] # -1
      BY <3>1, Spoken
    <3> QED
      BY <3>2, DepthStays DEF ImportInv
  <2>2. Depth(r, a) = Depth(run, a)
    BY <1>5
  <2> QED
    BY <1>5, <2>1, <2>2, NewAnswerKept
<1> QED
  BY <1>3, <1>4, <1>5

-----------------------------------------------------------------------------
\* The story a transcript tells

\* What the runs of this chain keep of it.
StoryInv == SourceKept /\ Copied /\ AddedRight /\ LiveAnswers

\* Exchange x is of an earlier run than y, or of the same and asked for before.
Earlier(x, y) == x[1] < y[1] \/ (x[1] = y[1] /\ x[2] < y[2])
\* A transcript holds exchanges of its run and of those before, in this order.
Ordered(r) ==
    \A a \in Actors :
        /\ \A n \in DOMAIN transcript[r][a] : transcript[r][a][n] \in (1 .. r) \X Nat
        /\ \A n, m \in DOMAIN transcript[r][a] : n <= m =>
               \/ transcript[r][a][n] = transcript[r][a][m]
               \/ Earlier(transcript[r][a][n], transcript[r][a][m])

\* A message of the copy is one of the session the chain led to before.
LEMMA CopyIsOf ==
    ASSUME IInv, ImportInv, Copied, NEW r \in Runs, NEW a \in Actors,
           NEW n \in DOMAIN transcript[r][a], n <= Depth(r, a)
    PROVE  LET s == TranscriptSource(r - 1, a) IN
           /\ split[r][a] > 0 /\ n \in Nat /\ s \in Runs /\ s \in Nat /\ s < r
           /\ n \in DOMAIN transcript[s][a]
           /\ transcript[r][a][n] = transcript[s][a][n]
<1> DEFINE p == r - 1
           s == TranscriptSource(p, a)
           d == Depth(r, a)
<1>1. plan \in Plans /\ Runs = 1 .. Len(Scripts) /\ Len(Scripts) \in Nat /\ r \in Nat
      /\ run \in Nat
  <2>1. plan \in Plans /\ run \in Runs
    BY DEF IInv, Types, ProgressTyped
  <2> QED
    BY <2>1, ScriptIs
<1>2. n \in Nat /\ n >= 1 /\ n <= Len(transcript[r][a])
  <2>1. DOMAIN transcript[r][a] = 1 .. Len(transcript[r][a]) /\ Len(transcript[r][a]) \in Nat
    BY EmptyIs DEF IInv, Types, StoreTyped
  <2> QED
    BY <2>1
<1>3. split[r][a] > 0
  BY <1>2 DEF Depth
<1>4. /\ r # 1 /\ r <= run /\ p \in Runs
      /\ split[r][a] \in DOMAIN CompletedAskPrefix(p, a)
      /\ d = CompletedAskPrefix(p, a)[split[r][a]].boundary
  BY <1>3, DepthEntry
<1>5. SourceHolds(p)
  <2>1. p <= run
    BY <1>1, <1>4
  <2> HIDE DEF p
  <2> QED
    BY <1>4, <2>1, SourcesHold DEF ImportInv
<1>6. s # NoRun /\ d <= Len(transcript[s][a])
  BY <1>4, <1>5 DEF SourceHolds
<1>7. s \in 0 .. p
  <2>1. p \in Nat
    BY <1>1, <1>4
  <2> HIDE DEF p
  <2> QED
    BY <2>1, TranscriptSourceIs
<1> HIDE DEF s
<1>8. s \in Runs /\ s \in Nat /\ s < r
  BY <1>1, <1>4, <1>6, <1>7
<1>9. DOMAIN transcript[s][a] = 1 .. Len(transcript[s][a]) /\ Len(transcript[s][a]) \in Nat
  BY <1>8, EmptyIs DEF IInv, Types, StoreTyped
<1>10. d \in Nat
  BY <1>3, DepthTyped DEF ImportInv
<1>11. n \in 1 .. d
  <2> HIDE DEF d
  <2>1. n <= d
    BY DEF d
  <2> QED
    BY <1>2, <1>10, <2>1
<1>12. transcript[r][a][n] = transcript[s][a][n]
  BY <1>2, <1>3, <1>11 DEF Copied, s
<1> HIDE DEF d, p
<1>13. n \in DOMAIN transcript[s][a]
  BY <1>2, <1>6, <1>9, <1>10, <1>11
<1> QED
  BY <1>2, <1>3, <1>8, <1>12, <1>13 DEF s, p

LEMMA AllOrdered ==
    ASSUME IInv, ImportInv, StoryInv
    PROVE  \A r \in Runs : Ordered(r)
<1> DEFINE Wrong == {r \in Runs : ~ Ordered(r)}
<1>1. plan \in Plans /\ Runs = 1 .. Len(Scripts) /\ Len(Scripts) \in Nat
  <2>1. plan \in Plans
    BY DEF IInv, Types
  <2> QED
    BY <2>1, ScriptIs
<1>2. SUFFICES ASSUME Wrong # {}
               PROVE  FALSE
  OBVIOUS
<1>3. Wrong \in SUBSET Nat
  BY <1>1
<1>4. PICK r \in Wrong : \A q \in Wrong : r <= q
  <2> HIDE DEF Wrong
  <2> QED
    BY <1>2, <1>3, LeastNumber
<1>5. r \in Runs /\ r \in Nat /\ 1 <= r /\ ~ Ordered(r)
  BY <1>1, <1>4
<1>6. \A q \in Runs : q < r => Ordered(q)
  BY <1>1, <1>4, <1>5
<1> HIDE DEF Wrong
<1>7. ASSUME NEW a \in Actors
      PROVE  /\ \A n \in DOMAIN transcript[r][a] : transcript[r][a][n] \in (1 .. r) \X Nat
             /\ \A n, m \in DOMAIN transcript[r][a] : n <= m =>
                    \/ transcript[r][a][n] = transcript[r][a][m]
                    \/ Earlier(transcript[r][a][n], transcript[r][a][m])
  <2> DEFINE s == transcript[r][a]
             d == Depth(r, a)
             p == TranscriptSource(r - 1, a)
  <2>1. DOMAIN s = 1 .. Len(s) /\ Len(s) \in Nat
    BY <1>5, EmptyIs DEF IInv, Types, StoreTyped
  <2>2. d \in Nat
    BY <1>5, DepthTyped DEF ImportInv, Depth
  <2>3. ASSUME NEW n \in DOMAIN s, n <= d
        PROVE  /\ p \in Runs /\ p \in Nat /\ p < r /\ Ordered(p) /\ n \in DOMAIN transcript[p][a]
               /\ s[n] = transcript[p][a][n]
    <3>1. /\ p \in Runs /\ p \in Nat /\ p < r /\ n \in DOMAIN transcript[p][a]
          /\ s[n] = transcript[p][a][n]
      BY <1>5, <2>3, CopyIsOf DEF StoryInv
    <3> QED
      BY <1>6, <3>1
  <2>4. ASSUME NEW n \in DOMAIN s, n > d
        PROVE  s[n] \in {r} \X Nat
    <3>1. PICK i \in DOMAIN journal[r] : i \in AsksIn(r, a) /\ s[n] = <<r, i>>
      BY <1>5, <2>4 DEF StoryInv, AddedRight, OwnMessage
    <3>2. i \in Nat
      BY <1>1, <1>5, <3>1, ActorSeqIs
    <3> QED
      BY <3>1, <3>2
  <2>5. ASSUME NEW n \in DOMAIN s, n <= d
        PROVE  s[n] \in (1 .. r - 1) \X Nat
    <3>1. transcript[p][a][n] \in (1 .. p) \X Nat
      BY <2>3, <2>5 DEF Ordered
    <3>2. 1 .. p \subseteq 1 .. r - 1
      BY <1>5, <2>3, <2>5
    <3> QED
      BY <2>3, <2>5, <3>1, <3>2
  <2>6. ASSUME NEW n \in DOMAIN s
        PROVE  s[n] \in (1 .. r) \X Nat
    <3>1. n <= d \/ n > d
      BY <2>1, <2>2
    <3>2. 1 .. r - 1 \subseteq 1 .. r /\ {r} \subseteq 1 .. r
      BY <1>5
    <3> QED
      BY <2>4, <2>5, <3>1, <3>2
  <2>7. ASSUME NEW n \in DOMAIN s, NEW m \in DOMAIN s, n <= m
        PROVE  s[n] = s[m] \/ Earlier(s[n], s[m])
    <3>1. CASE m <= d
      <4>1. n <= d
        <5> HIDE DEF s, d
        <5> QED
          BY <2>1, <2>2, <2>7, <3>1
      <4> QED
        BY <2>3, <2>7, <3>1, <4>1 DEF Ordered
    <3>2. CASE n <= d /\ m > d
      <4>1. s[n] \in (1 .. r - 1) \X Nat /\ s[m] \in {r} \X Nat
        BY <2>4, <2>5, <3>2
      <4>2. s[n][1] < s[m][1]
        BY <1>5, <4>1
      <4> QED
        BY <4>2 DEF Earlier
    <3>3. CASE n > d
      <4>1. m > d
        <5> HIDE DEF s, d
        <5> QED
          BY <2>1, <2>2, <2>7, <3>3
      <4>2. s[n] \in {r} \X Nat /\ s[m] \in {r} \X Nat
        BY <2>4, <3>3, <4>1
      <4>3. s[n][2] <= s[m][2]
        BY <1>5, <2>7, <3>3 DEF StoryInv, AddedRight
      <4> HIDE DEF s
      <4> QED
        BY <4>2, <4>3 DEF Earlier
    <3> QED
      BY <2>1, <2>2, <3>1, <3>2, <3>3
  <2> QED
    BY <2>6, <2>7
<1> QED
  BY <1>5, <1>7 DEF Ordered

\* The answers run r has of a subagent up to its k-th ask, and the exchanges its
\* transcript has up to message b.
Given(r, a, k) == {CompletedAskPrefix(r, a)[l].answer : l \in 1 .. k}
Said(r, a, b) == {transcript[r][a][m] : m \in 1 .. b}
\* The answers come in the order of the exchanges they were given in, which are
\* recorded; the boundary of the last cuts the transcript the chain leads to
\* where it holds these exchanges and no other.
Told(r) ==
    \A a \in Actors : \A k \in DOMAIN CompletedAskPrefix(r, a) :
        LET x == CompletedAskPrefix(r, a)[k].answer
            b == CompletedAskPrefix(r, a)[k].boundary
        IN  /\ x \in (1 .. r) \X Nat /\ Succeeded(x)
            /\ \A l \in 1 .. k - 1 : Earlier(CompletedAskPrefix(r, a)[l].answer, x)
            /\ b # NoBoundary => Said(TranscriptSource(r, a), a, b) = Given(r, a, k)

\* An answer is imported or it is the run's own.
LEMMA GivenIs ==
    ASSUME IInv, ImportInv, StoryInv, NEW r \in Runs, NEW a \in Actors,
           NEW k \in DOMAIN CompletedAskPrefix(r, a)
    PROVE  LET i == AsksOf(r, a)[k]
               now == CompletedAskPrefix(r, a)[k]
           IN  /\ r \in Nat /\ r <= run /\ k \in Nat /\ k >= 1 /\ split[r][a] \in Int
               /\ i \in AsksIn(r, a) /\ i \in DOMAIN journal[r] /\ i \in Nat
               /\ Status(r, i) = "completed" /\ ActorSeq(r, i) = k - 1
               /\ now.answer = journal[r][i].answer /\ now.boundary = journal[r][i].boundary
               /\ split[r][a] = -1 \/ k <= split[r][a] =>
                      /\ BeforeSplit(r, a, i)
                      /\ r # 1 /\ r - 1 \in Runs /\ k \in DOMAIN CompletedAskPrefix(r - 1, a)
                      /\ Offered(r, a) = CompletedAskPrefix(r - 1, a)
                      /\ now.answer = CompletedAskPrefix(r - 1, a)[k].answer
                      /\ now.boundary = CompletedAskPrefix(r - 1, a)[k].boundary
                      /\ now.boundary # NoBoundary
               /\ split[r][a] # -1 /\ split[r][a] < k =>
                      /\ ~ BeforeSplit(r, a, i)
                      /\ a \in sessionRow[r] /\ TranscriptSource(r, a) = r
                      /\ now.answer = <<r, i>>
<1> DEFINE i == AsksOf(r, a)[k]
           now == CompletedAskPrefix(r, a)[k]
<1>1. plan \in Plans /\ r \in Nat /\ r # 0 /\ split[r][a] \in Int
  <2>1. plan \in Plans /\ split[r][a] \in Int
    BY DEF IInv, Types, GhostsTyped
  <2> QED
    BY <2>1, ScriptIs
<1>2. /\ k \in Nat /\ k >= 1
      /\ i \in AsksIn(r, a) /\ ActorSeq(r, i) = k - 1
      /\ i \in DOMAIN journal[r] /\ Status(r, i) = "completed"
      /\ now.answer = journal[r][i].answer /\ now.boundary = journal[r][i].boundary
  BY PrefixRow
<1>3. i \in Nat
  BY <1>1, <1>2, ActorSeqIs
<1>4. r <= run
  BY <1>2 DEF ImportInv, Departures, RowsBehind
<1> HIDE DEF i, now
<1>5. ASSUME split[r][a] = -1 \/ k <= split[r][a]
      PROVE  /\ BeforeSplit(r, a, i)
             /\ r # 1 /\ r - 1 \in Runs /\ k \in DOMAIN CompletedAskPrefix(r - 1, a)
             /\ Offered(r, a) = CompletedAskPrefix(r - 1, a)
             /\ now.answer = CompletedAskPrefix(r - 1, a)[k].answer
             /\ now.boundary = CompletedAskPrefix(r - 1, a)[k].boundary
             /\ now.boundary # NoBoundary
  <2>1. BeforeSplit(r, a, i)
    BY <1>1, <1>2, <1>5 DEF BeforeSplit
  <2>2. ActorSeq(r, i) + 1 = k
    BY <1>2
  <2> QED
    BY <1>2, <2>1, <2>2, Inherited
<1>6. ASSUME split[r][a] # -1, split[r][a] < k
      PROVE  /\ ~ BeforeSplit(r, a, i)
             /\ a \in sessionRow[r] /\ TranscriptSource(r, a) = r
             /\ now.answer = <<r, i>>
  <2>1. ~ BeforeSplit(r, a, i)
    BY <1>1, <1>2, <1>6 DEF BeforeSplit
  <2>2. a \in sessionRow[r]
    BY <1>2, <2>1 DEF ImportInv, LiveRows
  <2>3. journal[r][i].answer = <<r, i>>
    BY <1>2, <2>1 DEF StoryInv, LiveAnswers
  <2> QED
    BY <1>1, <1>2, <2>1, <2>2, <2>3, SourceIs
<1> QED
  BY <1>1, <1>2, <1>3, <1>4, <1>5, <1>6 DEF i, now

\* The copy holds what was imported.
LEMMA CopyTells ==
    ASSUME IInv, ImportInv, StoryInv, NEW r \in Runs, NEW a \in Actors, split[r][a] > 0,
           Depth(r, a) <= Len(transcript[r][a]),
           r # 1 => Told(r - 1)
    PROVE  LET d == Depth(r, a) IN
           /\ d \in Nat /\ d # 0 /\ split[r][a] \in DOMAIN CompletedAskPrefix(r - 1, a)
           /\ \A m \in 1 .. d :
                  transcript[r][a][m] = transcript[TranscriptSource(r - 1, a)][a][m]
           /\ Said(r, a, d) = Given(r - 1, a, split[r][a])
<1> DEFINE d == Depth(r, a)
           n == split[r][a]
           B == CompletedAskPrefix(r - 1, a)
<1>1. /\ r # 1 /\ r - 1 \in Runs /\ n \in DOMAIN B /\ d = B[n].boundary
      /\ Offered(r, a) = B /\ r <= run
  BY DepthEntry
<1>2. d # NoBoundary
  <2> HIDE DEF n
  <2> QED
    BY <1>1, OfferedBound DEF ImportInv, Departures
<1>3. d \in Nat
  BY DepthTyped DEF ImportInv
<1>4. ASSUME NEW m \in 1 .. d
      PROVE  transcript[r][a][m] = transcript[TranscriptSource(r - 1, a)][a][m]
  <2>1. m <= Len(transcript[r][a])
    <3>1. Len(transcript[r][a]) \in Nat
      BY EmptyIs DEF IInv, Types, StoreTyped
    <3> DEFINE l == Len(transcript[r][a])
    <3>2. l \in Nat /\ d <= l
      BY <3>1
    <3> HIDE DEF l, d
    <3>3. m <= l
      BY <1>3, <1>4, <3>2
    <3> QED
      BY <3>3 DEF l
  <2> QED
    BY <1>4, <2>1 DEF StoryInv, Copied
<1>5. Said(TranscriptSource(r - 1, a), a, d) = Given(r - 1, a, n)
  <2> HIDE DEF n, d
  <2> QED
    BY <1>1, <1>2 DEF Told
<1>6. Said(r, a, d) = Said(TranscriptSource(r - 1, a), a, d)
  <2> HIDE DEF d
  <2> QED
    BY <1>4 DEF Said
<1> QED
  BY <1>1, <1>2, <1>3, <1>4, <1>5, <1>6

\* An imported answer is told as the run before tells it.
LEMMA ImportedTold ==
    ASSUME IInv, ImportInv, StoryInv, NEW r \in Runs, r # 1 => Told(r - 1), NEW a \in Actors,
           NEW k \in DOMAIN CompletedAskPrefix(r, a),
           split[r][a] = -1 \/ k <= split[r][a]
    PROVE  LET x == CompletedAskPrefix(r, a)[k].answer
               b == CompletedAskPrefix(r, a)[k].boundary
           IN  /\ x \in (1 .. r - 1) \X Nat /\ Succeeded(x)
               /\ \A l \in 1 .. k - 1 : Earlier(CompletedAskPrefix(r, a)[l].answer, x)
               /\ Said(TranscriptSource(r, a), a, b) = Given(r, a, k)
<1> DEFINE P == CompletedAskPrefix(r, a)
           B == CompletedAskPrefix(r - 1, a)
           b == P[k].boundary
           now == TranscriptSource(r, a)
           before == TranscriptSource(r - 1, a)
<1>1. /\ r \in Nat /\ r <= run /\ r # 1 /\ r - 1 \in Runs /\ k \in DOMAIN B /\ k \in Nat
      /\ Offered(r, a) = B /\ P[k].answer = B[k].answer /\ b = B[k].boundary
      /\ b # NoBoundary /\ split[r][a] \in Int
  BY GivenIs
<1>2. \A l \in 1 .. k : l \in DOMAIN P /\ P[l].answer = B[l].answer
  <2>1. SUFFICES ASSUME NEW l \in 1 .. k
                 PROVE  l \in DOMAIN P /\ P[l].answer = B[l].answer
    OBVIOUS
  <2>2. DOMAIN P = 1 .. Len(P) /\ Len(P) \in Nat
    BY PrefixIs, AsksOfIs DEF IInv, Types
  <2> HIDE DEF P
  <2>3. l \in DOMAIN P
    BY <1>1, <2>1, <2>2 DEF P
  <2>4. split[r][a] = -1 \/ l <= split[r][a]
    BY <1>1, <2>1
  <2> QED
    BY <2>3, <2>4, GivenIs DEF P
<1>3. Told(r - 1)
  BY <1>1
<1>4. /\ B[k].answer \in (1 .. r - 1) \X Nat /\ Succeeded(B[k].answer)
      /\ \A l \in 1 .. k - 1 : Earlier(B[l].answer, B[k].answer)
      /\ Said(before, a, b) = Given(r - 1, a, k)
  BY <1>1, <1>3 DEF Told
<1>5. \A l \in 1 .. k - 1 : l \in 1 .. k
  BY <1>1
<1>6. Given(r, a, k) = Given(r - 1, a, k)
  BY <1>2 DEF Given
<1>7. Said(now, a, b) = Said(before, a, b)
  <2>1. CASE a \notin sessionRow[r]
    <3>1. now = before
      BY <1>1, <2>1, ScriptIs, SourceIs DEF IInv, Types
    <3> QED
      BY <3>1
  <2>2. CASE a \in sessionRow[r]
    <3>1. now = r
      BY <1>1, <2>2, ScriptIs, SourceIs DEF IInv, Types
    <3>2. split[r][a] # -1 /\ Depth(r, a) <= Len(transcript[r][a])
      BY <2>2 DEF ImportInv, SessionsSeeded
    <3>3. k <= split[r][a] /\ split[r][a] > 0
      <4>1. k >= 1
        BY GivenIs
      <4> QED
        BY <1>1, <3>2, <4>1
    <3>4. /\ Depth(r, a) \in Nat
          /\ \A m \in 1 .. Depth(r, a) : transcript[r][a][m] = transcript[before][a][m]
      BY <3>2, <3>3, CopyTells
    <3>5. b \in Nat /\ b <= Depth(r, a)
      <4>1. /\ split[r][a] \in DOMAIN B /\ Depth(r, a) = B[split[r][a]].boundary
        BY <3>3, DepthEntry
      <4> HIDE DEF b, B
      <4> QED
        BY <1>1, <3>3, <4>1, OfferedMonotone DEF ImportInv, Departures
    <3> HIDE DEF b, before, now
    <3>6. \A m \in 1 .. b : m \in 1 .. Depth(r, a)
      BY <3>4, <3>5
    <3> QED
      BY <3>1, <3>4, <3>6 DEF Said
  <2> QED
    BY <2>1, <2>2
<1> HIDE DEF P, B, now, before
<1> QED
  BY <1>1, <1>2, <1>4, <1>5, <1>6, <1>7 DEF P, B, now, before

\* The copy and the exchanges after it are told in full up to the boundary of an
\* answer of the run's own.
LEMMA OwnTold ==
    ASSUME IInv, ImportInv, StoryInv, NEW r \in Runs, r # 1 => Told(r - 1), NEW a \in Actors,
           NEW k \in DOMAIN CompletedAskPrefix(r, a),
           split[r][a] # -1, split[r][a] < k,
           CompletedAskPrefix(r, a)[k].boundary # NoBoundary
    PROVE  Said(r, a, CompletedAskPrefix(r, a)[k].boundary) = Given(r, a, k)
<1> DEFINE P == CompletedAskPrefix(r, a)
           Ask(l) == AsksOf(r, a)[l]
           b == P[k].boundary
           s == transcript[r][a]
           d == Depth(r, a)
           n == split[r][a]
<1>1. plan \in Plans /\ r \in Nat /\ r # 0 /\ n \in Int
  <2>1. plan \in Plans /\ n \in Int
    BY DEF IInv, Types, GhostsTyped
  <2> QED
    BY <2>1, ScriptIs
<1>2. /\ k \in Nat /\ Ask(k) \in AsksIn(r, a) /\ Ask(k) \in DOMAIN journal[r] /\ Ask(k) \in Nat
      /\ Status(r, Ask(k)) = "completed" /\ ActorSeq(r, Ask(k)) = k - 1
      /\ b = journal[r][Ask(k)].boundary /\ ~ BeforeSplit(r, a, Ask(k))
      /\ a \in sessionRow[r] /\ P[k].answer = <<r, Ask(k)>>
  BY GivenIs
<1>3. DOMAIN s = 1 .. Len(s) /\ Len(s) \in Nat
  BY EmptyIs DEF IInv, Types, StoreTyped
<1>4. n \in Nat /\ d \in Nat
  BY DepthTyped DEF ImportInv
<1>5. d <= Len(s) /\ b <= Len(s) /\ b \in Nat
  <2>1. b \in Nat
    BY <1>2 DEF IInv, Types, JournalTyped, Rows
  <2> QED
    BY <1>2, <2>1 DEF ImportInv, SessionsSeeded, LiveRows
<1>6. DOMAIN P = 1 .. Len(P) /\ Len(P) \in Nat
  BY <1>1, PrefixIs, AsksOfIs
<1>7. \A l \in 1 .. k : l \in DOMAIN P /\ l \in Nat
  <2> HIDE DEF P
  <2>1. k \in DOMAIN P
    BY DEF P
  <2> QED
    BY <1>2, <1>6, <2>1
\* The messages of the answers themselves.
<1>8. PICK top \in DOMAIN s : top > d /\ s[top] = <<r, Ask(k)>> /\ top <= b
  BY <1>2 DEF StoryInv, LiveAnswers
<1>9. ASSUME NEW l \in 1 .. k, n < l
      PROVE  \E m \in 1 .. b : s[m] = P[l].answer
  <2>1. /\ Ask(l) \in AsksIn(r, a) /\ Ask(l) \in DOMAIN journal[r] /\ Ask(l) \in Nat
        /\ Status(r, Ask(l)) = "completed" /\ ActorSeq(r, Ask(l)) = l - 1
        /\ ~ BeforeSplit(r, a, Ask(l)) /\ P[l].answer = <<r, Ask(l)>>
    BY <1>7, <1>9, GivenIs
  <2>2. PICK m \in DOMAIN s : m > d /\ s[m] = <<r, Ask(l)>>
    BY <2>1 DEF StoryInv, LiveAnswers
  <2>3. CASE l = k
    <3>1. top \in 1 .. b
      <4> HIDE DEF s, b, d
      <4> QED
        BY <1>3, <1>5, <1>8
    <3> QED
      BY <1>2, <1>8, <2>3, <3>1
  <2>4. CASE l # k
    <3>1. ActorSeq(r, Ask(l)) < ActorSeq(r, Ask(k))
      BY <1>2, <1>9, <2>1, <2>4
    <3>2. Ask(l) < Ask(k)
      <4> HIDE DEF Ask
      <4> QED
        BY <1>1, <1>2, <2>1, <3>1, ActorSeqIs
    <3>3. ~ (top <= m)
      <4>1. SUFFICES ASSUME top <= m
                     PROVE  FALSE
        OBVIOUS
      <4>2. s[top][2] <= s[m][2]
        BY <1>8, <2>2, <4>1 DEF StoryInv, AddedRight
      <4> HIDE DEF Ask, s
      <4> QED
        BY <1>2, <1>8, <2>1, <2>2, <3>2, <4>2
    <3>4. m \in 1 .. b
      <4> HIDE DEF s, b, d
      <4> QED
        BY <1>3, <1>5, <1>8, <2>2, <3>3
    <3> QED
      BY <2>1, <2>2, <3>4
  <2> QED
    BY <2>3, <2>4
<1>10. ASSUME NEW m \in 1 .. b, m > d
       PROVE  \E l \in 1 .. k : P[l].answer = s[m]
  <2>1. m \in DOMAIN s
    <3> HIDE DEF s, b
    <3> QED
      BY <1>3, <1>5, <1>10
  <2>2. PICK j \in DOMAIN journal[r] :
            /\ j \in AsksIn(r, a) /\ ~ BeforeSplit(r, a, j) /\ s[m] = <<r, j>>
    BY <1>10, <2>1 DEF StoryInv, AddedRight, OwnMessage
  <2>3. m <= b
    <3> HIDE DEF b
    <3> QED
      BY <1>5, <1>10
  <2>4. s[m][2] <= Ask(k)
    BY <1>2, <1>10, <2>1, <2>3 DEF StoryInv, LiveAnswers
  <2> DEFINE l == ActorSeq(r, j) + 1
  <2>5. j \in Nat /\ ActorSeq(r, j) \in Nat /\ l \in 1 .. Len(AsksOf(r, a)) /\ Ask(l) = j
    BY <1>1, <2>2, ActorSeqIs, AsksOfIs
  <2>6. l <= k /\ n < l
    <3>1. ~ (Ask(k) < j)
      <4> HIDE DEF Ask, s
      <4> QED
        BY <1>2, <2>2, <2>4, <2>5
    <3>2. ~ (ActorSeq(r, Ask(k)) < ActorSeq(r, j))
      <4> HIDE DEF Ask
      <4> QED
        BY <1>1, <1>2, <2>2, <3>1, ActorSeqIs
    <3>3. l <= k
      BY <1>2, <2>5, <3>2
    <3>4. n < l
      BY <1>4, <2>2, <2>5 DEF BeforeSplit
    <3> QED
      BY <3>3, <3>4
  <2> HIDE DEF l
  <2>7. l \in 1 .. k
    <3>1. l \in Nat /\ l >= 1
      BY <2>5 DEF l
    <3> QED
      BY <1>2, <2>6, <3>1
  <2>8. P[l].answer = <<r, Ask(l)>>
    BY <1>7, <2>6, <2>7, GivenIs
  <2> QED
    BY <2>2, <2>5, <2>7, <2>8
\* The messages that were copied.
<1>11. ASSUME n > 0
       PROVE  /\ d # 0 /\ d <= b /\ n < k
              /\ Said(r, a, d) = Given(r, a, n)
  <2>1. Said(r, a, d) = Given(r - 1, a, n) /\ d # 0
    BY <1>5, <1>11, CopyTells
  <2>2. \A l \in 1 .. n : P[l].answer = CompletedAskPrefix(r - 1, a)[l].answer
    <3>1. \A l \in 1 .. n : l \in 1 .. k /\ l <= n
      BY <1>2, <1>4
    <3> QED
      BY <1>7, <3>1, GivenIs
  <2>3. Given(r, a, n) = Given(r - 1, a, n)
    BY <2>2 DEF Given
  <2>4. d <= b
    <3> HIDE DEF s, b, d
    <3> QED
      BY <1>3, <1>4, <1>5, <1>8
  <2> QED
    BY <2>1, <2>3, <2>4
<1> HIDE DEF P, Ask, b, s, d, n
<1>12. ASSUME NEW m \in 1 .. b
       PROVE  \E l \in 1 .. k : s[m] = P[l].answer
  <2>1. m > d \/ m \in 1 .. d
    BY <1>4, <1>5
  <2>2. CASE m \in 1 .. d
    <3>1. n > 0
      <4>1. d # 0
        BY <1>4, <2>2
      <4> QED
        BY <4>1 DEF d, n, Depth
    <3>2. s[m] \in Said(r, a, d)
      BY <2>2 DEF Said, s
    <3>3. s[m] \in Given(r, a, n)
      BY <1>11, <3>1, <3>2
    <3>4. PICK l \in 1 .. n : s[m] = P[l].answer
      BY <3>3 DEF Given, P
    <3>5. l \in 1 .. k
      BY <1>2, <1>4, <1>11, <3>1
    <3> QED
      BY <3>4, <3>5
  <2> QED
    BY <1>10, <2>1, <2>2
<1>13. ASSUME NEW l \in 1 .. k
       PROVE  \E m \in 1 .. b : s[m] = P[l].answer
  <2>1. n < l \/ (l \in 1 .. n /\ n > 0)
    BY <1>2, <1>4
  <2>2. CASE l \in 1 .. n /\ n > 0
    <3>1. P[l].answer \in Given(r, a, n)
      BY <2>2 DEF Given, P
    <3>2. P[l].answer \in Said(r, a, d)
      BY <1>11, <2>2, <3>1
    <3>3. PICK m \in 1 .. d : s[m] = P[l].answer
      BY <3>2 DEF Said, s
    <3>4. m \in 1 .. b
      BY <1>4, <1>5, <1>11, <2>2
    <3> QED
      BY <3>3, <3>4
  <2> QED
    BY <1>9, <2>1, <2>2
<1>14. Said(r, a, b) = {s[m] : m \in 1 .. b} /\ Given(r, a, k) = {P[l].answer : l \in 1 .. k}
  BY DEF Said, Given, s, P
<1>15. {s[m] : m \in 1 .. b} = {P[l].answer : l \in 1 .. k}
  BY <1>12, <1>13
<1> QED
  BY <1>14, <1>15 DEF b, P

\* What the run tells of its own answers.
LEMMA LiveTold ==
    ASSUME IInv, ImportInv, StoryInv, NEW r \in Runs, r # 1 => Told(r - 1), NEW a \in Actors,
           NEW k \in DOMAIN CompletedAskPrefix(r, a),
           split[r][a] # -1, split[r][a] < k
    PROVE  LET x == CompletedAskPrefix(r, a)[k].answer
               b == CompletedAskPrefix(r, a)[k].boundary
           IN  /\ x \in {r} \X Nat /\ Succeeded(x)
               /\ \A l \in 1 .. k - 1 : Earlier(CompletedAskPrefix(r, a)[l].answer, x)
               /\ b # NoBoundary => Said(TranscriptSource(r, a), a, b) = Given(r, a, k)
<1> DEFINE P == CompletedAskPrefix(r, a)
           Ask(l) == AsksOf(r, a)[l]
<1>1. plan \in Plans /\ r \in Nat /\ r # 0 /\ split[r][a] \in Int
  <2>1. plan \in Plans /\ split[r][a] \in Int
    BY DEF IInv, Types, GhostsTyped
  <2> QED
    BY <2>1, ScriptIs
<1>2. /\ k \in Nat /\ Ask(k) \in AsksIn(r, a) /\ Ask(k) \in DOMAIN journal[r] /\ Ask(k) \in Nat
      /\ Status(r, Ask(k)) = "completed" /\ ActorSeq(r, Ask(k)) = k - 1
      /\ TranscriptSource(r, a) = r /\ P[k].answer = <<r, Ask(k)>>
  BY GivenIs
<1>3. DOMAIN P = 1 .. Len(P) /\ Len(P) \in Nat
  BY <1>1, PrefixIs, AsksOfIs
<1>4. ASSUME NEW l \in 1 .. k - 1
      PROVE  Earlier(P[l].answer, P[k].answer)
  <2>1. l \in DOMAIN P /\ l < k /\ l \in Nat
    <3> HIDE DEF P
    <3>1. k \in DOMAIN P
      BY DEF P
    <3> QED
      BY <1>2, <1>3, <3>1
  <2>2. CASE split[r][a] < l
    <3>1. /\ Ask(l) \in AsksIn(r, a) /\ ActorSeq(r, Ask(l)) = l - 1
          /\ P[l].answer = <<r, Ask(l)>>
      BY <2>1, <2>2, GivenIs
    <3>2. ActorSeq(r, Ask(l)) < ActorSeq(r, Ask(k))
      BY <1>2, <2>1, <3>1
    <3> HIDE DEF Ask, P
    <3>3. Ask(l) < Ask(k)
      BY <1>1, <1>2, <3>1, <3>2, ActorSeqIs
    <3> QED
      BY <1>2, <3>1, <3>3 DEF Earlier
  <2>3. CASE l <= split[r][a]
    <3>1. P[l].answer \in (1 .. r - 1) \X Nat
      BY <2>1, <2>3, ImportedTold
    <3> HIDE DEF P
    <3>2. P[l].answer[1] < r
      BY <1>1, <3>1
    <3> QED
      BY <1>2, <3>2 DEF Earlier
  <2> QED
    BY <1>1, <2>1, <2>2, <2>3
<1>5. Completed(r, Ask(k))
  BY <1>2 DEF Completed, Recorded, Status
<1> HIDE DEF Ask
<1>6. P[k].answer \in {r} \X Nat /\ Succeeded(P[k].answer)
  BY <1>2, <1>5 DEF Succeeded
<1> QED
  BY <1>2, <1>4, <1>6, OwnTold

LEMMA AllTold ==
    ASSUME IInv, ImportInv, StoryInv
    PROVE  \A r \in Runs : Told(r)
<1> DEFINE Wrong == {r \in Runs : ~ Told(r)}
<1>1. plan \in Plans /\ Runs = 1 .. Len(Scripts) /\ Len(Scripts) \in Nat
  <2>1. plan \in Plans
    BY DEF IInv, Types
  <2> QED
    BY <2>1, ScriptIs
<1>2. SUFFICES ASSUME Wrong # {}
               PROVE  FALSE
  OBVIOUS
<1>3. Wrong \in SUBSET Nat
  BY <1>1
<1>4. PICK r \in Wrong : \A q \in Wrong : r <= q
  <2> HIDE DEF Wrong
  <2> QED
    BY <1>2, <1>3, LeastNumber
<1>5. r \in Runs /\ r \in Nat /\ 1 <= r /\ ~ Told(r)
  BY <1>1, <1>4
<1>6. r # 1 => Told(r - 1)
  <2>1. SUFFICES ASSUME r # 1
                 PROVE  Told(r - 1)
    OBVIOUS
  <2>2. r - 1 \in Runs /\ ~ (r <= r - 1)
    BY <1>1, <1>5, <2>1
  <2> QED
    BY <1>4, <2>2
<1> HIDE DEF Wrong
<1>7. ASSUME NEW a \in Actors, NEW k \in DOMAIN CompletedAskPrefix(r, a)
      PROVE  LET x == CompletedAskPrefix(r, a)[k].answer
                 b == CompletedAskPrefix(r, a)[k].boundary
             IN  /\ x \in (1 .. r) \X Nat /\ Succeeded(x)
                 /\ \A l \in 1 .. k - 1 : Earlier(CompletedAskPrefix(r, a)[l].answer, x)
                 /\ b # NoBoundary => Said(TranscriptSource(r, a), a, b) = Given(r, a, k)
  <2>1. 1 .. r - 1 \subseteq 1 .. r /\ {r} \subseteq 1 .. r
    BY <1>5
  <2>2. CASE split[r][a] = -1 \/ k <= split[r][a]
    BY <1>5, <1>6, <2>1, <2>2, ImportedTold
  <2>3. CASE split[r][a] # -1 /\ split[r][a] < k
    BY <1>5, <1>6, <2>1, <2>3, LiveTold
  <2>4. k \in Nat /\ split[r][a] \in Int
    BY <1>5, GivenIs
  <2> QED
    BY <2>2, <2>3, <2>4
<1> QED
  BY <1>5, <1>7 DEF Told

-----------------------------------------------------------------------------
\* The order of the exchanges

\* The order of a set follows that of another it is the image of.
LEMMA OrderFollows ==
    ASSUME NEW S \in SUBSET Nat, IsFiniteSet(S), NEW T \in SUBSET Nat, NEW f \in [S -> T],
           \A i, j \in S : i < j => f[i] < f[j],
           \A t \in T : \E i \in S : f[i] = t
    PROVE  /\ IsFiniteSet(T) /\ Cardinality(T) = Cardinality(S)
           /\ \A n \in 1 .. Cardinality(S) : InOrder(T)[n] = f[InOrder(S)[n]]
<1>1. \A i, j \in S : f[i] = f[j] => i = j
  <2>1. SUFFICES ASSUME NEW i \in S, NEW j \in S, f[i] = f[j], i # j
                 PROVE  FALSE
    OBVIOUS
  <2>2. i < j \/ j < i
    BY <2>1
  <2>3. f[i] \in Nat /\ f[j] \in Nat
    OBVIOUS
  <2> QED
    BY <2>1, <2>2, <2>3
<1>2. ASSUME NEW U \in SUBSET S, NEW V, V = {f[i] : i \in U}
      PROVE  IsFiniteSet(V) /\ Cardinality(V) = Cardinality(U)
  <2> DEFINE g == [i \in U |-> f[i]]
  <2>1. g \in Bijection(U, V)
    <3>1. g \in [U -> V] /\ \A v \in V : \E i \in U : g[i] = v
      BY <1>2
    <3>2. \A i, j \in U : g[i] = g[j] => i = j
      BY <1>1
    <3>3. DOMAIN g = U
      OBVIOUS
    <3> HIDE DEF g
    <3> QED
      BY <3>1, <3>2, <3>3 DEF Bijection, Injection, Surjection, IsInjective
  <2>2. IsFiniteSet(U)
    BY FS_Subset
  <2> HIDE DEF g
  <2>3. ExistsBijection(U, V)
    BY <2>1 DEF ExistsBijection
  <2> QED
    BY <2>2, <2>3, FS_Bijection
<1>3. IsFiniteSet(T) /\ Cardinality(T) = Cardinality(S)
  <2>1. T = {f[i] : i \in S}
    OBVIOUS
  <2> QED
    BY <1>2, <2>1
<1>4. ASSUME NEW i \in S
      PROVE  Rank(T, f[i]) = Rank(S, i)
  <2> DEFINE U == {j \in S : j <= i}
             V == {t \in T : t <= f[i]}
  <2>1. ASSUME NEW j \in S
        PROVE  j <= i <=> f[j] <= f[i]
    <3>1. j \in Nat /\ i \in Nat /\ f[i] \in Nat /\ f[j] \in Nat
      OBVIOUS
    <3>2. j < i \/ j = i \/ i < j
      BY <3>1
    <3>3. j < i => f[j] < f[i]
      OBVIOUS
    <3>4. i < j => f[i] < f[j]
      OBVIOUS
    <3> QED
      BY <3>1, <3>2, <3>3, <3>4
  <2>2. V = {f[j] : j \in U}
    BY <2>1
  <2>3. U \in SUBSET S
    OBVIOUS
  <2> HIDE DEF U, V
  <2>4. Cardinality(V) = Cardinality(U)
    BY <1>2, <2>2, <2>3
  <2> QED
    BY <2>4 DEF U, V, Rank
<1>5. ASSUME NEW n \in 1 .. Cardinality(S)
      PROVE  InOrder(T)[n] = f[InOrder(S)[n]]
  <2> DEFINE i == InOrder(S)[n]
  <2>1. i \in S /\ Rank(S, i) = n
    BY InOrderIs
  <2> HIDE DEF i
  <2>2. f[i] \in T /\ Rank(T, f[i]) = n
    BY <1>4, <2>1
  <2>3. InOrder(T)[Rank(T, f[i])] = f[i]
    BY <1>3, <2>2, InOrderIs
  <2> QED
    BY <2>2, <2>3 DEF i
<1> QED
  BY <1>3, <1>5

\* What a transcript holds of answers, once each: the answers in their order, if
\* it holds just these and both keep to the order of the exchanges.
LEMMA ExchangesAre ==
    ASSUME NEW s, IsSeq(s), NEW kept, NEW S \in SUBSET Nat, IsFiniteSet(S),
           NEW answer, DOMAIN answer = S,
           \A n \in DOMAIN s : s[n] \in Nat \X Nat,
           \A n, m \in DOMAIN s : n <= m => s[n] = s[m] \/ Earlier(s[n], s[m]),
           \A i, j \in S : i < j => Earlier(answer[i], answer[j]),
           \A n \in DOMAIN s : s[n] \in kept => \E i \in S : answer[i] = s[n],
           \A i \in S : answer[i] \in kept /\ \E n \in DOMAIN s : s[n] = answer[i]
    PROVE  Exchanges(s, kept) = [n \in DOMAIN InOrder(S) |-> answer[InOrder(S)[n]]]
<1> DEFINE first == {k \in DOMAIN s : /\ s[k] \in kept
                                      /\ \A j \in 1 .. k - 1 : s[j] # s[k]}
           f == [i \in S |-> CHOOSE k \in first : s[k] = answer[i]]
<1>1. DOMAIN s = 1 .. Len(s) /\ Len(s) \in Nat
  BY EmptyIs
<1>2. first \in SUBSET Nat
  BY <1>1
<1> DEFINE D == DOMAIN s
<1>0. /\ \A k \in D : k \in Nat /\ k >= 1
      /\ \A k \in D : \A j \in 1 .. k - 1 : j \in D /\ ~ (k <= j)
      /\ \A j, k \in D : ~ (j < k) => k <= j
  <2>1. D = 1 .. Len(s)
    BY <1>1
  <2> HIDE DEF D
  <2> QED
    BY <1>1, <2>1
<1>3. ASSUME NEW i \in S
      PROVE  \E k \in first : s[k] = answer[i]
  <2> DEFINE U == {n \in DOMAIN s : s[n] = answer[i]}
  <2>1. U # {} /\ U \in SUBSET Nat
    BY <1>1
  <2>2. PICK k \in U : \A n \in U : k <= n
    <3> HIDE DEF U
    <3> QED
      BY <2>1, LeastNumber
  <2>3. k \in DOMAIN s /\ k \in Nat /\ s[k] = answer[i] /\ s[k] \in kept
    BY <1>1
  <2>4. ASSUME NEW j \in 1 .. k - 1, s[j] = s[k]
        PROVE  FALSE
    <3>1. j \in D /\ ~ (k <= j)
      <4> HIDE DEF U, first
      <4> QED
        BY <1>0, <2>3
    <3> QED
      BY <2>2, <2>3, <2>4, <3>1
  <2> QED
    BY <2>3, <2>4
<1>4. f \in [S -> first] /\ \A i \in S : s[f[i]] = answer[i]
  <2> HIDE DEF first
  <2> QED
    BY <1>3
<1>5. \A i, j \in S : i < j => f[i] < f[j]
  <2>1. SUFFICES ASSUME NEW i \in S, NEW j \in S, i < j, ~ (f[i] < f[j])
                 PROVE  FALSE
    OBVIOUS
  <2>2. f[i] \in DOMAIN s /\ f[j] \in DOMAIN s
    <3>1. f[i] \in first /\ f[j] \in first
      BY <1>4
    <3> QED
      BY <3>1
  <2>3. s[f[i]] = answer[i] /\ s[f[j]] = answer[j]
    BY <1>4
  <2> HIDE DEF f, first
  <2>4. f[j] <= f[i]
    BY <1>0, <2>1, <2>2
  <2>5. answer[j] = answer[i] \/ Earlier(answer[j], answer[i])
    BY <2>2, <2>3, <2>4
  <2>6. Earlier(answer[i], answer[j])
    BY <2>1
  <2>7. answer[i] \in Nat \X Nat /\ answer[j] \in Nat \X Nat
    BY <2>2, <2>3
  <2> QED
    BY <2>5, <2>6, <2>7 DEF Earlier
<1>6. \A k \in first : \E i \in S : f[i] = k
  <2>1. SUFFICES ASSUME NEW k \in first
                 PROVE  \E i \in S : f[i] = k
    OBVIOUS
  <2>2. PICK i \in S : answer[i] = s[k]
    OBVIOUS
  <2>3. f[i] \in first /\ s[f[i]] = s[k]
    BY <1>4, <2>2
  <2> DEFINE m == f[i]
  <2> HIDE DEF f
  <2>4. m \in Nat /\ k \in Nat /\ m >= 1 /\ k >= 1
    <3>1. m \in D /\ k \in D
      BY <2>3
    <3> HIDE DEF m, first
    <3> QED
      BY <1>0, <3>1
  <2>5. ~ (m < k)
    <3>1. m < k => m \in 1 .. k - 1
      <4> HIDE DEF m
      <4> QED
        BY <2>4
    <3> QED
      BY <2>3, <3>1
  <2>6. ~ (k < m)
    <3>1. k < m => k \in 1 .. m - 1
      <4> HIDE DEF m
      <4> QED
        BY <2>4
    <3> QED
      BY <2>3, <3>1
  <2>7. m = k
    <3> HIDE DEF m
    <3> QED
      BY <2>4, <2>5, <2>6
  <2> QED
    BY <2>7
<1>7. /\ IsFiniteSet(first) /\ Cardinality(first) = Cardinality(S)
      /\ \A n \in 1 .. Cardinality(S) : InOrder(first)[n] = f[InOrder(S)[n]]
  <2> HIDE DEF f, first
  <2> QED
    BY <1>2, <1>4, <1>5, <1>6, OrderFollows
<1>8. Exchanges(s, kept) = [n \in DOMAIN InOrder(first) |-> s[InOrder(first)[n]]]
  BY DEF Exchanges
<1> HIDE DEF f, first
<1>9. /\ DOMAIN InOrder(first) = 1 .. Cardinality(S) /\ DOMAIN InOrder(S) = 1 .. Cardinality(S)
      /\ \A n \in 1 .. Cardinality(S) : InOrder(S)[n] \in S
  <2>1. DOMAIN InOrder(first) = 1 .. Cardinality(first)
    BY DEF InOrder
  <2>2. InOrder(S) \in [1 .. Cardinality(S) -> S]
    BY InOrderIs
  <2> QED
    BY <1>7, <2>1, <2>2
<1>10. \A n \in 1 .. Cardinality(S) : s[InOrder(first)[n]] = answer[InOrder(S)[n]]
  BY <1>4, <1>7, <1>9
<1> QED
  BY <1>8, <1>9, <1>10

-----------------------------------------------------------------------------
\* What the model sees, and what a boundary addresses

\* The recorded answers of a subagent before its ask number seq.
DoneBefore(r, a, seq) ==
    {i \in Calls(r) : Scripts[r][i].who = a /\ ActorSeq(r, i) < seq /\ Completed(r, i)}
AnswerOf(r, S) == [i \in S |-> journal[r][i].answer]

LEMMA AnswersBeforeIs ==
    ASSUME IInv, NEW r \in Runs, NEW a, NEW seq
    PROVE  LET S == DoneBefore(r, a, seq) IN
           /\ S \in SUBSET Nat /\ IsFiniteSet(S)
           /\ \A i : i \in S <=> /\ i \in DOMAIN journal[r] /\ Status(r, i) = "completed"
                                 /\ i \in AsksIn(r, a) /\ ActorSeq(r, i) < seq
           /\ DOMAIN AnswerOf(r, S) = S
           /\ \A i \in S : AnswerOf(r, S)[i] = journal[r][i].answer
           /\ AnswersBefore(r, a, seq)
                  = [n \in DOMAIN InOrder(S) |-> AnswerOf(r, S)[InOrder(S)[n]]]
<1> DEFINE S == DoneBefore(r, a, seq)
<1>1. Calls(r) = 1 .. Len(Scripts[r]) /\ Len(Scripts[r]) \in Nat
  BY ScriptIs DEF IInv, Types
<1>2. S \in SUBSET Nat /\ IsFiniteSet(S)
  <2>1. S \in SUBSET (1 .. Len(Scripts[r])) /\ 1 .. Len(Scripts[r]) \in SUBSET Nat
    BY <1>1 DEF DoneBefore
  <2>2. IsFiniteSet(1 .. Len(Scripts[r]))
    BY <1>1, FS_Interval
  <2> HIDE DEF S
  <2>3. IsFiniteSet(S)
    BY <2>1, <2>2, FS_Subset
  <2> QED
    BY <2>1, <2>3
<1>3. \A i : i \in S <=> /\ i \in DOMAIN journal[r] /\ Status(r, i) = "completed"
                         /\ i \in AsksIn(r, a) /\ ActorSeq(r, i) < seq
  BY DEF DoneBefore, AsksIn, Completed, Recorded, Status
<1>4. DOMAIN AnswerOf(r, S) = S /\ \A i \in S : AnswerOf(r, S)[i] = journal[r][i].answer
  BY DEF AnswerOf
<1>5. AnswersBefore(r, a, seq) = [n \in DOMAIN InOrder(S) |-> journal[r][InOrder(S)[n]].answer]
  BY DEF AnswersBefore, DoneBefore
<1> HIDE DEF S
<1>6. \A n \in DOMAIN InOrder(S) : InOrder(S)[n] \in S
  BY <1>2, InOrderIs
<1> QED
  BY <1>2, <1>3, <1>4, <1>5, <1>6 DEF S

LEMMA CutIs ==
    ASSUME NEW s, IsSeq(s), NEW b \in Nat, b <= Len(s)
    PROVE  LET cut == SubSeq(s, 1, b) IN
           /\ IsSeq(cut) /\ DOMAIN cut = 1 .. b
           /\ \A m \in 1 .. b : m \in DOMAIN s /\ cut[m] = s[m]
<1> DEFINE V == {s[k] : k \in DOMAIN s}
           cut == SubSeq(s, 1, b)
<1>1. s \in Seq(V) /\ DOMAIN s = 1 .. Len(s) /\ Len(s) \in Nat
  BY EmptyIs DEF IsSeq
<1> HIDE DEF V
<1>2. cut \in Seq(V) /\ Len(cut) = b /\ \A m \in 1 .. b : cut[m] = s[m]
  BY <1>1
<1> HIDE DEF cut
<1>3. IsSeq(cut) /\ DOMAIN cut = 1 .. b
  BY <1>2, SeqIs
<1>4. \A m \in 1 .. b : m \in DOMAIN s
  BY <1>1
<1> QED
  BY <1>2, <1>3, <1>4 DEF cut

LEMMA StoryInvAddresses ==
    ASSUME IInv, ImportInv, StoryInv
    PROVE  BoundariesAddressTheSource
<1>1. SUFFICES ASSUME NEW r \in Runs, NEW a \in Actors, NEW k \in DOMAIN CompletedAskPrefix(r, a),
                      TranscriptSource(r, a) # NoRun,
                      CompletedAskPrefix(r, a)[k].boundary # NoBoundary
               PROVE  LET s == transcript[TranscriptSource(r, a)][a]
                          b == CompletedAskPrefix(r, a)[k].boundary
                          cut == SubSeq(s, 1, b)
                      IN  b <= Len(s) /\ Exchanges(cut, ToSet(cut)) = AnswersBefore(r, a, k)
  BY DEF BoundariesAddressTheSource
<1> DEFINE P == CompletedAskPrefix(r, a)
           source == TranscriptSource(r, a)
           s == transcript[source][a]
           b == P[k].boundary
           cut == SubSeq(s, 1, b)
           S == DoneBefore(r, a, k)
           answer == AnswerOf(r, S)
<1>2. plan \in Plans /\ Runs = 1 .. Len(Scripts) /\ Len(Scripts) \in Nat /\ r \in Nat
  <2>1. plan \in Plans
    BY DEF IInv, Types
  <2> QED
    BY <2>1, ScriptIs
<1>3. r <= run /\ k \in Nat /\ b \in Nat /\ DOMAIN P = 1 .. Len(P) /\ Len(P) \in Nat
  <2>1. r <= run /\ k \in Nat
    BY <1>1, GivenIs
  <2>2. b \in Nat
    BY <1>1, PrefixRow
  <2>3. DOMAIN P = 1 .. Len(P) /\ Len(P) \in Nat
    BY <1>2, PrefixIs, AsksOfIs
  <2> HIDE DEF P, b
  <2> QED
    BY <2>1, <2>2, <2>3
<1>4. b <= Len(s)
  <2>1. SourceHolds(r)
    BY <1>3, SourcesHold DEF ImportInv
  <2> QED
    BY <2>1 DEF SourceHolds
<1>5. source \in Runs /\ IsSeq(s) /\ DOMAIN s = 1 .. Len(s) /\ Len(s) \in Nat
  <2>1. source \in 0 .. r
    BY <1>2, TranscriptSourceIs
  <2>2. source \in Runs
    <3> HIDE DEF source
    <3>1. source # 0
      BY <1>1 DEF source
    <3> QED
      BY <1>2, <2>1, <3>1
  <2> HIDE DEF source
  <2> QED
    BY <2>2, EmptyIs DEF IInv, Types, StoreTyped
<1>6. Ordered(source) /\ Told(r)
  BY <1>5, AllOrdered, AllTold
<1>7. /\ \A m \in DOMAIN s : s[m] \in Nat \X Nat
      /\ \A n, m \in DOMAIN s : n <= m => s[n] = s[m] \/ Earlier(s[n], s[m])
  <2>1. \A q \in Nat : 1 .. q \subseteq Nat
    OBVIOUS
  <2>2. source \in Nat
    BY <1>2, <1>5
  <2> HIDE DEF source
  <2> QED
    BY <1>6, <2>1, <2>2 DEF Ordered
<1>8. /\ IsSeq(cut) /\ DOMAIN cut = 1 .. b
      /\ \A m \in 1 .. b : m \in DOMAIN s /\ cut[m] = s[m]
  <2> HIDE DEF s, b
  <2> QED
    BY <1>3, <1>4, <1>5, CutIs
<1>9. /\ S \in SUBSET Nat /\ IsFiniteSet(S) /\ DOMAIN answer = S
      /\ \A i \in S : answer[i] = journal[r][i].answer
      /\ AnswersBefore(r, a, k) = [n \in DOMAIN InOrder(S) |-> answer[InOrder(S)[n]]]
  BY AnswersBeforeIs
\* The asks answered before are those of the first entries.
<1>10. ASSUME NEW i \in S
       PROVE  LET l == ActorSeq(r, i) + 1 IN
              /\ l \in 1 .. k /\ l \in DOMAIN P /\ l \in Nat
              /\ answer[i] = P[l].answer
  <2> DEFINE l == ActorSeq(r, i) + 1
  <2>1. /\ i \in DOMAIN journal[r] /\ Status(r, i) = "completed"
        /\ i \in AsksIn(r, a) /\ ActorSeq(r, i) < k
    BY AnswersBeforeIs
  <2>2. ActorSeq(r, i) \in Nat /\ AsksOf(r, a)[l] = i
    BY <1>2, <2>1, ActorSeqIs, AsksOfIs
  <2> HIDE DEF P, S, answer
  <2>3. l \in 1 .. k /\ l \in DOMAIN P /\ l \in Nat
    <3>1. k \in DOMAIN P
      BY DEF P
    <3> QED
      BY <1>3, <2>1, <2>2, <3>1
  <2>4. P[l].answer = journal[r][i].answer
    <3> HIDE DEF l
    <3> QED
      BY <2>2, <2>3, PrefixRow DEF P
  <2> QED
    BY <1>9, <2>3, <2>4
<1>11. ASSUME NEW l \in 1 .. k
       PROVE  AsksOf(r, a)[l] \in S /\ answer[AsksOf(r, a)[l]] = P[l].answer
  <2> DEFINE i == AsksOf(r, a)[l]
  <2>1. l \in DOMAIN P /\ l \in Nat /\ l <= k
    <3> HIDE DEF P
    <3>1. k \in DOMAIN P
      BY DEF P
    <3> QED
      BY <1>3, <3>1
  <2>2. /\ i \in AsksIn(r, a) /\ ActorSeq(r, i) = l - 1
        /\ i \in DOMAIN journal[r] /\ Status(r, i) = "completed"
        /\ P[l].answer = journal[r][i].answer
    BY <2>1, PrefixRow
  <2> HIDE DEF i
  <2>3. ActorSeq(r, i) < k
    BY <1>3, <2>1, <2>2
  <2>4. i \in S
    BY <2>2, <2>3, AnswersBeforeIs
  <2> QED
    BY <1>9, <2>2, <2>4 DEF i
<1>12. \A i, j \in S : i < j => Earlier(answer[i], answer[j])
  <2>1. SUFFICES ASSUME NEW i \in S, NEW j \in S, i < j
                 PROVE  Earlier(answer[i], answer[j])
    OBVIOUS
  <2> DEFINE l == ActorSeq(r, i) + 1
             m == ActorSeq(r, j) + 1
  <2>2. /\ l \in 1 .. k /\ l \in DOMAIN P /\ l \in Nat /\ answer[i] = P[l].answer
        /\ m \in 1 .. k /\ m \in DOMAIN P /\ m \in Nat /\ answer[j] = P[m].answer
    BY <1>10
  <2>3. i \in AsksIn(r, a) /\ j \in AsksIn(r, a)
    BY AnswersBeforeIs
  <2>4. l < m
    <3>1. ActorSeq(r, i) < ActorSeq(r, j) /\ ActorSeq(r, i) \in Nat /\ ActorSeq(r, j) \in Nat
      BY <1>2, <2>1, <2>3, ActorSeqIs
    <3> QED
      BY <3>1
  <2> HIDE DEF l, m, P
  <2>5. l \in 1 .. m - 1
    BY <2>2, <2>4
  <2>6. Earlier(P[l].answer, P[m].answer)
    BY <1>6, <2>2, <2>5 DEF Told, P
  <2> QED
    BY <2>2, <2>6
\* They are what the transcript holds up to the boundary.
<1>13. {s[m] : m \in 1 .. b} = {P[l].answer : l \in 1 .. k}
  <2>1. Said(source, a, b) = Given(r, a, k)
    BY <1>1, <1>6 DEF Told
  <2> QED
    BY <2>1 DEF Said, Given
<1> HIDE DEF P, S, answer, s, b, cut
<1>14. \A m \in DOMAIN cut : \E i \in S : answer[i] = cut[m]
  <2>1. SUFFICES ASSUME NEW m \in 1 .. b
                 PROVE  \E i \in S : answer[i] = cut[m]
    BY <1>8
  <2>2. PICK l \in 1 .. k : s[m] = P[l].answer
    BY <1>13
  <2> QED
    BY <1>8, <1>11, <2>2
<1>15. \A i \in S : \E m \in DOMAIN cut : cut[m] = answer[i]
  <2>1. SUFFICES ASSUME NEW i \in S
                 PROVE  \E m \in DOMAIN cut : cut[m] = answer[i]
    OBVIOUS
  <2>2. PICK l \in 1 .. k : answer[i] = P[l].answer
    BY <1>10
  <2>3. PICK m \in 1 .. b : s[m] = P[l].answer
    BY <1>13
  <2> QED
    BY <1>8, <2>2, <2>3
<1>16. \A i \in S : answer[i] \in ToSet(cut)
  BY <1>15 DEF ToSet
<1>17. /\ \A m \in DOMAIN cut : cut[m] \in Nat \X Nat
       /\ \A n, m \in DOMAIN cut : n <= m => cut[n] = cut[m] \/ Earlier(cut[n], cut[m])
  BY <1>7, <1>8
<1>18. Exchanges(cut, ToSet(cut)) = [n \in DOMAIN InOrder(S) |-> answer[InOrder(S)[n]]]
  <2> DEFINE kept == ToSet(cut)
  <2>1. /\ \A n \in DOMAIN cut : cut[n] \in kept => \E i \in S : answer[i] = cut[n]
        /\ \A i \in S : answer[i] \in kept /\ \E n \in DOMAIN cut : cut[n] = answer[i]
    BY <1>14, <1>15, <1>16
  <2>2. IsSeq(cut) /\ S \in SUBSET Nat /\ IsFiniteSet(S) /\ DOMAIN answer = S
    BY <1>8, <1>9
  <2> HIDE DEF kept
  <2>3. Exchanges(cut, kept) = [n \in DOMAIN InOrder(S) |-> answer[InOrder(S)[n]]]
    BY <1>12, <1>17, <2>1, <2>2, ExchangesAre
  <2> QED
    BY <2>3 DEF kept
<1> QED
  BY <1>4, <1>9, <1>18 DEF s, b, cut, P

\* The ask of a turn was made after its subagent departed; the copy is whole, and
\* every ask before it is settled.
LEMMA TurnIs ==
    ASSUME IInv, ImportInv, NEW a \in Actors, InTurn(a)
    PROVE  LET i == current[a] IN
           /\ run \in Runs /\ run \in Nat /\ plan \in Plans
           /\ TurnCall(a) = i /\ i \in Nat /\ i \in AsksIn(run, a)
           /\ i \in DOMAIN journal[run] /\ Status(run, i) = "running"
           /\ split[run][a] \in Nat /\ ActorSeq(run, i) \in Nat
           /\ split[run][a] <= ActorSeq(run, i)
           /\ \A j \in AsksIn(run, a) : j < i => Settled(run, j)
           /\ Depth(run, a) \in Nat /\ Depth(run, a) <= Len(transcript[run][a])
           /\ DOMAIN transcript[run][a] = 1 .. Len(transcript[run][a])
           /\ Len(transcript[run][a]) \in Nat /\ IsSeq(transcript[run][a])
<1> DEFINE i == current[a]
<1>1. /\ engine = "live" /\ run \in Runs /\ turns[run][a] # <<>>
      /\ TurnCall(a) = i /\ i # NoCall
  BY InTurnIs
<1>2. /\ i \in Nat /\ i \in AsksIn(run, a) /\ i \in DOMAIN journal[run]
      /\ Status(run, i) = "running" /\ OwnMessage(run, a, <<run, i>>)
  BY <1>1, BusyAsk
<1>3. ~ BeforeSplit(run, a, i) /\ \A j \in AsksIn(run, a) : j < i => Settled(run, j)
  <2> HIDE DEF i
  <2>1. PICK k \in DOMAIN journal[run] :
            /\ ~ BeforeSplit(run, a, k) /\ <<run, i>> = <<run, k>>
            /\ \A j \in AsksIn(run, a) : j < k => Settled(run, j)
    BY <1>2 DEF OwnMessage
  <2> QED
    BY <2>1
<1>4. plan \in Plans /\ run \in Nat /\ IsSeq(transcript[run][a])
  <2>1. plan \in Plans
    BY DEF IInv, Types
  <2> QED
    BY <1>1, <2>1, ScriptIs, EmptyIs DEF IInv, Types, StoreTyped
<1>5. DOMAIN transcript[run][a] = 1 .. Len(transcript[run][a]) /\ Len(transcript[run][a]) \in Nat
  BY <1>1, EmptyIs DEF IInv, Types, StoreTyped
<1>6. ActorSeq(run, i) \in Nat
  BY <1>1, <1>2, <1>4, ActorSeqIs
<1>7. split[run][a] \in Nat /\ Depth(run, a) \in Nat
  BY <1>1, <1>3, DepthTyped DEF BeforeSplit, ImportInv
<1>8. split[run][a] <= ActorSeq(run, i)
  BY <1>3, <1>6, <1>7 DEF BeforeSplit
<1>9. Depth(run, a) <= Len(transcript[run][a])
  BY <1>1 DEF ImportInv, SessionsSeeded
<1> QED
  BY <1>1, <1>2, <1>3, <1>4, <1>5, <1>6, <1>7, <1>8, <1>9

\* An answer the script got before the turn is in the transcript of its session.
LEMMA PastAnswer ==
    ASSUME IInv, ImportInv, StoryInv, NEW a \in Actors, InTurn(a),
           NEW j \in DoneBefore(run, a, ActorSeq(run, current[a]))
    PROVE  LET x == journal[run][j].answer
               k == ActorSeq(run, j) + 1
           IN  /\ Succeeded(x) /\ x # <<run, current[a]>>
               /\ \E m \in DOMAIN transcript[run][a] : transcript[run][a][m] = x
               /\ j \in AsksIn(run, a) /\ ActorSeq(run, j) \in Nat
               /\ BeforeSplit(run, a, j) =>
                      /\ run # 1 /\ run - 1 \in Runs /\ k \in DOMAIN CompletedAskPrefix(run - 1, a)
                      /\ x = CompletedAskPrefix(run - 1, a)[k].answer
                      /\ x \in (1 .. run - 1) \X Nat
               /\ ~ BeforeSplit(run, a, j) => x = <<run, j>>
<1> DEFINE i == current[a]
           x == journal[run][j].answer
           k == ActorSeq(run, j) + 1
           T == transcript[run][a]
           d == Depth(run, a)
           n == split[run][a]
<1>1. /\ run \in Runs /\ run \in Nat /\ plan \in Plans /\ i \in Nat /\ Status(run, i) = "running"
      /\ n \in Nat /\ d \in Nat /\ d <= Len(T) /\ DOMAIN T = 1 .. Len(T) /\ Len(T) \in Nat
  BY TurnIs
<1>2. j \in DOMAIN journal[run] /\ Status(run, j) = "completed" /\ j \in AsksIn(run, a)
  BY <1>1, AnswersBeforeIs
<1>3. ActorSeq(run, j) \in Nat /\ j \in Nat
  BY <1>1, <1>2, ActorSeqIs
<1>4. CASE ~ BeforeSplit(run, a, j)
  <2>1. x = <<run, j>>
    BY <1>1, <1>2, <1>4 DEF StoryInv, LiveAnswers
  <2>2. \E m \in DOMAIN T : T[m] = <<run, j>>
    BY <1>1, <1>2, <1>4 DEF StoryInv, LiveAnswers
  <2>3. Succeeded(x)
    <3>1. x[1] = run /\ x[2] = j
      BY <2>1
    <3>2. Completed(run, j)
      BY <1>2 DEF Completed, Recorded, Status
    <3> QED
      BY <3>1, <3>2 DEF Succeeded
  <2>4. x # <<run, i>>
    <3>1. j # i
      BY <1>1, <1>2
    <3> HIDE DEF i
    <3> QED
      BY <2>1, <3>1
  <2> QED
    BY <1>2, <1>3, <1>4, <2>1, <2>2, <2>3, <2>4
<1>5. CASE BeforeSplit(run, a, j)
  <2>1. /\ run # 1 /\ run - 1 \in Runs /\ k \in DOMAIN CompletedAskPrefix(run - 1, a)
        /\ x = CompletedAskPrefix(run - 1, a)[k].answer
    BY <1>1, <1>2, <1>5, Inherited
  <2>2. Told(run - 1)
    BY <2>1, AllTold
  <2>3. \A q \in Runs : q \in Nat
    BY <1>1, ScriptIs
  <2>4. x \in (1 .. run - 1) \X Nat /\ Succeeded(x)
    <3> HIDE DEF k, x
    <3> QED
      BY <2>1, <2>2 DEF Told
  <2>5. x # <<run, i>>
    <3> HIDE DEF x, i
    <3> QED
      BY <1>1, <2>4
  <2>6. k \in 1 .. n /\ n > 0
    <3> HIDE DEF n
    <3> QED
      BY <1>1, <1>3, <1>5 DEF BeforeSplit, n
  <2>7. Said(run, a, d) = Given(run - 1, a, n)
    BY <1>1, <2>2, <2>6, CopyTells
  <2> HIDE DEF k, n
  <2>8. x \in Given(run - 1, a, n)
    BY <2>1, <2>6 DEF Given
  <2>9. PICK m \in 1 .. d : T[m] = x
    BY <2>7, <2>8 DEF Said
  <2>10. m \in DOMAIN T
    <3> HIDE DEF T, d
    <3> QED
      BY <1>1
  <2> QED
    BY <1>2, <1>3, <1>5, <2>1, <2>4, <2>5, <2>9, <2>10 DEF k
<1> QED
  BY <1>4, <1>5

\* These answers come in the order of the exchanges.
LEMMA PastOrder ==
    ASSUME IInv, ImportInv, StoryInv, NEW a \in Actors, InTurn(a),
           NEW i \in DoneBefore(run, a, ActorSeq(run, current[a])),
           NEW j \in DoneBefore(run, a, ActorSeq(run, current[a])), i < j
    PROVE  Earlier(journal[run][i].answer, journal[run][j].answer)
<1> DEFINE x == journal[run][i].answer
           y == journal[run][j].answer
           k == ActorSeq(run, i) + 1
           l == ActorSeq(run, j) + 1
<1>1. run \in Runs /\ run \in Nat /\ plan \in Plans /\ split[run][a] \in Nat
  BY TurnIs
<1>2. /\ i \in AsksIn(run, a) /\ ActorSeq(run, i) \in Nat
      /\ j \in AsksIn(run, a) /\ ActorSeq(run, j) \in Nat
      /\ BeforeSplit(run, a, i) => /\ run - 1 \in Runs
                                   /\ k \in DOMAIN CompletedAskPrefix(run - 1, a)
                                   /\ x = CompletedAskPrefix(run - 1, a)[k].answer
                                   /\ x \in (1 .. run - 1) \X Nat
      /\ ~ BeforeSplit(run, a, i) => x = <<run, i>>
      /\ BeforeSplit(run, a, j) => /\ run - 1 \in Runs
                                   /\ l \in DOMAIN CompletedAskPrefix(run - 1, a)
                                   /\ y = CompletedAskPrefix(run - 1, a)[l].answer
      /\ ~ BeforeSplit(run, a, j) => y = <<run, j>>
  BY PastAnswer
<1>3. ActorSeq(run, i) < ActorSeq(run, j)
  BY <1>1, <1>2, ActorSeqIs
<1>4. BeforeSplit(run, a, j) => BeforeSplit(run, a, i)
  BY <1>1, <1>2, <1>3 DEF BeforeSplit
<1>5. k \in 1 .. l - 1
  BY <1>2, <1>3
<1> HIDE DEF x, y, k, l
<1>6. CASE BeforeSplit(run, a, j)
  <2>1. Told(run - 1)
    BY <1>2, <1>6, AllTold
  <2> QED
    BY <1>2, <1>4, <1>5, <1>6, <2>1 DEF Told, x, y
<1>7. CASE ~ BeforeSplit(run, a, j) /\ BeforeSplit(run, a, i)
  <2>1. x[1] < run /\ y[1] = run
    BY <1>1, <1>2, <1>7
  <2> QED
    BY <2>1 DEF Earlier, x, y
<1>8. CASE ~ BeforeSplit(run, a, j) /\ ~ BeforeSplit(run, a, i)
  <2>1. x[1] = run /\ y[1] = run /\ x[2] = i /\ y[2] = j
    BY <1>2, <1>8
  <2> QED
    BY <2>1 DEF Earlier, x, y
<1> QED
  BY <1>4, <1>6, <1>7, <1>8

\* A recorded exchange of the transcript, other than the turn's own, is one of
\* these answers.
LEMMA PastMessage ==
    ASSUME IInv, ImportInv, StoryInv, NEW a \in Actors, InTurn(a),
           NEW m \in DOMAIN transcript[run][a], Succeeded(transcript[run][a][m]),
           transcript[run][a][m] # <<run, current[a]>>
    PROVE  \E j \in DoneBefore(run, a, ActorSeq(run, current[a])) :
               journal[run][j].answer = transcript[run][a][m]
<1> DEFINE i == current[a]
           T == transcript[run][a]
           d == Depth(run, a)
           n == split[run][a]
           S == DoneBefore(run, a, ActorSeq(run, i))
<1>1. /\ run \in Runs /\ run \in Nat /\ plan \in Plans
      /\ i \in Nat /\ i \in AsksIn(run, a) /\ i \in DOMAIN journal[run]
      /\ Status(run, i) = "running" /\ n \in Nat /\ ActorSeq(run, i) \in Nat
      /\ n <= ActorSeq(run, i) /\ \A j \in AsksIn(run, a) : j < i => Settled(run, j)
      /\ d \in Nat /\ d <= Len(T) /\ DOMAIN T = 1 .. Len(T) /\ Len(T) \in Nat
  BY TurnIs
<1>2. \A j \in AsksIn(run, a) : /\ j \in Nat /\ ActorSeq(run, j) \in Nat
                                /\ j < i <=> ActorSeq(run, j) < ActorSeq(run, i)
  BY <1>1, ActorSeqIs
<1>3. \A j : j \in S <=> /\ j \in DOMAIN journal[run] /\ Status(run, j) = "completed"
                         /\ j \in AsksIn(run, a) /\ ActorSeq(run, j) < ActorSeq(run, i)
  BY <1>1, AnswersBeforeIs
<1>4. m \in Nat /\ m >= 1
  BY <1>1
<1> HIDE DEF S
<1>5. CASE m > d
  <2>1. PICK j \in DOMAIN journal[run] :
            j \in AsksIn(run, a) /\ ~ BeforeSplit(run, a, j) /\ T[m] = <<run, j>>
            /\ \A l \in AsksIn(run, a) : l < j => Settled(run, l)
    BY <1>1, <1>5 DEF StoryInv, AddedRight, OwnMessage
  <2>2. Status(run, j) = "completed"
    <3>1. T[m][1] = run /\ T[m][2] = j
      BY <2>1
    <3> QED
      BY <3>1 DEF Succeeded, Completed, Recorded, Status
  <2>3. ~ Settled(run, i)
    BY <1>1 DEF Settled, Status
  <2>4. j # i /\ ~ (i < j)
    BY <1>1, <2>1, <2>3
  <2>5. j < i
    <3>1. j \in Nat /\ i \in Nat
      BY <1>1, <1>2, <2>1
    <3> HIDE DEF i
    <3> QED
      BY <2>4, <3>1
  <2>6. j \in S
    BY <1>2, <1>3, <2>1, <2>2, <2>5
  <2>7. journal[run][j].answer = <<run, j>>
    BY <1>1, <2>1, <2>2 DEF StoryInv, LiveAnswers
  <2> QED
    BY <2>1, <2>6, <2>7 DEF S
<1>6. CASE ~ (m > d)
  <2>1. m \in 1 .. d
    <3> HIDE DEF d, T
    <3> QED
      BY <1>1, <1>4, <1>6
  <2>2. n > 0
    BY <1>1, <2>1, CopyIsOf DEF Depth
  <2>3. run # 1 => Told(run - 1)
    <3>1. run # 1 => run - 1 \in Runs
      BY <1>1, ScriptIs
    <3> QED
      BY <3>1, AllTold
  <2>4. Said(run, a, d) = Given(run - 1, a, n)
    BY <1>1, <2>2, <2>3, CopyTells
  <2>5. PICK l \in 1 .. n : T[m] = CompletedAskPrefix(run - 1, a)[l].answer
    BY <2>1, <2>4 DEF Said, Given
  <2>6. l - 1 \in Nat /\ l - 1 < n /\ l \in Nat
    <3> HIDE DEF n
    <3> QED
      BY <1>1, <2>5
  <2>7. PICK j \in AsksIn(run, a) : j < i /\ ActorSeq(run, j) = l - 1
    <3>1. l - 1 < ActorSeq(run, i)
      <4> HIDE DEF n, i
      <4> QED
        BY <1>1, <2>6
    <3> QED
      BY <1>1, <2>6, <3>1, ActorSeqIs
  <2>8. j \in DOMAIN journal[run]
    BY <1>1, <2>7, EarlierRow DEF ImportInv, Departures
  <2>9. BeforeSplit(run, a, j)
    BY <2>6, <2>7 DEF BeforeSplit
  <2>10. Status(run, j) = "completed"
    <3>1. ImportedRow(run, a, j) \/ TornRow(run, a, j)
      BY <1>1, <2>7, <2>8, <2>9 DEF ImportInv, Departures, SplitsRight
    <3>2. ~ TornRow(run, a, j)
      BY <1>1 DEF TornRow
    <3> QED
      BY <3>1, <3>2 DEF ImportedRow
  <2>11. j \in S
    BY <1>2, <1>3, <2>7, <2>8, <2>10
  <2>12. journal[run][j].answer = CompletedAskPrefix(run - 1, a)[ActorSeq(run, j) + 1].answer
    BY <1>1, <2>7, <2>8, <2>9, <2>10, Inherited
  <2>13. ActorSeq(run, j) + 1 = l
    BY <2>6, <2>7
  <2> QED
    BY <2>5, <2>11, <2>12, <2>13 DEF S
<1> QED
  BY <1>5, <1>6

LEMMA StoryInvSees ==
    ASSUME IInv, ImportInv, StoryInv
    PROVE  ModelSeesItsHistory
<1>1. SUFFICES ASSUME NEW a \in Actors, InTurn(a)
               PROVE  LET i == TurnCall(a)
                          before == {x \in ToSet(transcript[run][a]) :
                                         Succeeded(x) /\ x # <<run, i>>}
                      IN  Exchanges(transcript[run][a], before)
                              = AnswersBefore(run, a, ActorSeq(run, i))
  BY DEF ModelSeesItsHistory
<1> DEFINE i == current[a]
           T == transcript[run][a]
           before == {x \in ToSet(T) : Succeeded(x) /\ x # <<run, i>>}
           S == DoneBefore(run, a, ActorSeq(run, i))
           answer == AnswerOf(run, S)
<1>2. TurnCall(a) = i /\ run \in Runs /\ IsSeq(T) /\ run \in Nat
  BY <1>1, TurnIs
<1>3. /\ S \in SUBSET Nat /\ IsFiniteSet(S) /\ DOMAIN answer = S
      /\ \A j \in S : answer[j] = journal[run][j].answer
      /\ AnswersBefore(run, a, ActorSeq(run, i))
             = [n \in DOMAIN InOrder(S) |-> answer[InOrder(S)[n]]]
  BY <1>2, AnswersBeforeIs
<1>4. /\ \A m \in DOMAIN T : T[m] \in Nat \X Nat
      /\ \A n, m \in DOMAIN T : n <= m => T[n] = T[m] \/ Earlier(T[n], T[m])
  <2>1. Ordered(run)
    BY <1>2, AllOrdered
  <2>2. 1 .. run \subseteq Nat
    OBVIOUS
  <2> QED
    BY <2>1, <2>2 DEF Ordered
<1>5. \A j, k \in S : j < k => Earlier(answer[j], answer[k])
  BY <1>1, <1>3, PastOrder
<1>6. \A m \in DOMAIN T : T[m] \in before => \E j \in S : answer[j] = T[m]
  BY <1>1, <1>3, PastMessage
<1>7. \A j \in S : answer[j] \in before /\ \E m \in DOMAIN T : T[m] = answer[j]
  <2>1. SUFFICES ASSUME NEW j \in S
                 PROVE  answer[j] \in before /\ \E m \in DOMAIN T : T[m] = answer[j]
    OBVIOUS
  <2>2. /\ Succeeded(answer[j]) /\ answer[j] # <<run, i>>
        /\ \E m \in DOMAIN T : T[m] = answer[j]
    BY <1>1, <1>3, PastAnswer
  <2> HIDE DEF answer
  <2> QED
    BY <2>2 DEF ToSet
<1> HIDE DEF i, T, before, S, answer
<1>8. Exchanges(T, before) = [n \in DOMAIN InOrder(S) |-> answer[InOrder(S)[n]]]
  BY <1>2, <1>3, <1>4, <1>5, <1>6, <1>7, ExchangesAre
<1> QED
  BY <1>2, <1>3, <1>8 DEF T, before, i

LEMMA InitStoryInv == Init => StoryInv
<1> SUFFICES ASSUME Init
             PROVE  StoryInv
  OBVIOUS
<1>1. IInv /\ ImportInv
  BY InitIInv, InitImportInv
<1>2. /\ run = 1 /\ 1 \in Runs /\ plan \in Plans
      /\ \A r \in Runs : /\ DOMAIN journal[r] = {} /\ sessionRow[r] = {}
                         /\ \A a \in Actors : /\ split[r][a] = -1 /\ transcript[r][a] = <<>>
                                              /\ turns[r][a] = <<>>
                                              /\ session[r][a] = Unopened
  BY ScriptIs, EmptyIs DEF Init, PerRun, PerActor
<1>3. \A a \in Actors : DOMAIN Offered(1, a) = {}
  BY EmptyIs DEF Offered
<1>4. SourceKept
  BY <1>2, <1>3 DEF SourceKept
<1>5. Copied
  BY <1>2, EmptyIs, UnopenedTyped DEF Copied
<1>6. AddedRight
  BY <1>2, EmptyIs DEF AddedRight
<1>7. LiveAnswers
  BY <1>2 DEF LiveAnswers
<1> QED
  BY <1>4, <1>5, <1>6, <1>7 DEF StoryInv

LEMMA NextStoryInv ==
    ASSUME IInv, ImportInv, StoryInv, [Next]_vars
    PROVE  StoryInv'
<1> USE DEF StoryInv
<1>1. SourceKept' /\ Copied'
  BY SourceKeptKept, CopiedKept
<1>2. AddedRight' /\ LiveAnswers'
  BY AddedRightKept, LiveAnswersKept
<1> QED
  BY <1>1, <1>2

\* The three invariants together.
LEMMA StoryKept ==
    ASSUME \A p \in Plans : Rebuildable(p)
    PROVE  Spec => [](IInv /\ ImportInv /\ StoryInv)
<1>1. Init => IInv /\ ImportInv /\ StoryInv
  BY InitIInv, InitImportInv, InitStoryInv
<1>2. IInv /\ ImportInv /\ StoryInv /\ [Next]_vars => (IInv /\ ImportInv /\ StoryInv)'
  <2> SUFFICES ASSUME IInv, ImportInv, StoryInv, [Next]_vars
               PROVE  (IInv /\ ImportInv /\ StoryInv)'
    OBVIOUS
  <2>1. Rebuildable(plan)
    BY DEF IInv, Types
  <2> QED
    BY <2>1, NextIInv, NextImportInv, NextStoryInv
<1> QED
  BY <1>1, <1>2, PTL DEF Spec

\* For every plan that a resume rebuilds: through copies cut short by a crash,
\* sessions opened late and any chain of amendments, what comes before the
\* boundary of an answer that is offered, in the session the chain leads to now,
\* is exactly the exchanges that gave the answers up to it, in their order.
THEOREM BoundariesAlwaysAddressTheSource ==
    ASSUME \A p \in Plans : Rebuildable(p)
    PROVE  Spec => []BoundariesAddressTheSource
<1>1. IInv /\ ImportInv /\ StoryInv => BoundariesAddressTheSource
  BY StoryInvAddresses
<1> QED
  BY <1>1, StoryKept, PTL

\* For every such plan: the model has before it, when a turn runs, exactly the
\* recorded exchanges behind the answers its script got from the subagent so far.
THEOREM ModelAlwaysSeesItsHistory ==
    ASSUME \A p \in Plans : Rebuildable(p)
    PROVE  Spec => []ModelSeesItsHistory
<1>1. IInv /\ ImportInv /\ StoryInv => ModelSeesItsHistory
  BY StoryInvSees
<1> QED
  BY <1>1, StoryKept, PTL
=============================================================================
