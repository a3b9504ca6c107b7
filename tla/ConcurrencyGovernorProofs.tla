---------------------- MODULE ConcurrencyGovernorProofs ----------------------
(***************************************************************************)
(* Theorems about ConcurrencyGovernor, for any number of runs, any ceiling *)
(* and any number of requests.                                             *)
(***************************************************************************)
EXTENDS ConcurrencyGovernor, FiniteSetTheorems, TLAPS

\* The inductive strengthening.  Whoever waits has a ticket kept for it, and
\* an attempt whose epoch is the current one was admitted under no higher cap
\* than the present one.
RoomForWaiters == WaiterCount <= Cardinality(Unused)
CurrentTicketsFit ==
    \A t \in DOMAIN tickets : tickets[t].current => tickets[t].cap <= ctl.cap

IInv ==
    /\ TypeOK
    /\ TicketsAccounted
    /\ LinesMatchQueues
    /\ RoomForWaiters
    /\ ProvedCapStands
    /\ CurrentTicketsFit

-----------------------------------------------------------------------------
\* The controller's operators

\* One field at a time.
LEMMA FieldUpdates ==
    ASSUME NEW c \in Controllers
    PROVE  /\ \A v \in 1 .. Ceiling : [c EXCEPT !.cap = v] \in Controllers
           /\ \A v \in 0 .. IncreaseAfter : [c EXCEPT !.streak = v] \in Controllers
           /\ \A v \in 0 .. Ceiling : [c EXCEPT !.lastGood = v] \in Controllers
           /\ \A v \in Nat \union {NoCooldown} :
                  [c EXCEPT !.cooling = v] \in Controllers
           /\ \A v \in Nat : [c EXCEPT !.waiters = v] \in Controllers
           /\ \A v \in Nat : [c EXCEPT !.inFlight = v] \in Controllers
           /\ \A v \in 0 .. IdleReset : [c EXCEPT !.idle = v] \in Controllers
BY DEF Controllers

LEMMA RefreshType ==
    ASSUME NEW c \in Controllers
    PROVE  /\ Refresh(c) \in Controllers
           /\ Refresh(c).inFlight = c.inFlight
           /\ Refresh(c).waiters = c.waiters
           /\ c.lastGood <= c.cap => Refresh(c).lastGood <= Refresh(c).cap
           /\ c.cap <= Refresh(c).cap
           /\ c.inFlight # 0 => Refresh(c) = c
<1> DEFINE d1 == [c EXCEPT !.cap = Ceiling]
           d2 == [d1 EXCEPT !.streak = 0]
           d3 == [d2 EXCEPT !.lastGood = Unproved]
           d4 == [d3 EXCEPT !.cooling = NoCooldown]
<1>1. /\ Ceiling \in 1 .. Ceiling /\ 0 \in 0 .. IncreaseAfter
      /\ Unproved \in 0 .. Ceiling /\ NoCooldown \in Nat \union {NoCooldown}
  BY ControllerAssumption DEF Unproved
<1>2. /\ d1 \in Controllers /\ d1.cap = Ceiling
      /\ d1.inFlight = c.inFlight /\ d1.waiters = c.waiters
  BY <1>1, FieldUpdates DEF Controllers
<1>3. /\ d2 \in Controllers /\ d2.cap = Ceiling
      /\ d2.inFlight = c.inFlight /\ d2.waiters = c.waiters
  <2> HIDE DEF d1
  <2> QED
    BY <1>1, <1>2, FieldUpdates DEF Controllers
<1>4. /\ d3 \in Controllers /\ d3.cap = Ceiling /\ d3.lastGood = 0
      /\ d3.inFlight = c.inFlight /\ d3.waiters = c.waiters
  <2> HIDE DEF d2
  <2> QED
    BY <1>1, <1>3, FieldUpdates DEF Controllers, Unproved
<1>5. /\ d4 \in Controllers /\ d4.cap = Ceiling /\ d4.lastGood = 0
      /\ d4.inFlight = c.inFlight /\ d4.waiters = c.waiters
  <2> HIDE DEF d3
  <2> QED
    BY <1>1, <1>4, FieldUpdates DEF Controllers
<1>6. c.cap <= Ceiling /\ 0 <= Ceiling
  BY ControllerAssumption DEF Controllers
<1>7. Refresh(c) = IF c.inFlight = 0 /\ c.idle = IdleReset THEN d4 ELSE c
  BY DEF Refresh
<1> HIDE DEF d1, d2, d3, d4
<1>8. CASE c.inFlight = 0 /\ c.idle = IdleReset
  BY <1>5, <1>6, <1>7, <1>8
<1>9. CASE ~ (c.inFlight = 0 /\ c.idle = IdleReset)
  BY <1>7, <1>9 DEF Controllers
<1> QED
  BY <1>8, <1>9

LEMMA AdmittedType ==
    ASSUME NEW c \in Controllers
    PROVE  /\ Admitted(c) \in Controllers
           /\ Admitted(c).inFlight = c.inFlight + 1
           /\ Admitted(c).cap = c.cap
           /\ Admitted(c).lastGood = c.lastGood
           /\ Admitted(c).waiters = c.waiters
<1> DEFINE d == [c EXCEPT !.inFlight = @ + 1]
<1>1. /\ d \in Controllers /\ d.inFlight = c.inFlight + 1
      /\ d.cap = c.cap /\ d.lastGood = c.lastGood /\ d.waiters = c.waiters
  BY FieldUpdates DEF Controllers
<1>2. Admitted(c) = [d EXCEPT !.idle = 0] /\ 0 \in 0 .. IdleReset
  BY ControllerAssumption DEF Admitted
<1> HIDE DEF d
<1> QED
  BY <1>1, <1>2, FieldUpdates DEF Controllers

LEMMA CountWaitersType ==
    ASSUME NEW c \in Controllers, NEW n \in Nat
    PROVE  /\ CountWaiters(c, n) \in Controllers
           /\ CountWaiters(c, n).inFlight = c.inFlight
           /\ CountWaiters(c, n).waiters = n
           /\ c.lastGood <= c.cap =>
                 CountWaiters(c, n).lastGood <= CountWaiters(c, n).cap
           /\ c.cap <= CountWaiters(c, n).cap
BY RefreshType DEF Controllers, CountWaiters

LEMMA EndedType ==
    ASSUME NEW c \in Controllers, c.inFlight > 0
    PROVE  /\ Ended(c) \in Controllers
           /\ Ended(c).inFlight = c.inFlight - 1
           /\ Ended(c).cap = c.cap
           /\ Ended(c).lastGood = c.lastGood
<1>1. Refresh(c) = c
  BY DEF Refresh
<1> QED
  BY <1>1 DEF Controllers, Ended, Larger

LEMMA FailedTransientType ==
    ASSUME NEW c \in Controllers, c.inFlight > 0
    PROVE  /\ FailedTransient(c) \in Controllers
           /\ FailedTransient(c).inFlight = c.inFlight - 1
           /\ FailedTransient(c).cap = c.cap
           /\ FailedTransient(c).lastGood = c.lastGood
BY EndedType, ControllerAssumption DEF Controllers, FailedTransient

LEMMA SucceededType ==
    ASSUME NEW c \in Controllers, c.inFlight > 0, NEW current \in BOOLEAN,
           c.lastGood <= c.cap
    PROVE  /\ Succeeded(c, current) \in Controllers
           /\ Succeeded(c, current).inFlight = c.inFlight - 1
           /\ c.cap <= Succeeded(c, current).cap
           /\ Succeeded(c, current).lastGood <= Succeeded(c, current).cap
<1> DEFINE d == Ended(c)
           n == Smaller(IncreaseAfter, d.streak + 1)
           counted == [d EXCEPT !.streak = n]
           proved == [counted EXCEPT !.lastGood = Larger(@, d.cap)]
           higher == [proved EXCEPT !.cap = @ + 1]
           raised == [higher EXCEPT !.streak = 0]
<1>1. d \in Controllers /\ d.inFlight = c.inFlight - 1 /\ d.cap = c.cap
      /\ d.lastGood = c.lastGood
  BY EndedType
<1> HIDE DEF d
<1>2. n \in 0 .. IncreaseAfter /\ 0 \in 0 .. IncreaseAfter
  BY <1>1, ControllerAssumption DEF Controllers, Smaller
<1> HIDE DEF n
<1>3. /\ counted \in Controllers /\ counted.inFlight = c.inFlight - 1
      /\ counted.cap = c.cap /\ counted.lastGood = c.lastGood
  BY <1>1, <1>2, FieldUpdates DEF Controllers
<1> HIDE DEF counted
<1>4. Larger(counted.lastGood, d.cap) = c.cap /\ c.cap \in 0 .. Ceiling
  BY <1>1, <1>3 DEF Controllers, Larger
<1>5. /\ proved \in Controllers /\ proved.inFlight = c.inFlight - 1
      /\ proved.cap = c.cap /\ proved.lastGood = c.cap
  BY <1>3, <1>4, FieldUpdates DEF Controllers
<1> HIDE DEF proved
<1>6. ASSUME d.cap # Ceiling
      PROVE  /\ higher \in Controllers /\ higher.inFlight = c.inFlight - 1
             /\ higher.cap = c.cap + 1 /\ higher.lastGood = c.cap
  <2>1. proved.cap + 1 \in 1 .. Ceiling
    BY <1>1, <1>5, <1>6, ControllerAssumption DEF Controllers
  <2>2. higher \in Controllers
    BY <1>5, <2>1, FieldUpdates
  <2>3. /\ higher.inFlight = proved.inFlight /\ higher.cap = proved.cap + 1
        /\ higher.lastGood = proved.lastGood
    BY <1>5 DEF Controllers
  <2> QED
    BY <1>5, <2>2, <2>3
<1> HIDE DEF higher
<1>7. ASSUME d.cap # Ceiling
      PROVE  /\ raised \in Controllers /\ raised.inFlight = c.inFlight - 1
             /\ raised.cap = c.cap + 1 /\ raised.lastGood = c.cap
  BY <1>2, <1>6, <1>7, FieldUpdates DEF Controllers
<1>8. \/ Succeeded(c, current) \in {d, counted, proved}
      \/ Succeeded(c, current) = raised /\ d.cap # Ceiling
  <2>1. CASE ~ current
    BY <2>1 DEF Succeeded, d
  <2>2. CASE current /\ n < IncreaseAfter
    BY <2>2, <1>2 DEF Succeeded, d, n, counted
  <2>3. CASE current /\ n = IncreaseAfter
    BY <2>3, <1>2 DEF Succeeded, d, n, counted, proved, higher
  <2> QED
    BY <1>2, <2>1, <2>2, <2>3, ControllerAssumption
<1> HIDE DEF raised
<1> QED
  BY <1>1, <1>3, <1>5, <1>7, <1>8 DEF Controllers
LEMMA CutBackType ==
    ASSUME NEW c \in Controllers
    PROVE  /\ CutBack(c) \in Controllers
           /\ CutBack(c).inFlight = c.inFlight
           /\ CutBack(c).lastGood <= CutBack(c).cap
<1>1. CASE c.lastGood # Unproved /\ c.cap > c.lastGood
  <2>1. CutBack(c) = [c EXCEPT !.cap = c.lastGood]
    BY <1>1 DEF CutBack
  <2>2. c.lastGood \in 1 .. Ceiling
    BY <1>1, ControllerAssumption DEF Controllers, Unproved
  <2> QED
    BY <2>1, <2>2, FieldUpdates DEF Controllers
<1>2. CASE ~ (c.lastGood # Unproved /\ c.cap > c.lastGood)
  <2> DEFINE v == Larger(1, (3 * c.cap) \div 4)
             d == [c EXCEPT !.cap = v]
  <2>1. v \in 1 .. Ceiling
    BY ControllerAssumption DEF Controllers, Larger
  <2>2. CutBack(c) = [d EXCEPT !.lastGood = Unproved]
    BY <1>2 DEF CutBack
  <2> HIDE DEF v
  <2>3. d \in Controllers /\ d.inFlight = c.inFlight /\ d.cap = v
    BY <2>1, FieldUpdates DEF Controllers
  <2> HIDE DEF d
  <2> QED
    BY <2>1, <2>2, <2>3, FieldUpdates, ControllerAssumption
       DEF Controllers, Unproved
<1> QED
  BY <1>1, <1>2

\* Only a throttle verdict of the current epoch can lower the cap.
LEMMA ThrottledType ==
    ASSUME NEW c \in Controllers, c.inFlight > 0, NEW current \in BOOLEAN,
           NEW retryAfter \in Nat, c.lastGood <= c.cap
    PROVE  /\ Throttled(c, current, retryAfter) \in Controllers
           /\ Throttled(c, current, retryAfter).inFlight = c.inFlight - 1
           /\ Throttled(c, current, retryAfter).lastGood
                 <= Throttled(c, current, retryAfter).cap
           /\ ~ current => Throttled(c, current, retryAfter).cap = c.cap
<1> DEFINE e == FailedTransient(c)
           v == IF retryAfter > 0 THEN Larger(e.cooling, retryAfter) ELSE e.cooling
           d == [e EXCEPT !.cooling = v]
<1>1. e \in Controllers /\ e.inFlight = c.inFlight - 1 /\ e.cap = c.cap
      /\ e.lastGood = c.lastGood
  BY FailedTransientType
<1>2. Throttled(c, current, retryAfter) = IF current THEN CutBack(d) ELSE d
  BY DEF Throttled
<1> HIDE DEF e
<1>3. v \in Nat \union {NoCooldown}
  BY <1>1 DEF Controllers, Larger, NoCooldown
<1> HIDE DEF v
<1>4. d \in Controllers /\ d.inFlight = c.inFlight - 1 /\ d.cap = c.cap
      /\ d.lastGood = c.lastGood
  BY <1>1, <1>3, FieldUpdates DEF Controllers
<1> HIDE DEF d
<1> QED
  BY <1>2, <1>4, CutBackType

LEMMA ElapseType ==
    ASSUME NEW c \in Controllers
    PROVE  /\ Elapse(c) \in Controllers
           /\ Elapse(c).inFlight = c.inFlight
           /\ Elapse(c).cap = c.cap
           /\ Elapse(c).lastGood = c.lastGood
           /\ Elapse(c).waiters = c.waiters
<1> DEFINE v == IF c.cooling > 0 THEN c.cooling - 1 ELSE c.cooling
           d == [c EXCEPT !.cooling = v]
<1>1. v \in Nat \union {NoCooldown}
  BY DEF Controllers, NoCooldown
<1>2. Smaller(IdleReset, c.idle + 1) \in 0 .. IdleReset
  BY ControllerAssumption DEF Controllers, Smaller
<1>3. Elapse(c) = [d EXCEPT !.idle = Smaller(IdleReset, c.idle + 1)]
  BY DEF Elapse, Controllers
<1> HIDE DEF v
<1>4. d \in Controllers /\ d.inFlight = c.inFlight /\ d.cap = c.cap
      /\ d.lastGood = c.lastGood /\ d.waiters = c.waiters
  BY <1>1, FieldUpdates DEF Controllers
<1> HIDE DEF d
<1> QED
  BY <1>2, <1>3, <1>4, FieldUpdates DEF Controllers

-----------------------------------------------------------------------------
\* Counting those who wait

LEMMA WaitersFinite ==
    ASSUME waiting \in [Runs -> Nat]
    PROVE  IsFiniteSet(Waiters) /\ WaiterCount \in Nat
<1> DEFINE f == [r \in Runs |-> {r} \X (1 .. waiting[r])]
           T == {{r} \X (1 .. waiting[r]) : r \in Runs}
<1>1. f \in Surjection(Runs, T)
  BY DEF Surjection
<1>2. IsFiniteSet(T)
  BY <1>1, GovernorAssumption, FS_Surjection
<1>3. ASSUME NEW r \in Runs
      PROVE  IsFiniteSet({r} \X (1 .. waiting[r]))
  <2>1. IsFiniteSet(1 .. waiting[r])
    BY FS_Interval, waiting[r] \in Int, 1 \in Int
  <2>2. IsFiniteSet({r})
    BY FS_Singleton
  <2> QED
    BY <2>1, <2>2, FS_Product
<1>4. IsFiniteSet(Waiters)
  BY <1>2, <1>3, FS_UNION DEF Waiters
<1> QED
  BY <1>4, FS_CardinalityType DEF WaiterCount

LEMMA WaiterJoins ==
    ASSUME waiting \in [Runs -> Nat], NEW r \in Runs,
           waiting' = [waiting EXCEPT ![r] = @ + 1]
    PROVE  waiting' \in [Runs -> Nat] /\ WaiterCount' = WaiterCount + 1
<1> DEFINE w == <<r, waiting[r] + 1>>
<1>1. \A s \in Runs : waiting'[s] = IF s = r THEN waiting[s] + 1 ELSE waiting[s]
  OBVIOUS
<1>2. ASSUME NEW x
      PROVE  /\ x \in Waiters <=>
                    \E s \in Runs : \E i \in 1 .. waiting[s] : x = <<s, i>>
             /\ x \in Waiters' <=>
                    \E s \in Runs : \E i \in 1 .. waiting'[s] : x = <<s, i>>
  BY DEF Waiters
<1>3. ASSUME NEW s \in Runs, NEW i
      PROVE  i \in 1 .. waiting'[s] <=>
                i \in 1 .. waiting[s] \/ (s = r /\ i = waiting[r] + 1)
  <2>1. \A n \in Nat : i \in 1 .. n + 1 <=> i \in 1 .. n \/ i = n + 1
    OBVIOUS
  <2>2. /\ waiting[r] \in Nat
        /\ waiting'[s] = IF s = r THEN waiting[r] + 1 ELSE waiting[s]
    BY <1>1
  <2> QED
    BY <2>1, <2>2
<1>4. Waiters' = Waiters \union {w}
  BY <1>2, <1>3
<1>5. w \notin Waiters
  BY <1>2
<1>6. IsFiniteSet(Waiters)
  BY WaitersFinite
<1>7. waiting' \in [Runs -> Nat]
  OBVIOUS
<1> HIDE DEF w
<1>8. Cardinality(Waiters \union {w}) = Cardinality(Waiters) + 1
  BY <1>5, <1>6, FS_AddElement
<1> QED
  BY <1>4, <1>7, <1>8 DEF WaiterCount

LEMMA WaiterLeaves ==
    ASSUME waiting \in [Runs -> Nat], NEW r \in Runs, waiting[r] > 0,
           waiting' = [waiting EXCEPT ![r] = @ - 1]
    PROVE  waiting' \in [Runs -> Nat] /\ WaiterCount' = WaiterCount - 1
<1> DEFINE w == <<r, waiting[r]>>
<1>1. \A s \in Runs : waiting'[s] = IF s = r THEN waiting[s] - 1 ELSE waiting[s]
  OBVIOUS
<1>2. ASSUME NEW x
      PROVE  /\ x \in Waiters <=>
                    \E s \in Runs : \E i \in 1 .. waiting[s] : x = <<s, i>>
             /\ x \in Waiters' <=>
                    \E s \in Runs : \E i \in 1 .. waiting'[s] : x = <<s, i>>
  BY DEF Waiters
<1>3. ASSUME NEW s \in Runs, NEW i
      PROVE  i \in 1 .. waiting'[s] <=>
                i \in 1 .. waiting[s] /\ ~ (s = r /\ i = waiting[r])
  BY <1>1
<1>4. Waiters' = Waiters \ {w}
  BY <1>2, <1>3
<1>5. w \in Waiters
  BY <1>2
<1>6. IsFiniteSet(Waiters)
  BY WaitersFinite
<1>7. waiting' \in [Runs -> Nat]
  OBVIOUS
<1> HIDE DEF w
<1>8. Cardinality(Waiters \ {w}) = Cardinality(Waiters) - 1
  BY <1>5, <1>6, FS_RemoveElement
<1> QED
  BY <1>4, <1>7, <1>8 DEF WaiterCount

LEMMA SomebodyWaits ==
    ASSUME waiting \in [Runs -> Nat], NEW r \in Runs, waiting[r] > 0
    PROVE  WaiterCount > 0
<1>1. <<r, 1>> \in Waiters
  BY DEF Waiters
<1> QED
  BY <1>1, WaitersFinite, FS_EmptySet DEF WaiterCount

LEMMA UnusedFinite ==
    ASSUME DOMAIN tickets \subseteq TicketIds
    PROVE  /\ IsFiniteSet(TicketIds) /\ IsFiniteSet(DOMAIN tickets)
           /\ IsFiniteSet(Unused) /\ Cardinality(Unused) \in Nat
           /\ Cardinality(Unused) > 0 => Unused # {}
<1>1. IsFiniteSet(TicketIds)
  BY FS_Interval, GovernorAssumption DEF TicketIds
<1> QED
  BY <1>1, FS_Subset, FS_CardinalityType, FS_EmptySet DEF Unused

-----------------------------------------------------------------------------
\* The map of the queues

LEMMA RemoveAtFacts ==
    ASSUME NEW S, NEW s \in Seq(S), NEW i \in 1 .. Len(s)
    PROVE  /\ RemoveAt(s, i) \in Seq(S)
           /\ Len(RemoveAt(s, i)) = Len(s) - 1
           /\ \A j \in 1 .. Len(s) - 1 :
                  RemoveAt(s, i)[j] = IF j < i THEN s[j] ELSE s[j + 1]
<1> DEFINE before == SubSeq(s, 1, i - 1)
           after == SubSeq(s, i + 1, Len(s))
<1>1. /\ before \in Seq(S) /\ Len(before) = i - 1
      /\ \A j \in 1 .. i - 1 : before[j] = s[j]
  OBVIOUS
<1>2. /\ after \in Seq(S) /\ Len(after) = Len(s) - i
      /\ \A j \in 1 .. Len(s) - i : after[j] = s[i + j]
  OBVIOUS
<1>3. RemoveAt(s, i) = before \o after
  BY DEF RemoveAt
<1> HIDE DEF before, after
<1>4. /\ RemoveAt(s, i) \in Seq(S)
      /\ Len(RemoveAt(s, i)) = Len(s) - 1
      /\ \A j \in 1 .. Len(s) - 1 :
             RemoveAt(s, i)[j] = IF j < i THEN before[j] ELSE after[j - i + 1]
  BY <1>1, <1>2, <1>3
<1>5. ASSUME NEW j \in 1 .. Len(s) - 1, j >= i
      PROVE  after[j - i + 1] = s[j + 1]
  <2>1. j - i + 1 \in 1 .. Len(s) - i /\ i + (j - i + 1) = j + 1
    BY <1>5
  <2> QED
    BY <1>2, <2>1
<1>6. ASSUME NEW j \in 1 .. Len(s) - 1, j < i
      PROVE  before[j] = s[j]
  BY <1>1, <1>6
<1> QED
  BY <1>4, <1>5, <1>6

LEMMA LeaveQueueKeepsMap ==
    ASSUME TypeOK, LinesMatchQueues, NEW r \in Runs, waiting[r] > 0, LeaveQueue(r)
    PROVE  lines' \in Seq(Runs) /\ LinesMatchQueues'
<1>1. \A s \in Runs : waiting'[s] = IF s = r THEN waiting[s] - 1 ELSE waiting[s]
  BY DEF LeaveQueue, TypeOK
<1>2. CASE waiting[r] # 1
  <2>1. lines' = lines
    BY <1>2 DEF LeaveQueue
  <2>2. \A s \in Runs : waiting'[s] > 0 <=> waiting[s] > 0
    BY <1>1, <1>2 DEF TypeOK
  <2> QED
    BY <2>1, <2>2 DEF TypeOK, LinesMatchQueues, HasLine
<1>3. CASE waiting[r] = 1
  <2> DEFINE i == Position(r)
  <2>1. i \in 1 .. Len(lines) /\ lines[i] = r
    BY DEF LinesMatchQueues, HasLine, Position, TypeOK
  <2>2. lines' = RemoveAt(lines, i)
    BY <1>3 DEF LeaveQueue
  <2> HIDE DEF i
  <2>3. /\ lines' \in Seq(Runs) /\ Len(lines') = Len(lines) - 1
        /\ \A j \in 1 .. Len(lines) - 1 :
               lines'[j] = IF j < i THEN lines[j] ELSE lines[j + 1]
    <3>1. lines \in Seq(Runs)
      BY DEF TypeOK
    <3>2. /\ RemoveAt(lines, i) \in Seq(Runs)
          /\ Len(RemoveAt(lines, i)) = Len(lines) - 1
          /\ \A j \in 1 .. Len(lines) - 1 :
                 RemoveAt(lines, i)[j] = IF j < i THEN lines[j] ELSE lines[j + 1]
      BY <2>1, <3>1, RemoveAtFacts
    <3> QED
      BY <2>2, <3>2
  <2>4. DOMAIN lines = 1 .. Len(lines) /\ DOMAIN lines' = 1 .. Len(lines) - 1
        /\ Len(lines) \in Nat
    BY <2>3 DEF TypeOK
  <2>5. \A j, k \in DOMAIN lines' : lines'[j] = lines'[k] => j = k
    <3> DEFINE old(j) == IF j < i THEN j ELSE j + 1
    <3>1. \A j \in DOMAIN lines' : old(j) \in DOMAIN lines /\ lines'[j] = lines[old(j)]
      BY <2>1, <2>3, <2>4
    <3>2. \A j, k \in DOMAIN lines' : old(j) = old(k) => j = k
      BY <2>1, <2>4
    <3> HIDE DEF old
    <3> QED
      BY <3>1, <3>2 DEF LinesMatchQueues
  <2>6. \A j \in DOMAIN lines' : lines'[j] # r
    BY <2>1, <2>3, <2>4 DEF LinesMatchQueues
  <2>7. ASSUME NEW s \in Runs, s # r
        PROVE  HasLine(s)' <=> HasLine(s)
    <3>1. ASSUME NEW j \in DOMAIN lines, lines[j] = s
          PROVE  HasLine(s)'
      <4>1. CASE j < i
        BY <2>1, <2>3, <2>4, <3>1, <4>1 DEF HasLine
      <4>2. CASE j > i
        <5>1. j - 1 \in DOMAIN lines' /\ lines'[j - 1] = lines[j]
          BY <2>1, <2>3, <2>4, <4>2
        <5> QED
          BY <3>1, <5>1 DEF HasLine
      <4> QED
        BY <2>1, <2>4, <2>7, <3>1, <4>1, <4>2
    <3>2. ASSUME NEW j \in DOMAIN lines', lines'[j] = s
          PROVE  HasLine(s)
      BY <2>1, <2>3, <2>4, <3>2 DEF HasLine
    <3> QED
      BY <3>1, <3>2 DEF HasLine
  <2> QED
    BY <1>1, <1>3, <2>3, <2>5, <2>6, <2>7 DEF LinesMatchQueues, HasLine
<1> QED
  BY <1>2, <1>3

LEMMA EnqueueKeepsMap ==
    ASSUME TypeOK, LinesMatchQueues, NEW r \in Runs,
           waiting' = [waiting EXCEPT ![r] = @ + 1],
           lines' = IF waiting[r] = 0 THEN Append(lines, r) ELSE lines
    PROVE  lines' \in Seq(Runs) /\ LinesMatchQueues'
<1>1. \A s \in Runs : waiting'[s] = IF s = r THEN waiting[s] + 1 ELSE waiting[s]
  BY DEF TypeOK
<1>2. CASE waiting[r] # 0
  <2>1. \A s \in Runs : waiting'[s] > 0 <=> waiting[s] > 0
    BY <1>1, <1>2 DEF TypeOK
  <2> QED
    BY <1>2, <2>1 DEF TypeOK, LinesMatchQueues, HasLine
<1>3. CASE waiting[r] = 0
  <2>1. /\ lines' \in Seq(Runs) /\ Len(lines') = Len(lines) + 1
        /\ DOMAIN lines = 1 .. Len(lines) /\ DOMAIN lines' = 1 .. Len(lines) + 1
        /\ Len(lines) \in Nat
        /\ \A j \in DOMAIN lines : lines'[j] = lines[j]
        /\ lines'[Len(lines) + 1] = r
    BY <1>3 DEF TypeOK
  <2>2. \A j \in DOMAIN lines : lines[j] # r
    BY <1>3 DEF LinesMatchQueues, HasLine
  <2>3. \A j, k \in DOMAIN lines' : lines'[j] = lines'[k] => j = k
    BY <2>1, <2>2 DEF LinesMatchQueues
  <2>4. ASSUME NEW s \in Runs, s # r
        PROVE  HasLine(s)' <=> HasLine(s)
    BY <2>1, <2>4 DEF HasLine
  <2>5. HasLine(r)'
    BY <2>1 DEF HasLine
  <2>6. waiting'[r] > 0
    BY <1>1, <1>3
  <2> QED
    BY <1>1, <2>1, <2>3, <2>4, <2>5, <2>6 DEF LinesMatchQueues
<1> QED
  BY <1>2, <1>3

\* The run whose turn it is has requests waiting.
LEMMA NextRunWaits ==
    ASSUME TypeOK, LinesMatchQueues, lines # <<>>
    PROVE  NextRun \in Runs /\ waiting[NextRun] > 0
<1>1. Len(lines) \in Nat \ {0} /\ DOMAIN lines = 1 .. Len(lines)
  BY DEF TypeOK
<1>2. Turn \in Nat
  <2>1. CASE HasLine(lastGranted)
    BY <1>1, <2>1 DEF Turn, HasLine, Position
  <2>2. CASE ~ HasLine(lastGranted)
    BY <2>2 DEF Turn
  <2> QED
    BY <2>1, <2>2
<1>3. (Turn % Len(lines)) + 1 \in DOMAIN lines
  BY <1>1, <1>2
<1>4. NextRun \in Runs /\ HasLine(NextRun)
  BY <1>3 DEF NextRun, HasLine, TypeOK
<1> QED
  BY <1>4 DEF LinesMatchQueues

-----------------------------------------------------------------------------
\* Tickets: one is handed out, one settles

LEMMA GrantStep ==
    ASSUME IInv, NEW c \in Controllers, c.inFlight = ctl.inFlight,
           c.lastGood <= c.cap, ctl.cap <= c.cap,
           NEW r \in Clients, Unused # {}, Grant(c, r), spent' = spent
    PROVE  /\ ctl' \in Controllers
           /\ ctl'.inFlight = ctl.inFlight + 1
           /\ ctl.cap <= ctl'.cap
           /\ DOMAIN tickets' \subseteq TicketIds
           /\ tickets' \in [DOMAIN tickets' -> Tickets]
           /\ spent' \subseteq TicketIds \ DOMAIN tickets'
           /\ lastGranted' \in Clients
           /\ Cardinality(Unused') = Cardinality(Unused) - 1
           /\ DOMAIN tickets \subseteq DOMAIN tickets'
           /\ \A t \in DOMAIN tickets' \ DOMAIN tickets : tickets'[t].run = r
           /\ TicketsAccounted' /\ ProvedCapStands' /\ CurrentTicketsFit'
<1> DEFINE d == Refresh(c)
           n == NewTicket
           ticket == [run |-> r, current |-> TRUE, cap |-> d.cap]
<1>1. /\ d \in Controllers /\ d.inFlight = ctl.inFlight
      /\ d.lastGood <= d.cap /\ ctl.cap <= d.cap
  <2>1. /\ Refresh(c) \in Controllers /\ Refresh(c).inFlight = c.inFlight
        /\ Refresh(c).lastGood <= Refresh(c).cap /\ c.cap <= Refresh(c).cap
    BY RefreshType
  <2>2. ctl.cap \in Int /\ c.cap \in Int /\ Refresh(c).cap \in Int
    BY <2>1 DEF IInv, TypeOK, Controllers
  <2> QED
    BY <2>1, <2>2
<1>2. n \in Unused /\ n \in TicketIds /\ n \notin DOMAIN tickets /\ n \notin spent
  BY DEF NewTicket, Unused
<1>3. /\ ctl' = Admitted(d) /\ lastGranted' = r
      /\ tickets' = [t \in DOMAIN tickets \union {n} |->
                        IF t = n THEN ticket ELSE tickets[t]]
  BY DEF Grant
<1> HIDE DEF d, n
<1>4. /\ ctl' \in Controllers /\ ctl'.inFlight = ctl.inFlight + 1
      /\ ctl'.cap = d.cap /\ ctl'.lastGood = d.lastGood
  BY <1>1, <1>3, AdmittedType
<1>5. ticket \in Tickets
  BY <1>1 DEF Tickets, Controllers
<1>6. /\ DOMAIN tickets' = DOMAIN tickets \union {n}
      /\ tickets'[n] = ticket
      /\ \A t \in DOMAIN tickets : tickets'[t] = tickets[t]
  BY <1>2, <1>3
<1>7. /\ DOMAIN tickets' \subseteq TicketIds
      /\ tickets' \in [DOMAIN tickets' -> Tickets]
      /\ spent' \subseteq TicketIds \ DOMAIN tickets'
  BY <1>2, <1>3, <1>5, <1>6 DEF IInv, TypeOK
<1>8. Unused' = Unused \ {n}
  BY <1>2, <1>6 DEF Unused
<1>9. Cardinality(Unused') = Cardinality(Unused) - 1
  BY <1>2, <1>8, UnusedFinite, FS_RemoveElement DEF IInv, TypeOK
<1>10. Cardinality(DOMAIN tickets') = Cardinality(DOMAIN tickets) + 1
  <2>1. IsFiniteSet(DOMAIN tickets)
    BY UnusedFinite DEF IInv, TypeOK
  <2> QED
    BY <1>2, <1>6, <2>1, FS_AddElement
<1>11. CurrentTicketsFit'
  <2>1. ASSUME NEW t \in DOMAIN tickets, tickets[t].current
        PROVE  tickets'[t].cap <= ctl'.cap
    <3>1. tickets[t].cap <= ctl.cap /\ tickets[t].cap \in Int /\ ctl.cap \in Int
      BY <2>1 DEF IInv, CurrentTicketsFit, TypeOK, Tickets, Controllers
    <3>2. d.cap \in Int
      BY <1>1 DEF Controllers
    <3> QED
      BY <1>1, <1>4, <1>6, <3>1, <3>2
  <2>2. tickets'[n].cap <= ctl'.cap
    BY <1>1, <1>4, <1>6 DEF Controllers
  <2> QED
    BY <1>6, <2>1, <2>2 DEF CurrentTicketsFit
<1>12. TicketsAccounted' /\ ProvedCapStands'
  BY <1>1, <1>4, <1>10 DEF IInv, TicketsAccounted, ProvedCapStands
<1> QED
  BY <1>1, <1>3, <1>4, <1>6, <1>7, <1>9, <1>11, <1>12

LEMMA SignalType ==
    ASSUME NEW signal \in Signals
    PROVE  /\ signal.retryAfter \in Nat
           /\ signal.kind \in {"succeeded", "throttled", "transient", "ended"}
<1>1. CASE signal \in [kind : {"succeeded", "transient", "ended"}, retryAfter : {0}]
  BY <1>1
<1>2. CASE signal \in [kind : {"throttled"}, retryAfter : RetryAfters]
  <2>1. signal.retryAfter \in RetryAfters /\ signal.kind = "throttled"
    BY <1>2
  <2> QED
    BY <2>1, GovernorAssumption
<1> QED
  BY <1>1, <1>2 DEF Signals

LEMMA ApplyType ==
    ASSUME IInv, NEW t \in DOMAIN tickets, NEW signal \in Signals
    PROVE  /\ Apply(ctl, t, signal) \in Controllers
           /\ Apply(ctl, t, signal).inFlight = ctl.inFlight - 1
           /\ Apply(ctl, t, signal).lastGood <= Apply(ctl, t, signal).cap
           /\ ~ TurnsPage(t, signal) => ctl.cap <= Apply(ctl, t, signal).cap
<1>1. /\ ctl \in Controllers /\ ctl.lastGood <= ctl.cap
      /\ tickets[t].current \in BOOLEAN
  BY DEF IInv, TypeOK, Tickets, ProvedCapStands
<1>2. ctl.inFlight > 0
  <2>1. Cardinality(DOMAIN tickets) # 0 /\ Cardinality(DOMAIN tickets) \in Nat
    BY UnusedFinite, FS_EmptySet, FS_CardinalityType DEF IInv, TypeOK
  <2> QED
    BY <2>1 DEF IInv, TicketsAccounted
<1>3. CASE signal.kind = "succeeded"
  BY <1>1, <1>2, <1>3, SucceededType DEF Apply
<1>4. CASE signal.kind = "throttled"
  <2>1. Apply(ctl, t, signal)
           = Throttled(ctl, tickets[t].current, signal.retryAfter)
    BY <1>4 DEF Apply
  <2> QED
    <3> DEFINE c == Throttled(ctl, tickets[t].current, signal.retryAfter)
    <3>1. /\ c \in Controllers /\ c.inFlight = ctl.inFlight - 1
          /\ c.lastGood <= c.cap
          /\ ~ tickets[t].current => c.cap = ctl.cap
      BY <1>1, <1>2, ThrottledType, SignalType
    <3> HIDE DEF c
    <3>2. TurnsPage(t, signal) <=> tickets[t].current
      BY <1>4 DEF TurnsPage
    <3>3. c.cap = ctl.cap => ctl.cap <= c.cap
      BY <1>1 DEF Controllers
    <3>4. Apply(ctl, t, signal) = c
      BY <2>1 DEF c
    <3> QED
      BY <3>1, <3>2, <3>3, <3>4
<1>5. CASE signal.kind = "transient"
  BY <1>1, <1>2, <1>5, FailedTransientType DEF Apply, Controllers
<1>6. CASE signal.kind = "ended"
  BY <1>1, <1>2, <1>6, EndedType DEF Apply, Controllers
<1> QED
  BY <1>3, <1>4, <1>5, <1>6, SignalType

\* A settlement lowers the cap only on a verdict, and that was admitted under
\* no higher cap.
LEMMA SettleStep ==
    ASSUME IInv, NEW t \in DOMAIN tickets, NEW signal \in Signals,
           Settle(t, signal)
    PROVE  /\ ctl' \in Controllers
           /\ DOMAIN tickets' = DOMAIN tickets \ {t}
           /\ tickets' \in [DOMAIN tickets' -> Tickets]
           /\ pc' = "drain" /\ asked' \in Nat
           /\ TicketsAccounted' /\ ProvedCapStands' /\ CurrentTicketsFit'
           /\ ctl'.cap < ctl.cap => tickets[t].cap <= ctl.cap
<1> DEFINE c == Apply(ctl, t, signal)
<1>1. /\ c \in Controllers /\ c.inFlight = ctl.inFlight - 1
      /\ c.lastGood <= c.cap
      /\ ~ TurnsPage(t, signal) => ctl.cap <= c.cap
  BY ApplyType
<1>2. ctl' = Refresh(c) /\ pc' = "drain"
  BY DEF Settle, StartDrain
<1> HIDE DEF c
<1>3. /\ ctl' \in Controllers /\ ctl'.inFlight = ctl.inFlight - 1
      /\ ctl'.lastGood <= ctl'.cap /\ c.cap <= ctl'.cap
  BY <1>1, <1>2, RefreshType
<1>4. /\ DOMAIN tickets' = DOMAIN tickets \ {t}
      /\ \A u \in DOMAIN tickets' :
             tickets'[u] = [tickets[u] EXCEPT
                              !.current = @ /\ ~ TurnsPage(t, signal)]
  BY DEF Settle
<1>5. TurnsPage(t, signal) \in BOOLEAN
  BY DEF TurnsPage, IInv, TypeOK, Tickets
<1>6. ASSUME NEW u \in DOMAIN tickets'
      PROVE  /\ tickets'[u] \in Tickets /\ tickets'[u].cap = tickets[u].cap
             /\ tickets'[u].current
                    => tickets[u].current /\ ~ TurnsPage(t, signal)
  <2>1. tickets[u] \in Tickets
    BY <1>4 DEF IInv, TypeOK
  <2> QED
    BY <1>4, <1>5, <2>1 DEF Tickets
<1>7. tickets' \in [DOMAIN tickets' -> Tickets]
  <2>1. tickets' = [u \in DOMAIN tickets' |-> tickets'[u]]
    BY DEF Settle
  <2> QED
    BY <1>6, <2>1
<1>8. asked' \in Nat
  BY SignalType DEF Settle, Larger, IInv, TypeOK
<1>9. Cardinality(DOMAIN tickets') = Cardinality(DOMAIN tickets) - 1
  <2>1. IsFiniteSet(DOMAIN tickets)
    BY UnusedFinite DEF IInv, TypeOK
  <2> QED
    BY <1>4, <2>1, FS_RemoveElement
<1>10. CurrentTicketsFit'
  <2>1. ASSUME NEW u \in DOMAIN tickets', tickets'[u].current
        PROVE  tickets'[u].cap <= ctl'.cap
    <3>1. tickets[u].current /\ ctl.cap <= c.cap /\ u \in DOMAIN tickets
      BY <1>1, <1>4, <1>6, <2>1
    <3>2. tickets[u].cap <= ctl.cap /\ tickets[u].cap \in Int
      BY <3>1 DEF IInv, CurrentTicketsFit, TypeOK, Tickets
    <3>3. ctl.cap \in Int /\ c.cap \in Int /\ ctl'.cap \in Int
      BY <1>1, <1>3 DEF IInv, TypeOK, Controllers
    <3> QED
      BY <1>3, <1>6, <3>1, <3>2, <3>3
  <2> QED
    BY <2>1 DEF CurrentTicketsFit
<1>11. ASSUME ctl'.cap < ctl.cap
       PROVE  tickets[t].cap <= ctl.cap
  <2>1. ctl.cap \in Int /\ c.cap \in Int /\ ctl'.cap \in Int
    BY <1>1, <1>3 DEF IInv, TypeOK, Controllers
  <2>2. TurnsPage(t, signal)
    BY <1>1, <1>3, <1>11, <2>1
  <2> QED
    BY <2>2 DEF TurnsPage, IInv, CurrentTicketsFit
<1>12. TicketsAccounted' /\ ProvedCapStands'
  BY <1>3, <1>9 DEF IInv, TicketsAccounted, ProvedCapStands
<1> QED
  BY <1>2, <1>3, <1>4, <1>7, <1>8, <1>10, <1>11, <1>12

-----------------------------------------------------------------------------
\* The actions

\* What a step leaves alone, and what the queues ask of it.
LEMMA FastPathKeeps ==
    ASSUME IInv, NEW r \in Runs, FastPath(r)
    PROVE  IInv' /\ ctl.cap <= ctl'.cap
<1> DEFINE c == Refresh(ctl)
<1>1. /\ c \in Controllers /\ c.inFlight = ctl.inFlight
      /\ c.lastGood <= c.cap /\ ctl.cap <= c.cap
  BY RefreshType DEF IInv, TypeOK, ProvedCapStands
<1>2. /\ WaiterCount = 0 /\ WaiterCount < Cardinality(Unused) /\ Grant(c, r)
      /\ UNCHANGED <<spent, waiting, lines, wake, pc, asked>>
  BY DEF FastPath, HasRoom
<1> HIDE DEF c
<1>3. Unused # {} /\ Cardinality(Unused) \in Nat
  BY <1>2, UnusedFinite DEF IInv, TypeOK
<1>4. r \in Clients
  BY DEF Clients
<1>5. /\ TypeOK' /\ ctl.cap <= ctl'.cap /\ Cardinality(Unused') = Cardinality(Unused) - 1
      /\ TicketsAccounted' /\ ProvedCapStands' /\ CurrentTicketsFit'
  BY <1>1, <1>2, <1>3, <1>4, GrantStep DEF IInv, TypeOK
<1>6. WaiterCount' = WaiterCount
  BY <1>2 DEF WaiterCount, Waiters
<1>7. RoomForWaiters'
  BY <1>2, <1>3, <1>5, <1>6 DEF RoomForWaiters
<1>8. LinesMatchQueues'
  BY <1>2 DEF IInv, LinesMatchQueues, HasLine
<1> QED
  BY <1>5, <1>7, <1>8 DEF IInv

LEMMA ObserverKeeps ==
    ASSUME IInv, ObserverAcquire
    PROVE  IInv' /\ ctl.cap <= ctl'.cap
<1>1. /\ WaiterCount < Cardinality(Unused) /\ Grant(ctl, Observer)
      /\ UNCHANGED <<spent, waiting, lines, wake, pc, asked>>
  BY DEF ObserverAcquire, HasRoom
<1>2. /\ ctl \in Controllers /\ ctl.lastGood <= ctl.cap /\ ctl.cap <= ctl.cap
      /\ Observer \in Clients
  BY DEF IInv, TypeOK, ProvedCapStands, Clients, Controllers
<1>3. /\ Cardinality(Unused) \in Nat /\ WaiterCount \in Nat
      /\ Cardinality(Unused) > 0 => Unused # {}
  BY UnusedFinite, WaitersFinite DEF IInv, TypeOK
<1>4. Unused # {}
  BY <1>1, <1>3
<1>5. /\ TypeOK' /\ ctl.cap <= ctl'.cap /\ Cardinality(Unused') = Cardinality(Unused) - 1
      /\ TicketsAccounted' /\ ProvedCapStands' /\ CurrentTicketsFit'
  BY <1>1, <1>2, <1>4, GrantStep DEF IInv, TypeOK
<1>6. WaiterCount' = WaiterCount
  BY <1>1 DEF WaiterCount, Waiters
<1>7. RoomForWaiters'
  BY <1>1, <1>3, <1>5, <1>6 DEF RoomForWaiters
<1>8. LinesMatchQueues'
  BY <1>1 DEF IInv, LinesMatchQueues, HasLine
<1> QED
  BY <1>5, <1>7, <1>8 DEF IInv

LEMMA GrantNextKeeps ==
    ASSUME IInv, GrantNext
    PROVE  IInv' /\ ctl.cap <= ctl'.cap
<1> DEFINE c == CountWaiters(ctl, WaiterCount)
           r == NextRun
<1>1. WaiterCount \in Nat
  BY WaitersFinite DEF IInv, TypeOK
<1>2. /\ c \in Controllers /\ c.inFlight = ctl.inFlight
      /\ c.lastGood <= c.cap /\ ctl.cap <= c.cap
  BY <1>1, CountWaitersType DEF IInv, TypeOK, ProvedCapStands
<1>3. /\ lines # <<>> /\ LeaveQueue(r) /\ Grant(c, r)
      /\ UNCHANGED <<spent, wake, pc, asked>>
  BY DEF GrantNext
<1>4. r \in Runs /\ waiting[r] > 0 /\ r \in Clients
  BY <1>3, NextRunWaits DEF IInv, Clients
<1> HIDE DEF c, r
<1>5. /\ Cardinality(Unused) \in Nat /\ WaiterCount > 0
      /\ Cardinality(Unused) > 0 => Unused # {}
  BY <1>4, UnusedFinite, SomebodyWaits DEF IInv, TypeOK
<1>6. Unused # {}
  BY <1>1, <1>5 DEF IInv, RoomForWaiters
<1>7. waiting' \in [Runs -> Nat] /\ WaiterCount' = WaiterCount - 1
  BY <1>3, <1>4, WaiterLeaves DEF IInv, TypeOK, LeaveQueue
<1>8. lines' \in Seq(Runs) /\ LinesMatchQueues'
  BY <1>3, <1>4, LeaveQueueKeepsMap DEF IInv
<1>9. /\ ctl' \in Controllers /\ ctl.cap <= ctl'.cap
      /\ DOMAIN tickets' \subseteq TicketIds
      /\ tickets' \in [DOMAIN tickets' -> Tickets]
      /\ spent' \subseteq TicketIds \ DOMAIN tickets' /\ lastGranted' \in Clients
      /\ Cardinality(Unused') = Cardinality(Unused) - 1
      /\ TicketsAccounted' /\ ProvedCapStands' /\ CurrentTicketsFit'
  BY <1>2, <1>3, <1>4, <1>6, GrantStep
<1>10. TypeOK'
  BY <1>3, <1>7, <1>8, <1>9 DEF IInv, TypeOK
<1>11. RoomForWaiters'
  BY <1>1, <1>5, <1>7, <1>9 DEF IInv, RoomForWaiters
<1> QED
  BY <1>8, <1>9, <1>10, <1>11 DEF IInv

\* An action that only changes the controller, to one with as many requests in
\* flight and no lower cap.
LEMMA ControllerKeeps ==
    ASSUME IInv, ctl' \in Controllers, ctl'.inFlight = ctl.inFlight,
           ctl'.lastGood <= ctl'.cap, ctl.cap <= ctl'.cap,
           UNCHANGED <<tickets, spent>>
    PROVE  /\ TicketsAccounted' /\ ProvedCapStands' /\ CurrentTicketsFit'
           /\ Unused' = Unused
<1>1. CurrentTicketsFit'
  <2>1. ASSUME NEW t \in DOMAIN tickets, tickets[t].current
        PROVE  tickets[t].cap <= ctl'.cap
    <3>1. /\ tickets[t].cap <= ctl.cap /\ tickets[t].cap \in Int
          /\ ctl.cap \in Int /\ ctl'.cap \in Int
      BY <2>1 DEF IInv, CurrentTicketsFit, TypeOK, Tickets, Controllers
    <3> QED
      BY <3>1
  <2> QED
    BY <2>1 DEF CurrentTicketsFit
<1> QED
  BY <1>1 DEF IInv, TicketsAccounted, ProvedCapStands, Unused

LEMMA QueuesUnchanged ==
    ASSUME IInv, UNCHANGED <<waiting, lines>>
    PROVE  LinesMatchQueues' /\ WaiterCount' = WaiterCount
BY DEF IInv, LinesMatchQueues, HasLine, WaiterCount, Waiters

LEMMA EnqueueKeeps ==
    ASSUME IInv, NEW r \in Runs, Enqueue(r)
    PROVE  IInv' /\ ctl.cap <= ctl'.cap
<1>1. /\ WaiterCount < Cardinality(Unused)
      /\ waiting' = [waiting EXCEPT ![r] = @ + 1]
      /\ lines' = IF waiting[r] = 0 THEN Append(lines, r) ELSE lines
      /\ ctl' = Refresh(Refresh(ctl)) /\ pc' = "drain"
      /\ UNCHANGED <<tickets, spent, lastGranted, wake, asked>>
  BY DEF Enqueue, HasRoom, StartDrain
<1>2. /\ ctl' \in Controllers /\ ctl'.inFlight = ctl.inFlight
      /\ ctl'.lastGood <= ctl'.cap /\ ctl.cap <= ctl'.cap
  <2> DEFINE c == Refresh(ctl)
  <2>1. /\ c \in Controllers /\ c.inFlight = ctl.inFlight
        /\ c.lastGood <= c.cap /\ ctl.cap <= c.cap
    BY RefreshType DEF IInv, TypeOK, ProvedCapStands
  <2> HIDE DEF c
  <2>2. /\ ctl' \in Controllers /\ ctl'.inFlight = c.inFlight
        /\ ctl'.lastGood <= ctl'.cap /\ c.cap <= ctl'.cap
    BY <1>1, <2>1, RefreshType DEF c
  <2>3. ctl.cap \in Int /\ c.cap \in Int /\ ctl'.cap \in Int
    BY <2>1, <2>2 DEF IInv, TypeOK, Controllers
  <2> QED
    BY <2>1, <2>2, <2>3
<1>3. waiting' \in [Runs -> Nat] /\ WaiterCount' = WaiterCount + 1
  BY <1>1, WaiterJoins DEF IInv, TypeOK
<1>4. lines' \in Seq(Runs) /\ LinesMatchQueues'
  BY <1>1, EnqueueKeepsMap DEF IInv
<1>5. /\ TicketsAccounted' /\ ProvedCapStands' /\ CurrentTicketsFit'
      /\ Unused' = Unused
  BY <1>1, <1>2, ControllerKeeps
<1>6. TypeOK'
  BY <1>1, <1>2, <1>3, <1>4 DEF IInv, TypeOK
<1>7. WaiterCount \in Nat /\ Cardinality(Unused) \in Nat
  BY UnusedFinite, WaitersFinite DEF IInv, TypeOK
<1>8. RoomForWaiters'
  BY <1>1, <1>3, <1>5, <1>7 DEF RoomForWaiters
<1> QED
  BY <1>2, <1>4, <1>5, <1>6, <1>8 DEF IInv

LEMMA AlarmType ==
    ASSUME NEW c \in Controllers, NEW n \in Nat
    PROVE  Alarm(c, n) \in Nat \union {Unarmed}
BY DEF Alarm, Controllers, NoCooldown, Larger

LEMMA RefusedKeeps ==
    ASSUME IInv, Refused
    PROVE  IInv' /\ ctl.cap <= ctl'.cap
<1>1. /\ ctl' \in Controllers /\ ctl'.inFlight = ctl.inFlight
      /\ ctl'.lastGood <= ctl'.cap /\ ctl.cap <= ctl'.cap
  BY RefreshType DEF Refused, IInv, TypeOK, ProvedCapStands
<1>2. UNCHANGED <<tickets, spent, waiting, lines, lastGranted, wake, pc, asked>>
  BY DEF Refused
<1>3. /\ TicketsAccounted' /\ ProvedCapStands' /\ CurrentTicketsFit'
      /\ Unused' = Unused
  BY <1>1, <1>2, ControllerKeeps
<1>4. LinesMatchQueues' /\ WaiterCount' = WaiterCount
  BY <1>2, QueuesUnchanged
<1>5. TypeOK'
  BY <1>1, <1>2 DEF IInv, TypeOK
<1> QED
  BY <1>1, <1>3, <1>4, <1>5 DEF IInv, RoomForWaiters

LEMMA AbortKeeps ==
    ASSUME IInv, NEW r \in Runs, Abort(r)
    PROVE  IInv' /\ ctl.cap <= ctl'.cap
<1>1. /\ waiting[r] > 0 /\ LeaveQueue(r)
      /\ ctl' = CountWaiters(ctl, WaiterCount')
      /\ wake' = Alarm(ctl', WaiterCount')
      /\ UNCHANGED <<tickets, spent, lastGranted, pc, asked>>
  BY DEF Abort
<1>2. waiting' \in [Runs -> Nat] /\ WaiterCount' = WaiterCount - 1
  BY <1>1, WaiterLeaves DEF IInv, TypeOK, LeaveQueue
<1>3. WaiterCount \in Nat /\ Cardinality(Unused) \in Nat /\ WaiterCount > 0
  BY <1>1, UnusedFinite, WaitersFinite, SomebodyWaits DEF IInv, TypeOK
<1>4. WaiterCount' \in Nat
  BY <1>2, <1>3
<1>5. /\ ctl' \in Controllers /\ ctl'.inFlight = ctl.inFlight
      /\ ctl'.lastGood <= ctl'.cap /\ ctl.cap <= ctl'.cap
  BY <1>1, <1>4, CountWaitersType DEF IInv, TypeOK, ProvedCapStands
<1>6. lines' \in Seq(Runs) /\ LinesMatchQueues'
  BY <1>1, LeaveQueueKeepsMap DEF IInv
<1>7. /\ TicketsAccounted' /\ ProvedCapStands' /\ CurrentTicketsFit'
      /\ Unused' = Unused
  BY <1>1, <1>5, ControllerKeeps
<1>8. wake' \in Nat \union {Unarmed}
  BY <1>1, <1>4, <1>5, AlarmType
<1>9. TypeOK'
  BY <1>1, <1>2, <1>5, <1>6, <1>8 DEF IInv, TypeOK
<1>10. RoomForWaiters'
  BY <1>2, <1>3, <1>7 DEF IInv, RoomForWaiters
<1> QED
  BY <1>5, <1>6, <1>7, <1>9, <1>10 DEF IInv

LEMMA DrainEndsKeeps ==
    ASSUME IInv, DrainEnds
    PROVE  IInv' /\ ctl.cap <= ctl'.cap
<1> DEFINE c == CountWaiters(ctl, WaiterCount)
<1>1. /\ ctl' = CountWaiters(c, WaiterCount)
      /\ wake' = Alarm(ctl', WaiterCount) /\ pc' = "idle"
      /\ UNCHANGED <<tickets, spent, waiting, lines, lastGranted, asked>>
  BY DEF DrainEnds
<1>2. WaiterCount \in Nat
  BY WaitersFinite DEF IInv, TypeOK
<1>3. /\ c \in Controllers /\ c.inFlight = ctl.inFlight
      /\ c.lastGood <= c.cap /\ ctl.cap <= c.cap
  BY <1>2, CountWaitersType DEF IInv, TypeOK, ProvedCapStands
<1> HIDE DEF c
<1>4. /\ ctl' \in Controllers /\ ctl'.inFlight = c.inFlight
      /\ ctl'.lastGood <= ctl'.cap /\ c.cap <= ctl'.cap
  BY <1>1, <1>2, <1>3, CountWaitersType
<1>5. ctl.cap <= ctl'.cap
  <2>1. ctl.cap \in Int /\ c.cap \in Int /\ ctl'.cap \in Int
    BY <1>3, <1>4 DEF IInv, TypeOK, Controllers
  <2> QED
    BY <1>3, <1>4, <2>1
<1>6. /\ TicketsAccounted' /\ ProvedCapStands' /\ CurrentTicketsFit'
      /\ Unused' = Unused
  BY <1>1, <1>3, <1>4, <1>5, ControllerKeeps
<1>7. LinesMatchQueues' /\ WaiterCount' = WaiterCount
  BY <1>1, QueuesUnchanged
<1>8. wake' \in Nat \union {Unarmed}
  BY <1>1, <1>2, <1>4, AlarmType
<1>9. TypeOK'
  BY <1>1, <1>4, <1>8 DEF IInv, TypeOK
<1> QED
  BY <1>5, <1>6, <1>7, <1>9 DEF IInv, RoomForWaiters

LEMMA PublishKeeps ==
    ASSUME IInv, NEW t \in TicketIds, NEW signal \in Signals, Publish(t, signal)
    PROVE  IInv'
<1>1. /\ t \in DOMAIN tickets /\ Settle(t, signal) /\ spent' = spent \union {t}
      /\ UNCHANGED <<waiting, lines, lastGranted, wake>>
  BY DEF Publish, Settle
<1>2. /\ ctl' \in Controllers /\ DOMAIN tickets' = DOMAIN tickets \ {t}
      /\ tickets' \in [DOMAIN tickets' -> Tickets]
      /\ pc' = "drain" /\ asked' \in Nat
      /\ TicketsAccounted' /\ ProvedCapStands' /\ CurrentTicketsFit'
  BY <1>1, SettleStep
<1>3. LinesMatchQueues' /\ WaiterCount' = WaiterCount
  BY <1>1, QueuesUnchanged
<1>4. Unused' = Unused
  BY <1>1, <1>2 DEF Unused
<1>5. TypeOK'
  BY <1>1, <1>2 DEF IInv, TypeOK
<1> QED
  BY <1>2, <1>3, <1>4, <1>5 DEF IInv, RoomForWaiters

LEMMA ReleaseKeeps ==
    ASSUME IInv, NEW t \in TicketIds, Release(t)
    PROVE  IInv'
<1> USE DEF IInv
<1>1. /\ WaiterCount \in Nat /\ WaiterCount <= Cardinality(Unused)
      /\ IsFiniteSet(Unused) /\ Cardinality(Unused) \in Nat
  BY UnusedFinite, WaitersFinite DEF TypeOK, RoomForWaiters
<1>2. CASE t \in DOMAIN tickets
  <2>1. t \notin spent
    BY <1>2 DEF TypeOK
  <2>2. /\ Settle(t, Signal("ended", 0)) /\ spent' = spent
        /\ UNCHANGED <<waiting, lines, lastGranted, wake>>
    BY <2>1 DEF Release, Settle
  <2>3. Signal("ended", 0) \in Signals
    BY DEF Signal, Signals
  <2>4. /\ ctl' \in Controllers /\ DOMAIN tickets' = DOMAIN tickets \ {t}
        /\ tickets' \in [DOMAIN tickets' -> Tickets]
        /\ pc' = "drain" /\ asked' \in Nat
        /\ TicketsAccounted' /\ ProvedCapStands' /\ CurrentTicketsFit'
    BY <1>2, <2>2, <2>3, SettleStep
  <2>5. LinesMatchQueues' /\ WaiterCount' = WaiterCount
    BY <2>2, QueuesUnchanged
  <2>6. Unused' = Unused \union {t} /\ t \notin Unused
    BY <1>2, <2>1, <2>2, <2>4 DEF Unused
  <2>7. Cardinality(Unused') = Cardinality(Unused) + 1
    BY <1>1, <2>6, FS_AddElement
  <2>8. TypeOK'
    BY <2>1, <2>2, <2>4 DEF TypeOK
  <2>9. RoomForWaiters'
    BY <1>1, <2>5, <2>7 DEF RoomForWaiters
  <2> QED
    BY <2>4, <2>5, <2>8, <2>9
<1>3. CASE t \notin DOMAIN tickets
  <2>1. /\ t \in spent /\ spent' = spent \ {t}
        /\ UNCHANGED <<ctl, tickets, waiting, lines, lastGranted, wake, pc,
                       asked>>
    BY <1>3 DEF Release
  <2>2. LinesMatchQueues' /\ WaiterCount' = WaiterCount
    BY <2>1, QueuesUnchanged
  <2>3. Unused' = Unused \union {t} /\ t \notin Unused
    BY <1>3, <2>1 DEF Unused
  <2>4. Cardinality(Unused') = Cardinality(Unused) + 1
    BY <1>1, <2>3, FS_AddElement
  <2>5. RoomForWaiters'
    BY <1>1, <2>2, <2>4 DEF RoomForWaiters
  <2>6. TypeOK'
    BY <2>1 DEF TypeOK
  <2>7. TicketsAccounted' /\ ProvedCapStands' /\ CurrentTicketsFit'
    BY <2>1 DEF TicketsAccounted, ProvedCapStands, CurrentTicketsFit
  <2> QED
    BY <2>2, <2>5, <2>6, <2>7
<1> QED
  BY <1>2, <1>3

LEMMA WakeFiresKeeps ==
    ASSUME IInv, WakeFires
    PROVE  IInv' /\ ctl.cap <= ctl'.cap
<1>1. /\ ctl' = Refresh(ctl) /\ pc' = "drain" /\ wake' = Unarmed
      /\ UNCHANGED <<tickets, spent, waiting, lines, lastGranted, asked>>
  BY DEF WakeFires, StartDrain
<1>2. /\ ctl' \in Controllers /\ ctl'.inFlight = ctl.inFlight
      /\ ctl'.lastGood <= ctl'.cap /\ ctl.cap <= ctl'.cap
  BY <1>1, RefreshType DEF IInv, TypeOK, ProvedCapStands
<1>3. /\ TicketsAccounted' /\ ProvedCapStands' /\ CurrentTicketsFit'
      /\ Unused' = Unused
  BY <1>1, <1>2, ControllerKeeps
<1>4. LinesMatchQueues' /\ WaiterCount' = WaiterCount
  BY <1>1, QueuesUnchanged
<1>5. TypeOK'
  BY <1>1, <1>2 DEF IInv, TypeOK
<1> QED
  BY <1>2, <1>3, <1>4, <1>5 DEF IInv, RoomForWaiters

LEMMA TickKeeps ==
    ASSUME IInv, Tick
    PROVE  IInv' /\ ctl.cap <= ctl'.cap
<1>1. /\ ctl' = Elapse(ctl) /\ asked' = Larger(0, asked - 1)
      /\ wake' = IF wake > 0 THEN wake - 1 ELSE wake
      /\ UNCHANGED <<tickets, spent, waiting, lines, lastGranted, pc>>
  BY DEF Tick
<1>2. /\ ctl' \in Controllers /\ ctl'.inFlight = ctl.inFlight
      /\ ctl'.lastGood <= ctl'.cap /\ ctl.cap <= ctl'.cap
  BY <1>1, ElapseType DEF IInv, TypeOK, ProvedCapStands, Controllers
<1>3. /\ TicketsAccounted' /\ ProvedCapStands' /\ CurrentTicketsFit'
      /\ Unused' = Unused
  BY <1>1, <1>2, ControllerKeeps
<1>4. LinesMatchQueues' /\ WaiterCount' = WaiterCount
  BY <1>1, QueuesUnchanged
<1>5. wake' \in Nat \union {Unarmed} /\ asked' \in Nat
  BY <1>1 DEF IInv, TypeOK, Unarmed, Larger
<1>6. TypeOK'
  BY <1>1, <1>2, <1>5 DEF IInv, TypeOK
<1> QED
  BY <1>2, <1>3, <1>4, <1>6 DEF IInv, RoomForWaiters

LEMMA StutterKeeps ==
    ASSUME IInv, UNCHANGED vars
    PROVE  IInv'
BY DEF IInv, vars, TypeOK, TicketsAccounted, LinesMatchQueues, HasLine,
       RoomForWaiters, WaiterCount, Waiters, Unused, ProvedCapStands,
       CurrentTicketsFit

-----------------------------------------------------------------------------
\* The induction

LEMMA InitIInv == Init => IInv
<1> SUFFICES ASSUME Init
             PROVE  IInv
  OBVIOUS
<1>1. DOMAIN tickets = {} /\ tickets \in [DOMAIN tickets -> Tickets]
  BY DEF Init
<1>2. NewController \in Controllers
  BY ControllerAssumption DEF NewController, Controllers, Unproved, NoCooldown
<1>3. TypeOK
  BY <1>1, <1>2 DEF Init, TypeOK, Clients, Unarmed
<1>4. TicketsAccounted
  BY <1>1, FS_EmptySet DEF Init, TicketsAccounted, NewController
<1>5. LinesMatchQueues
  <2>1. DOMAIN lines = {} /\ \A r \in Runs : waiting[r] = 0
    BY DEF Init
  <2> QED
    BY <2>1 DEF LinesMatchQueues, HasLine
<1>6. RoomForWaiters
  <2>1. Waiters = {}
    BY DEF Init, Waiters
  <2>2. WaiterCount = 0
    BY <2>1, FS_EmptySet DEF WaiterCount
  <2> QED
    BY <1>3, <2>2, UnusedFinite DEF RoomForWaiters, TypeOK
<1>7. ProvedCapStands
  BY ControllerAssumption DEF Init, ProvedCapStands, NewController, Unproved
<1>8. CurrentTicketsFit
  BY <1>1 DEF CurrentTicketsFit
<1> QED
  BY <1>3, <1>4, <1>5, <1>6, <1>7, <1>8 DEF IInv

LEMMA NextIInv == IInv /\ [Next]_vars => IInv'
<1> SUFFICES ASSUME IInv, [Next]_vars
             PROVE  IInv'
  OBVIOUS
<1>1. ASSUME NEW r \in Runs, FastPath(r) PROVE IInv'
  BY <1>1, FastPathKeeps
<1>2. ASSUME NEW r \in Runs, Enqueue(r) PROVE IInv'
  BY <1>2, EnqueueKeeps
<1>3. ASSUME NEW r \in Aborting, Abort(r) PROVE IInv'
  BY <1>3, AbortKeeps, GovernorAssumption
<1>4. CASE Refused
  BY <1>4, RefusedKeeps
<1>5. CASE ObserverAcquire
  BY <1>5, ObserverKeeps
<1>6. CASE GrantNext
  BY <1>6, GrantNextKeeps
<1>7. CASE DrainEnds
  BY <1>7, DrainEndsKeeps
<1>8. ASSUME NEW t \in TicketIds, NEW signal \in Signals, Publish(t, signal)
      PROVE  IInv'
  BY <1>8, PublishKeeps
<1>9. ASSUME NEW t \in TicketIds, Release(t) PROVE IInv'
  BY <1>9, ReleaseKeeps
<1>10. CASE WakeFires
  BY <1>10, WakeFiresKeeps
<1>11. CASE Tick
  BY <1>11, TickKeeps
<1>12. CASE UNCHANGED vars
  BY <1>12, StutterKeeps
<1> QED
  BY <1>1, <1>2, <1>3, <1>4, <1>5, <1>6, <1>7, <1>8, <1>9, <1>10, <1>11,
     <1>12 DEF Next

LEMMA Invariance == Spec => []IInv
BY InitIInv, NextIInv, PTL DEF Spec

-----------------------------------------------------------------------------
\* The theorems

\* Every value of the bucket has its type.  The cap, above all, never leaves
\* 1 .. Ceiling, and no controller counts less than no request in flight.
THEOREM GovernorTypeCorrect == Spec => []TypeOK
<1>1. IInv => TypeOK
  BY DEF IInv
<1> QED
  BY <1>1, Invariance, PTL

\* What the controller counts as in flight are the tickets whose attempt has
\* not settled: mintTicket and settle pay each place back exactly once.
THEOREM TicketsAlwaysAccounted == Spec => []TicketsAccounted
<1>1. IInv => TicketsAccounted
  BY DEF IInv
<1> QED
  BY <1>1, Invariance, PTL

\* The map of the queues holds the runs with waiting requests, each once:
\* drain's round robin never comes to an empty queue and misses none.
THEOREM LinesAlwaysMatch == Spec => []LinesMatchQueues
<1>1. IInv => LinesMatchQueues
  BY DEF IInv
<1> QED
  BY <1>1, Invariance, PTL

\* The cap never stands below the one it was last proved to bear.
THEOREM ProvedCapAlwaysStands == Spec => []ProvedCapStands
<1>1. IInv => ProvedCapStands
  BY DEF IInv
<1> QED
  BY <1>1, Invariance, PTL

-----------------------------------------------------------------------------
\* What a step may never do

\* Only the end of an attempt lowers the cap.
LEMMA OnlySettlementsCut ==
    ASSUME IInv, [Next]_vars, ctl'.cap < ctl.cap
    PROVE  \E t \in DOMAIN tickets, signal \in Signals : Settle(t, signal)
<1>1. ASSUME ctl.cap <= ctl'.cap
      PROVE  FALSE
  <2>1. ctl.cap \in Int /\ ctl'.cap \in Int
    BY NextIInv DEF IInv, TypeOK, Controllers
  <2> QED
    BY <1>1, <2>1
<1>2. ASSUME NEW r \in Runs, FastPath(r) \/ Enqueue(r) \/ Abort(r)
      PROVE  FALSE
  BY <1>1, <1>2, FastPathKeeps, EnqueueKeeps, AbortKeeps
<1>3. ~ (Refused \/ ObserverAcquire \/ GrantNext \/ DrainEnds)
  BY <1>1, RefusedKeeps, ObserverKeeps, GrantNextKeeps, DrainEndsKeeps
<1>4. ~ (WakeFires \/ Tick)
  BY <1>1, WakeFiresKeeps, TickKeeps
<1>5. ctl' # ctl
  <2>1. ctl.cap \in Int
    BY DEF IInv, TypeOK, Controllers
  <2> QED
    BY <2>1
<1>6. ASSUME NEW t \in TicketIds, NEW signal \in Signals, Publish(t, signal)
      PROVE  t \in DOMAIN tickets /\ Settle(t, signal)
  BY <1>6 DEF Publish
<1>7. ASSUME NEW t \in TicketIds, Release(t)
      PROVE  t \in DOMAIN tickets /\ Settle(t, Signal("ended", 0))
  BY <1>5, <1>7 DEF Release
<1>8. Signal("ended", 0) \in Signals
  BY DEF Signal, Signals
<1> QED
  BY <1>2, <1>3, <1>4, <1>5, <1>6, <1>7, <1>8, GovernorAssumption DEF Next, vars

\* The 429s of one batch of requests cut the cap once: what the epochs of the
\* controller are for.  An attempt that lowers the cap was admitted under no
\* higher one.
THEOREM BatchAlwaysCutOnce == Spec => BatchCutOnce
<1>1. ASSUME IInv, [Next]_vars, ctl'.cap < ctl.cap, NEW u \in Settling
      PROVE  tickets[u].cap <= ctl.cap
  <2>1. PICK t \in DOMAIN tickets, signal \in Signals : Settle(t, signal)
    BY <1>1, OnlySettlementsCut
  <2>2. /\ DOMAIN tickets' = DOMAIN tickets \ {t}
        /\ tickets[t].cap <= ctl.cap
    BY <1>1, <2>1, SettleStep
  <2> QED
    BY <1>1, <2>2 DEF Settling
<1>2. IInv /\ [Next]_vars =>
         [ctl'.cap < ctl.cap =>
             \A t \in Settling : tickets[t].cap <= ctl.cap]_vars
  BY <1>1
<1> QED
  BY <1>2, Invariance, PTL DEF Spec, BatchCutOnce

\* The demand the controller probes for is the demand there is, whenever no
\* handler runs: the early returns of drain and onAbort leave no stale one.
THEOREM DemandAlwaysKnown == Spec => []DemandKnown
<1>1. Init => DemandKnown
  <2> SUFFICES ASSUME Init
               PROVE  ctl.waiters = WaiterCount
    BY DEF DemandKnown
  <2>1. Waiters = {}
    BY DEF Init, Waiters
  <2>2. WaiterCount = 0
    BY <2>1, FS_EmptySet DEF WaiterCount
  <2> QED
    BY <2>2 DEF Init, NewController
<1>2. ASSUME IInv, DemandKnown, [Next]_vars, pc' = "idle"
      PROVE  ctl'.waiters = WaiterCount'
  <2>1. /\ ctl \in Controllers /\ WaiterCount \in Nat
        /\ Refresh(ctl) \in Controllers /\ Refresh(ctl).waiters = ctl.waiters
    BY <1>2, RefreshType, WaitersFinite DEF IInv, TypeOK
  <2>2. ASSUME UNCHANGED waiting
        PROVE  WaiterCount' = WaiterCount
    BY <2>2 DEF WaiterCount, Waiters
  <2>3. ASSUME NEW c \in Controllers, NEW r, Grant(c, r), UNCHANGED pc,
               c.waiters = ctl.waiters, UNCHANGED waiting
        PROVE  ctl'.waiters = WaiterCount'
    <3>1. /\ Refresh(c) \in Controllers
          /\ Refresh(c).waiters = ctl.waiters
      BY <2>3, RefreshType
    <3>2. ctl'.waiters = ctl.waiters
      BY <2>3, <3>1, AdmittedType DEF Grant
    <3> QED
      BY <1>2, <2>2, <2>3, <3>2 DEF DemandKnown
  <2>4. ASSUME NEW r \in Runs, FastPath(r)
        PROVE  ctl'.waiters = WaiterCount'
    <3>1. /\ Grant(Refresh(ctl), r) /\ UNCHANGED pc /\ UNCHANGED waiting
      BY <2>4 DEF FastPath
    <3> HIDE DEF Grant
    <3> QED
      BY <2>1, <2>3, <3>1
  <2>5. ASSUME NEW r \in Runs, Abort(r)
        PROVE  ctl'.waiters = WaiterCount'
    <3>1. /\ waiting[r] > 0 /\ waiting' = [waiting EXCEPT ![r] = @ - 1]
          /\ ctl' = CountWaiters(ctl, WaiterCount')
      BY <2>5 DEF Abort, LeaveQueue
    <3>2. WaiterCount > 0 /\ WaiterCount' = WaiterCount - 1
      BY <1>2, <3>1, WaiterLeaves, SomebodyWaits DEF IInv, TypeOK
    <3>3. WaiterCount' \in Nat
      BY <2>1, <3>2
    <3> QED
      BY <2>1, <3>1, <3>3, CountWaitersType
  <2>6. CASE ObserverAcquire
    <3>1. Grant(ctl, Observer) /\ UNCHANGED pc /\ UNCHANGED waiting
      BY <2>6 DEF ObserverAcquire
    <3> QED
      BY <2>1, <2>3, <3>1
  <2>7. CASE DrainEnds
    <3> DEFINE c == CountWaiters(ctl, WaiterCount)
    <3>1. ctl' = CountWaiters(c, WaiterCount) /\ UNCHANGED waiting
      BY <2>7 DEF DrainEnds
    <3>2. c \in Controllers
      BY <2>1, CountWaitersType
    <3> HIDE DEF c
    <3> QED
      BY <2>1, <2>2, <3>1, <3>2, CountWaitersType
  <2>8. ASSUME ctl'.waiters = ctl.waiters, UNCHANGED waiting, pc = "idle"
        PROVE  ctl'.waiters = WaiterCount'
    BY <1>2, <2>2, <2>8 DEF DemandKnown
  <2>9. CASE Refused
    BY <2>1, <2>8, <2>9 DEF Refused
  <2>10. CASE Tick
    BY <2>1, <2>8, <2>10, ElapseType DEF Tick
  <2>11. CASE UNCHANGED vars
    BY <1>2, <2>8, <2>11 DEF vars
  <2>12. ASSUME NEW r \in Runs
         PROVE  ~ Enqueue(r)
    BY <1>2, <2>12 DEF Enqueue, StartDrain
  <2>13. ~ GrantNext /\ ~ WakeFires
    BY <1>2 DEF GrantNext, WakeFires, StartDrain
  <2>14. ASSUME NEW t \in TicketIds, NEW signal \in Signals
         PROVE  ~ Publish(t, signal)
    BY <1>2, <2>14 DEF Publish, Settle, StartDrain
  <2>15. ASSUME NEW t \in TicketIds, Release(t)
         PROVE  ctl'.waiters = WaiterCount'
    BY <1>2, <2>8, <2>15 DEF Release, Settle, StartDrain
  <2> QED
    BY <1>2, <2>4, <2>5, <2>6, <2>7, <2>9, <2>10, <2>11, <2>12, <2>13, <2>14,
       <2>15, GovernorAssumption DEF Next
<1>3. IInv /\ DemandKnown /\ [Next]_vars => DemandKnown'
  BY <1>2 DEF DemandKnown
<1> QED
  BY <1>1, <1>3, Invariance, PTL DEF Spec

-----------------------------------------------------------------------------
\* Who wakes the waiters

\* What the end of a drain leaves behind: the gate is shut by attempts in
\* flight, or by a cooldown that has the alarm set for its end.
LEMMA DrainEndWatches ==
    ASSUME IInv, DrainEnds, WaiterCount > 0
    PROVE  ctl'.inFlight > 0 \/ wake' # Unarmed
<1> DEFINE c == CountWaiters(ctl, WaiterCount)
           d == CountWaiters(c, WaiterCount)
<1>1. ctl \in Controllers /\ WaiterCount \in Nat
  BY WaitersFinite DEF IInv, TypeOK
<1>2. c \in Controllers /\ d \in Controllers /\ d.inFlight = c.inFlight
  BY <1>1, CountWaitersType
<1>3. lines # <<>>
  <2>1. ASSUME \A r \in Runs : waiting[r] = 0
        PROVE  FALSE
    <3>1. Waiters = {}
      BY <2>1 DEF Waiters
    <3> QED
      BY <3>1, FS_EmptySet DEF WaiterCount
  <2>2. PICK r \in Runs : waiting[r] > 0
    BY <2>1 DEF IInv, TypeOK
  <2>3. \E i \in DOMAIN lines : lines[i] = r
    BY <2>2 DEF IInv, LinesMatchQueues, HasLine
  <2> QED
    BY <2>3
<1>4. ~ CanAdmit(c) /\ ctl' = d /\ wake' = Alarm(d, WaiterCount)
  BY <1>3 DEF DrainEnds
<1> HIDE DEF d
<1>5. CASE c.inFlight > 0
  BY <1>2, <1>4, <1>5
<1>6. CASE c.inFlight = 0
  <2>1. c.cap >= 1 /\ c.cap \in Int /\ c.cooling \in Int
    BY <1>2 DEF Controllers, NoCooldown
  <2>2. c.cooling > 0
    BY <1>4, <1>6, <2>1 DEF CanAdmit
  <2>3. Refresh(c) = c
    <3>1. CASE ctl.inFlight = 0 /\ ctl.idle = IdleReset
      <4>1. c.cooling = NoCooldown
        BY <1>1, <3>1 DEF CountWaiters, Refresh, Controllers
      <4> QED
        BY <2>2, <4>1 DEF NoCooldown
    <3>2. CASE ~ (ctl.inFlight = 0 /\ ctl.idle = IdleReset)
      <4>1. c.inFlight = ctl.inFlight /\ c.idle = ctl.idle
        BY <1>1, <3>2 DEF CountWaiters, Refresh, Controllers
      <4> QED
        BY <3>2, <4>1 DEF Refresh
    <3> QED
      BY <3>1, <3>2
  <2> HIDE DEF c
  <2>4. d.cooling = c.cooling
    BY <1>2, <2>3 DEF d, CountWaiters, Controllers
  <2>5. Alarm(d, WaiterCount) = c.cooling
    BY <1>1, <2>1, <2>2, <2>4 DEF Alarm, Larger, NoCooldown
  <2> QED
    BY <1>4, <2>1, <2>2, <2>5 DEF Unarmed
<1> QED
  BY <1>2, <1>5, <1>6 DEF Controllers

\* Where no waiting request is aborted, those who wait are never forgotten:
\* every handler that leaves some of them behind ends in the drain, and the
\* drain ends with an attempt in flight or with the alarm set.
THEOREM NobodyForgotten ==
    ASSUME Aborting = {}
    PROVE  Spec => []NoLostWakeup
<1> DEFINE Watched == ctl.inFlight > 0 \/ wake # Unarmed
<1>1. Init => NoLostWakeup
  <2> SUFFICES ASSUME Init
               PROVE  ~ (WaiterCount > 0)
    BY DEF NoLostWakeup
  <2>1. Waiters = {}
    BY DEF Init, Waiters
  <2>2. WaiterCount = 0
    BY <2>1, FS_EmptySet DEF WaiterCount
  <2> QED
    BY <2>2
<1>2. ASSUME IInv, NoLostWakeup, [Next]_vars, pc' = "idle", WaiterCount' > 0
      PROVE  Watched'
  <2>1. /\ ctl \in Controllers /\ WaiterCount \in Nat
        /\ Refresh(ctl) \in Controllers /\ Refresh(ctl).inFlight = ctl.inFlight
    BY <1>2, RefreshType, WaitersFinite DEF IInv, TypeOK
  <2>2. ASSUME UNCHANGED waiting
        PROVE  WaiterCount' = WaiterCount
    BY <2>2 DEF WaiterCount, Waiters
  <2>3. ASSUME UNCHANGED waiting, pc = "idle"
        PROVE  Watched
    BY <1>2, <2>2, <2>3 DEF NoLostWakeup
  <2>4. ASSUME NEW r \in Runs
        PROVE  ~ FastPath(r) /\ ~ Enqueue(r)
    BY <1>2, <2>1, <2>2, <2>4 DEF FastPath, Enqueue, StartDrain
  <2>5. CASE Refused
    BY <2>1, <2>3, <2>5 DEF Refused
  <2>6. CASE ObserverAcquire
    <3>1. ctl' = Admitted(Refresh(ctl))
      BY <2>6 DEF ObserverAcquire, Grant
    <3>2. ctl'.inFlight = ctl.inFlight + 1
      BY <2>1, <3>1, AdmittedType
    <3> QED
      BY <2>1, <3>2 DEF Controllers
  <2>7. CASE DrainEnds
    <3>1. WaiterCount > 0
      BY <1>2, <2>2, <2>7 DEF DrainEnds
    <3> QED
      BY <1>2, <2>7, <3>1, DrainEndWatches
  <2>8. ~ GrantNext /\ ~ WakeFires
    BY <1>2 DEF GrantNext, WakeFires, StartDrain
  <2>9. ASSUME NEW t \in TicketIds, NEW signal \in Signals
        PROVE  ~ Publish(t, signal)
    BY <1>2, <2>9 DEF Publish, Settle, StartDrain
  <2>10. ASSUME NEW t \in TicketIds, Release(t)
         PROVE  Watched'
    BY <1>2, <2>3, <2>10 DEF Release, Settle, StartDrain
  <2>11. CASE Tick
    <3>1. /\ ctl'.inFlight = ctl.inFlight
          /\ wake' = IF wake > 0 THEN wake - 1 ELSE wake
      BY <2>1, <2>11, ElapseType DEF Tick
    <3>2. wake \in Nat \union {Unarmed}
      BY <1>2 DEF IInv, TypeOK
    <3> QED
      BY <2>3, <2>11, <3>1, <3>2 DEF Tick, Unarmed
  <2>12. CASE UNCHANGED vars
    BY <1>2, <2>3, <2>12 DEF vars
  <2>13. Aborting = {}
    OBVIOUS
  <2> HIDE DEF Watched
  <2> QED
    BY <1>2, <2>4, <2>5, <2>6, <2>7, <2>8, <2>9, <2>10, <2>11, <2>12, <2>13
       DEF Next
<1>3. IInv /\ NoLostWakeup /\ [Next]_vars => NoLostWakeup'
  BY <1>2 DEF NoLostWakeup
<1> QED
  BY <1>1, <1>3, Invariance, PTL DEF Spec
=============================================================================
