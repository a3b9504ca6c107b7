-------------------------- MODULE InputQueueProofs --------------------------
(***************************************************************************)
(* The promotion lease, the inputs and the promotions of InputQueue, for   *)
(* every set of inputs and of notifications.  The lease (IInv) needs       *)
(* nothing of the queue itself: what is executed next depends on the       *)
(* lease, on what runs and on the pending notifications alone.  The inputs *)
(* (QInv) need the lease, which keeps the turn, and so its memory, away    *)
(* from a promotion that has marked its input.                             *)
(***************************************************************************)
EXTENDS InputQueue, WellFoundedInduction, TLAPS

\* The types of the variables that LeaseAccounted is about.
LeaseTypes ==
    /\ exec \in [kind : {"idle", "prompt", "notice"},
                 aborted : BOOLEAN, keep : BOOLEAN]
    /\ lease \in Promoters \cup {None}
    /\ pc \in [Promoters -> {"idle", "picked", "reserve", "reserved",
                             "wait", "marked", "remove"}]

IInv == LeaseTypes /\ LeaseAccounted

-----------------------------------------------------------------------------
(* What starts next *)

\* RunNext starts the notifications only without a lease, and leaves none
\* waiting in a runtime without one.
LEMMA NextUnderLease ==
    ASSUME NEW l, NEW pending, RunNext(l, pending)
    PROVE  /\ exec' \in [kind : {"idle", "prompt", "notice"},
                         aborted : BOOLEAN, keep : BOOLEAN]
           /\ l # None => exec' = Idle
           /\ exec' = Idle /\ l = None => notes' = {}
<1>1. CASE l = None /\ pending # {} /\ exec' = Run("notice") /\ notes' = {}
    BY <1>1 DEF Run
<1>2. CASE (l # None \/ pending = {}) /\ exec' = Idle /\ notes' = pending
    BY <1>2 DEF Idle
<1> QED
    BY <1>1, <1>2 DEF RunNext

\* A stopped execution stays one until its end.
LEMMA StopKeepsRunning ==
    ASSUME LeaseTypes, NEW k \in BOOLEAN
    PROVE  /\ Aborted(k) \in [kind : {"idle", "prompt", "notice"},
                              aborted : BOOLEAN, keep : BOOLEAN]
           /\ Aborted(k) = Idle <=> exec = Idle
BY DEF Aborted, Idle, LeaseTypes

\* Giving up a promotion releases its lease and starts what waited behind it.
LEMMA GiveUpKeepsIInv ==
    ASSUME IInv, NEW p \in Promoters, GiveUp(p)
    PROVE  IInv'
<1> USE NoneAssumption DEF Promoters
<1>1. /\ pc' = [pc EXCEPT ![p] = "idle"]
      /\ lease' = IF lease = p THEN None ELSE lease
    BY DEF GiveUp, Done
<1>2. CASE exec = Idle
    <2>1. RunNext(lease', notes)
        BY <1>2 DEF GiveUp
    <2> QED
        BY <1>1, <2>1, NextUnderLease
           DEF IInv, LeaseTypes, LeaseAccounted, Leased
<1>3. CASE exec # Idle
    <2>1. exec' = exec /\ notes' = notes
        BY <1>3 DEF GiveUp
    <2> QED
        BY <1>1, <1>3, <2>1 DEF IInv, LeaseTypes, LeaseAccounted, Leased, Idle
<1> QED
    BY <1>2, <1>3

-----------------------------------------------------------------------------
(* The actions *)

\* Actions that touch neither what runs nor the lease nor a promoter.
LEMMA Untouched ==
    ASSUME IInv, UNCHANGED <<exec, lease, pc, notes>>
    PROVE  IInv'
BY DEF IInv, LeaseTypes, LeaseAccounted, Leased, Promoters, Idle

\* The user's text and commands.
LEMMA UserKeepsIInv ==
    ASSUME IInv, User
    PROVE  IInv'
<1> USE NoneAssumption DEF Promoters
<1>1. ASSUME NEW i \in Inputs, NEW d \in {"guide", "queue"}, SendText(i, d)
      PROVE  IInv'
    <2>1. CASE ~Busy
        <3>1. /\ exec' = Run("prompt")
              /\ UNCHANGED <<lease, pc, notes>>
            BY <1>1, <2>1 DEF SendText, promoVars, noticeVars
        <3>2. lease = None
            BY <2>1 DEF Busy
        <3> QED
            BY <3>1, <3>2
               DEF IInv, LeaseTypes, LeaseAccounted, Leased, Run, Idle
    <2>2. CASE Busy
        BY <1>1, <2>2, Untouched DEF SendText, promoVars, noticeVars
    <2> QED
        BY <2>1, <2>2
<1>2. ASSUME NEW i \in Inputs, StartNow(i)
      PROVE  IInv'
    <2>1. /\ lease = None /\ lease' = "user"
          /\ exec' = Aborted(TRUE)
          /\ pc' = [pc EXCEPT !["user"] = "wait"]
          /\ notes' = notes
          /\ pc["user"] = "idle"
        BY <1>2 DEF StartNow, UserFree, noticeVars
    <2> QED
        BY <2>1, StopKeepsRunning
           DEF IInv, LeaseTypes, LeaseAccounted, Leased
<1>3. ASSUME NEW i \in Inputs, SendNow(i)
      PROVE  IInv'
    <2>1. /\ pc["user"] = "idle"
          /\ pc' = [pc EXCEPT !["user"] = "reserve"]
          /\ UNCHANGED <<exec, lease, notes>>
        BY <1>3 DEF SendNow, UserFree, noticeVars
    <2> QED
        BY <2>1 DEF IInv, LeaseTypes, LeaseAccounted, Leased, Idle
<1>4. ASSUME Stop
      PROVE  IInv'
    <2>1. exec' = Aborted(FALSE) /\ UNCHANGED <<lease, pc, notes>>
        BY <1>4 DEF Stop, promoVars, noticeVars
    <2> QED
        BY <2>1, StopKeepsRunning
           DEF IInv, LeaseTypes, LeaseAccounted, Leased
<1>5. ASSUME NEW b \in BOOLEAN, SetAutoDrain(b)
      PROVE  IInv'
    BY <1>5, Untouched DEF SetAutoDrain, promoVars, noticeVars
<1>6. ASSUME NEW i \in Inputs, NEW b,
             DeleteRead(i) \/ EditRead(i) \/ ReorderRead(i, b)
      PROVE  IInv'
    BY <1>6, Untouched
       DEF DeleteRead, EditRead, ReorderRead, Reads, promoVars, noticeVars
<1> QED
    BY <1>1, <1>2, <1>3, <1>4, <1>5, <1>6 DEF User

\* A notification starts at once only without a lease.
LEMMA NotifyKeepsIInv ==
    ASSUME IInv, NEW n \in Notices, Notify(n)
    PROVE  IInv'
<1> USE NoneAssumption DEF Promoters
<1>1. UNCHANGED <<lease, pc>>
    BY DEF Notify, promoVars
<1>2. CASE exec = Idle /\ RunNext(lease, notes \cup {n})
    BY <1>1, <1>2, NextUnderLease
       DEF IInv, LeaseTypes, LeaseAccounted, Leased
<1>3. CASE exec # Idle /\ exec' = exec
    BY <1>1, <1>3 DEF IInv, LeaseTypes, LeaseAccounted, Leased, Idle
<1> QED
    BY <1>2, <1>3 DEF Notify

\* The end of a turn dequeues the next batch.
LEMMA TurnKeepsIInv ==
    ASSUME IInv, Turn
    PROVE  IInv'
<1> USE NoneAssumption DEF Promoters
<1>1. CASE DrainDone
    BY <1>1, Untouched DEF DrainDone, promoVars, noticeVars
<1>2. ASSUME NEW o, EndTurn(o)
      PROVE  IInv'
    <2>1. /\ exec # Idle
          /\ RunNext(lease, notes)
          /\ UNCHANGED <<lease, pc>>
        BY <1>2 DEF EndTurn, promoVars
    <2> QED
        BY <2>1, NextUnderLease DEF IInv, LeaseTypes, LeaseAccounted, Leased
<1> QED
    BY <1>1, <1>2 DEF Turn

\* The automatic drain picks an item and takes the lease of an idle runtime.
LEMMA AutoKeepsIInv ==
    ASSUME IInv, AutoPick \/ AutoLease
    PROVE  IInv'
<1> USE NoneAssumption DEF Promoters
<1>1. CASE AutoPick
    <2>1. /\ pc["auto"] = "idle"
          /\ pc' = pc \/ pc' = [pc EXCEPT !["auto"] = "picked"]
          /\ UNCHANGED <<exec, lease, notes>>
        BY <1>1 DEF AutoPick, noticeVars
    <2> QED
        BY <2>1 DEF IInv, LeaseTypes, LeaseAccounted, Leased, Idle
<1>2. CASE AutoLease /\ GiveUp("auto")
    BY <1>2, GiveUpKeepsIInv
<1>3. CASE AutoLease /\ ~GiveUp("auto")
    <2>1. /\ pc["auto"] = "picked"
          /\ UNCHANGED <<exec, notes>>
          /\ \/ ~Busy /\ lease' = "auto" /\ pc' = [pc EXCEPT !["auto"] = "reserve"]
             \/ UNCHANGED lease /\ pc' = [pc EXCEPT !["auto"] = "idle"]
        BY <1>3 DEF AutoLease, Done, noticeVars
    <2> QED
        BY <2>1 DEF IInv, LeaseTypes, LeaseAccounted, Leased, Idle, Busy
<1> QED
    BY <1>1, <1>2, <1>3

\* The user's promotion takes the lease and preempts what runs.
LEMMA LeaseAndStopKeepsIInv ==
    ASSUME IInv, LeaseAndStop
    PROVE  IInv'
<1> USE NoneAssumption DEF Promoters
<1>1. CASE GiveUp("user")
    BY <1>1, GiveUpKeepsIInv
<1>2. CASE ~GiveUp("user")
    <2>1. /\ lease = None /\ lease' = "user"
          /\ exec' = Aborted(TRUE)
          /\ pc' = [pc EXCEPT !["user"] = "wait"]
          /\ pc["user"] = "reserved" /\ notes' = notes
        BY <1>2 DEF LeaseAndStop, noticeVars
    <2> QED
        BY <2>1, StopKeepsRunning
           DEF IInv, LeaseTypes, LeaseAccounted, Leased
<1> QED
    BY <1>1, <1>2

\* The steps that both promoters take.
LEMMA PromoterKeepsIInv ==
    ASSUME IInv, NEW p \in Promoters, PromoterStep(p)
    PROVE  IInv'
<1> USE NoneAssumption DEF Promoters
<1>1. CASE GiveUp(p)
    BY <1>1, GiveUpKeepsIInv
<1>2. CASE Reserve(p) /\ ~GiveUp(p)
    <2>1. /\ pc[p] = "reserve"
          /\ pc' = [pc EXCEPT ![p] = IF p = "auto" THEN "wait" ELSE "reserved"]
          /\ UNCHANGED <<exec, lease, notes>>
        BY <1>2 DEF Reserve, noticeVars
    <2> QED
        BY <2>1 DEF IInv, LeaseTypes, LeaseAccounted, Leased, Idle
<1>3. CASE Mark(p) /\ ~GiveUp(p)
    <2>1. /\ pc[p] = "wait"
          /\ p = "user" => exec = Idle
          /\ pc' = [pc EXCEPT ![p] = "marked"]
          /\ UNCHANGED <<exec, lease, notes>>
        BY <1>3 DEF Mark, noticeVars
    <2> QED
        BY <2>1 DEF IInv, LeaseTypes, LeaseAccounted, Leased, Idle
<1>4. CASE Admit(p) /\ ~GiveUp(p)
    <2>1. /\ pc[p] = "marked"
          /\ lease = p /\ lease' = None
          /\ exec' = Run("prompt")
          /\ notes' = notes
          /\ \/ pc' = [pc EXCEPT ![p] = "idle"]
             \/ pc' = [pc EXCEPT ![p] = "remove"]
        BY <1>4 DEF Admit, Done, noticeVars
    <2> QED
        BY <2>1 DEF IInv, LeaseTypes, LeaseAccounted, Leased, Run, Idle
<1>5. CASE RemovePromoted(p)
    <2>1. /\ pc[p] = "remove"
          /\ pc' = [pc EXCEPT ![p] = "idle"]
          /\ UNCHANGED <<exec, lease, notes>>
        BY <1>5 DEF RemovePromoted, Done, noticeVars
    <2> QED
        BY <2>1 DEF IInv, LeaseTypes, LeaseAccounted, Leased, Idle
<1> QED
    BY <1>1, <1>2, <1>3, <1>4, <1>5 DEF PromoterStep

-----------------------------------------------------------------------------
LEMMA InitIInv ==
    ASSUME Init
    PROVE  IInv
BY NoneAssumption
   DEF Init, IInv, LeaseTypes, LeaseAccounted, Leased, Promoters, Idle

LEMMA NextIInv ==
    ASSUME IInv, [Next]_vars
    PROVE  IInv'
<1>1. CASE UNCHANGED vars
    BY <1>1, Untouched DEF vars
<1>2. CASE User
    BY <1>2, UserKeepsIInv
<1>3. ASSUME NEW n \in Notices, Notify(n)
      PROVE  IInv'
    BY <1>3, NotifyKeepsIInv
<1>4. CASE DrainTake
    BY <1>4, Untouched DEF DrainTake, promoVars, noticeVars
<1>5. CASE Turn
    BY <1>5, TurnKeepsIInv
<1>6. CASE CmdWrite
    BY <1>6, Untouched DEF CmdWrite, noticeVars
<1>7. CASE AutoPick \/ AutoLease
    BY <1>7, AutoKeepsIInv
<1>8. CASE LeaseAndStop
    BY <1>8, LeaseAndStopKeepsIInv
<1>9. CASE WaitTimeout
    <2>1. GiveUp("user") /\ "user" \in Promoters
        BY <1>9 DEF WaitTimeout, Promoters
    <2> QED
        BY <2>1, GiveUpKeepsIInv
<1>10. ASSUME NEW p \in Promoters, PromoterStep(p)
       PROVE  IInv'
    BY <1>10, PromoterKeepsIInv
<1> QED
    BY <1>1, <1>2, <1>3, <1>4, <1>5, <1>6, <1>7, <1>8, <1>9, <1>10 DEF Next

\* Whatever is sent, promoted, deleted, stopped or notified, the lease of
\* foregroundPromotionLease belongs to a promotion under way, a promotion that
\* may start meets an idle runtime, and no notification is forgotten.
THEOREM LeaseAlwaysAccounted == Spec => []LeaseAccounted
<1>1. Init => IInv
    BY InitIInv
<1>2. IInv /\ [Next]_vars => IInv'
    BY NextIInv
<1>3. IInv => LeaseAccounted
    BY DEF IInv
<1> QED
    BY <1>1, <1>2, <1>3, PTL DEF Spec

-----------------------------------------------------------------------------
(* The sequences of inputs.  Induction over their length is the least number *)
(* that a set of numbers lacks (AllNumbers).                                 *)

LEMMA LessIsWellFounded == IsWellFoundedOn({x \in Nat \X Nat : x[1] < x[2]}, Nat)
<1>1. OpToRel(<, Nat) = {x \in Nat \X Nat : x[1] < x[2]}
  BY DEF OpToRel
<1> QED
  BY <1>1, NatLessThanWellFounded

\* A set of numbers that is not empty has a least one.
LEMMA LeastNumber ==
    ASSUME NEW T \in SUBSET Nat, T # {}
    PROVE  \E m \in T : \A k \in T : m <= k
<1> DEFINE R == {x \in Nat \X Nat : x[1] < x[2]}
<1>1. IsWellFoundedOn(R, Nat)
  BY LessIsWellFounded
<1> HIDE DEF R
<1>2. PICK m \in T : \A k \in T : <<k, m>> \notin R
  BY <1>1, WFMin
<1>3. ASSUME NEW k \in T PROVE m <= k
  <2>1. k \in Nat /\ m \in Nat
    OBVIOUS
  <2>2. <<k, m>> \notin R
    BY <1>2
  <2>3. ~ (k < m)
    BY <2>1, <2>2 DEF R
  <2> QED
    BY <2>1, <2>3
<1> QED
  BY <1>3

\* A set with 0 and with the successor of each of its members has all numbers.
LEMMA AllNumbers ==
    ASSUME NEW T \in SUBSET Nat, 0 \in T, \A n \in T : n + 1 \in T
    PROVE  T = Nat
<1> DEFINE U == Nat \ T
<1> SUFFICES ASSUME U # {} PROVE FALSE
  OBVIOUS
<1>1. PICK m \in U : \A k \in U : m <= k
  BY LeastNumber
<1>2. m \in Nat /\ m # 0
  OBVIOUS
<1>3. m - 1 \in Nat /\ m = (m - 1) + 1
  BY <1>2
<1>4. m - 1 \in T
  BY <1>1, <1>3
<1> QED
  BY <1>3, <1>4

-----------------------------------------------------------------------------
(* What Only keeps *)

\* f[i] is what is kept of the first i inputs of s.
KeptUpTo(s, S, n, f) ==
    /\ f[0] = <<>>
    /\ \A i \in 1..n : f[i] = IF s[i] \in S THEN Append(f[i-1], s[i]) ELSE f[i-1]

\* The recursive definition of Only has a solution.
LEMMA KeptExists ==
    ASSUME NEW s \in Seq(Inputs), NEW S
    PROVE  \E f \in [0..Len(s) -> Seq(Inputs)] : KeptUpTo(s, S, Len(s), f)
<1> DEFINE T == {n \in Nat : n <= Len(s) =>
                    \E f \in [0..n -> Seq(Inputs)] : KeptUpTo(s, S, n, f)}
<1>1. 0 \in T
  <2>1. <<>> \in Seq(Inputs)
    OBVIOUS
  <2>2. /\ [i \in 0..0 |-> <<>>] \in [0..0 -> Seq(Inputs)]
        /\ KeptUpTo(s, S, 0, [i \in 0..0 |-> <<>>])
    BY <2>1 DEF KeptUpTo
  <2> QED
    BY <2>2
<1>2. ASSUME NEW n \in T PROVE n + 1 \in T
  <2> SUFFICES ASSUME n + 1 <= Len(s)
               PROVE  \E f \in [0..(n+1) -> Seq(Inputs)] : KeptUpTo(s, S, n + 1, f)
    OBVIOUS
  <2>1. n \in Nat /\ Len(s) \in Nat /\ n <= Len(s)
    OBVIOUS
  <2>2. PICK f \in [0..n -> Seq(Inputs)] : KeptUpTo(s, S, n, f)
    BY <2>1
  <2> DEFINE x == IF s[n+1] \in S THEN Append(f[n], s[n+1]) ELSE f[n]
             g == [i \in 0..(n+1) |-> IF i = n + 1 THEN x ELSE f[i]]
  <2>3. x \in Seq(Inputs)
    <3>1. s[n+1] \in Inputs /\ f[n] \in Seq(Inputs)
      BY <2>1
    <3>2. Append(f[n], s[n+1]) \in Seq(Inputs)
      BY <3>1
    <3> QED
      BY <3>1, <3>2
  <2>4. g \in [0..(n+1) -> Seq(Inputs)]
    <3>1. \A i \in 0..(n+1) : i = n + 1 \/ i \in 0..n
      BY <2>1
    <3> HIDE DEF x
    <3> QED
      BY <2>3, <3>1
  <2>5. g[0] = <<>>
    BY <2>1, <2>2 DEF KeptUpTo
  <2>6. ASSUME NEW i \in 1..(n+1)
        PROVE  g[i] = IF s[i] \in S THEN Append(g[i-1], s[i]) ELSE g[i-1]
    <3>1. i - 1 \in 0..n /\ g[i-1] = f[i-1]
      BY <2>1
    <3>2. CASE i = n + 1
      <4>1. g[i] = x /\ i - 1 = n
        BY <2>1, <3>2
      <4> QED
        BY <3>1, <3>2, <4>1
    <3>3. CASE i # n + 1
      <4>1. i \in 1..n /\ g[i] = f[i]
        BY <2>1, <3>3
      <4> HIDE DEF g
      <4> QED
        BY <2>2, <3>1, <4>1 DEF KeptUpTo
    <3> QED
      BY <3>2, <3>3
  <2> HIDE DEF g
  <2>7. KeptUpTo(s, S, n + 1, g)
    BY <2>5, <2>6 DEF KeptUpTo
  <2> QED
    BY <2>4, <2>7
<1> HIDE DEF T
<1>3. T = Nat
  <2>1. T \in SUBSET Nat
    BY DEF T
  <2> QED
    BY <1>1, <1>2, <2>1, AllNumbers
<1> QED
  BY <1>3 DEF T

\* k holds what s has in S among its first n, in order and no more often.
KeptFrom(s, S, n, k) ==
    /\ k \in Seq(Inputs)
    /\ \A x : (\E j \in 1..Len(k) : k[j] = x) <=> x \in S /\ \E i \in 1..n : s[i] = x
    /\ (\A i, j \in 1..n : s[i] = s[j] => i = j) =>
           \A i, j \in 1..Len(k) : k[i] = k[j] => i = j
    /\ (\A i \in 1..n : s[i] \in S) => Len(k) = n /\ \A i \in 1..n : k[i] = s[i]

\* One more element is looked at.
LEMMA KeptGrows ==
    ASSUME NEW s \in Seq(Inputs), NEW S, NEW n \in Nat, n + 1 <= Len(s),
           NEW k, KeptFrom(s, S, n, k)
    PROVE  KeptFrom(s, S, n + 1, IF s[n + 1] \in S THEN Append(k, s[n + 1]) ELSE k)
<1> DEFINE x == s[n + 1]
<1>1. /\ x \in Inputs /\ k \in Seq(Inputs) /\ Len(k) \in Nat
      /\ n + 1 \in 1..(n + 1) /\ \A i \in 1..n : i \in 1..(n + 1) /\ i # n + 1
      /\ \A i \in 1..(n + 1) : i \in 1..n \/ i = n + 1
  BY DEF KeptFrom
<1>2. /\ \A y : (\E j \in 1..Len(k) : k[j] = y) <=> y \in S /\ \E i \in 1..n : s[i] = y
      /\ (\A i, j \in 1..n : s[i] = s[j] => i = j) =>
             \A i, j \in 1..Len(k) : k[i] = k[j] => i = j
      /\ (\A i \in 1..n : s[i] \in S) => Len(k) = n /\ \A i \in 1..n : k[i] = s[i]
  BY DEF KeptFrom
<1> HIDE DEF x
<1>3. CASE x \notin S
  <2>1. \A y : (\E i \in 1..(n + 1) : s[i] = y) /\ y \in S <=> (\E i \in 1..n : s[i] = y) /\ y \in S
    BY <1>1, <1>3 DEF x
  <2>2. \A y : (\E j \in 1..Len(k) : k[j] = y) <=> y \in S /\ \E i \in 1..(n + 1) : s[i] = y
    BY <1>2, <2>1
  <2>3. (\A i, j \in 1..(n + 1) : s[i] = s[j] => i = j) =>
             \A i, j \in 1..Len(k) : k[i] = k[j] => i = j
    BY <1>1, <1>2
  <2>4. ~ (\A i \in 1..(n + 1) : s[i] \in S)
    BY <1>1, <1>3 DEF x
  <2> QED
    BY <1>1, <1>3, <2>2, <2>3, <2>4 DEF KeptFrom, x
<1>4. CASE x \in S
  <2> DEFINE o == Append(k, x)
             m == Len(k) + 1
  <2>1. /\ o \in Seq(Inputs) /\ Len(o) = m /\ o[m] = x
        /\ \A i \in 1..Len(k) : o[i] = k[i]
    BY <1>1
  <2>2. /\ \A i \in 1..m : i = m \/ i \in 1..Len(k)
        /\ m \in 1..m /\ \A i \in 1..Len(k) : i \in 1..m /\ i # m
    BY <1>1
  <2> HIDE DEF o, m
  <2>3. ASSUME NEW y
        PROVE  (\E j \in 1..m : o[j] = y) <=> y \in S /\ \E i \in 1..(n + 1) : s[i] = y
    <3>1. (\E j \in 1..m : o[j] = y) <=> y = x \/ \E j \in 1..Len(k) : k[j] = y
      BY <2>1, <2>2
    <3>2. (\E i \in 1..(n + 1) : s[i] = y) <=> y = x \/ \E i \in 1..n : s[i] = y
      BY <1>1 DEF x
    <3> QED
      BY <1>2, <1>4, <3>1, <3>2
  <2>4. ASSUME \A i, j \in 1..(n + 1) : s[i] = s[j] => i = j
        PROVE  \A i, j \in 1..m : o[i] = o[j] => i = j
    <3>1. \A i \in 1..n : s[i] # x
      BY <1>1, <2>4 DEF x
    <3>2. \A j \in 1..Len(k) : k[j] # x
      BY <1>2, <3>1
    <3>3. \A i, j \in 1..Len(k) : k[i] = k[j] => i = j
      BY <1>1, <1>2, <2>4
    <3> QED
      BY <2>1, <2>2, <3>2, <3>3
  <2>5. ASSUME \A i \in 1..(n + 1) : s[i] \in S
        PROVE  m = n + 1 /\ \A i \in 1..(n + 1) : o[i] = s[i]
    <3>1. Len(k) = n /\ \A i \in 1..n : k[i] = s[i]
      BY <1>1, <1>2, <2>5
    <3>2. m = n + 1
      BY <3>1 DEF m
    <3> QED
      BY <1>1, <2>1, <3>1, <3>2 DEF x
  <2>6. KeptFrom(s, S, n + 1, o)
    BY <2>1, <2>3, <2>4, <2>5 DEF KeptFrom
  <2> QED
    BY <1>4, <2>6 DEF o, x
<1> QED
  BY <1>3, <1>4

\* Only is that solution.
LEMMA OnlyKeeps ==
    ASSUME NEW s \in Seq(Inputs), NEW S
    PROVE  KeptFrom(s, S, Len(s), Only(s, S))
<1> DEFINE Defines(g) == g = [n \in 0..Len(s) |->
                IF n = 0 THEN <<>>
                ELSE IF s[n] \in S THEN Append(g[n - 1], s[n]) ELSE g[n - 1]]
           out == CHOOSE g : Defines(g)
<1>1. Only(s, S) = out[Len(s)]
  BY DEF Only
<1>2. Len(s) \in Nat
  OBVIOUS
<1>3. \E g : Defines(g)
  <2>1. PICK f \in [0..Len(s) -> Seq(Inputs)] : KeptUpTo(s, S, Len(s), f)
    BY KeptExists
  <2>2. \A i \in 0..Len(s) : i # 0 => i \in 1..Len(s)
    BY <1>2
  <2>3. \A i \in 0..Len(s) : f[i] = IF i = 0 THEN <<>>
            ELSE IF s[i] \in S THEN Append(f[i - 1], s[i]) ELSE f[i - 1]
    BY <2>1, <2>2 DEF KeptUpTo
  <2>4. Defines(f)
    BY <2>3
  <2> QED
    BY <2>4
<1>4. Defines(out)
  BY <1>3
<1> HIDE DEF out
<1>5. out[0] = <<>>
  BY <1>2, <1>4
<1>6. \A n \in 1..Len(s) :
          out[n] = IF s[n] \in S THEN Append(out[n - 1], s[n]) ELSE out[n - 1]
  <2>1. \A n \in 1..Len(s) : n \in 0..Len(s) /\ n # 0
    BY <1>2
  <2> QED
    BY <1>4, <2>1
<1> HIDE DEF Defines
<1> DEFINE T == {n \in Nat : n <= Len(s) => KeptFrom(s, S, n, out[n])}
<1>7. 0 \in T
  <2> DEFINE o == <<>>
  <2>1. o \in Seq(Inputs) /\ Len(o) = 0 /\ 1..Len(o) = {} /\ 1..0 = {}
    OBVIOUS
  <2> HIDE DEF o
  <2>2. KeptFrom(s, S, 0, o)
    BY <2>1 DEF KeptFrom
  <2> QED
    BY <1>5, <2>2 DEF o
<1>8. ASSUME NEW n \in T PROVE n + 1 \in T
  <2> SUFFICES ASSUME n + 1 <= Len(s) PROVE KeptFrom(s, S, n + 1, out[n + 1])
    OBVIOUS
  <2>1. n \in Nat /\ n <= Len(s) /\ n + 1 \in 1..Len(s) /\ (n + 1) - 1 = n
    BY <1>2
  <2>2. KeptFrom(s, S, n, out[n])
    BY <2>1
  <2>3. out[n + 1] = IF s[n + 1] \in S THEN Append(out[n], s[n + 1]) ELSE out[n]
    BY <1>6, <2>1
  <2> QED
    BY <2>1, <2>2, <2>3, KeptGrows
<1> HIDE DEF T
<1>9. T = Nat
  <2>1. T \in SUBSET Nat
    BY DEF T
  <2> QED
    BY <1>7, <1>8, <2>1, AllNumbers
<1>10. KeptFrom(s, S, Len(s), out[Len(s)])
  BY <1>2, <1>9 DEF T
<1> QED
  BY <1>1, <1>10

-----------------------------------------------------------------------------
(* Which inputs a sequence has *)

\* No input is there twice.
Distinct(s) == \A i, j \in 1..Len(s) : s[i] = s[j] => i = j

LEMMA Members ==
    ASSUME NEW s \in Seq(Inputs)
    PROVE  /\ \A x : x \in ToSet(s) <=> \E i \in 1..Len(s) : s[i] = x
           /\ ToSet(s) \subseteq Inputs
BY DEF ToSet

\* Only keeps the members in S, in their order: each as often as before.
LEMMA OnlySet ==
    ASSUME NEW s \in Seq(Inputs), NEW S
    PROVE  /\ Only(s, S) \in Seq(Inputs)
           /\ ToSet(Only(s, S)) = ToSet(s) \cap S
           /\ Distinct(s) => Distinct(Only(s, S))
           /\ ToSet(s) \subseteq S => Only(s, S) = s
<1> DEFINE k == Only(s, S)
<1>1. KeptFrom(s, S, Len(s), k)
  BY OnlyKeeps
<1> HIDE DEF k
<1>2. k \in Seq(Inputs)
  BY <1>1 DEF KeptFrom
<1>3. ASSUME NEW x
      PROVE  x \in ToSet(k) <=> x \in ToSet(s) /\ x \in S
  BY <1>1, <1>2, Members DEF KeptFrom
<1>4. Distinct(s) => Distinct(k)
  BY <1>1 DEF KeptFrom, Distinct
<1>5. ASSUME ToSet(s) \subseteq S
      PROVE  k = s
  <2>1. \A i \in 1..Len(s) : s[i] \in S
    BY <1>5, Members
  <2>2. Len(k) = Len(s) /\ \A i \in 1..Len(s) : k[i] = s[i]
    BY <1>1, <2>1 DEF KeptFrom
  <2> QED
    BY <1>2, <2>2
<1> QED
  BY <1>2, <1>3, <1>4, <1>5 DEF k

\* What a queue holds after an append, a removal and so on: its set, and that no
\* input is in it twice.
LEMMA AppendSet ==
    ASSUME NEW s \in Seq(Inputs), NEW x \in Inputs
    PROVE  /\ Append(s, x) \in Seq(Inputs)
           /\ ToSet(Append(s, x)) = ToSet(s) \cup {x}
           /\ Distinct(s) /\ x \notin ToSet(s) => Distinct(Append(s, x))
<1> DEFINE o == Append(s, x)
           m == Len(s) + 1
<1>1. /\ o \in Seq(Inputs) /\ Len(o) = m /\ o[m] = x /\ Len(s) \in Nat
      /\ \A i \in 1..Len(s) : o[i] = s[i]
  OBVIOUS
<1>2. /\ \A i \in 1..m : i = m \/ i \in 1..Len(s)
      /\ m \in 1..m /\ \A i \in 1..Len(s) : i \in 1..m /\ i # m
  BY <1>1
<1> HIDE DEF o, m
<1>3. ASSUME NEW y
      PROVE  y \in ToSet(o) <=> y \in ToSet(s) \/ y = x
  BY <1>1, <1>2, Members
<1>4. Distinct(s) /\ x \notin ToSet(s) => Distinct(o)
  BY <1>1, <1>2, Members DEF Distinct
<1> QED
  BY <1>1, <1>3, <1>4 DEF o

LEMMA TailSet ==
    ASSUME NEW s \in Seq(Inputs), s # <<>>
    PROVE  /\ Head(s) \in ToSet(s) /\ Tail(s) \in Seq(Inputs)
           /\ ToSet(s) = ToSet(Tail(s)) \cup {Head(s)}
           /\ Distinct(s) => Distinct(Tail(s)) /\ Head(s) \notin ToSet(Tail(s))
<1> DEFINE t == Tail(s)
           h == Head(s)
<1>1. /\ Len(s) \in Nat /\ Len(s) >= 1 /\ t \in Seq(Inputs) /\ h = s[1]
      /\ Len(t) = Len(s) - 1
      /\ \A i \in 1..Len(t) : t[i] = s[i + 1]
  OBVIOUS
<1>2. /\ 1 \in 1..Len(s)
      /\ \A i \in 1..Len(t) : i + 1 \in 1..Len(s) /\ i + 1 # 1
      /\ \A i \in 1..Len(s) : i = 1 \/ (i - 1 \in 1..Len(t) /\ (i - 1) + 1 = i)
      /\ \A i, j \in 1..Len(t) : i + 1 = j + 1 => i = j
  BY <1>1
<1> HIDE DEF t, h
<1>3. ASSUME NEW y
      PROVE  y \in ToSet(s) <=> y \in ToSet(t) \/ y = h
  <2>1. ASSUME NEW i \in 1..Len(s), s[i] = y
        PROVE  y \in ToSet(t) \/ y = h
    <3>1. CASE i = 1
      BY <1>1, <2>1, <3>1
    <3>2. CASE i # 1
      <4>1. i - 1 \in 1..Len(t) /\ (i - 1) + 1 = i
        BY <1>2, <3>2
      <4>2. t[i - 1] = s[i]
        BY <1>1, <4>1
      <4> QED
        BY <1>1, <2>1, <4>1, <4>2, Members
    <3> QED
      BY <3>1, <3>2
  <2>2. ASSUME NEW i \in 1..Len(t), t[i] = y
        PROVE  y \in ToSet(s)
    BY <1>1, <1>2, <2>2, Members
  <2>3. h \in ToSet(s)
    BY <1>1, <1>2, Members
  <2> QED
    BY <1>1, <2>1, <2>2, <2>3, Members
<1>4. ASSUME Distinct(s)
      PROVE  Distinct(t) /\ h \notin ToSet(t)
  BY <1>1, <1>2, <1>4, Members DEF Distinct
<1> QED
  BY <1>1, <1>3, <1>4 DEF t, h

LEMMA ConcatSet ==
    ASSUME NEW s \in Seq(Inputs), NEW t \in Seq(Inputs)
    PROVE  /\ s \o t \in Seq(Inputs) /\ Len(s \o t) = Len(s) + Len(t)
           /\ ToSet(s \o t) = ToSet(s) \cup ToSet(t)
<1> DEFINE o == s \o t
<1>1. /\ o \in Seq(Inputs) /\ Len(o) = Len(s) + Len(t)
      /\ Len(s) \in Nat /\ Len(t) \in Nat
      /\ \A i \in 1..Len(s) : o[i] = s[i]
      /\ \A i \in 1..Len(o) : i > Len(s) => o[i] = t[i - Len(s)]
  OBVIOUS
<1>2. /\ \A i \in 1..Len(s) : i \in 1..Len(o)
      /\ \A j \in 1..Len(t) : /\ j + Len(s) \in 1..Len(o) /\ j + Len(s) > Len(s)
                              /\ (j + Len(s)) - Len(s) = j
      /\ \A i \in 1..Len(o) : i \in 1..Len(s) \/ (i > Len(s) /\ i - Len(s) \in 1..Len(t))
  BY <1>1
<1> HIDE DEF o
<1>3. ASSUME NEW y
      PROVE  y \in ToSet(o) <=> y \in ToSet(s) \/ y \in ToSet(t)
  <2>1. ASSUME NEW j \in 1..Len(t)
        PROVE  o[j + Len(s)] = t[j]
    BY <1>1, <1>2
  <2>2. ASSUME NEW i \in 1..Len(o), o[i] = y
        PROVE  y \in ToSet(s) \/ y \in ToSet(t)
    <3>1. CASE i \in 1..Len(s)
      BY <1>1, <2>2, <3>1, Members
    <3>2. CASE i \notin 1..Len(s)
      <4>1. i > Len(s) /\ i - Len(s) \in 1..Len(t)
        BY <1>2, <3>2
      <4>2. o[i] = t[i - Len(s)]
        BY <1>1, <4>1
      <4> QED
        BY <2>2, <4>1, <4>2, Members
    <3> QED
      BY <3>1, <3>2
  <2>3. ASSUME NEW i \in 1..Len(s), s[i] = y
        PROVE  y \in ToSet(o)
    BY <1>1, <1>2, <2>3, Members
  <2>4. ASSUME NEW j \in 1..Len(t), t[j] = y
        PROVE  y \in ToSet(o)
    BY <1>1, <1>2, <2>1, <2>4, Members
  <2> QED
    BY <1>1, <2>2, <2>3, <2>4, Members
<1> QED
  BY <1>1, <1>3 DEF o

LEMMA RemoveAtSet ==
    ASSUME NEW s \in Seq(Inputs), NEW i \in 1..Len(s)
    PROVE  /\ RemoveAt(s, i) \in Seq(Inputs)
           /\ ToSet(RemoveAt(s, i)) \subseteq ToSet(s)
           /\ Distinct(s) => /\ Distinct(RemoveAt(s, i))
                             /\ s[i] \notin ToSet(RemoveAt(s, i))
<1> DEFINE a == SubSeq(s, 1, i - 1)
           b == SubSeq(s, i + 1, Len(s))
           r == a \o b
           from(j) == IF j < i THEN j ELSE j + 1
<1>0. RemoveAt(s, i) = r /\ i \in Nat /\ Len(s) \in Nat /\ i >= 1 /\ i <= Len(s)
  BY DEF RemoveAt
<1>1. /\ a \in Seq(Inputs) /\ Len(a) = i - 1 /\ \A j \in 1..(i - 1) : a[j] = s[j]
  OBVIOUS
<1>2. /\ b \in Seq(Inputs) /\ Len(b) = Len(s) - i
      /\ \A j \in 1..(Len(s) - i) : b[j] = s[i + j]
  OBVIOUS
<1> HIDE DEF a, b
<1>3. r \in Seq(Inputs) /\ Len(r) = Len(s) - 1
  <2>1. r \in Seq(Inputs) /\ Len(r) = Len(a) + Len(b)
    BY <1>1, <1>2, ConcatSet
  <2> QED
    BY <1>0, <1>1, <1>2, <2>1
<1>4. ASSUME NEW j \in 1..Len(r)
      PROVE  r[j] = s[from(j)] /\ from(j) \in 1..Len(s) /\ from(j) # i
  <2>1. CASE j < i
    <3>1. j \in 1..(i - 1)
      BY <2>1, <1>3
    <3>2. r[j] = a[j]
      BY <1>1, <1>2, <3>1
    <3> QED
      BY <1>1, <2>1, <3>1, <3>2
  <2>2. CASE ~(j < i)
    <3>1. j - (i - 1) \in 1..(Len(s) - i) /\ i + (j - (i - 1)) = j + 1
      BY <1>3, <2>2
    <3>2. r[j] = b[j - (i - 1)]
      BY <1>1, <1>2, <1>3, <2>2
    <3>3. r[j] = s[i + (j - (i - 1))]
      BY <1>2, <3>1, <3>2
    <3> QED
      BY <1>3, <2>2, <3>1, <3>3
  <2> QED
    BY <2>1, <2>2
<1>5. \A j, k \in 1..Len(r) : from(j) = from(k) => j = k
  BY <1>0, <1>3
<1> HIDE DEF r, from
<1>6. ASSUME NEW x \in ToSet(r)
      PROVE  \E j \in 1..Len(s) : j # i /\ s[j] = x
  <2>1. PICK j \in 1..Len(r) : r[j] = x
    BY <1>3, Members
  <2> QED
    BY <1>4, <2>1
<1>7. ToSet(r) \subseteq ToSet(s)
  BY <1>6, Members
<1>8. ASSUME Distinct(s)
      PROVE  Distinct(r) /\ s[i] \notin ToSet(r)
  <2>1. ASSUME NEW j \in 1..Len(r), NEW k \in 1..Len(r), r[j] = r[k]
        PROVE  j = k
    BY <1>4, <1>5, <1>8, <2>1 DEF Distinct
  <2>2. s[i] \notin ToSet(r)
    BY <1>6, <1>8 DEF Distinct
  <2> QED
    BY <2>1, <2>2 DEF Distinct
<1> QED
  BY <1>0, <1>3, <1>7, <1>8

LEMMA InsertAtSet ==
    ASSUME NEW s \in Seq(Inputs), NEW k \in 1..Len(s), NEW x \in Inputs
    PROVE  /\ InsertAt(s, k, x) \in Seq(Inputs)
           /\ ToSet(InsertAt(s, k, x)) \subseteq ToSet(s) \cup {x}
           /\ Distinct(s) /\ x \notin ToSet(s) => Distinct(InsertAt(s, k, x))
<1> DEFINE a == SubSeq(s, 1, k - 1)
           b == SubSeq(s, k, Len(s))
           c == a \o <<x>>
           r == c \o b
           from(j) == IF j < k THEN j ELSE j - 1
<1>0. InsertAt(s, k, x) = r /\ k \in Nat /\ Len(s) \in Nat /\ k >= 1 /\ k <= Len(s)
  BY DEF InsertAt
<1>1. a \in Seq(Inputs) /\ Len(a) = k - 1 /\ \A j \in 1..(k - 1) : a[j] = s[j]
  OBVIOUS
<1>2. /\ b \in Seq(Inputs) /\ Len(b) = Len(s) - k + 1
      /\ \A j \in 1..(Len(s) - k + 1) : b[j] = s[j + k - 1]
  OBVIOUS
<1> HIDE DEF a, b
<1>3. c = Append(a, x)
  BY <1>1
<1>4. c \in Seq(Inputs) /\ Len(c) = k /\ c[k] = x /\ \A j \in 1..(k - 1) : c[j] = s[j]
  BY <1>0, <1>1, <1>3
<1> HIDE DEF c
<1>5. r \in Seq(Inputs) /\ Len(r) = Len(s) + 1
  <2>1. r \in Seq(Inputs) /\ Len(r) = Len(c) + Len(b)
    BY <1>2, <1>4, ConcatSet
  <2> QED
    BY <1>0, <1>2, <1>4, <2>1
<1>6. ASSUME NEW j \in 1..Len(r)
      PROVE  \/ j = k /\ r[j] = x
             \/ j # k /\ r[j] = s[from(j)] /\ from(j) \in 1..Len(s)
  <2>1. CASE j <= k
    <3>1. r[j] = c[j]
      BY <1>0, <1>2, <1>4, <2>1
    <3>2. j = k \/ (j \in 1..(k - 1) /\ j < k /\ j # k)
      BY <1>0, <1>5, <2>1
    <3>3. j \in 1..(k - 1) => from(j) = j /\ j \in 1..Len(s)
      BY <1>0
    <3> QED
      BY <1>4, <3>1, <3>2, <3>3
  <2>2. CASE j > k
    <3>1. /\ j \in Nat /\ j - k \in 1..Len(b) /\ (j - k) + k - 1 = j - 1
          /\ j # k /\ from(j) = j - 1 /\ j - 1 \in 1..Len(s)
      BY <1>0, <1>2, <1>5, <2>2
    <3>2. r[j] = b[j - k]
      BY <1>2, <1>4, <1>5, <2>2
    <3>3. b[j - k] = s[(j - k) + k - 1]
      BY <1>2, <3>1
    <3> QED
      BY <3>1, <3>2, <3>3
  <2> QED
    BY <1>0, <1>5, <2>1, <2>2
<1>7. \A i, j \in 1..Len(r) : i # k /\ j # k /\ from(i) = from(j) => i = j
  BY <1>0, <1>5
<1> HIDE DEF r, from
<1>8. ASSUME NEW y \in ToSet(r)
      PROVE  y = x \/ y \in ToSet(s)
  <2>1. PICK j \in 1..Len(r) : r[j] = y
    BY <1>5, Members
  <2> QED
    BY <1>6, <2>1, Members
<1>9. ASSUME Distinct(s), x \notin ToSet(s),
             NEW i \in 1..Len(r), NEW j \in 1..Len(r), r[i] = r[j]
      PROVE  i = j
  <2>1. \A n \in 1..Len(s) : s[n] # x
    BY <1>9, Members
  <2> QED
    BY <1>6, <1>7, <1>9, <2>1 DEF Distinct
<1> QED
  BY <1>0, <1>5, <1>8, <1>9 DEF Distinct

\* The place of an input is one at which it is.
LEMMA PlaceOf ==
    ASSUME NEW s \in Seq(Inputs), NEW i \in ToSet(s)
    PROVE  /\ SelectInSeq(s, LAMBDA x : x = i) \in 1..Len(s)
           /\ s[SelectInSeq(s, LAMBDA x : x = i)] = i
<1> DEFINE I == {j \in 1..Len(s) : s[j] = i}
<1>1. I # {} /\ I \in SUBSET Nat
  BY Members
<1>2. PICK m \in I : \A k \in I : m <= k
  BY <1>1, LeastNumber
<1>3. SelectInSeq(s, LAMBDA x : x = i) = CHOOSE j \in I : \A k \in I : j <= k
  BY <1>1 DEF SelectInSeq, Min
<1> QED
  BY <1>2, <1>3

\* A reordering moves an input and adds none.
LEMMA MovedSet ==
    ASSUME NEW s \in Seq(Inputs), NEW i \in Inputs, NEW b
    PROVE  /\ Moved(s, i, b) \in Seq(Inputs)
           /\ ToSet(Moved(s, i, b)) \subseteq ToSet(s) \cup {i}
           /\ Distinct(s) => Distinct(Moved(s, i, b))
<1> DEFINE rest == Without(s, i)
           k == SelectInSeq(rest, LAMBDA x : x = b)
<1>1. /\ rest \in Seq(Inputs) /\ ToSet(rest) \subseteq ToSet(s) /\ i \notin ToSet(rest)
      /\ Distinct(s) => Distinct(rest)
  BY OnlySet DEF Without
<1>2. Moved(s, i, b) = IF b \in ToSet(rest) THEN InsertAt(rest, k, i) ELSE Append(rest, i)
  BY DEF Moved
<1> HIDE DEF rest
<1>3. CASE b \in ToSet(rest)
  <2>1. k \in 1..Len(rest)
    BY <1>1, <1>3, PlaceOf
  <2> HIDE DEF k
  <2> QED
    BY <1>1, <1>2, <1>3, <2>1, InsertAtSet
<1>4. CASE b \notin ToSet(rest)
  BY <1>1, <1>2, <1>4, AppendSet
<1> QED
  BY <1>3, <1>4

-----------------------------------------------------------------------------
(* The inductive invariant of the inputs *)

QueueTypes ==
    /\ mem \in Seq(Inputs) /\ proj \in Seq(Inputs)
    /\ drain \in Inputs \cup {None}
    /\ holder \in [Inputs -> Promoters \cup {None}]
    /\ item \in [Promoters -> Inputs \cup {None}]
    /\ cmd \in [op : {"none", "delete", "edit", "reorder"},
                item : Inputs \cup {None}, live : BOOLEAN,
                index : Nat, order : Seq(Inputs)]
    /\ ran \in [Inputs -> 0..2]
    /\ sent \subseteq Inputs /\ removed \subseteq Inputs
    /\ overlapped \subseteq Inputs

\* Whatever the queue, a command or a promotion has to do with was accepted,
\* the input of a startNow, which goes past the queue, excepted.
Accepted ==
    /\ ToSet(mem) \subseteq sent /\ ToSet(proj) \subseteq sent
    /\ removed \subseteq sent /\ ToSet(cmd.order) \subseteq sent
    /\ \A i \in Inputs : ran[i] > 0 \/ holder[i] # None => i \in sent
    /\ drain # None => drain \in sent
    /\ cmd.op # "none" => cmd.item \in sent
    /\ \A p \in Promoters : pc[p] # "idle" =>
          /\ item[p] \in Inputs
          /\ p = "auto" \/ pc[p] \in {"reserve", "reserved", "remove"} =>
                item[p] \in sent

\* Whoever is about to take an input off the queue has handed it to a turn.
HandedFirst ==
    /\ drain # None => ran[drain] > 0
    /\ \A p \in Promoters : pc[p] = "remove" => ran[item[p]] > 0

NoneLost == \A i \in sent : i \in ToSet(proj) \/ ran[i] > 0 \/ i \in removed

\* The memory is the running turn's: it is gone with the turn.
MemoryOfTurn == exec = Idle => mem = <<>> /\ drain = None /\ ~cmd.live

\* What a reordering in flight writes to the memory.
LiveOrder == IF cmd.op = "reorder" /\ cmd.live THEN ToSet(cmd.order) ELSE {}

MemoryDistinct ==
    /\ Distinct(mem)
    /\ cmd.op = "reorder" /\ cmd.live => Distinct(cmd.order)
    /\ cmd.live => cmd.index >= 1

\* A started item is not in the memory of its own turn.
StartedOutOfMemory ==
    \A p \in Promoters : pc[p] = "remove" =>
        item[p] \notin ToSet(mem) \cup LiveOrder \cup {drain}

\* A reservation belongs to a promotion of the input that is under way, and a
\* marked input stays in the queue until its promotion removes it.
ReservedInPromotion ==
    \A i \in Inputs, p \in Promoters : holder[i] = p =>
        /\ item[p] = i
        /\ pc[p] \in {"reserved", "wait", "marked", "remove"}
        /\ pc[p] \in {"marked", "remove"} => i \in ToSet(proj)

\* A marked input keeps its reservation, unless a command overlapped.
ReservationHeld ==
    \A p \in Promoters :
        pc[p] \in {"marked", "remove"} /\ item[p] \in sent \ overlapped =>
            holder[item[p]] = p

\* The inputs that no command had read while they were consumed.
RunsOnce(i) == ran[i] <= 1 /\ (i \in removed => ran[i] = 0)
MemoryUnrun(i) == i \in ToSet(mem) => ran[i] = 0 /\ i \notin removed
Finishing(i) ==
    drain = i \/ \E p \in Promoters : pc[p] = "remove" /\ item[p] = i
QueueUnrun(i) ==
    i \in ToSet(proj) => i \notin removed /\ (ran[i] > 0 => Finishing(i))
MarkedUnrun(i) ==
    \A p \in Promoters :
        pc[p] = "marked" /\ item[p] = i => ran[i] = 0 /\ i \notin removed
ReadApart(i) == i \notin Read \cap Consumed
ReadQueued(i) == cmd.op # "none" /\ cmd.item = i => i \in ToSet(proj)
ReadInMemory(i) == i \in LiveOrder => i \in ToSet(mem)
CutInPlace(i) ==
    cmd.op = "delete" /\ cmd.item = i =>
        IF cmd.live THEN cmd.index \in 1..Len(mem) /\ mem[cmd.index] = i
        ELSE i \notin ToSet(mem)

Undisturbed(i) ==
    /\ RunsOnce(i) /\ MemoryUnrun(i) /\ QueueUnrun(i) /\ MarkedUnrun(i)
    /\ ReadApart(i) /\ ReadQueued(i) /\ ReadInMemory(i) /\ CutInPlace(i)

QInv ==
    /\ QueueTypes /\ Accepted /\ HandedFirst /\ NoneLost /\ MemoryOfTurn
    /\ MemoryDistinct /\ StartedOutOfMemory /\ ReservedInPromotion
    /\ ReservationHeld
    /\ \A i \in Inputs \ overlapped : Undisturbed(i)

-----------------------------------------------------------------------------
(* The steps that handle no input *)

\* The runtime starts or stops something, and the promoters stay.
LEMMA OnlyTheRuntime ==
    ASSUME QInv, exec' = Idle => exec = Idle,
           UNCHANGED <<mem, drain, proj, holder, pc, item, cmd, sent, ran,
                       removed, overlapped>>
    PROVE  QInv'
<1>1. QueueTypes' /\ Accepted' /\ HandedFirst' /\ NoneLost' /\ MemoryOfTurn'
  BY DEF QInv, QueueTypes, Accepted, HandedFirst, NoneLost, MemoryOfTurn
<1>2. MemoryDistinct' /\ StartedOutOfMemory' /\ ReservedInPromotion' /\ ReservationHeld'
  BY DEF QInv, MemoryDistinct, Distinct, StartedOutOfMemory, LiveOrder,
         ReservedInPromotion, ReservationHeld
<1>3. ASSUME NEW i \in Inputs \ overlapped'
      PROVE  Undisturbed(i)'
  BY <1>3 DEF QInv, Undisturbed, RunsOnce, MemoryUnrun, QueueUnrun, Finishing,
         MarkedUnrun, ReadApart, Read, Consumed, ReadQueued, ReadInMemory,
         LiveOrder, CutInPlace
<1> QED
  BY <1>1, <1>2, <1>3 DEF QInv

\* A promoter moves on, before it has marked its input or in giving it up.
\* Its reservation is given back, kept or taken.
PromoterMoves(p, x, i) ==
    /\ pc[p] # "remove" /\ x \notin {"marked", "remove"}
    /\ x \in {"idle", "picked", "reserve", "reserved", "wait"}
    /\ pc' = [pc EXCEPT ![p] = x]
    /\ item' = [item EXCEPT ![p] = i]
    /\ IF x = "idle" THEN i = None
       ELSE /\ i \in Inputs
            /\ p = "auto" \/ x \in {"reserve", "reserved"} => i \in sent
    /\ holder' \in [Inputs -> Promoters \cup {None}]
    /\ \A j \in Inputs : \A q \in Promoters \ {p} : holder'[j] = q <=> holder[j] = q
    /\ \A j \in Inputs : holder'[j] = p =>
          j = i /\ x \in {"reserved", "wait"} /\ i \in sent

\* Such a move keeps the invariant.
LEMMA OnlyThePromoter ==
    ASSUME QInv, LeaseTypes, exec' = Idle => exec = Idle,
           UNCHANGED <<mem, drain, proj, cmd, sent, ran, removed, overlapped>>,
           NEW p \in Promoters, NEW x, NEW i, PromoterMoves(p, x, i)
    PROVE  QInv'
<1> USE NoneAssumption DEF Promoters
<1>1. /\ pc'[p] = x /\ \A q \in Promoters \ {p} : pc'[q] = pc[q]
      /\ item'[p] = i /\ \A q \in Promoters \ {p} : item'[q] = item[q]
      /\ item' \in [Promoters -> Inputs \cup {None}]
  BY DEF PromoterMoves, LeaseTypes, QInv, QueueTypes
<1>2. /\ \A q \in Promoters : pc'[q] \in {"marked", "remove"} =>
             pc'[q] = pc[q] /\ item'[q] = item[q] /\ q # p
      /\ \A q \in Promoters : pc[q] = "remove" => pc'[q] = pc[q] /\ item'[q] = item[q]
  BY <1>1 DEF PromoterMoves
<1>3. QueueTypes' /\ HandedFirst' /\ NoneLost' /\ MemoryOfTurn'
  BY <1>1, <1>2 DEF PromoterMoves, QInv, QueueTypes, HandedFirst, NoneLost, MemoryOfTurn
<1>4. Accepted'
  <2>1. ASSUME NEW j \in Inputs, holder'[j] # None
        PROVE  j \in sent
    BY <2>1 DEF PromoterMoves, QInv, QueueTypes, Accepted
  <2>2. ASSUME NEW q \in Promoters, pc'[q] # "idle"
        PROVE  /\ item'[q] \in Inputs
               /\ q = "auto" \/ pc'[q] \in {"reserve", "reserved", "remove"} =>
                      item'[q] \in sent
    BY <1>1, <2>2 DEF PromoterMoves, QInv, Accepted
  <2> QED
    BY <2>1, <2>2 DEF QInv, Accepted
<1>5. MemoryDistinct' /\ StartedOutOfMemory'
  BY <1>2 DEF QInv, MemoryDistinct, Distinct, StartedOutOfMemory, LiveOrder
<1>6. ReservedInPromotion'
  BY <1>1, <1>2 DEF PromoterMoves, QInv, ReservedInPromotion
<1>7. ReservationHeld'
  <2>1. ASSUME NEW q \in Promoters, pc'[q] \in {"marked", "remove"},
               item'[q] \in sent \ overlapped
        PROVE  holder'[item'[q]] = q
    <3>1. item[q] \in Inputs /\ holder[item[q]] = q
      BY <1>2, <2>1 DEF QInv, ReservationHeld, Accepted
    <3> QED
      BY <1>2, <2>1, <3>1 DEF PromoterMoves
  <2> QED
    BY <2>1 DEF ReservationHeld
<1>8. ASSUME NEW j \in Inputs \ overlapped'
      PROVE  Undisturbed(j)'
  <2>1. Undisturbed(j)
    BY <1>8 DEF QInv
  <2>2. RunsOnce(j)' /\ MemoryUnrun(j)' /\ ReadQueued(j)' /\ ReadInMemory(j)' /\ CutInPlace(j)'
    BY <2>1 DEF Undisturbed, RunsOnce, MemoryUnrun, ReadQueued, ReadInMemory,
                LiveOrder, CutInPlace
  <2>3. QueueUnrun(j)' /\ MarkedUnrun(j)'
    BY <1>2, <2>1 DEF Undisturbed, QueueUnrun, Finishing, MarkedUnrun
  <2>4. ReadApart(j)'
    BY <1>2, <2>1 DEF Undisturbed, ReadApart, Read, Consumed
  <2> QED
    BY <2>2, <2>3, <2>4 DEF Undisturbed
<1> QED
  BY <1>3, <1>4, <1>5, <1>6, <1>7, <1>8 DEF QInv

\* A promotion that is given up before its input was started leaves the queue
\* as it was.
LEMMA GiveUpKeepsQInv ==
    ASSUME QInv, LeaseTypes, NEW p \in Promoters, GiveUp(p), pc[p] # "remove"
    PROVE  QInv'
<1> USE NoneAssumption DEF Promoters
<1>1. /\ pc' = [pc EXCEPT ![p] = "idle"] /\ item' = [item EXCEPT ![p] = None]
      /\ holder' = [i \in Inputs |->
                      IF i = item[p] /\ holder[i] = p THEN None ELSE holder[i]]
      /\ UNCHANGED <<mem, drain, proj, cmd, sent, ran, removed, overlapped>>
      /\ exec' = Idle => exec = Idle
  BY DEF GiveUp, Done, queueVars, historyVars
<1>2. holder' \in [Inputs -> Promoters \cup {None}]
  BY <1>1 DEF QInv, QueueTypes
<1>3. ASSUME NEW j \in Inputs
      PROVE  /\ \A q \in Promoters \ {p} : holder'[j] = q <=> holder[j] = q
             /\ holder'[j] # p
  BY <1>1 DEF QInv, ReservedInPromotion
<1>4. PromoterMoves(p, "idle", None)
  BY <1>1, <1>2, <1>3 DEF PromoterMoves
<1> QED
  BY <1>1, <1>4, OnlyThePromoter

\* A promoter that only moves on.
LEMMA MovesOn ==
    ASSUME QInv, LeaseTypes, exec' = Idle => exec = Idle,
           UNCHANGED <<mem, drain, proj, holder, cmd, sent, ran, removed, overlapped>>,
           NEW p \in Promoters, NEW x \in {"idle", "picked", "reserve", "wait"}, NEW i,
           pc[p] \in {"idle", "picked"} \/ (pc[p] = "reserved" /\ x = "wait" /\ i = item[p]),
           pc' = [pc EXCEPT ![p] = x], item' = [item EXCEPT ![p] = i],
           IF x = "idle" THEN i = None
           ELSE i \in Inputs /\ (p = "auto" \/ x = "reserve" => i \in sent)
    PROVE  QInv'
<1> USE NoneAssumption DEF Promoters
<1>1. ASSUME NEW j \in Inputs, holder[j] = p
      PROVE  j = i /\ x = "wait" /\ i \in sent
  BY <1>1 DEF QInv, ReservedInPromotion, Accepted
<1>2. PromoterMoves(p, x, i)
  BY <1>1 DEF PromoterMoves, QInv, QueueTypes
<1> QED
  BY <1>2, OnlyThePromoter

\* What the host shows is queued.
LEMMA ShownIsQueued ==
    ASSUME QInv
    PROVE  /\ ToSet(Visible) \subseteq ToSet(proj) /\ ToSet(Visible) \subseteq sent
           /\ Visible # <<>> => Head(Visible) \in ToSet(Visible)
<1>1. proj \in Seq(Inputs) /\ ToSet(proj) \subseteq sent
  BY DEF QInv, QueueTypes, Accepted
<1>2. Visible \in Seq(Inputs) /\ ToSet(Visible) \subseteq ToSet(proj)
  BY <1>1, OnlySet DEF Visible
<1> QED
  BY <1>1, <1>2, TailSet

\* Notifications, stops and the drain flags handle no input.
LEMMA RuntimeKeepsQInv ==
    ASSUME QInv, LeaseTypes,
           (\E n \in Notices : Notify(n)) \/ Stop \/ \E b \in BOOLEAN : SetAutoDrain(b)
    PROVE  QInv'
<1>1. ASSUME NEW n \in Notices, Notify(n)
      PROVE  QInv'
  BY <1>1, OnlyTheRuntime DEF Notify, queueVars, promoVars, historyVars
<1>2. CASE Stop
  BY <1>2, StopKeepsRunning, OnlyTheRuntime
     DEF Stop, queueVars, promoVars, historyVars
<1>3. ASSUME NEW b \in BOOLEAN, SetAutoDrain(b)
      PROVE  QInv'
  BY <1>3, OnlyTheRuntime DEF SetAutoDrain, queueVars, promoVars, historyVars
<1> QED
  BY <1>1, <1>2, <1>3

LEMMA StartNowKeepsQInv ==
    ASSUME QInv, LeaseTypes, NEW i \in Inputs, StartNow(i)
    PROVE  QInv'
<1>1. exec' = Idle => exec = Idle
  BY StopKeepsRunning DEF StartNow
<1> QED
  BY <1>1, MovesOn DEF StartNow, UserFree, queueVars, historyVars, Promoters

LEMMA SendNowKeepsQInv ==
    ASSUME QInv, LeaseTypes, NEW i \in Inputs, SendNow(i)
    PROVE  QInv'
<1>1. i \in sent
  BY ShownIsQueued DEF SendNow
<1> QED
  BY <1>1, MovesOn DEF SendNow, UserFree, queueVars, historyVars, Promoters

\* The automatic drain picks an input and takes the lease.
LEMMA AutoKeepsQInv ==
    ASSUME QInv, LeaseTypes, AutoPick \/ AutoLease
    PROVE  QInv'
<1> DEFINE i == Head(Visible)
<1>1. CASE AutoPick /\ UNCHANGED pc
  <2>1. UNCHANGED <<exec, mem, drain, proj, holder, pc, item, cmd, sent, ran,
                    removed, overlapped>>
    BY <1>1 DEF AutoPick, queueVars, historyVars, LeaseTypes, Promoters
  <2> QED
    BY <2>1, OnlyTheRuntime
<1>2. CASE AutoPick /\ ~UNCHANGED pc
  <2>1. /\ pc["auto"] = "idle" /\ Visible # <<>>
        /\ pc' = [pc EXCEPT !["auto"] = "picked"] /\ item' = [item EXCEPT !["auto"] = i]
        /\ UNCHANGED <<exec, mem, drain, proj, holder, cmd, sent, ran, removed, overlapped>>
    BY <1>2 DEF AutoPick, queueVars, historyVars
  <2>2. i \in Inputs /\ i \in sent
    BY <2>1, ShownIsQueued DEF QInv, QueueTypes
  <2> HIDE DEF i
  <2> QED
    BY <2>1, <2>2, MovesOn DEF Promoters
<1>3. CASE AutoLease /\ GiveUp("auto")
  BY <1>3, GiveUpKeepsQInv DEF AutoLease, Promoters
<1>4. CASE AutoLease /\ lease' = "auto" /\ pc' = [pc EXCEPT !["auto"] = "reserve"]
                     /\ UNCHANGED <<exec, queueVars, holder, item, cmd, historyVars>>
  <2>1. pc["auto"] = "picked" /\ item["auto"] \in Inputs /\ item["auto"] \in sent
    BY <1>4 DEF AutoLease, QInv, Accepted, Promoters
  <2>2. item' = [item EXCEPT !["auto"] = item["auto"]]
    BY <1>4 DEF QInv, QueueTypes
  <2> QED
    BY <1>4, <2>1, <2>2, MovesOn DEF queueVars, historyVars, Promoters
<1>5. CASE AutoLease /\ Done("auto")
                     /\ UNCHANGED <<exec, queueVars, holder, cmd, historyVars>>
  BY <1>5, MovesOn DEF AutoLease, Done, queueVars, historyVars, Promoters
<1> QED
  BY <1>1, <1>2, <1>3, <1>4, <1>5 DEF AutoLease

\* An input is reserved by one promoter.
LEMMA ReserveKeepsQInv ==
    ASSUME QInv, LeaseTypes, NEW p \in Promoters, Reserve(p)
    PROVE  QInv'
<1> USE NoneAssumption DEF Promoters
<1>1. CASE GiveUp(p)
  BY <1>1, GiveUpKeepsQInv DEF Reserve
<1>2. CASE ~GiveUp(p)
  <2> DEFINE x == IF p = "auto" THEN "wait" ELSE "reserved"
             i == item[p]
  <2>1. /\ pc[p] = "reserve" /\ holder[i] = None
        /\ holder' = [holder EXCEPT ![i] = p] /\ pc' = [pc EXCEPT ![p] = x]
        /\ UNCHANGED <<exec, mem, drain, proj, item, cmd, sent, ran, removed, overlapped>>
    BY <1>2 DEF Reserve, queueVars, historyVars
  <2>2. i \in Inputs /\ i \in sent /\ x \in {"wait", "reserved"}
    BY <2>1 DEF QInv, Accepted
  <2>3. item' = [item EXCEPT ![p] = i]
    BY <2>1 DEF QInv, QueueTypes
  <2> HIDE DEF i, x
  <2>4. /\ holder' \in [Inputs -> Promoters \cup {None}]
        /\ \A j \in Inputs : \A q \in Promoters \ {p} : holder'[j] = q <=> holder[j] = q
    BY <2>1, <2>2 DEF QInv, QueueTypes
  <2>5. ASSUME NEW j \in Inputs, holder'[j] = p
        PROVE  j = i
    BY <2>1, <2>2, <2>5 DEF QInv, QueueTypes, ReservedInPromotion
  <2>6. PromoterMoves(p, x, i)
    BY <2>1, <2>2, <2>3, <2>4, <2>5 DEF PromoterMoves
  <2> QED
    BY <2>1, <2>6, OnlyThePromoter
<1> QED
  BY <1>1, <1>2

LEMMA LeaseAndStopKeepsQInv ==
    ASSUME QInv, LeaseTypes, LeaseAndStop \/ WaitTimeout
    PROVE  QInv'
<1>1. CASE GiveUp("user")
  BY <1>1, GiveUpKeepsQInv DEF LeaseAndStop, WaitTimeout, Promoters
<1>2. CASE LeaseAndStop /\ ~GiveUp("user")
  <2>1. /\ pc["user"] = "reserved" /\ exec' = Aborted(TRUE)
        /\ pc' = [pc EXCEPT !["user"] = "wait"]
        /\ UNCHANGED <<mem, drain, proj, holder, item, cmd, sent, ran, removed, overlapped>>
    BY <1>2 DEF LeaseAndStop, queueVars, historyVars
  <2>2. exec' = Idle => exec = Idle
    BY <2>1, StopKeepsRunning
  <2>3. item["user"] \in Inputs /\ item["user"] \in sent
    BY <2>1 DEF QInv, Accepted, Promoters
  <2>4. item' = [item EXCEPT !["user"] = item["user"]]
    BY <2>1 DEF QInv, QueueTypes
  <2> QED
    BY <2>1, <2>2, <2>3, <2>4, MovesOn DEF Promoters
<1> QED
  BY <1>1, <1>2 DEF WaitTimeout

-----------------------------------------------------------------------------
(* The steps that handle an input *)

\* How often an input was handed to a turn.
LEMMA RanOnceMore ==
    ASSUME QInv, NEW i \in Inputs, Ran(i)
    PROVE  /\ ran' \in [Inputs -> 0..2] /\ ran'[i] > 0
           /\ ran[i] = 0 => ran'[i] = 1
           /\ \A j \in Inputs : ran[j] > 0 => ran'[j] > 0
           /\ \A j \in Inputs \ {i} : ran'[j] = ran[j]
BY DEF QInv, QueueTypes, Ran

\* An input that was not yet accepted is nowhere.
LEMMA NewInput ==
    ASSUME QInv, NEW i \in Inputs \ sent, pc["user"] = "idle"
    PROVE  /\ i \notin ToSet(mem) /\ i \notin ToSet(proj) /\ i \notin removed
           /\ ran[i] = 0 /\ i # drain
           /\ \A p \in Promoters : pc[p] # "idle" => item[p] # i
           /\ \A p \in Promoters : holder[i] # p
BY NoneAssumption DEF QInv, QueueTypes, Accepted, Promoters

LEMMA SendTextKeepsQInv ==
    ASSUME QInv, LeaseTypes, NEW i \in Inputs, NEW d, SendText(i, d)
    PROVE  QInv'
<1> USE NoneAssumption
<1>1. /\ i \in Inputs \ sent /\ pc["user"] = "idle" /\ cmd = NoCmd
      /\ sent' = sent \cup {i}
      /\ UNCHANGED <<drain, holder, pc, item, cmd, removed, overlapped>>
  BY DEF SendText, UserFree, promoVars
<1>2. /\ cmd.op = "none" /\ LiveOrder = {} /\ LiveOrder' = {} /\ ~cmd.live
      /\ Read = {} /\ Read' = {}
  BY <1>1 DEF NoCmd, LiveOrder, Read
<1>3. /\ i \notin ToSet(mem) /\ i \notin ToSet(proj) /\ i \notin removed
      /\ ran[i] = 0 /\ i # drain
      /\ \A p \in Promoters : pc[p] # "idle" => item[p] # i
  BY <1>1, NewInput
<1>4. /\ mem \in Seq(Inputs) /\ proj \in Seq(Inputs)
      /\ Append(mem, i) \in Seq(Inputs) /\ ToSet(Append(mem, i)) = ToSet(mem) \cup {i}
      /\ Distinct(Append(mem, i))
      /\ Append(proj, i) \in Seq(Inputs) /\ ToSet(Append(proj, i)) = ToSet(proj) \cup {i}
  BY <1>3, AppendSet DEF QInv, QueueTypes, MemoryDistinct
<1>5. CASE ~Busy
  <2>1. exec = Idle /\ exec' = Run("prompt") /\ Ran(i) /\ UNCHANGED <<mem, proj>>
    BY <1>5 DEF SendText, Busy
  <2>2. exec' # Idle
    BY <2>1 DEF Run, Idle
  <2>3. /\ ran' \in [Inputs -> 0..2] /\ ran'[i] = 1
        /\ \A j \in Inputs : ran[j] > 0 => ran'[j] > 0
        /\ \A j \in Inputs \ {i} : ran'[j] = ran[j]
    BY <1>3, <2>1, RanOnceMore
  <2>4. QueueTypes' /\ Accepted'
    BY <1>1, <2>1, <2>3 DEF QInv, QueueTypes, Accepted
  <2>5. HandedFirst' /\ NoneLost'
    BY <1>1, <2>1, <2>3 DEF QInv, QueueTypes, Accepted, HandedFirst, NoneLost
  <2>6. MemoryOfTurn' /\ MemoryDistinct' /\ StartedOutOfMemory'
    BY <1>1, <1>2, <2>1, <2>2
       DEF QInv, MemoryOfTurn, MemoryDistinct, Distinct, StartedOutOfMemory
  <2>7. ReservedInPromotion' /\ ReservationHeld'
    BY <1>1, <1>3, <2>1 DEF QInv, ReservedInPromotion, ReservationHeld
  <2>8. ASSUME NEW j \in Inputs \ overlapped'
        PROVE  Undisturbed(j)'
    <3>1. Undisturbed(j)
      BY <1>1, <2>8 DEF QInv
    <3>2. ReadApart(j)' /\ ReadQueued(j)' /\ ReadInMemory(j)' /\ CutInPlace(j)'
      BY <1>1, <1>2, <2>1 DEF ReadApart, ReadQueued, ReadInMemory, CutInPlace
    <3>3. RunsOnce(j)' /\ MemoryUnrun(j)' /\ QueueUnrun(j)' /\ MarkedUnrun(j)'
      BY <1>1, <1>3, <2>1, <2>3, <3>1
         DEF Undisturbed, RunsOnce, MemoryUnrun, QueueUnrun, Finishing, MarkedUnrun
    <3> QED
      BY <3>2, <3>3 DEF Undisturbed
  <2> QED
    BY <2>4, <2>5, <2>6, <2>7, <2>8 DEF QInv
<1>6. CASE Busy
  <2>1. /\ proj' = Append(proj, i) /\ UNCHANGED <<exec, ran>>
        /\ mem' = mem \/ (mem' = Append(mem, i) /\ exec # Idle)
    BY <1>6 DEF SendText
  <2>2. /\ mem' \in Seq(Inputs) /\ proj' \in Seq(Inputs) /\ Distinct(mem)'
        /\ ToSet(proj)' = ToSet(proj) \cup {i}
        /\ ToSet(mem) \subseteq ToSet(mem)' /\ ToSet(mem)' \subseteq ToSet(mem) \cup {i}
    BY <1>4, <2>1 DEF QInv, MemoryDistinct, Distinct
  <2>3. QueueTypes' /\ Accepted'
    BY <1>1, <2>1, <2>2 DEF QInv, QueueTypes, Accepted
  <2>4. HandedFirst' /\ NoneLost'
    BY <1>1, <2>1, <2>2 DEF QInv, QueueTypes, HandedFirst, NoneLost
  <2>5. MemoryOfTurn' /\ MemoryDistinct'
    BY <1>1, <1>2, <2>1, <2>2 DEF QInv, MemoryOfTurn, MemoryDistinct
  <2>6. StartedOutOfMemory'
    BY <1>1, <1>2, <1>3, <2>2 DEF QInv, StartedOutOfMemory
  <2>7. ReservedInPromotion' /\ ReservationHeld'
    BY <1>1, <1>3, <2>2 DEF QInv, ReservedInPromotion, ReservationHeld
  <2>8. ASSUME NEW j \in Inputs \ overlapped'
        PROVE  Undisturbed(j)'
    <3>1. Undisturbed(j)
      BY <1>1, <2>8 DEF QInv
    <3>2. ReadApart(j)' /\ ReadQueued(j)' /\ ReadInMemory(j)' /\ CutInPlace(j)'
      BY <1>1, <1>2, <2>1 DEF ReadApart, ReadQueued, ReadInMemory, CutInPlace
    <3>3. RunsOnce(j)' /\ MemoryUnrun(j)' /\ QueueUnrun(j)' /\ MarkedUnrun(j)'
      BY <1>1, <1>3, <2>1, <2>2, <3>1
         DEF Undisturbed, RunsOnce, MemoryUnrun, QueueUnrun, Finishing, MarkedUnrun
    <3> QED
      BY <3>2, <3>3 DEF Undisturbed
  <2> QED
    BY <2>3, <2>4, <2>5, <2>6, <2>7, <2>8 DEF QInv
<1> QED
  BY <1>5, <1>6

\* The turn takes a guide.  Whatever had read it is marked as overlapped.
LEMMA DrainTakeKeepsQInv ==
    ASSUME QInv, LeaseAccounted, DrainTake
    PROVE  QInv'
<1> USE NoneAssumption
<1> DEFINE i == Head(mem)
<1>1. /\ exec # Idle /\ drain = None /\ mem # <<>> /\ holder[i] = None
      /\ drain' = i /\ mem' = Tail(mem) /\ Ran(i)
      /\ overlapped' = overlapped \cup (Read \cap {i}) \cup Shifted
      /\ UNCHANGED <<exec, proj, holder, pc, item, cmd, sent, removed>>
  BY DEF DrainTake, promoVars
<1>2. /\ i \in ToSet(mem) /\ i \in Inputs /\ i \in sent /\ mem' \in Seq(Inputs)
      /\ ToSet(mem) = ToSet(mem)' \cup {i}
      /\ Distinct(mem)' /\ i \notin ToSet(mem)'
  BY <1>1, TailSet DEF QInv, QueueTypes, Accepted, MemoryDistinct
<1> HIDE DEF i
<1>3. /\ ran' \in [Inputs -> 0..2] /\ ran'[i] > 0 /\ (ran[i] = 0 => ran'[i] = 1)
      /\ \A j \in Inputs : ran[j] > 0 => ran'[j] > 0
      /\ \A j \in Inputs \ {i} : ran'[j] = ran[j]
  BY <1>1, <1>2, RanOnceMore
<1>4. \A p \in Promoters : pc[p] # "marked"
  BY <1>1 DEF LeaseAccounted
<1>5. overlapped' \subseteq Inputs
  BY <1>1, <1>2 DEF QInv, QueueTypes, Shifted, Accepted
<1>6. QueueTypes' /\ Accepted'
  BY <1>1, <1>2, <1>3, <1>5 DEF QInv, QueueTypes, Accepted
<1>7. HandedFirst' /\ NoneLost' /\ MemoryOfTurn'
  BY <1>1, <1>2, <1>3 DEF QInv, QueueTypes, HandedFirst, Accepted, NoneLost, MemoryOfTurn
<1>8. MemoryDistinct'
  BY <1>1, <1>2 DEF QInv, MemoryDistinct, Distinct
<1>9. StartedOutOfMemory'
  BY <1>1, <1>2 DEF QInv, StartedOutOfMemory, LiveOrder
<1>10. ReservedInPromotion' /\ ReservationHeld'
  BY <1>1 DEF QInv, ReservedInPromotion, ReservationHeld
<1>11. ASSUME NEW j \in Inputs \ overlapped'
       PROVE  Undisturbed(j)'
  <2>1. Undisturbed(j) /\ (j = i => j \notin Read)
    BY <1>1, <1>11 DEF QInv
  <2>2. RunsOnce(j)' /\ MemoryUnrun(j)' /\ QueueUnrun(j)'
    BY <1>1, <1>2, <1>3, <2>1
       DEF Undisturbed, RunsOnce, MemoryUnrun, QueueUnrun, Finishing
  <2>3. MarkedUnrun(j)'
    BY <1>1, <1>4 DEF MarkedUnrun
  <2>4. ReadApart(j)'
    BY <1>1, <2>1 DEF Undisturbed, ReadApart, Read, Consumed
  <2>5. ReadQueued(j)'
    BY <1>1, <2>1 DEF Undisturbed, ReadQueued
  <2>6. ReadInMemory(j)'
    BY <1>1, <1>2, <2>1 DEF Undisturbed, ReadInMemory, LiveOrder, Read
  <2>7. CutInPlace(j)'
    BY <1>1, <1>2, <1>11, <2>1 DEF Undisturbed, CutInPlace, Shifted
  <2> QED
    BY <2>2, <2>3, <2>4, <2>5, <2>6, <2>7 DEF Undisturbed
<1> QED
  BY <1>6, <1>7, <1>8, <1>9, <1>10, <1>11 DEF QInv

\* The guide is recorded, and is in the queue no longer.
LEMMA DrainDoneKeepsQInv ==
    ASSUME QInv, LeaseAccounted, DrainDone
    PROVE  QInv'
<1> USE NoneAssumption
<1>1. /\ drain # None /\ proj' = Without(proj, drain) /\ drain' = None
      /\ UNCHANGED <<exec, mem, holder, pc, item, cmd, sent, ran, removed, overlapped>>
  BY DEF DrainDone, promoVars, historyVars
<1>2. /\ proj' \in Seq(Inputs) /\ ToSet(proj)' = ToSet(proj) \ {drain}
      /\ drain \in Inputs /\ ToSet(proj) \subseteq Inputs
  BY <1>1, OnlySet, Members DEF QInv, QueueTypes, Without
<1>3. exec # Idle /\ \A p \in Promoters : pc[p] # "marked"
  BY <1>1 DEF QInv, MemoryOfTurn, LeaseAccounted
<1>4. QueueTypes' /\ Accepted' /\ HandedFirst' /\ NoneLost' /\ MemoryOfTurn'
  BY <1>1, <1>2, <1>3
     DEF QInv, QueueTypes, Accepted, HandedFirst, NoneLost, MemoryOfTurn
<1>5. MemoryDistinct' /\ StartedOutOfMemory'
  BY <1>1, <1>2 DEF QInv, MemoryDistinct, Distinct, StartedOutOfMemory, LiveOrder, Accepted
<1>6. ReservedInPromotion' /\ ReservationHeld'
  BY <1>1, <1>2, <1>3
     DEF QInv, ReservedInPromotion, ReservationHeld, StartedOutOfMemory
<1>7. ASSUME NEW j \in Inputs \ overlapped'
      PROVE  Undisturbed(j)'
  <2>1. Undisturbed(j)
    BY <1>1, <1>7 DEF QInv
  <2>2. RunsOnce(j)' /\ MemoryUnrun(j)' /\ MarkedUnrun(j)'
    BY <1>1, <2>1 DEF Undisturbed, RunsOnce, MemoryUnrun, MarkedUnrun
  <2>3. QueueUnrun(j)'
    BY <1>1, <1>2, <2>1 DEF Undisturbed, QueueUnrun, Finishing
  <2>4. ReadApart(j)' /\ ReadInMemory(j)' /\ CutInPlace(j)'
    BY <1>1, <1>7, <2>1 DEF Undisturbed, ReadApart, Read, Consumed, ReadInMemory,
                       LiveOrder, CutInPlace
  <2>5. ReadQueued(j)'
    BY <1>1, <1>2, <1>7, <2>1 DEF Undisturbed, ReadQueued, ReadApart, Read, Consumed
  <2> QED
    BY <2>2, <2>3, <2>4, <2>5 DEF Undisturbed
<1> QED
  BY <1>4, <1>5, <1>6, <1>7 DEF QInv

\* The turn ends, and its memory with it: the guides stay in the queue.
LEMMA EndTurnKeepsQInv ==
    ASSUME QInv, NEW o, EndTurn(o)
    PROVE  QInv'
<1> USE NoneAssumption
<1>1. /\ drain = None /\ mem' = <<>> /\ cmd' = [cmd EXCEPT !.live = FALSE]
      /\ UNCHANGED <<drain, proj, holder, pc, item, sent, ran, removed, overlapped>>
  BY DEF EndTurn, promoVars, historyVars
<1>2. /\ mem' \in Seq(Inputs) /\ ToSet(mem)' = {} /\ Distinct(mem)'
  <2> DEFINE e == <<>>
  <2>1. e \in Seq(Inputs) /\ 1..Len(e) = {}
    OBVIOUS
  <2> HIDE DEF e
  <2>2. ToSet(e) = {} /\ Distinct(e)
    BY <2>1, Members DEF Distinct
  <2> QED
    BY <1>1, <2>1, <2>2 DEF e
<1>3. /\ cmd' \in [op : {"none", "delete", "edit", "reorder"},
                   item : Inputs \cup {None}, live : BOOLEAN,
                   index : Nat, order : Seq(Inputs)]
      /\ cmd'.op = cmd.op /\ cmd'.item = cmd.item /\ cmd'.order = cmd.order
      /\ ~cmd'.live
  BY <1>1 DEF QInv, QueueTypes
<1>4. Read' = Read /\ Consumed' = Consumed /\ LiveOrder' = {}
  BY <1>1, <1>3 DEF Read, Consumed, LiveOrder
<1>5. QueueTypes' /\ Accepted' /\ HandedFirst' /\ NoneLost' /\ MemoryOfTurn'
  BY <1>1, <1>2, <1>3
     DEF QInv, QueueTypes, Accepted, HandedFirst, NoneLost, MemoryOfTurn
<1>6. MemoryDistinct' /\ StartedOutOfMemory' /\ ReservedInPromotion' /\ ReservationHeld'
  BY <1>1, <1>2, <1>3, <1>4
     DEF QInv, MemoryDistinct, StartedOutOfMemory, ReservedInPromotion, ReservationHeld
<1>7. ASSUME NEW j \in Inputs \ overlapped'
      PROVE  Undisturbed(j)'
  <2>1. Undisturbed(j)
    BY <1>1, <1>7 DEF QInv
  <2>2. RunsOnce(j)' /\ MemoryUnrun(j)' /\ QueueUnrun(j)' /\ MarkedUnrun(j)'
    BY <1>1, <1>2, <2>1
       DEF Undisturbed, RunsOnce, MemoryUnrun, QueueUnrun, Finishing, MarkedUnrun
  <2>3. ReadApart(j)' /\ ReadQueued(j)' /\ ReadInMemory(j)' /\ CutInPlace(j)'
    BY <1>1, <1>2, <1>3, <1>4, <2>1
       DEF Undisturbed, ReadApart, ReadQueued, ReadInMemory, CutInPlace
  <2> QED
    BY <2>2, <2>3 DEF Undisturbed
<1> QED
  BY <1>5, <1>6, <1>7 DEF QInv

\* A command reads the queue.
LEMMA ReadsKeepQInv ==
    ASSUME QInv, NEW i \in Inputs, NEW op \in {"delete", "edit", "reorder"},
           NEW order \in Seq(Inputs), Reads(op, i, order),
           ToSet(order) \subseteq sent,
           op = "reorder" /\ i \in ToSet(mem) =>
               ToSet(order) \subseteq ToSet(mem) /\ Distinct(order)
    PROVE  QInv'
<1> USE NoneAssumption
<1> DEFINE k == SelectInSeq(mem, LAMBDA x : x = i)
<1>1. /\ i \in ToSet(proj) /\ i \in sent
      /\ cmd' = [op |-> op, item |-> i, live |-> i \in ToSet(mem),
                 index |-> IF i \in ToSet(mem) THEN k ELSE 0, order |-> order]
      /\ UNCHANGED <<exec, mem, drain, proj, holder, pc, item, sent, ran, removed>>
      /\ overlapped' = overlapped \cup (Read' \cap Consumed')
  BY DEF Reads, NoteOverlap, queueVars, promoVars, QInv, Accepted
<1>2. i \in ToSet(mem) => k \in 1..Len(mem) /\ mem[k] = i
  BY PlaceOf DEF QInv, QueueTypes
<1> HIDE DEF k
<1>3. /\ cmd'.op = op /\ cmd'.item = i /\ cmd'.order = order
      /\ cmd'.live <=> i \in ToSet(mem)
      /\ cmd'.live => cmd'.index \in 1..Len(mem) /\ mem[cmd'.index] = i
      /\ Len(mem) \in Nat
  <2>1. /\ cmd'.op = op /\ cmd'.item = i /\ cmd'.order = order
        /\ cmd'.index = IF i \in ToSet(mem) THEN k ELSE 0
    BY <1>1
  <2>2. cmd'.live = (i \in ToSet(mem))
    BY <1>1
  <2>3. Len(mem) \in Nat
    BY DEF QInv, QueueTypes
  <2> QED
    BY <1>2, <2>1, <2>2, <2>3
<1>4. /\ cmd' \in [op : {"none", "delete", "edit", "reorder"},
                   item : Inputs \cup {None}, live : BOOLEAN,
                   index : Nat, order : Seq(Inputs)]
      /\ LiveOrder' \subseteq ToSet(mem) /\ overlapped' \subseteq Inputs
  <2>1. cmd' \in [op : {"none", "delete", "edit", "reorder"},
                   item : Inputs \cup {None}, live : BOOLEAN,
                   index : Nat, order : Seq(Inputs)]
    BY <1>1, <1>2, <1>3
  <2>2. LiveOrder' \subseteq ToSet(mem)
    BY <1>3 DEF LiveOrder
  <2>3. overlapped' \subseteq Inputs
    BY <1>1 DEF QInv, QueueTypes, Consumed
  <2> QED
    BY <2>1, <2>2, <2>3
<1>5. QueueTypes' /\ Accepted'
  BY <1>1, <1>3, <1>4 DEF QInv, QueueTypes, Accepted
<1>6. HandedFirst' /\ NoneLost'
  BY <1>1 DEF QInv, HandedFirst, NoneLost
<1>7. MemoryOfTurn'
  <2>1. ToSet(<<>>) = {}
    BY Members, <<>> \in Seq(Inputs), 1..Len(<<>>) = {}
  <2> QED
    BY <1>1, <1>3, <2>1 DEF QInv, MemoryOfTurn
<1>8. MemoryDistinct'
  BY <1>1, <1>3 DEF QInv, MemoryDistinct, Distinct
<1>9. StartedOutOfMemory' /\ ReservedInPromotion' /\ ReservationHeld'
  BY <1>1, <1>4 DEF QInv, StartedOutOfMemory, ReservedInPromotion, ReservationHeld
<1>10. ASSUME NEW j \in Inputs \ overlapped'
       PROVE  Undisturbed(j)'
  <2>1. Undisturbed(j) /\ ReadApart(j)'
    BY <1>1, <1>10 DEF QInv, ReadApart
  <2>2. RunsOnce(j)' /\ MemoryUnrun(j)' /\ QueueUnrun(j)' /\ MarkedUnrun(j)'
    BY <1>1, <2>1
       DEF Undisturbed, RunsOnce, MemoryUnrun, QueueUnrun, Finishing, MarkedUnrun
  <2>3. ReadQueued(j)' /\ ReadInMemory(j)' /\ CutInPlace(j)'
    BY <1>1, <1>3, <1>4 DEF ReadQueued, ReadInMemory, CutInPlace
  <2> QED
    BY <2>1, <2>2, <2>3 DEF Undisturbed
<1> QED
  BY <1>5, <1>6, <1>7, <1>8, <1>9, <1>10 DEF QInv

LEMMA CommandReadsKeepQInv ==
    ASSUME QInv, NEW i \in Inputs, NEW b,
           DeleteRead(i) \/ EditRead(i) \/ ReorderRead(i, b)
    PROVE  QInv'
<1>1. <<>> \in Seq(Inputs) /\ ToSet(<<>>) = {}
  <2>1. <<>> \in Seq(Inputs) /\ 1..Len(<<>>) = {}
    OBVIOUS
  <2> QED
    BY <2>1, Members
<1>2. CASE DeleteRead(i)
  BY <1>1, <1>2, ReadsKeepQInv DEF DeleteRead
<1>3. CASE EditRead(i)
  BY <1>1, <1>3, ReadsKeepQInv DEF EditRead
<1>4. CASE ReorderRead(i, b)
  <2> DEFINE s == IF i \in ToSet(mem) THEN mem ELSE proj
             o == Moved(s, i, b)
  <2>1. Reads("reorder", i, o) /\ i \in ToSet(proj)
    BY <1>4 DEF ReorderRead, Reads
  <2>2. /\ s \in Seq(Inputs) /\ ToSet(s) \subseteq sent /\ i \in ToSet(s)
        /\ i \in ToSet(mem) => s = mem /\ Distinct(s)
    BY <2>1 DEF QInv, QueueTypes, Accepted, MemoryDistinct
  <2> HIDE DEF s
  <2>3. o \in Seq(Inputs) /\ ToSet(o) \subseteq ToSet(s) /\ (Distinct(s) => Distinct(o))
    BY <2>2, MovedSet
  <2> HIDE DEF o
  <2> QED
    BY <2>1, <2>2, <2>3, ReadsKeepQInv
<1> QED
  BY <1>2, <1>3, <1>4

\* A deletion is written: the input is out of the queue and, unless a command
\* overlapped, out of the memory.
LEMMA DeleteWriteKeepsQInv ==
    ASSUME QInv, CmdWrite, DeleteWrite
    PROVE  QInv'
<1> USE NoneAssumption
<1> DEFINE i == cmd.item
<1>1. /\ cmd.op = "delete" /\ cmd' = NoCmd
      /\ mem' = IF cmd.live /\ cmd.index <= Len(mem) THEN RemoveAt(mem, cmd.index) ELSE mem
      /\ proj' = Without(proj, i)
      /\ holder' = [holder EXCEPT ![i] = None]
      /\ removed' = removed \cup {i}
      /\ UNCHANGED <<exec, drain, pc, item, sent, ran, overlapped>>
  BY DEF CmdWrite, DeleteWrite
<1>2. /\ i \in sent /\ i \in Inputs /\ mem \in Seq(Inputs) /\ Distinct(mem)
      /\ proj' \in Seq(Inputs) /\ ToSet(proj)' = ToSet(proj) \ {i}
  BY <1>1, OnlySet, Members DEF QInv, QueueTypes, Accepted, MemoryDistinct, Without
<1>3. /\ mem' \in Seq(Inputs) /\ Distinct(mem)' /\ ToSet(mem)' \subseteq ToSet(mem)
      /\ cmd.live /\ cmd.index \in 1..Len(mem) => mem[cmd.index] \notin ToSet(mem)'
  <2>1. CASE cmd.live /\ cmd.index <= Len(mem)
    <3>1. cmd.index \in 1..Len(mem)
      BY <1>2, <2>1 DEF QInv, QueueTypes, MemoryDistinct
    <3> QED
      BY <1>1, <1>2, <2>1, <3>1, RemoveAtSet
  <2>2. CASE ~(cmd.live /\ cmd.index <= Len(mem))
    BY <1>1, <1>2, <2>2
  <2> QED
    BY <2>1, <2>2
<1>4. /\ NoCmd.op = "none" /\ ~NoCmd.live /\ ToSet(NoCmd.order) = {}
      /\ NoCmd \in [op : {"none", "delete", "edit", "reorder"},
                    item : Inputs \cup {None}, live : BOOLEAN,
                    index : Nat, order : Seq(Inputs)]
  <2> DEFINE e == <<>>
  <2>1. e \in Seq(Inputs) /\ 1..Len(e) = {}
    OBVIOUS
  <2>2. ToSet(e) = {}
    BY <2>1, Members
  <2> QED
    BY <2>1, <2>2 DEF NoCmd
<1> HIDE DEF i
<1>5. LiveOrder' = {} /\ Read' = {} /\ i \in Read
  BY <1>1, <1>4 DEF LiveOrder, Read, i
<1>6. QueueTypes'
  BY <1>1, <1>2, <1>3, <1>4 DEF QInv, QueueTypes
<1>7. Accepted'
  <2>1. \A j \in Inputs : holder'[j] # None => holder[j] # None
    BY <1>1 DEF QInv, QueueTypes
  <2> QED
    BY <1>1, <1>2, <1>3, <1>4, <2>1 DEF QInv, Accepted
<1>8. HandedFirst' /\ NoneLost'
  BY <1>1, <1>2 DEF QInv, HandedFirst, NoneLost
<1>9. MemoryOfTurn'
  BY <1>1, <1>4 DEF QInv, MemoryOfTurn
<1>10. MemoryDistinct' /\ StartedOutOfMemory'
  BY <1>1, <1>3, <1>4, <1>5 DEF QInv, MemoryDistinct, StartedOutOfMemory
<1>11. ASSUME NEW j \in Inputs, NEW p \in Promoters, holder'[j] = p
       PROVE  j # i /\ holder[j] = p
  BY <1>1, <1>11 DEF QInv, QueueTypes, Promoters
<1>12. ReservedInPromotion'
  BY <1>1, <1>2, <1>11 DEF QInv, ReservedInPromotion
<1>13. ReservationHeld'
  <2>1. ASSUME NEW p \in Promoters, pc[p] \in {"marked", "remove"},
               item[p] \in sent \ overlapped
        PROVE  holder'[item[p]] = p
    <3>1. item[p] \in Inputs /\ holder[item[p]] = p
      BY <2>1 DEF QInv, ReservationHeld, QueueTypes
    <3>2. item[p] # i
      BY <1>5, <2>1, <3>1 DEF QInv, Undisturbed, ReadApart, Consumed
    <3> QED
      BY <1>1, <3>1, <3>2 DEF QInv, QueueTypes
  <2> QED
    BY <1>1, <2>1 DEF ReservationHeld
<1>14. ASSUME NEW j \in Inputs \ overlapped'
       PROVE  Undisturbed(j)'
  <2>1. Undisturbed(j)
    BY <1>1, <1>14 DEF QInv
  <2>2. ReadApart(j)' /\ ReadQueued(j)' /\ ReadInMemory(j)' /\ CutInPlace(j)'
    BY <1>1, <1>4, <1>5 DEF ReadApart, ReadQueued, ReadInMemory, CutInPlace
  <2>3. CASE j # i
    BY <1>1, <1>2, <1>3, <2>1, <2>2, <2>3
       DEF Undisturbed, RunsOnce, MemoryUnrun, QueueUnrun, Finishing, MarkedUnrun
  <2>4. CASE j = i
    <3>1. Undisturbed(i) /\ ran[i] \in 0..2
      BY <1>2, <2>1, <2>4 DEF QInv, QueueTypes
    <3>2. i \in ToSet(proj) /\ i \notin Consumed
      BY <1>1, <1>5, <3>1 DEF Undisturbed, ReadQueued, ReadApart, i
    <3>3. /\ drain # i
          /\ \A p \in Promoters : pc[p] \in {"marked", "remove"} => item[p] # i
      BY <1>2, <3>2 DEF Consumed
    <3>4. ran[i] = 0
      <4>1. ~(ran[i] > 0)
        BY <3>1, <3>2, <3>3 DEF Undisturbed, QueueUnrun, Finishing
      <4> QED
        BY <3>1, <4>1
    <3>5. j \notin ToSet(mem)'
      BY <1>1, <1>3, <2>4, <3>1 DEF Undisturbed, CutInPlace, i
    <3>6. RunsOnce(j)' /\ MemoryUnrun(j)' /\ QueueUnrun(j)'
      BY <1>1, <1>2, <2>4, <3>4, <3>5 DEF RunsOnce, MemoryUnrun, QueueUnrun
    <3>7. MarkedUnrun(j)'
      BY <1>1, <2>4, <3>3 DEF MarkedUnrun
    <3> QED
      BY <2>2, <2>4, <3>6, <3>7 DEF Undisturbed
  <2> QED
    BY <2>3, <2>4
<1> QED
  BY <1>6, <1>7, <1>8, <1>9, <1>10, <1>12, <1>13, <1>14 DEF QInv

\* An edit or a reordering is written: no input leaves the queue, and only an
\* input that was being consumed can come into it or the memory again.
LEMMA OtherWritesKeepQInv ==
    ASSUME QInv, CmdWrite, EditWrite \/ ReorderWrite
    PROVE  QInv'
<1> USE NoneAssumption
<1>1. /\ cmd.op \in {"edit", "reorder"} /\ cmd' = NoCmd
      /\ UNCHANGED <<exec, drain, holder, pc, item, sent, ran, removed, overlapped>>
  BY DEF CmdWrite, EditWrite, ReorderWrite
<1>2. /\ mem \in Seq(Inputs) /\ Distinct(mem) /\ proj \in Seq(Inputs)
      /\ cmd.item \in sent /\ cmd.item \in Inputs /\ cmd.order \in Seq(Inputs)
      /\ ToSet(cmd.order) \subseteq sent /\ ToSet(mem) \subseteq sent
      /\ ToSet(proj) \subseteq sent
  BY <1>1 DEF QInv, QueueTypes, Accepted, MemoryDistinct
<1>3. /\ proj' \in Seq(Inputs) /\ ToSet(proj) \subseteq ToSet(proj)'
      /\ ToSet(proj)' \subseteq ToSet(proj) \cup {cmd.item}
  <2>1. CASE EditWrite
    BY <1>2, <2>1, AppendSet DEF EditWrite
  <2>2. CASE ReorderWrite
    <3> DEFINE a == Only(cmd.order, ToSet(proj))
               b == Only(proj, Inputs \ ToSet(cmd.order))
    <3>1. a \in Seq(Inputs) /\ ToSet(a) = ToSet(cmd.order) \cap ToSet(proj)
      BY <1>2, OnlySet
    <3>2. b \in Seq(Inputs) /\ ToSet(b) = ToSet(proj) \ ToSet(cmd.order)
      BY <1>2, OnlySet, Members
    <3>3. proj' = a \o b
      BY <2>2 DEF ReorderWrite
    <3> HIDE DEF a, b
    <3>4. ToSet(a \o b) = ToSet(a) \cup ToSet(b) /\ a \o b \in Seq(Inputs)
      BY <3>1, <3>2, ConcatSet
    <3> QED
      BY <3>1, <3>2, <3>3, <3>4
  <2> QED
    BY <2>1, <2>2
<1>4. /\ mem' = mem \/ (cmd.op = "reorder" /\ cmd.live /\ mem' = cmd.order)
      /\ mem' = mem \/ ToSet(mem)' = LiveOrder
  BY <1>1 DEF EditWrite, ReorderWrite, LiveOrder
<1>5. /\ mem' \in Seq(Inputs) /\ Distinct(mem)' /\ ToSet(mem)' \subseteq sent
      /\ ToSet(mem)' \subseteq ToSet(mem) \cup LiveOrder
  <2>1. CASE mem' = mem
    BY <1>2, <2>1 DEF Distinct
  <2>2. CASE cmd.op = "reorder" /\ cmd.live /\ mem' = cmd.order
    BY <1>2, <2>2 DEF QInv, MemoryDistinct, LiveOrder, Distinct
  <2> QED
    BY <1>4, <2>1, <2>2
<1>6. /\ NoCmd.op = "none" /\ ~NoCmd.live /\ ToSet(NoCmd.order) = {}
      /\ NoCmd \in [op : {"none", "delete", "edit", "reorder"},
                    item : Inputs \cup {None}, live : BOOLEAN,
                    index : Nat, order : Seq(Inputs)]
  <2> DEFINE e == <<>>
  <2>1. e \in Seq(Inputs) /\ 1..Len(e) = {}
    OBVIOUS
  <2>2. ToSet(e) = {}
    BY <2>1, Members
  <2> QED
    BY <2>1, <2>2 DEF NoCmd
<1>7. LiveOrder' = {} /\ Read' = {}
  BY <1>1, <1>6 DEF LiveOrder, Read
<1>8. QueueTypes' /\ Accepted'
  BY <1>1, <1>2, <1>3, <1>5, <1>6 DEF QInv, QueueTypes, Accepted
<1>9. HandedFirst' /\ NoneLost'
  BY <1>1, <1>3 DEF QInv, HandedFirst, NoneLost
<1>10. MemoryOfTurn'
  BY <1>1, <1>4, <1>6 DEF QInv, MemoryOfTurn
<1>11. MemoryDistinct'
  BY <1>1, <1>5, <1>6 DEF MemoryDistinct
<1>12. StartedOutOfMemory'
  BY <1>1, <1>5, <1>7 DEF QInv, StartedOutOfMemory
<1>13. ReservedInPromotion' /\ ReservationHeld'
  BY <1>1, <1>3 DEF QInv, ReservedInPromotion, ReservationHeld
<1>14. ASSUME NEW j \in Inputs \ overlapped'
       PROVE  Undisturbed(j)'
  <2>1. Undisturbed(j)
    BY <1>1, <1>14 DEF QInv
  <2>2. ReadApart(j)' /\ ReadQueued(j)' /\ ReadInMemory(j)' /\ CutInPlace(j)'
    BY <1>1, <1>6, <1>7 DEF ReadApart, ReadQueued, ReadInMemory, CutInPlace
  <2>3. RunsOnce(j)' /\ MarkedUnrun(j)'
    BY <1>1, <2>1 DEF Undisturbed, RunsOnce, MarkedUnrun
  <2>4. MemoryUnrun(j)'
    BY <1>1, <1>5, <2>1 DEF Undisturbed, MemoryUnrun, ReadInMemory
  <2>5. QueueUnrun(j)'
    BY <1>1, <1>3, <2>1 DEF Undisturbed, QueueUnrun, Finishing, ReadQueued
  <2> QED
    BY <2>2, <2>3, <2>4, <2>5 DEF Undisturbed
<1> QED
  BY <1>8, <1>9, <1>10, <1>11, <1>12, <1>13, <1>14 DEF QInv

\* A promotion that has marked its item meets a runtime without a turn, and so
\* without a memory.
LEMMA IdleUnderLease ==
    ASSUME QInv, IInv, NEW p \in Promoters,
           pc[p] = "marked" \/ (pc[p] = "wait" /\ (p = "user" => exec = Idle))
    PROVE  /\ exec = Idle /\ lease = p
           /\ \A q \in Promoters \ {p} : pc[q] # "marked"
           /\ ToSet(mem) = {} /\ drain = None /\ ~cmd.live /\ LiveOrder = {}
           /\ item[p] \in Inputs
<1>1. lease = p /\ \A q \in Promoters \ {p} : pc[q] # "marked"
  BY DEF IInv, LeaseAccounted, Leased
<1>2. exec = Idle
  BY <1>1 DEF IInv, LeaseAccounted, Promoters
<1>3. mem = <<>> /\ drain = None /\ ~cmd.live
  BY <1>2 DEF QInv, MemoryOfTurn
<1>4. ToSet(mem) = {}
  <2> DEFINE e == <<>>
  <2>1. e \in Seq(Inputs) /\ 1..Len(e) = {}
    OBVIOUS
  <2>2. ToSet(e) = {}
    BY <2>1, Members
  <2> QED
    BY <1>3, <2>2
<1>5. item[p] \in Inputs
  BY DEF QInv, Accepted
<1> QED
  BY <1>1, <1>2, <1>3, <1>4, <1>5 DEF LiveOrder

\* An input is marked for its promotion: nothing has started it before.
LEMMA MarkKeepsQInv ==
    ASSUME QInv, IInv, NEW p \in Promoters, Mark(p)
    PROVE  QInv'
<1> USE NoneAssumption
<1> DEFINE i == item[p]
<1>1. CASE GiveUp(p)
  BY <1>1, GiveUpKeepsQInv DEF Mark, IInv
<1>2. CASE ~GiveUp(p)
  <2>1. /\ pc[p] = "wait" /\ (p = "user" => exec = Idle)
        /\ i \notin sent \/ (holder[i] = p /\ Queued(i))
        /\ pc' = [pc EXCEPT ![p] = "marked"]
        /\ overlapped' = overlapped \cup (Read' \cap Consumed')
        /\ UNCHANGED <<exec, mem, drain, proj, holder, item, cmd, sent, ran, removed>>
    BY <1>2 DEF Mark, Direct, NoteOverlap, queueVars
  <2>2. /\ ToSet(mem) = {} /\ drain = None /\ i \in Inputs
        /\ \A q \in Promoters \ {p} : pc[q] # "marked"
    BY <2>1, IdleUnderLease
  <2>3. /\ pc'[p] = "marked" /\ \A q \in Promoters \ {p} : pc'[q] = pc[q]
        /\ \A q \in Promoters : pc'[q] = "remove" <=> pc[q] = "remove"
    BY <2>1 DEF IInv, LeaseTypes
  <2>4. i \in sent => holder[i] = p /\ i \in ToSet(proj)
    BY <2>1, <2>2 DEF Queued
  <2> HIDE DEF i
  <2>5. QueueTypes' /\ Accepted'
    <3>1. overlapped' \subseteq Inputs
      BY <2>1 DEF QInv, QueueTypes, Consumed
    <3>2. QueueTypes'
      BY <2>1, <3>1 DEF QInv, QueueTypes
    <3>3. ASSUME NEW q \in Promoters, pc'[q] # "idle"
          PROVE  /\ item'[q] \in Inputs
                 /\ q = "auto" \/ pc'[q] \in {"reserve", "reserved", "remove"} =>
                        item'[q] \in sent'
      BY <2>1, <2>3, <3>3 DEF QInv, Accepted
    <3> QED
      BY <2>1, <3>2, <3>3 DEF QInv, Accepted
  <2>6. HandedFirst' /\ NoneLost' /\ MemoryOfTurn'
    BY <2>1, <2>3 DEF QInv, HandedFirst, NoneLost, MemoryOfTurn
  <2>7. MemoryDistinct' /\ StartedOutOfMemory'
    BY <2>1, <2>3 DEF QInv, MemoryDistinct, Distinct, StartedOutOfMemory, LiveOrder
  <2>8. ReservedInPromotion'
    <3>1. ASSUME NEW j \in Inputs, holder[j] = p
          PROVE  j = i /\ j \in ToSet(proj)
      BY <2>4, <3>1 DEF QInv, ReservedInPromotion, Accepted, Promoters, i
    <3> QED
      BY <2>1, <2>3, <3>1 DEF QInv, ReservedInPromotion, i
  <2>9. ReservationHeld'
    BY <2>1, <2>3, <2>4 DEF QInv, ReservationHeld, i
  <2>10. ASSUME NEW j \in Inputs \ overlapped'
         PROVE  Undisturbed(j)'
    <3>1. Undisturbed(j) /\ ReadApart(j)' /\ j \notin overlapped
      BY <2>1, <2>10 DEF QInv, ReadApart
    <3>2. RunsOnce(j)' /\ MemoryUnrun(j)' /\ QueueUnrun(j)'
      BY <2>1, <2>3, <3>1
         DEF Undisturbed, RunsOnce, MemoryUnrun, QueueUnrun, Finishing
    <3>3. ASSUME j = i
          PROVE  ran[j] = 0 /\ j \notin removed
      <4>1. CASE i \notin sent
        BY <3>3, <4>1 DEF QInv, QueueTypes, Accepted
      <4>2. CASE i \in sent
        <5>1. ~Finishing(j)
          BY <2>1, <2>2, <2>4, <3>1, <3>3, <4>2 DEF Finishing, QInv, ReservationHeld, i
        <5> QED
          BY <2>4, <3>1, <3>3, <4>2, <5>1 DEF Undisturbed, QueueUnrun, QInv, QueueTypes
      <4> QED
        BY <4>1, <4>2
    <3>4. MarkedUnrun(j)'
      BY <2>1, <2>3, <3>1, <3>3 DEF Undisturbed, MarkedUnrun, i
    <3>5. ReadQueued(j)' /\ ReadInMemory(j)' /\ CutInPlace(j)'
      BY <2>1, <3>1 DEF Undisturbed, ReadQueued, ReadInMemory, LiveOrder, CutInPlace
    <3> QED
      BY <3>1, <3>2, <3>4, <3>5 DEF Undisturbed
  <2> QED
    BY <2>5, <2>6, <2>7, <2>8, <2>9, <2>10 DEF QInv
<1> QED
  BY <1>1, <1>2

\* The marked input is started, for the first time.
LEMMA AdmitKeepsQInv ==
    ASSUME QInv, IInv, NEW p \in Promoters, Admit(p)
    PROVE  QInv'
<1> USE NoneAssumption
<1> DEFINE i == item[p]
<1>1. CASE GiveUp(p)
  BY <1>1, GiveUpKeepsQInv DEF Admit, IInv
<1>2. CASE ~GiveUp(p)
  <2>1. /\ pc[p] = "marked" /\ exec' = Run("prompt") /\ Ran(i)
        /\ sent' = sent \cup {i}
        /\ UNCHANGED <<mem, drain, proj, holder, cmd, removed>>
    BY <1>2 DEF Admit, queueVars
  <2>2. \/ /\ i \notin sent /\ UNCHANGED overlapped
           /\ pc' = [pc EXCEPT ![p] = "idle"] /\ item' = [item EXCEPT ![p] = None]
        \/ /\ i \in sent /\ pc' = [pc EXCEPT ![p] = "remove"] /\ UNCHANGED item
           /\ overlapped' = overlapped \cup (Read' \cap Consumed')
    BY <1>2 DEF Admit, Direct, Done, NoteOverlap
  <2>3. /\ ToSet(mem) = {} /\ drain = None /\ i \in Inputs /\ LiveOrder = {}
        /\ \A q \in Promoters \ {p} : pc[q] # "marked"
    BY <2>1, IdleUnderLease
  <2>4. /\ \A q \in Promoters \ {p} : pc'[q] = pc[q] /\ item'[q] = item[q]
        /\ \/ i \notin sent /\ pc'[p] = "idle"
           \/ i \in sent /\ pc'[p] = "remove" /\ item'[p] = i
        /\ item' \in [Promoters -> Inputs \cup {None}]
    BY <2>2 DEF IInv, LeaseTypes, QInv, QueueTypes
  <2>5. overlapped \subseteq overlapped' /\ overlapped' \subseteq Inputs
    BY <2>2 DEF QInv, QueueTypes, Consumed
  <2> HIDE DEF i
  <2>6. /\ ran' \in [Inputs -> 0..2] /\ ran'[i] > 0 /\ (ran[i] = 0 => ran'[i] = 1)
        /\ \A j \in Inputs : ran[j] > 0 => ran'[j] > 0
        /\ \A j \in Inputs \ {i} : ran'[j] = ran[j]
    BY <2>1, <2>3, RanOnceMore
  <2>7. exec' # Idle
    BY <2>1 DEF Run, Idle
  <2>8. \A q \in Promoters : pc'[q] # "marked"
    BY <2>3, <2>4
  <2>9. QueueTypes' /\ Accepted'
    <3>1. QueueTypes'
      BY <2>1, <2>3, <2>4, <2>5, <2>6 DEF QInv, QueueTypes
    <3>2. ASSUME NEW q \in Promoters, pc'[q] # "idle"
          PROVE  /\ item'[q] \in Inputs
                 /\ q = "auto" \/ pc'[q] \in {"reserve", "reserved", "remove"} =>
                        item'[q] \in sent'
      BY <2>1, <2>3, <2>4, <3>2 DEF QInv, Accepted
    <3>3. ASSUME NEW j \in Inputs, ran'[j] > 0 \/ holder'[j] # None
          PROVE  j \in sent'
      BY <2>1, <2>6, <3>3 DEF QInv, Accepted
    <3> QED
      BY <2>1, <3>1, <3>2, <3>3 DEF QInv, Accepted
  <2>10. HandedFirst'
    <3>1. ASSUME NEW q \in Promoters, pc'[q] = "remove"
          PROVE  ran'[item'[q]] > 0
      <4>1. CASE q = p
        BY <2>4, <2>6, <3>1, <4>1
      <4>2. CASE q # p
        <5>1. pc[q] = "remove" /\ item'[q] = item[q] /\ item[q] \in Inputs
          BY <2>4, <3>1, <4>2 DEF QInv, Accepted
        <5> QED
          BY <2>6, <5>1 DEF QInv, HandedFirst
      <4> QED
        BY <4>1, <4>2
    <3> QED
      BY <2>1, <2>3, <3>1 DEF HandedFirst
  <2>11. NoneLost' /\ MemoryOfTurn' /\ MemoryDistinct'
    <3>1. NoneLost'
      BY <2>1, <2>6 DEF QInv, QueueTypes, NoneLost
    <3> QED
      BY <2>1, <2>7, <3>1 DEF QInv, MemoryOfTurn, MemoryDistinct, Distinct
  <2>12. StartedOutOfMemory'
    <3>1. LiveOrder' = {}
      BY <2>1, <2>3 DEF LiveOrder
    <3> QED
      BY <2>1, <2>3, <2>9, <3>1 DEF StartedOutOfMemory, Accepted
  <2>13. ReservedInPromotion'
    <3>1. ASSUME NEW j \in Inputs, holder[j] = p
          PROVE  j = i /\ j \in ToSet(proj) /\ j \in sent
      BY <2>1, <3>1 DEF QInv, ReservedInPromotion, Accepted, Promoters, i
    <3> QED
      BY <2>1, <2>4, <3>1 DEF QInv, ReservedInPromotion
  <2>14. ReservationHeld'
    <3>1. ASSUME NEW q \in Promoters, pc'[q] \in {"marked", "remove"},
                 item'[q] \in sent' \ overlapped'
          PROVE  holder[item'[q]] = q
      <4>1. pc[q] \in {"marked", "remove"} /\ item'[q] = item[q] /\ item[q] \in sent
        BY <2>1, <2>3, <2>4, <3>1 DEF QInv, Accepted, i
      <4> QED
        BY <2>5, <3>1, <4>1 DEF QInv, ReservationHeld
    <3> QED
      BY <2>1, <3>1 DEF ReservationHeld
  <2>15. ASSUME NEW j \in Inputs \ overlapped'
         PROVE  Undisturbed(j)'
    <3>1. Undisturbed(j)
      BY <2>5, <2>15 DEF QInv
    <3>2. j = i => ran[j] = 0 /\ ran'[j] = 1 /\ j \notin removed
      BY <2>1, <2>6, <3>1 DEF Undisturbed, MarkedUnrun, i
    <3>3. RunsOnce(j)'
      BY <2>1, <2>6, <3>1, <3>2 DEF Undisturbed, RunsOnce
    <3>4. QueueUnrun(j)'
      <4>1. CASE j = i
        <5>1. i \in ToSet(proj) => i \in sent
          BY DEF QInv, Accepted
        <5> QED
          BY <2>1, <2>4, <3>2, <4>1, <5>1 DEF QueueUnrun, Finishing
      <4>2. CASE j # i
        BY <2>1, <2>4, <2>6, <3>1, <4>2 DEF Undisturbed, QueueUnrun, Finishing
      <4> QED
        BY <4>1, <4>2
    <3>5. MemoryUnrun(j)' /\ MarkedUnrun(j)'
      BY <2>1, <2>3, <2>8 DEF MemoryUnrun, MarkedUnrun
    <3>6. ReadApart(j)'
      <4>1. CASE i \in sent
        BY <2>2, <2>15, <4>1 DEF ReadApart
      <4>2. CASE i \notin sent
        BY <2>1, <2>4, <3>1, <4>2 DEF Undisturbed, ReadApart, Read, Consumed
      <4> QED
        BY <4>1, <4>2
    <3>7. ReadQueued(j)' /\ ReadInMemory(j)' /\ CutInPlace(j)'
      BY <2>1, <3>1 DEF Undisturbed, ReadQueued, ReadInMemory, LiveOrder, CutInPlace
    <3> QED
      BY <3>1, <3>3, <3>4, <3>5, <3>6, <3>7 DEF Undisturbed
  <2> QED
    BY <2>9, <2>10, <2>11, <2>12, <2>13, <2>14, <2>15 DEF QInv
<1> QED
  BY <1>1, <1>2

\* The started input leaves the queue with its reservation, unless a command
\* that overlapped has already taken it off.
LEMMA PromotedIsRemoved ==
    ASSUME QInv, NEW p \in Promoters, RemovePromoted(p)
    PROVE  \/ /\ proj' = Without(proj, item[p]) /\ mem' = mem
              /\ holder' = [holder EXCEPT ![item[p]] = None]
              /\ holder[item[p]] \in {None, p}
           \/ /\ UNCHANGED <<proj, mem, holder>>
              /\ item[p] \in overlapped
              /\ holder[item[p]] # p
<1> DEFINE i == item[p]
<1>1. i \in Inputs /\ i \in sent /\ i \notin ToSet(mem) /\ mem \in Seq(Inputs)
  BY DEF RemovePromoted, QInv, QueueTypes, Accepted, StartedOutOfMemory
<1>2. holder[i] = p => i \in ToSet(proj)
  BY <1>1 DEF RemovePromoted, QInv, ReservedInPromotion
<1>3. i \notin overlapped => holder[i] = p
  BY <1>1 DEF RemovePromoted, QInv, ReservationHeld
<1>4. Without(mem, i) = mem
  <2>1. ToSet(mem) \subseteq Inputs \ {i}
    BY <1>1, Members
  <2> QED
    BY <1>1, <2>1, OnlySet DEF Without
<1> QED
  BY <1>2, <1>3, <1>4 DEF RemovePromoted, Queued

LEMMA RemovePromotedKeepsQInv ==
    ASSUME QInv, IInv, NEW p \in Promoters, RemovePromoted(p)
    PROVE  QInv'
<1> USE NoneAssumption
<1> DEFINE i == item[p]
<1>1. /\ pc[p] = "remove"
      /\ pc' = [pc EXCEPT ![p] = "idle"] /\ item' = [item EXCEPT ![p] = None]
      /\ UNCHANGED <<exec, drain, cmd, sent, ran, removed, overlapped>>
  BY DEF RemovePromoted, Done, historyVars
<1>2. /\ i \in Inputs /\ i \in sent /\ ran[i] > 0
      /\ proj \in Seq(Inputs) /\ ToSet(proj) \subseteq Inputs
  BY <1>1, Members DEF QInv, QueueTypes, Accepted, HandedFirst
<1>3. \/ /\ proj' = Without(proj, i) /\ mem' = mem
         /\ holder' = [holder EXCEPT ![i] = None]
      \/ UNCHANGED <<proj, mem, holder>> /\ i \in overlapped /\ holder[i] # p
  BY PromotedIsRemoved
<1>4. /\ pc'[p] = "idle" /\ \A q \in Promoters \ {p} : pc'[q] = pc[q]
      /\ item'[p] = None /\ \A q \in Promoters \ {p} : item'[q] = item[q]
      /\ item' \in [Promoters -> Inputs \cup {None}]
  BY <1>1 DEF IInv, LeaseTypes, QInv, QueueTypes
<1>5. \A q \in Promoters : pc'[q] # "idle" =>
         q # p /\ pc'[q] = pc[q] /\ item'[q] = item[q]
  BY <1>4
<1> HIDE DEF i
<1>6. /\ mem' = mem /\ proj' \in Seq(Inputs)
      /\ ToSet(proj)' \subseteq ToSet(proj) /\ ToSet(proj) \ {i} \subseteq ToSet(proj)'
      /\ i \in ToSet(proj)' => i \in overlapped
  <2>1. CASE proj' = Without(proj, i) /\ mem' = mem
    <3>1. Without(proj, i) \in Seq(Inputs) /\ ToSet(Without(proj, i)) = ToSet(proj) \ {i}
      BY <1>2, OnlySet DEF Without
    <3> QED
      BY <2>1, <3>1
  <2>2. CASE UNCHANGED <<proj, mem>> /\ i \in overlapped
    BY <1>2, <2>2
  <2> QED
    BY <1>3, <2>1, <2>2
<1>7. /\ holder' \in [Inputs -> Promoters \cup {None}]
      /\ \A j \in Inputs : holder'[j] = holder[j] \/ (j = i /\ holder'[j] = None)
      /\ \A j \in Inputs \ {i} : holder'[j] = holder[j]
      /\ holder'[i] # p
  BY <1>2, <1>3 DEF QInv, QueueTypes, Promoters
<1>8. QueueTypes' /\ Accepted'
  <2>1. QueueTypes'
    BY <1>1, <1>4, <1>6, <1>7 DEF QInv, QueueTypes
  <2>2. ASSUME NEW q \in Promoters, pc'[q] # "idle"
        PROVE  /\ item'[q] \in Inputs
               /\ q = "auto" \/ pc'[q] \in {"reserve", "reserved", "remove"} =>
                      item'[q] \in sent'
    BY <1>1, <1>5, <2>2 DEF QInv, Accepted
  <2> QED
    BY <1>1, <1>6, <1>7, <2>1, <2>2 DEF QInv, Accepted
<1>9. HandedFirst' /\ NoneLost' /\ MemoryOfTurn'
  BY <1>1, <1>2, <1>5, <1>6 DEF QInv, HandedFirst, NoneLost, QueueTypes, MemoryOfTurn
<1>10. MemoryDistinct' /\ StartedOutOfMemory'
  BY <1>1, <1>5, <1>6
     DEF QInv, MemoryDistinct, Distinct, StartedOutOfMemory, LiveOrder
<1>11. ReservedInPromotion'
  <2>1. ASSUME NEW j \in Inputs, NEW q \in Promoters, holder'[j] = q
        PROVE  holder[j] = q /\ q # p /\ (j \in ToSet(proj) => j \in ToSet(proj)')
    <3>1. holder[j] = q
      BY <1>7, <2>1 DEF Promoters
    <3>2. item[q] = j
      BY <3>1 DEF QInv, ReservedInPromotion
    <3>3. q # p
      BY <1>7, <2>1, <3>2 DEF i
    <3>4. j = i => UNCHANGED proj
      BY <1>2, <1>3, <2>1 DEF QInv, QueueTypes, Promoters
    <3> QED
      BY <1>6, <3>1, <3>3, <3>4
  <2> QED
    BY <1>4, <2>1 DEF QInv, ReservedInPromotion
<1>12. ReservationHeld'
  <2>1. ASSUME NEW q \in Promoters, pc'[q] \in {"marked", "remove"},
               item'[q] \in sent' \ overlapped'
        PROVE  holder'[item'[q]] = q
    <3>1. q # p /\ item'[q] = item[q] /\ item[q] \in Inputs /\ holder[item[q]] = q
      BY <1>1, <1>5, <2>1 DEF QInv, ReservationHeld, Accepted
    <3>2. item[q] # i
      BY <1>1, <1>2, <2>1, <3>1 DEF QInv, ReservationHeld, i
    <3> QED
      BY <1>7, <3>1, <3>2
  <2> QED
    BY <2>1 DEF ReservationHeld
<1>13. ASSUME NEW j \in Inputs \ overlapped'
       PROVE  Undisturbed(j)'
  <2>1. Undisturbed(j) /\ j \notin overlapped
    BY <1>1, <1>13 DEF QInv
  <2>2. RunsOnce(j)' /\ MemoryUnrun(j)' /\ MarkedUnrun(j)'
    BY <1>1, <1>5, <1>6, <2>1 DEF Undisturbed, RunsOnce, MemoryUnrun, MarkedUnrun
  <2>3. QueueUnrun(j)'
    BY <1>1, <1>4, <1>6, <2>1 DEF Undisturbed, QueueUnrun, Finishing, i
  <2>4. ReadApart(j)'
    BY <1>1, <1>5, <2>1 DEF Undisturbed, ReadApart, Read, Consumed
  <2>5. ReadQueued(j)'
    <3>1. cmd.op # "none" /\ cmd.item = j => j \in Read
      BY DEF Read
    <3>2. i \in Consumed
      BY <1>1, <1>2 DEF Consumed, i
    <3> QED
      BY <1>1, <1>6, <2>1, <3>1, <3>2 DEF Undisturbed, ReadQueued, ReadApart
  <2>6. ReadInMemory(j)' /\ CutInPlace(j)'
    BY <1>1, <1>6, <2>1 DEF Undisturbed, ReadInMemory, LiveOrder, CutInPlace
  <2> QED
    BY <2>2, <2>3, <2>4, <2>5, <2>6 DEF Undisturbed
<1> QED
  BY <1>8, <1>9, <1>10, <1>11, <1>12, <1>13 DEF QInv

-----------------------------------------------------------------------------
(* The two theorems of the inputs *)

LEMMA InitQInv ==
    ASSUME Init
    PROVE  QInv
<1> USE NoneAssumption DEF Init
<1> DEFINE e == <<>>
<1>1. e \in Seq(Inputs) /\ 1..Len(e) = {}
  OBVIOUS
<1> HIDE DEF e
<1>2. ToSet(e) = {} /\ Distinct(e)
  BY <1>1, Members DEF Distinct
<1>3. /\ mem \in Seq(Inputs) /\ proj \in Seq(Inputs) /\ ToSet(mem) = {}
      /\ ToSet(proj) = {} /\ Distinct(mem) /\ mem = <<>>
  BY <1>1, <1>2 DEF e
<1>4. /\ cmd \in [op : {"none", "delete", "edit", "reorder"},
                  item : Inputs \cup {None}, live : BOOLEAN,
                  index : Nat, order : Seq(Inputs)]
      /\ cmd.op = "none" /\ ~cmd.live /\ ToSet(cmd.order) = {}
  BY <1>1, <1>2 DEF NoCmd, e
<1>5. Read = {} /\ LiveOrder = {}
  BY <1>4 DEF Read, LiveOrder
<1>6. QueueTypes /\ Accepted /\ HandedFirst /\ NoneLost /\ MemoryOfTurn
  BY <1>3, <1>4 DEF QueueTypes, Accepted, HandedFirst, NoneLost, MemoryOfTurn
<1>7. /\ MemoryDistinct /\ StartedOutOfMemory /\ ReservedInPromotion
      /\ ReservationHeld
  BY <1>3, <1>4
     DEF MemoryDistinct, StartedOutOfMemory, ReservedInPromotion, ReservationHeld,
         Promoters
<1>8. ASSUME NEW i \in Inputs
      PROVE  Undisturbed(i)
  BY <1>3, <1>4, <1>5
     DEF Undisturbed, RunsOnce, MemoryUnrun, QueueUnrun, MarkedUnrun, ReadApart,
         ReadQueued, ReadInMemory, CutInPlace
<1> QED
  BY <1>6, <1>7, <1>8 DEF QInv

LEMMA NextQInv ==
    ASSUME IInv, QInv, [Next]_vars
    PROVE  QInv'
<1> USE DEF IInv
<1>1. CASE UNCHANGED vars
  BY <1>1, OnlyTheRuntime DEF vars
<1>2. CASE User
  <2>1. ASSUME NEW i \in Inputs, NEW d \in {"guide", "queue"}, SendText(i, d)
        PROVE  QInv'
    BY <2>1, SendTextKeepsQInv
  <2>2. ASSUME NEW i \in Inputs, StartNow(i)
        PROVE  QInv'
    BY <2>2, StartNowKeepsQInv
  <2>3. ASSUME NEW i \in Inputs, SendNow(i)
        PROVE  QInv'
    BY <2>3, SendNowKeepsQInv
  <2>4. ASSUME NEW i \in Inputs, NEW b,
               DeleteRead(i) \/ EditRead(i) \/ ReorderRead(i, b)
        PROVE  QInv'
    BY <2>4, CommandReadsKeepQInv
  <2>5. CASE Stop \/ \E b \in BOOLEAN : SetAutoDrain(b)
    BY <2>5, RuntimeKeepsQInv
  <2> QED
    BY <1>2, <2>1, <2>2, <2>3, <2>4, <2>5 DEF User
<1>3. ASSUME NEW n \in Notices, Notify(n)
      PROVE  QInv'
  BY <1>3, RuntimeKeepsQInv
<1>4. CASE DrainTake
  BY <1>4, DrainTakeKeepsQInv
<1>5. CASE Turn
  BY <1>5, DrainDoneKeepsQInv, EndTurnKeepsQInv DEF Turn
<1>6. CASE CmdWrite
  BY <1>6, DeleteWriteKeepsQInv, OtherWritesKeepQInv DEF CmdWrite
<1>7. CASE AutoPick \/ AutoLease
  BY <1>7, AutoKeepsQInv
<1>8. CASE LeaseAndStop \/ WaitTimeout
  BY <1>8, LeaseAndStopKeepsQInv
<1>9. ASSUME NEW p \in Promoters, PromoterStep(p)
      PROVE  QInv'
  BY <1>9, ReserveKeepsQInv, MarkKeepsQInv, AdmitKeepsQInv,
     RemovePromotedKeepsQInv DEF PromoterStep
<1> QED
  BY <1>1, <1>2, <1>3, <1>4, <1>5, <1>6, <1>7, <1>8, <1>9 DEF Next

\* Whatever is sent, edited, reordered, deleted, promoted, stopped or notified,
\* and in whatever order the steps of the two promoters, of the turn and of a
\* queue command fall: no accepted input is lost, none is started twice or
\* after its deletion unless the user's own command had read it while it was
\* consumed, and no reservation outlives its promotion.
THEOREM InputsAlwaysSettleOnce == Spec => []InputsSettleOnce
<1>1. Init => IInv /\ QInv
  BY InitIInv, InitQInv
<1>2. IInv /\ QInv /\ [Next]_vars => (IInv /\ QInv)'
  BY NextIInv, NextQInv
<1>3. IInv /\ QInv => InputsSettleOnce
  BY DEF QInv, NoneLost, ReservedInPromotion, Undisturbed, RunsOnce, InputsSettleOnce
<1> QED
  BY <1>1, <1>2, <1>3, PTL DEF Spec

\* A promoter that has marked or started its input is moved on by its own next
\* step alone.
LEMMA OnlyItsOwnStep ==
    ASSUME LeaseTypes, [Next]_vars, NEW p \in Promoters,
           pc[p] \in {"marked", "remove"}, pc'[p] # pc[p]
    PROVE  Admit(p) \/ RemovePromoted(p)
<1> USE DEF Promoters, LeaseTypes
<1>1. ~UNCHANGED pc
  OBVIOUS
<1>2. /\ ~DrainTake /\ ~CmdWrite /\ ~Turn
      /\ \A n \in Notices : ~Notify(n)
  BY <1>1 DEF DrainTake, CmdWrite, Turn, DrainDone, EndTurn, Notify, promoVars
<1>3. ~User
  <2>1. ASSUME NEW i \in Inputs, NEW d \in {"guide", "queue"}
        PROVE  ~SendText(i, d)
    BY <1>1 DEF SendText, promoVars
  <2>2. ASSUME NEW i \in Inputs, StartNow(i) \/ SendNow(i)
        PROVE  FALSE
    BY <2>2 DEF StartNow, SendNow, UserFree
  <2>3. ASSUME NEW i \in Inputs, NEW b
        PROVE  ~(DeleteRead(i) \/ EditRead(i) \/ ReorderRead(i, b))
    BY <1>1 DEF DeleteRead, EditRead, ReorderRead, Reads, promoVars
  <2>4. ~Stop /\ \A b \in BOOLEAN : ~SetAutoDrain(b)
    BY <1>1 DEF Stop, SetAutoDrain, promoVars
  <2> QED
    BY <2>1, <2>2, <2>3, <2>4 DEF User
<1>4. ~AutoPick /\ ~AutoLease
  BY DEF AutoPick, AutoLease, GiveUp, Done
<1>5. ~LeaseAndStop /\ ~WaitTimeout
  BY DEF LeaseAndStop, WaitTimeout, GiveUp, Done
<1>6. ASSUME NEW q \in Promoters, PromoterStep(q)
      PROVE  Admit(p) \/ RemovePromoted(p)
  <2>1. CASE q # p
    BY <1>6, <2>1 DEF PromoterStep, Reserve, Mark, Admit, RemovePromoted, GiveUp, Done
  <2>2. CASE q = p
    BY <1>6, <2>2 DEF PromoterStep, Reserve, Mark
  <2> QED
    BY <2>1, <2>2
<1> QED
  BY <1>1, <1>2, <1>3, <1>4, <1>5, <1>6 DEF Next, vars

\* A promotion that has marked its input starts it, unless a notification came
\* in between; and an input that was started leaves the queue with its
\* reservation.  The user's commands that overlap the promotion excepted.
THEOREM PromotionsAlwaysCommit == Spec => PromotionsCommit
<1>1. ASSUME IInv, QInv, [Next]_vars, NEW p \in Promoters,
             pc[p] = "marked", pc'[p] # "marked"
      PROVE  \/ exec'.kind = "prompt" /\ ran'[item[p]] > ran[item[p]]
             \/ notes # {}
             \/ item[p] \in overlapped'
  <2>1. Admit(p)
    BY <1>1, OnlyItsOwnStep DEF IInv, RemovePromoted
  <2>2. exec = Idle /\ lease = p /\ item[p] \in Inputs
    BY <1>1, IdleUnderLease
  <2>3. overlapped \subseteq overlapped'
    BY <2>1 DEF Admit, GiveUp, NoteOverlap, historyVars
  <2>4. CASE notes = {} /\ item[p] \notin overlapped
    <3>1. exec' = Run("prompt") /\ Ran(item[p])
      BY <2>1, <2>2, <2>4 DEF Admit
    <3>2. ran[item[p]] = 0
      BY <1>1, <2>2, <2>4 DEF QInv, Undisturbed, MarkedUnrun
    <3>3. ran'[item[p]] = 1
      BY <1>1, <2>2, <3>1, <3>2, RanOnceMore
    <3> QED
      BY <3>1, <3>2, <3>3 DEF Run
  <2> QED
    BY <2>3, <2>4
<1>2. ASSUME IInv, QInv, [Next]_vars, NEW p \in Promoters,
             pc[p] = "remove", pc'[p] # "remove"
      PROVE  \/ item[p] \notin ToSet(proj') /\ holder'[item[p]] = None
             \/ item[p] \in overlapped'
  <2>1. RemovePromoted(p)
    BY <1>2, OnlyItsOwnStep DEF IInv, Admit
  <2>2. item[p] \in Inputs /\ proj \in Seq(Inputs) /\ holder \in [Inputs -> Promoters \cup {None}]
    BY <1>2 DEF QInv, QueueTypes, Accepted
  <2>3. ToSet(Without(proj, item[p])) = ToSet(proj) \cap (Inputs \ {item[p]})
    BY <2>2, OnlySet DEF Without
  <2>4. overlapped' = overlapped
    BY <2>1 DEF RemovePromoted, historyVars
  <2> QED
    BY <1>2, <2>1, <2>2, <2>3, <2>4, PromotedIsRemoved
<1>3. IInv /\ QInv /\ [Next]_vars =>
        [\A p \in Promoters :
           /\ pc[p] = "marked" /\ pc'[p] # "marked" =>
                 \/ exec'.kind = "prompt" /\ ran'[item[p]] > ran[item[p]]
                 \/ notes # {}
                 \/ item[p] \in overlapped'
           /\ pc[p] = "remove" /\ pc'[p] # "remove" =>
                 \/ item[p] \notin ToSet(proj') /\ holder'[item[p]] = None
                 \/ item[p] \in overlapped']_vars
  BY <1>1, <1>2
<1>4. Init => IInv /\ QInv
  BY InitIInv, InitQInv
<1>5. IInv /\ QInv /\ [Next]_vars => (IInv /\ QInv)'
  BY NextIInv, NextQInv
<1> QED
  BY <1>3, <1>4, <1>5, PTL DEF Spec, PromotionsCommit
=============================================================================
