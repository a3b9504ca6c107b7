-------------------------- MODULE ChannelRpcProofs --------------------------
(***************************************************************************)
(* Proofs about the channel layer, for any calls, events and bounds.       *)
(*                                                                         *)
(* The request of a call is in one place at a time, once (CallsOnce): it   *)
(* waits at the client, is on the way, is collected or runs.  So what the  *)
(* server takes up is new to its book, and the book lists the calls that   *)
(* run and can still be stopped (CallsBooked).                             *)
(*                                                                         *)
(* On a connection that began with the handshake done, the messages about  *)
(* one event take turns, the first telling what the server has and the     *)
(* last what the client has (ListensInTurn).  So a subscription is never   *)
(* taken twice (Subscribed), and with nothing on the way both ends agree.  *)
(* A cancel follows the request it cancels (CancelFollows).                *)
(*                                                                         *)
(* What Initialize sends is a recursive function of what waited; its facts *)
(* follow from the least number at which they would fail (AllNumbers).     *)
(***************************************************************************)
EXTENDS ChannelRpc, FiniteSetTheorems, WellFoundedInduction, TLAPS

-----------------------------------------------------------------------------
(* What is true of 0 and, with n, of n + 1, is true of all numbers.         *)

LEMMA LessIsWellFounded == IsWellFoundedOn({x \in Nat \X Nat : x[1] < x[2]}, Nat)
<1>1. OpToRel(<, Nat) = {x \in Nat \X Nat : x[1] < x[2]}
  BY DEF OpToRel
<1> QED
  BY <1>1, NatLessThanWellFounded

LEMMA LeastNumber ==
    ASSUME NEW T \in SUBSET Nat, T # {}
    PROVE  \E m \in T : \A k \in T : m <= k
<1> DEFINE R == {x \in Nat \X Nat : x[1] < x[2]}
<1>1. IsWellFoundedOn(R, Nat)
  BY LessIsWellFounded
<1> HIDE DEF R
<1>2. PICK m \in T : \A k \in T : <<k, m>> \notin R
  BY <1>1, WFMin
<1>3. ASSUME NEW k \in T PROVE m <= k
  <2>1. k \in Nat /\ m \in Nat
    OBVIOUS
  <2>2. <<k, m>> \notin R
    BY <1>2
  <2>3. ~ (k < m)
    BY <2>1, <2>2 DEF R
  <2> QED
    BY <2>1, <2>3
<1> QED
  BY <1>3

LEMMA AllNumbers ==
    ASSUME NEW T \in SUBSET Nat, 0 \in T, \A n \in T : n + 1 \in T
    PROVE  T = Nat
<1> DEFINE U == Nat \ T
<1> SUFFICES ASSUME U # {} PROVE FALSE
  OBVIOUS
<1>1. PICK m \in U : \A k \in U : m <= k
  BY LeastNumber
<1>2. m \in Nat /\ m # 0
  OBVIOUS
<1>3. m - 1 \in Nat /\ m = (m - 1) + 1
  BY <1>2
<1>4. m - 1 \in T
  BY <1>1, <1>3
<1> QED
  BY <1>3, <1>4

-----------------------------------------------------------------------------
(* What is sent of the requests that waited.                                *)

\* f[i] is what is sent of the first i requests of s.
SentUpTo(s, n, f) ==
    /\ f[0] = <<>>
    /\ \A i \in 1..n : f[i] = IF Sendable(s[i]) THEN Append(f[i-1], s[i]) ELSE f[i-1]

LEMMA SentExists ==
    ASSUME NEW s \in Seq(Ids)
    PROVE  \E f \in [0..Len(s) -> Seq(Ids)] : SentUpTo(s, Len(s), f)
<1> DEFINE T == {n \in Nat : n <= Len(s) => \E f \in [0..n -> Seq(Ids)] : SentUpTo(s, n, f)}
<1>1. 0 \in T
  <2>1. <<>> \in Seq(Ids)
    OBVIOUS
  <2>2. [i \in 0..0 |-> <<>>] \in [0..0 -> Seq(Ids)] /\ SentUpTo(s, 0, [i \in 0..0 |-> <<>>])
    BY <2>1 DEF SentUpTo
  <2> QED
    BY <2>2
<1>2. ASSUME NEW n \in T PROVE n + 1 \in T
  <2> SUFFICES ASSUME n + 1 <= Len(s)
               PROVE  \E f \in [0..(n+1) -> Seq(Ids)] : SentUpTo(s, n + 1, f)
    OBVIOUS
  <2>1. n \in Nat /\ Len(s) \in Nat /\ n <= Len(s)
    OBVIOUS
  <2>2. PICK f \in [0..n -> Seq(Ids)] : SentUpTo(s, n, f)
    BY <2>1
  <2> DEFINE x == IF Sendable(s[n+1]) THEN Append(f[n], s[n+1]) ELSE f[n]
             g == [i \in 0..(n+1) |-> IF i = n + 1 THEN x ELSE f[i]]
  <2>3. x \in Seq(Ids)
    <3>1. s[n+1] \in Ids /\ f[n] \in Seq(Ids)
      BY <2>1
    <3>2. Append(f[n], s[n+1]) \in Seq(Ids)
      BY <3>1
    <3> QED
      BY <3>1, <3>2
  <2>4. g \in [0..(n+1) -> Seq(Ids)]
    <3>1. \A i \in 0..(n+1) : i = n + 1 \/ i \in 0..n
      BY <2>1
    <3> HIDE DEF x
    <3> QED
      BY <2>3, <3>1
  <2>5. g[0] = <<>>
    BY <2>1, <2>2 DEF SentUpTo
  <2>6. ASSUME NEW i \in 1..(n+1)
        PROVE  g[i] = IF Sendable(s[i]) THEN Append(g[i-1], s[i]) ELSE g[i-1]
    <3>1. i - 1 \in 0..n /\ g[i-1] = f[i-1]
      BY <2>1
    <3>2. CASE i = n + 1
      <4>1. g[i] = x /\ i - 1 = n
        BY <2>1, <3>2
      <4> QED
        BY <3>1, <3>2, <4>1
    <3>3. CASE i # n + 1
      <4>1. i \in 1..n /\ g[i] = f[i]
        BY <2>1, <3>3
      <4> HIDE DEF g
      <4> QED
        BY <2>2, <3>1, <4>1 DEF SentUpTo
    <3> QED
      BY <3>2, <3>3
  <2> HIDE DEF g
  <2>7. SentUpTo(s, n + 1, g)
    BY <2>5, <2>6 DEF SentUpTo
  <2> QED
    BY <2>4, <2>7
<1> HIDE DEF T
<1>3. T = Nat
  <2>1. T \in SUBSET Nat
    BY DEF T
  <2> QED
    BY <1>1, <1>2, <2>1, AllNumbers
<1> QED
  BY <1>3 DEF T

\* The k requests of o are some of the first n of s, none twice.
DrawnAs(s, n, o, k) ==
    \E m \in [1..k -> 1..n] :
        /\ \A i \in 1..k : o[i] = s[m[i]] /\ Sendable(o[i])
        /\ \A i, j \in 1..k : m[i] = m[j] => i = j

Drawn(s, n, o) == o \in Seq(Ids) /\ DrawnAs(s, n, o, Len(o))

LEMMA SentIsDrawn ==
    ASSUME NEW s \in Seq(Ids)
    PROVE  Drawn(s, Len(s), SentOf(s))
<1> DEFINE Defines(g) == g = [n \in 0..Len(s) |->
                IF n = 0 THEN <<>>
                ELSE IF Sendable(s[n]) THEN Append(g[n - 1], s[n]) ELSE g[n - 1]]
           out == CHOOSE g : Defines(g)
<1>1. SentOf(s) = out[Len(s)]
  BY DEF SentOf
<1>2. Len(s) \in Nat
  OBVIOUS
<1>3. \E g : Defines(g)
  <2>1. PICK f \in [0..Len(s) -> Seq(Ids)] : SentUpTo(s, Len(s), f)
    BY SentExists
  <2>2. \A i \in 0..Len(s) : i # 0 => i \in 1..Len(s)
    BY <1>2
  <2>3. \A i \in 0..Len(s) : f[i] = IF i = 0 THEN <<>>
            ELSE IF Sendable(s[i]) THEN Append(f[i - 1], s[i]) ELSE f[i - 1]
    BY <2>1, <2>2 DEF SentUpTo
  <2>4. Defines(f)
    BY <2>3
  <2> QED
    BY <2>4
<1>4. Defines(out)
  BY <1>3
<1> HIDE DEF out
<1>5. out[0] = <<>>
  BY <1>2, <1>4
<1>6. \A n \in 1..Len(s) : out[n] = IF Sendable(s[n]) THEN Append(out[n - 1], s[n]) ELSE out[n - 1]
  <2>1. \A n \in 1..Len(s) : n \in 0..Len(s) /\ n # 0
    BY <1>2
  <2> QED
    BY <1>4, <2>1
<1> HIDE DEF Defines
<1> DEFINE T == {n \in Nat : n <= Len(s) => Drawn(s, n, out[n])}
<1>7. 0 \in T
  <2> DEFINE o == <<>>
  <2>1. o \in Seq(Ids) /\ Len(o) = 0 /\ 1..Len(o) = {}
    OBVIOUS
  <2> HIDE DEF o
  <2>2. [i \in 1..Len(o) |-> 1] \in [1..Len(o) -> 1..0]
    BY <2>1
  <2>3. Drawn(s, 0, o)
    BY <2>1, <2>2 DEF Drawn, DrawnAs
  <2> QED
    BY <1>5, <2>3 DEF o
<1>8. ASSUME NEW n \in T PROVE n + 1 \in T
  <2> SUFFICES ASSUME n + 1 <= Len(s) PROVE Drawn(s, n + 1, out[n + 1])
    OBVIOUS
  <2>1. n \in Nat /\ n <= Len(s) /\ n + 1 \in 1..Len(s) /\ (n + 1) - 1 = n
    BY <1>2
  <2> DEFINE o == out[n]
             x == s[n + 1]
  <2>2. Drawn(s, n, o)
    BY <2>1
  <2>3. x \in Ids
    BY <2>1
  <2>4. out[n + 1] = IF Sendable(x) THEN Append(o, x) ELSE o
    BY <1>6, <2>1
  <2> HIDE DEF o, x
  <2>5. PICK m \in [1..Len(o) -> 1..n] :
          /\ \A i \in 1..Len(o) : o[i] = s[m[i]] /\ Sendable(o[i])
          /\ \A i, j \in 1..Len(o) : m[i] = m[j] => i = j
    BY <2>2 DEF Drawn, DrawnAs
  <2>6. o \in Seq(Ids) /\ Len(o) \in Nat
    BY <2>2 DEF Drawn
  <2>7. m \in [1..Len(o) -> 1..(n + 1)] /\ \A i \in 1..Len(o) : m[i] \in Nat /\ m[i] <= n
    BY <2>1
  <2>8. CASE ~Sendable(x)
    <3>1. Drawn(s, n + 1, o)
      BY <2>5, <2>6, <2>7 DEF Drawn, DrawnAs
    <3> QED
      BY <2>4, <2>8, <3>1
  <2>9. CASE Sendable(x)
    <3> DEFINE o2 == Append(o, x)
               k == Len(o) + 1
               m2 == [i \in 1..k |-> IF i = k THEN n + 1 ELSE m[i]]
    <3>1. /\ o2 \in Seq(Ids) /\ Len(o2) = k /\ o2[k] = x
          /\ \A i \in 1..Len(o) : o2[i] = o[i]
      BY <2>3, <2>6
    <3> HIDE DEF o2
    <3>2. \A i \in 1..k : i = k \/ (i \in 1..Len(o) /\ i # k)
      BY <2>6
    <3>3. k \in 1..k /\ \A i \in 1..Len(o) : i \in 1..k /\ i # k
      BY <2>6
    <3>4. m2[k] = n + 1 /\ \A i \in 1..Len(o) : m2[i] = m[i]
      BY <3>3
    <3>5. n + 1 \in 1..(n + 1) /\ n + 1 \in Nat
      BY <2>1
    <3>6. m2 \in [1..k -> 1..(n + 1)]
      BY <2>7, <3>2, <3>5
    <3> HIDE DEF m2, k
    <3>7. ASSUME NEW i \in 1..k PROVE o2[i] = s[m2[i]] /\ Sendable(o2[i])
      <4>1. CASE i = k
        BY <2>9, <3>1, <3>4, <4>1 DEF x
      <4>2. CASE i # k
        BY <2>5, <3>1, <3>2, <3>4, <4>2
      <4> QED
        BY <4>1, <4>2
    <3>8. ASSUME NEW i \in 1..k, NEW j \in 1..k, m2[i] = m2[j] PROVE i = j
      <4>1. CASE i = k /\ j # k
        BY <2>1, <2>7, <3>2, <3>4, <3>8, <4>1
      <4>2. CASE i # k /\ j = k
        BY <2>1, <2>7, <3>2, <3>4, <3>8, <4>2
      <4>3. CASE i # k /\ j # k
        BY <2>5, <3>2, <3>4, <3>8, <4>3
      <4> QED
        BY <4>1, <4>2, <4>3
    <3>9. DrawnAs(s, n + 1, o2, k)
      BY <3>6, <3>7, <3>8 DEF DrawnAs
    <3>10. Drawn(s, n + 1, o2)
      BY <3>1, <3>9 DEF Drawn
    <3> QED
      BY <2>4, <2>9, <3>10 DEF o2
  <2> QED
    BY <2>8, <2>9
<1> HIDE DEF T
<1>9. T = Nat
  <2>1. T \in SUBSET Nat
    BY DEF T
  <2> QED
    BY <1>7, <1>8, <2>1, AllNumbers
<1>10. Drawn(s, Len(s), out[Len(s)])
  BY <1>2, <1>9 DEF T
<1> QED
  BY <1>1, <1>10
-----------------------------------------------------------------------------
(* The inductive invariant, and what it says of the variables.             *)

Requests == [kind : {"promise"}, id : Calls] \cup [kind : {"listen"}, id : Events]
Collected == [msg : Requests, timedOut : BOOLEAN]

\* Every variable has its type, a subscription is counted for every event in
\* the server's book, and nothing is on a connection that is lost.
Typed ==
    /\ start \in Starts
    /\ ready \in BOOLEAN /\ queued \in Seq(Ids)
    /\ promise \in [Calls -> {"unused", "resolved"} \cup Open \cup Rejected]
    /\ listening \in SUBSET Events /\ handler \in SUBSET Events
    /\ requested \in SUBSET Events
    /\ listens \in [Events -> 0..MaxListens[start]]
    /\ clientUp \in BOOLEAN /\ serverUp \in BOOLEAN /\ link \in BOOLEAN
    /\ toServer \in Seq(ToServer) /\ toClient \in Seq(ToClient)
    /\ registered \in BOOLEAN /\ flushDue \in BOOLEAN
    /\ pending \in Seq(Collected)
    /\ active \in SUBSET Ids /\ running \in SUBSET Calls
    /\ stopped \in SUBSET running
    /\ subs \in [Events -> Nat]

Counted == \A e \in Events : e \in active => subs[e] >= 1

Linked ==
    /\ link => serverUp
    /\ ~link => toServer = <<>>

\* The request of call c is the i-th message, the i-th collected.
SentAt(i, c) == toServer[i].kind = "promise" /\ toServer[i].id = c
HeldAt(i, c) == pending[i].msg.kind = "promise" /\ pending[i].msg.id = c
Waits(c) == \E i \in 1..Len(queued) : queued[i] = c
Sent(c) == \E i \in 1..Len(toServer) : SentAt(i, c)
Held(c) == \E i \in 1..Len(pending) : HeldAt(i, c)
WaitsOnce(c) == \A i, j \in 1..Len(queued) : queued[i] = c /\ queued[j] = c => i = j
SentOnce(c) == \A i, j \in 1..Len(toServer) : SentAt(i, c) /\ SentAt(j, c) => i = j

\* The request of a call is in one place at a time, once, and a call that
\* waits or was never made is in none of the places further down.
OncePlaced(c) ==
    /\ promise[c] = "unused" => ~Waits(c)
    /\ promise[c] = "unused" \/ Waits(c) => ~Sent(c) /\ ~Held(c) /\ c \notin running
    /\ Sent(c) => ~Held(c) /\ c \notin running
    /\ Held(c) => c \notin running
    /\ WaitsOnce(c) /\ SentOnce(c)

CallsOnce == \A c \in Calls : OncePlaced(c)

CallsBooked == serverUp => active \cap Calls = running \ stopped

\* A connection that began with the handshake done keeps it done.
Shaken ==
    start = "steady" =>
        /\ ready /\ queued = <<>>
        /\ registered /\ ~flushDue /\ pending = <<>>

\* The i-th message is about event e.
About(i, e) == toServer[i].kind \in {"listen", "dispose"} /\ toServer[i].id = e
NoneAbout(from, to, e) == \A k \in 1..Len(toServer) : from < k /\ k < to => ~About(k, e)

\* The messages about e take turns; the first tells what the server has, the
\* last what the client has.
InTurn(e) ==
    LET n == Len(toServer)
    IN  /\ NoneAbout(0, n + 1, e) => (e \in active <=> e \in listening)
        /\ \A i \in 1..n : About(i, e) /\ NoneAbout(0, i, e) =>
               (toServer[i].kind = "listen" <=> e \notin active)
        /\ \A i \in 1..n : About(i, e) /\ NoneAbout(i, n + 1, e) =>
               (toServer[i].kind = "listen" <=> e \in listening)
        /\ \A i, j \in 1..n :
               i < j /\ About(i, e) /\ About(j, e) /\ NoneAbout(i, j, e) =>
               toServer[i].kind # toServer[j].kind

ListensInTurn == start = "steady" /\ link => \A e \in Events : InTurn(e)

\* One subscription for an event in the server's book, none for another.
Subscribed ==
    start = "steady" /\ serverUp =>
        \A e \in Events : subs[e] = IF e \in active THEN 1 ELSE 0

CancelAt(k, c) == toServer[k].kind = "cancel" /\ toServer[k].id = c

\* The cancel of a call follows its request.
Followed(c) ==
    /\ \A i \in 1..Len(toServer) : SentAt(i, c) =>
           \E k \in 1..Len(toServer) : i < k /\ CancelAt(k, c)
    /\ c \in running /\ c \notin stopped =>
           \E k \in 1..Len(toServer) : CancelAt(k, c)

CancelFollows ==
    start = "steady" /\ link =>
        \A c \in Calls : promise[c] = "cancelled" => Followed(c)

IInv ==
    /\ Typed /\ Counted /\ Linked /\ CallsOnce /\ CallsBooked
    /\ Shaken /\ ListensInTurn /\ Subscribed /\ CancelFollows

-----------------------------------------------------------------------------
(* The helpers of the model.                                               *)

LEMMA RequestIsOne ==
    ASSUME NEW id \in Ids
    PROVE  /\ Request(id) \in Requests
           /\ Request(id).id = id
           /\ Request(id).kind = IF id \in Calls THEN "promise" ELSE "listen"
  BY DEF Request, Requests, Ids

LEMMA RequestsAreMessages ==
    /\ Requests \subseteq ToServer
    /\ \A m \in ToServer : m.kind \in {"promise", "listen"} <=> m \in Requests
    /\ \A m \in ToServer : m.id \in Ids
    /\ \A m \in ToServer : m.kind \in {"promise", "cancel"} <=> m.id \in Calls
    /\ \A m \in ToServer : m.kind \in {"listen", "dispose"} <=> m.id \in Events
    /\ \A m \in ToServer : m.kind \in {"promise", "cancel", "listen", "dispose"}
  BY ChannelRpcAssumption DEF Requests, ToServer, Ids

\* What is sent once Initialize came: the n messages of reqs.
Released(out, reqs, n, m) ==
    /\ n \in Nat /\ n = Len(out) /\ out \in Seq(Ids)
    /\ reqs \in Seq(Requests) /\ Len(reqs) = n
    /\ m \in [1..n -> 1..Len(queued)]
    /\ \A i \in 1..n : /\ out[i] = queued[m[i]] /\ Sendable(out[i])
                       /\ out[i] \in Ids
                       /\ reqs[i] = Request(out[i])
    /\ \A i, j \in 1..n : m[i] = m[j] => i = j
    /\ ToSet(out) = {out[i] : i \in 1..n}

LEMMA WhatIsReleased ==
    ASSUME queued \in Seq(Ids)
    PROVE  LET out == SentOf(queued)
               reqs == [i \in DOMAIN out |-> Request(out[i])]
           IN  \E m : Released(out, reqs, Len(out), m)
<1> DEFINE out == SentOf(queued)
           n == Len(out)
           reqs == [i \in DOMAIN out |-> Request(out[i])]
<1>1. Drawn(queued, Len(queued), out)
  BY SentIsDrawn
<1> HIDE DEF out
<1>2. out \in Seq(Ids)
  BY <1>1 DEF Drawn
<1>3. n \in Nat /\ DOMAIN out = 1..n
  BY <1>2
<1>4. PICK m \in [1..n -> 1..Len(queued)] :
          /\ \A i \in 1..n : out[i] = queued[m[i]] /\ Sendable(out[i])
          /\ \A i, j \in 1..n : m[i] = m[j] => i = j
  BY <1>1 DEF Drawn, DrawnAs
<1>5. \A i \in 1..n : out[i] \in Ids
  BY <1>2, <1>3
<1>6. reqs = [i \in 1..n |-> Request(out[i])]
  BY <1>3
<1>7. \A i \in 1..n : Request(out[i]) \in Requests
  BY <1>5, RequestIsOne
<1> HIDE DEF n
<1>8. reqs \in Seq(Requests) /\ Len(reqs) = n
  BY <1>3, <1>6, <1>7
<1>9. \A i \in 1..n : reqs[i] = Request(out[i])
  BY <1>6
<1>10. ToSet(out) = {out[i] : i \in 1..n}
  BY <1>3 DEF ToSet
<1>11. n = Len(out)
  BY DEF n
<1>12. Released(out, reqs, n, m)
  BY <1>2, <1>3, <1>4, <1>5, <1>8, <1>9, <1>10, <1>11 DEF Released
<1> QED
  BY <1>11, <1>12 DEF out

\* What serving requests does to the server's book.
LEMMA Served ==
    ASSUME subs \in [Events -> Nat], NEW msgs \in Seq(Requests), Serve(msgs)
    PROVE  /\ active' = active \cup {msgs[i].id : i \in 1..Len(msgs)}
           /\ running' = running \cup ({msgs[i].id : i \in 1..Len(msgs)} \cap Calls)
           /\ subs' \in [Events -> Nat]
           /\ \A e \in Events : subs'[e] >= subs[e]
           /\ \A e \in Events : \A i \in 1..Len(msgs) :
                  msgs[i].id = e => subs'[e] >= 1
<1>1. Len(msgs) \in Nat /\ DOMAIN msgs = 1..Len(msgs)
  OBVIOUS
<1>2. {m.id : m \in ToSet(msgs)} = {msgs[i].id : i \in 1..Len(msgs)}
  BY <1>1 DEF ToSet
<1> DEFINE at(e) == {i \in DOMAIN msgs : msgs[i].id = e}
<1>3. ASSUME NEW e \in Events
      PROVE  /\ Cardinality(at(e)) \in Nat
             /\ \A i \in 1..Len(msgs) : msgs[i].id = e => Cardinality(at(e)) >= 1
  <2>1. IsFiniteSet(1..Len(msgs))
    BY <1>1, FS_Interval
  <2>2. at(e) \subseteq 1..Len(msgs)
    BY <1>1
  <2>3. IsFiniteSet(at(e))
    BY <2>1, <2>2, FS_Subset
  <2>4. Cardinality(at(e)) \in Nat
    BY <2>3, FS_CardinalityType
  <2>5. ASSUME NEW i \in 1..Len(msgs), msgs[i].id = e PROVE Cardinality(at(e)) >= 1
    <3>1. at(e) # {}
      BY <1>1, <2>5
    <3>2. Cardinality(at(e)) # 0
      BY <2>3, <3>1, FS_EmptySet
    <3> HIDE DEF at
    <3> QED
      BY <2>4, <3>2
  <2> QED
    BY <2>4, <2>5
<1>4. subs' = [e \in Events |-> subs[e] + Cardinality(at(e))]
  BY DEF Serve
<1> HIDE DEF at
<1>5. \A e \in Events : subs[e] \in Nat /\ subs'[e] = subs[e] + Cardinality(at(e))
  BY <1>4
<1>6. subs' \in [Events -> Nat]
  BY <1>3, <1>4, <1>5
<1>7. ASSUME NEW e \in Events
      PROVE  /\ subs'[e] >= subs[e]
             /\ \A i \in 1..Len(msgs) : msgs[i].id = e => subs'[e] >= 1
  <2>1. subs'[e] = subs[e] + Cardinality(at(e)) /\ subs[e] \in Nat
    BY <1>5
  <2>2. Cardinality(at(e)) \in Nat
    BY <1>3
  <2>3. ASSUME NEW i \in 1..Len(msgs), msgs[i].id = e PROVE subs'[e] >= 1
    <3>1. Cardinality(at(e)) >= 1
      BY <1>3, <2>3
    <3> QED
      BY <2>1, <2>2, <3>1
  <2> QED
    BY <2>1, <2>2, <2>3
<1> QED
  BY <1>2, <1>6, <1>7 DEF Serve

\* One request served: one subscription more for its event.
LEMMA OneServed ==
    ASSUME subs \in [Events -> Nat], NEW m \in Requests, Serve(<<m>>)
    PROVE  /\ active' = active \cup {m.id}
           /\ running' = running \cup ({m.id} \cap Calls)
           /\ \A e \in Events : subs'[e] = IF m.id = e THEN subs[e] + 1 ELSE subs[e]
           /\ subs' \in [Events -> Nat]
<1> DEFINE msgs == <<m>>
<1>1. msgs \in Seq(Requests) /\ Len(msgs) = 1 /\ msgs[1] = m /\ DOMAIN msgs = {1}
  OBVIOUS
<1>2. Serve(msgs)
  OBVIOUS
<1>3. 1..Len(msgs) = {1}
  BY <1>1
<1> HIDE DEF msgs
<1>4. /\ active' = active \cup {msgs[i].id : i \in 1..Len(msgs)}
      /\ running' = running \cup ({msgs[i].id : i \in 1..Len(msgs)} \cap Calls)
      /\ subs' \in [Events -> Nat]
  BY <1>1, <1>2, Served
<1>5. {msgs[i].id : i \in 1..Len(msgs)} = {m.id}
  BY <1>1, <1>3
<1>6. \A e \in Events : subs'[e] = subs[e] + Cardinality({i \in DOMAIN msgs : msgs[i].id = e})
  BY <1>2 DEF Serve
<1>7. ASSUME NEW e \in Events
      PROVE  subs'[e] = IF m.id = e THEN subs[e] + 1 ELSE subs[e]
  <2>1. CASE m.id = e
    <3>1. {i \in DOMAIN msgs : msgs[i].id = e} = {1}
      BY <1>1, <2>1
    <3>2. Cardinality({1}) = 1
      BY FS_Singleton
    <3> QED
      BY <1>6, <2>1, <3>1, <3>2
  <2>2. CASE m.id # e
    <3>1. {i \in DOMAIN msgs : msgs[i].id = e} = {}
      BY <1>1, <2>2
    <3>2. Cardinality({}) = 0
      BY FS_EmptySet
    <3>3. subs[e] \in Nat
      OBVIOUS
    <3> QED
      BY <1>6, <2>2, <3>1, <3>2, <3>3
  <2> QED
    BY <2>1, <2>2
<1> QED
  BY <1>4, <1>5, <1>7

-----------------------------------------------------------------------------
(* How a step changes what is on the way to the server.                    *)

\* m was appended.
Grown(m) ==
    /\ Len(toServer') = Len(toServer) + 1
    /\ \A i \in 1..Len(toServer) : toServer'[i] = toServer[i]
    /\ toServer'[Len(toServer) + 1] = m

\* The first was taken.
Shrunk ==
    /\ Len(toServer) # 0
    /\ Len(toServer') = Len(toServer) - 1
    /\ \A i \in 1..(Len(toServer) - 1) : toServer'[i] = toServer[i + 1]

\* The n messages of reqs were appended.
GrownBy(reqs, n) ==
    /\ Len(toServer') = Len(toServer) + n
    /\ \A i \in 1..Len(toServer) : toServer'[i] = toServer[i]
    /\ \A i \in 1..n : toServer'[Len(toServer) + i] = reqs[i]

LEMMA OneSent ==
    ASSUME Typed, NEW m \in ToServer, SendToServer(<<m>>)
    PROVE  /\ toServer' \in Seq(ToServer)
           /\ ~link => toServer' = toServer
           /\ link => Grown(m)
<1>1. toServer \in Seq(ToServer) /\ link \in BOOLEAN
  BY DEF Typed
<1>2. CASE link
  <2>1. toServer' = toServer \o <<m>>
    BY <1>2 DEF SendToServer
  <2> QED
    BY <1>1, <1>2, <2>1 DEF Grown
<1>3. CASE ~link
  BY <1>1, <1>3 DEF SendToServer
<1> QED
  BY <1>2, <1>3

LEMMA ManySent ==
    ASSUME Typed, NEW reqs \in Seq(ToServer), SendToServer(reqs)
    PROVE  /\ toServer' \in Seq(ToServer)
           /\ ~link => toServer' = toServer
           /\ link => GrownBy(reqs, Len(reqs))
<1>1. toServer \in Seq(ToServer) /\ link \in BOOLEAN
  BY DEF Typed
<1>2. CASE link
  <2>1. toServer' = toServer \o reqs
    BY <1>2 DEF SendToServer
  <2> QED
    BY <1>1, <1>2, <2>1 DEF GrownBy
<1>3. CASE ~link
  BY <1>1, <1>3 DEF SendToServer
<1> QED
  BY <1>2, <1>3

LEMMA OneTaken ==
    ASSUME Typed, toServer # <<>>, toServer' = Tail(toServer)
    PROVE  /\ toServer' \in Seq(ToServer)
           /\ Head(toServer) = toServer[1] /\ Head(toServer) \in ToServer
           /\ Shrunk
<1>1. toServer \in Seq(ToServer)
  BY DEF Typed
<1> QED
  BY <1>1 DEF Shrunk

LEMMA OnTheWire ==
    ASSUME Typed
    PROVE  /\ Len(toServer) \in Nat
           /\ \A i \in 1..Len(toServer) : toServer[i] \in ToServer
           /\ Len(pending) \in Nat /\ DOMAIN pending = 1..Len(pending)
           /\ \A i \in 1..Len(pending) : /\ pending[i].msg \in Requests
                                         /\ pending[i].timedOut \in BOOLEAN
           /\ Len(queued) \in Nat
<1>1. toServer \in Seq(ToServer) /\ pending \in Seq(Collected) /\ queued \in Seq(Ids)
  BY DEF Typed
<1>2. \A i \in 1..Len(pending) : pending[i] \in Collected
  BY <1>1
<1> QED
  BY <1>1, <1>2 DEF Collected

\* What was sent for Initialize, in one piece.
LEMMA InitializedSends ==
    ASSUME Typed, Initialized
    PROVE  \E out, reqs, m :
               /\ Released(out, reqs, Len(out), m)
               /\ promise' = [c \in Calls |-> IF c \in ToSet(out) THEN "sent" ELSE promise[c]]
               /\ requested' = requested \cup (ToSet(out) \cap Events)
               /\ toServer' \in Seq(ToServer)
               /\ ~link => toServer' = toServer
               /\ link => GrownBy(reqs, Len(out))
<1> DEFINE out == SentOf(queued)
           reqs == [i \in DOMAIN out |-> Request(out[i])]
<1>1. queued \in Seq(Ids)
  BY DEF Typed
<1>2. PICK m : Released(out, reqs, Len(out), m)
  BY <1>1, WhatIsReleased
<1>3. SendToServer(reqs)
  BY DEF Initialized
<1>4. /\ promise' = [c \in Calls |-> IF c \in ToSet(out) THEN "sent" ELSE promise[c]]
      /\ requested' = requested \cup (ToSet(out) \cap Events)
  BY DEF Initialized
<1> HIDE DEF out, reqs
<1>5. reqs \in Seq(Requests) /\ Len(reqs) = Len(out)
  BY <1>2 DEF Released
<1>6. reqs \in Seq(ToServer)
  BY <1>5, RequestsAreMessages
<1>7. /\ toServer' \in Seq(ToServer)
      /\ ~link => toServer' = toServer
      /\ link => GrownBy(reqs, Len(reqs))
  BY <1>3, <1>6, ManySent
<1> QED
  BY <1>2, <1>4, <1>5, <1>7

-----------------------------------------------------------------------------
(* Types: one lemma for each action.                                       *)

Kept == start' = start

LEMMA TypedInit == Init => Typed /\ Counted
<1> SUFFICES ASSUME Init PROVE Typed /\ Counted
  OBVIOUS
<1>1. start \in Starts /\ MaxListens[start] \in Nat
  BY ChannelRpcAssumption DEF Init
<1>2. listens \in [Events -> 0..MaxListens[start]]
  BY <1>1 DEF Init
<1>3. toClient \in Seq(ToClient)
  <2>1. [kind |-> "init"] \in ToClient
    BY DEF ToClient
  <2> QED
    BY <2>1 DEF Init
<1>4. promise \in [Calls -> {"unused", "resolved"} \cup Open \cup Rejected]
  BY DEF Init
<1>5. subs \in [Events -> Nat]
  BY DEF Init
<1>6. /\ toServer \in Seq(ToServer) /\ pending \in Seq(Collected) /\ queued \in Seq(Ids)
  BY DEF Init
<1>7. Typed
  BY <1>1, <1>2, <1>3, <1>4, <1>5, <1>6 DEF Init, Typed
<1> QED
  BY <1>7 DEF Counted, Init

LEMMA TypedCall ==
    ASSUME Typed, Counted, Kept, NEW c \in Calls, Call(c)
    PROVE  Typed' /\ Counted'
<1>1. c \in Ids
  BY DEF Ids
<1>2. promise' \in [Calls -> {"unused", "resolved"} \cup Open \cup Rejected]
  BY DEF Typed, Call, Open
<1>3. queued' \in Seq(Ids)
  <2>1. queued \in Seq(Ids) /\ Append(queued, c) \in Seq(Ids)
    BY <1>1 DEF Typed
  <2>2. queued' = queued \/ queued' = Append(queued, c)
    BY DEF Call
  <2> QED
    BY <2>1, <2>2
<1>4. toServer' \in Seq(ToServer)
  <2>1. Request(c) \in ToServer
    BY <1>1, RequestIsOne, RequestsAreMessages
  <2>2. CASE ready
    BY <2>1, <2>2, OneSent DEF Call
  <2>3. CASE ~ready
    BY <2>3 DEF Call, Typed
  <2> QED
    BY <2>2, <2>3
<1>5. Typed'
  BY <1>2, <1>3, <1>4 DEF Typed, Call, server, Kept
<1> QED
  BY <1>5 DEF Counted, Call, server

LEMMA TypedCancel ==
    ASSUME Typed, Counted, Kept, NEW c \in Calls, Cancel(c)
    PROVE  Typed' /\ Counted'
<1>1. [kind |-> "cancel", id |-> c] \in ToServer
  BY DEF ToServer
<1>2. toServer' \in Seq(ToServer)
  BY <1>1, OneSent DEF Cancel
<1>3. promise' \in [Calls -> {"unused", "resolved"} \cup Open \cup Rejected]
  BY DEF Typed, Cancel, Rejected
<1>4. Typed'
  BY <1>2, <1>3 DEF Typed, Cancel, server, Kept
<1> QED
  BY <1>4 DEF Counted, Cancel, server

LEMMA TypedAddListener ==
    ASSUME Typed, Counted, Kept, NEW e \in Events, AddListener(e)
    PROVE  Typed' /\ Counted'
<1>1. e \in Ids
  BY DEF Ids
<1>2. listens' \in [Events -> 0..MaxListens[start]]
  <2>1. MaxListens[start] \in Nat
    BY ChannelRpcAssumption DEF Typed
  <2>2. listens[e] \in 0..MaxListens[start] /\ listens[e] < MaxListens[start]
    BY DEF Typed, AddListener
  <2>3. listens[e] + 1 \in 0..MaxListens[start]
    BY <2>1, <2>2
  <2> QED
    BY <2>3 DEF Typed, AddListener
<1>3. queued' \in Seq(Ids)
  <2>1. queued \in Seq(Ids) /\ Append(queued, e) \in Seq(Ids)
    BY <1>1 DEF Typed
  <2>2. queued' = queued \/ queued' = Append(queued, e)
    BY DEF AddListener
  <2> QED
    BY <2>1, <2>2
<1>4. toServer' \in Seq(ToServer)
  <2>1. Request(e) \in ToServer
    BY <1>1, RequestIsOne, RequestsAreMessages
  <2>2. CASE ready
    BY <2>1, <2>2, OneSent DEF AddListener
  <2>3. CASE ~ready
    BY <2>3 DEF AddListener, Typed
  <2> QED
    BY <2>2, <2>3
<1>5. listening' \in SUBSET Events /\ requested' \in SUBSET Events
  BY DEF Typed, AddListener
<1>6. Typed'
  BY <1>2, <1>3, <1>4, <1>5 DEF Typed, AddListener, server, Kept
<1> QED
  BY <1>6 DEF Counted, AddListener, server

LEMMA TypedRemoveListener ==
    ASSUME Typed, Counted, Kept, NEW e \in Events, RemoveListener(e)
    PROVE  Typed' /\ Counted'
<1>1. [kind |-> "dispose", id |-> e] \in ToServer
  BY DEF ToServer
<1>2. toServer' \in Seq(ToServer)
  BY <1>1, OneSent DEF RemoveListener
<1>3. /\ listening' \in SUBSET Events /\ requested' \in SUBSET Events
      /\ handler' \in SUBSET Events
  BY DEF Typed, RemoveListener
<1>4. Typed'
  BY <1>2, <1>3 DEF Typed, RemoveListener, server, Kept
<1> QED
  BY <1>4 DEF Counted, RemoveListener, server

LEMMA TypedInitialized ==
    ASSUME Typed, Counted, Kept, Initialized
    PROVE  Typed' /\ Counted'
<1>1. PICK out, reqs, m :
          /\ Released(out, reqs, Len(out), m)
          /\ promise' = [c \in Calls |-> IF c \in ToSet(out) THEN "sent" ELSE promise[c]]
          /\ requested' = requested \cup (ToSet(out) \cap Events)
          /\ toServer' \in Seq(ToServer)
          /\ ~link => toServer' = toServer
          /\ link => GrownBy(reqs, Len(out))
  BY InitializedSends
<1>2. promise' \in [Calls -> {"unused", "resolved"} \cup Open \cup Rejected]
  BY <1>1 DEF Typed, Open
<1>3. toClient' \in Seq(ToClient)
  BY DEF Typed, Initialized
<1>4. requested' \in SUBSET Events
  BY <1>1 DEF Typed
<1>5. queued' \in Seq(Ids) /\ ready' \in BOOLEAN
  BY DEF Initialized
<1>6. Typed'
  BY <1>1, <1>2, <1>3, <1>4, <1>5 DEF Typed, Initialized, server, Kept
<1> QED
  BY <1>6 DEF Counted, Initialized, server

LEMMA TypedReceiveAnswer ==
    ASSUME Typed, Counted, Kept, ReceiveAnswer
    PROVE  Typed' /\ Counted'
<1>1. toClient' \in Seq(ToClient)
  BY DEF Typed, ReceiveAnswer
<1>2. promise' \in [Calls -> {"unused", "resolved"} \cup Open \cup Rejected]
  BY DEF Typed, ReceiveAnswer, Rejected
<1>3. Typed'
  BY <1>1, <1>2 DEF Typed, ReceiveAnswer, server, Kept
<1> QED
  BY <1>3 DEF Counted, ReceiveAnswer, server

LEMMA TypedDisposeClient ==
    ASSUME Typed, Counted, Kept, DisposeClient
    PROVE  Typed' /\ Counted'
<1>1. promise' \in [Calls -> {"unused", "resolved"} \cup Open \cup Rejected]
  BY DEF Typed, DisposeClient, Rejected
<1>2. listening' \in SUBSET Events /\ requested' \in SUBSET Events /\ queued' \in Seq(Ids)
  BY DEF Typed, DisposeClient
<1>3. Typed'
  BY <1>1, <1>2 DEF Typed, DisposeClient, server, wire, Kept
<1> QED
  BY <1>3 DEF Counted, DisposeClient, server

LEMMA TypedReceiveRequest ==
    ASSUME Typed, Counted, Kept, ReceiveRequest
    PROVE  Typed' /\ Counted'
<1> DEFINE m == Head(toServer)
<1>1. /\ toServer' \in Seq(ToServer) /\ m \in ToServer
  BY OneTaken DEF ReceiveRequest
<1>2. m \in Requests /\ m.id \in Ids
  BY <1>1, RequestsAreMessages DEF ReceiveRequest
<1>3. CASE registered
  <2>1. Serve(<<m>>) /\ pending' = pending
    BY <1>3 DEF ReceiveRequest
  <2>2. subs \in [Events -> Nat]
    BY DEF Typed
  <2> HIDE DEF m
  <2>3. /\ active' = active \cup {m.id}
        /\ running' = running \cup ({m.id} \cap Calls)
        /\ \A e \in Events : subs'[e] = IF m.id = e THEN subs[e] + 1 ELSE subs[e]
        /\ subs' \in [Events -> Nat]
    BY <1>2, <2>1, <2>2, OneServed
  <2>4. active' \in SUBSET Ids /\ running' \in SUBSET Calls /\ stopped' \in SUBSET running'
    BY <1>2, <2>3 DEF Typed, ReceiveRequest
  <2>5. Typed'
    BY <1>1, <2>1, <2>3, <2>4 DEF Typed, ReceiveRequest, client, Kept
  <2>6. ASSUME NEW e \in Events, e \in active' PROVE subs'[e] >= 1
    <3>1. subs[e] \in Nat
      BY <2>2
    <3>2. CASE m.id = e
      <4>1. subs'[e] = subs[e] + 1
        BY <2>3, <3>2
      <4> QED
        BY <3>1, <4>1
    <3>3. CASE m.id # e
      <4>1. subs'[e] = subs[e] /\ e \in active
        BY <2>3, <2>6, <3>3
      <4> QED
        BY <3>1, <4>1 DEF Counted
    <3> QED
      BY <3>2, <3>3
  <2> QED
    BY <2>5, <2>6 DEF Counted
<1>4. CASE ~registered
  <2>1. [msg |-> m, timedOut |-> FALSE] \in Collected
    BY <1>2 DEF Collected
  <2>2. pending' = Append(pending, [msg |-> m, timedOut |-> FALSE])
    BY <1>4 DEF ReceiveRequest
  <2>3. pending' \in Seq(Collected)
    BY <2>1, <2>2 DEF Typed
  <2>4. Typed'
    BY <1>1, <1>4, <2>3 DEF Typed, ReceiveRequest, client, Kept
  <2> QED
    BY <1>4, <2>4 DEF Counted, ReceiveRequest
<1> QED
  BY <1>3, <1>4 DEF Typed

LEMMA TypedReceiveDispose ==
    ASSUME Typed, Counted, Kept, ReceiveDispose
    PROVE  Typed' /\ Counted'
<1> DEFINE ids == {Head(toServer).id} \cap active
<1>1. toServer' \in Seq(ToServer)
  BY OneTaken DEF ReceiveDispose
<1>2. /\ active' = active \ ids
      /\ stopped' = stopped \cup (ids \cap running)
      /\ subs' = [e \in Events |-> IF e \in ids THEN subs[e] - 1 ELSE subs[e]]
  BY DEF ReceiveDispose
<1>3. \A e \in ids : e \in active
  OBVIOUS
<1> HIDE DEF ids
<1>4. ASSUME NEW e \in Events
      PROVE (IF e \in ids THEN subs[e] - 1 ELSE subs[e]) \in Nat
  <2>1. subs[e] \in Nat
    BY DEF Typed
  <2>2. CASE e \in ids
    <3>1. subs[e] >= 1
      BY <1>3, <2>2 DEF Counted
    <3> QED
      BY <2>1, <2>2, <3>1
  <2> QED
    BY <2>1, <2>2
<1>5. subs' \in [Events -> Nat]
  BY <1>2, <1>4
<1>6. /\ active' \in SUBSET Ids /\ stopped' \in SUBSET running'
      /\ running' = running
  BY <1>2 DEF Typed, ReceiveDispose
<1>7. Typed'
  BY <1>1, <1>5, <1>6 DEF Typed, ReceiveDispose, client, Kept
<1>8. ASSUME NEW e \in Events, e \in active' PROVE subs'[e] >= 1
  <2>1. e \in active /\ e \notin ids
    BY <1>2, <1>8
  <2>2. subs'[e] = subs[e]
    BY <1>2, <2>1
  <2> QED
    BY <2>1, <2>2 DEF Counted
<1> QED
  BY <1>7, <1>8 DEF Counted

LEMMA TypedRegisterChannel ==
    ASSUME Typed, Counted, Kept, RegisterChannel
    PROVE  Typed' /\ Counted'
<1>1. Typed'
  BY DEF Typed, RegisterChannel, client, wire, Kept
<1> QED
  BY <1>1 DEF Counted, RegisterChannel

\* What FlushPending serves.
LEMMA WhatIsFlushed ==
    ASSUME Typed, FlushPending
    PROVE  /\ active' = active \cup {pending[i].msg.id : i \in 1..Len(pending)}
           /\ running' = running \cup ({pending[i].msg.id : i \in 1..Len(pending)} \cap Calls)
           /\ subs' \in [Events -> Nat]
           /\ \A e \in Events : subs'[e] >= subs[e]
           /\ \A e \in Events : \A i \in 1..Len(pending) :
                  pending[i].msg.id = e => subs'[e] >= 1
<1> DEFINE msgs == [i \in DOMAIN pending |-> pending[i].msg]
           n == Len(pending)
<1>1. n \in Nat /\ DOMAIN pending = 1..n /\ \A i \in 1..n : pending[i].msg \in Requests
  BY OnTheWire
<1>2. msgs = [i \in 1..n |-> pending[i].msg]
  BY <1>1
<1>3. Serve(msgs)
  BY Zenon DEF FlushPending
<1> HIDE DEF n, msgs
<1>4. msgs \in Seq(Requests) /\ Len(msgs) = n /\ \A i \in 1..n : msgs[i] = pending[i].msg
  BY <1>1, <1>2
<1>5. subs \in [Events -> Nat]
  BY DEF Typed
<1>6. /\ active' = active \cup {msgs[i].id : i \in 1..Len(msgs)}
      /\ running' = running \cup ({msgs[i].id : i \in 1..Len(msgs)} \cap Calls)
      /\ subs' \in [Events -> Nat]
      /\ \A e \in Events : subs'[e] >= subs[e]
      /\ \A e \in Events : \A i \in 1..Len(msgs) :
             msgs[i].id = e => subs'[e] >= 1
  BY <1>3, <1>4, <1>5, Served
<1>7. {msgs[i].id : i \in 1..Len(msgs)} = {pending[i].msg.id : i \in 1..n}
  BY <1>4
<1> QED
  BY <1>4, <1>6, <1>7 DEF n

LEMMA TypedFlushPending ==
    ASSUME Typed, Counted, Kept, FlushPending
    PROVE  Typed' /\ Counted'
<1> DEFINE ids == {pending[i].msg.id : i \in 1..Len(pending)}
<1>1. /\ active' = active \cup ids
      /\ running' = running \cup (ids \cap Calls)
      /\ subs' \in [Events -> Nat]
      /\ \A e \in Events : subs'[e] >= subs[e]
      /\ \A e \in Events : \A i \in 1..Len(pending) :
             pending[i].msg.id = e => subs'[e] >= 1
  BY WhatIsFlushed
<1>2. ids \in SUBSET Ids
  <2>1. \A i \in 1..Len(pending) : pending[i].msg.id \in Ids
    BY OnTheWire, RequestsAreMessages
  <2> QED
    BY <2>1
<1>3. \A e \in ids : \E i \in 1..Len(pending) : pending[i].msg.id = e
  OBVIOUS
<1> HIDE DEF ids
<1>4. active' \in SUBSET Ids /\ running' \in SUBSET Calls /\ stopped' \in SUBSET running'
  BY <1>1, <1>2 DEF Typed, FlushPending
<1>5. pending' \in Seq(Collected) /\ flushDue' \in BOOLEAN
  <2>1. <<>> \in Seq(Collected)
    OBVIOUS
  <2>2. pending' = <<>> /\ flushDue' = FALSE
    BY DEF FlushPending
  <2> QED
    BY <2>1, <2>2, Zenon
<1>6. Typed'
  BY <1>1, <1>4, <1>5 DEF Typed, FlushPending, client, wire, Kept
<1>7. ASSUME NEW e \in Events, e \in active' PROVE subs'[e] >= 1
  <2>1. subs[e] \in Nat /\ subs'[e] \in Nat /\ subs'[e] >= subs[e]
    BY <1>1 DEF Typed
  <2>2. CASE e \in active
    <3>1. subs[e] >= 1
      BY <2>2 DEF Counted
    <3> QED
      BY <2>1, <3>1
  <2>3. CASE e \in ids
    BY <1>1, <1>3, <2>3
  <2> QED
    BY <1>1, <1>7, <2>2, <2>3
<1> QED
  BY <1>6, <1>7 DEF Counted

LEMMA AnswerSent ==
    ASSUME Typed, NEW msgs \in Seq(ToClient), SendToClient(msgs)
    PROVE  toClient' \in Seq(ToClient)
<1>1. toClient \o msgs \in Seq(ToClient)
  BY DEF Typed
<1> QED
  BY <1>1 DEF SendToClient, Typed

LEMMA TypedTimerFires ==
    ASSUME Typed, Counted, Kept, NEW i \in DOMAIN pending, TimerFires(i)
    PROVE  Typed' /\ Counted'
<1> DEFINE p == pending[i]
           answer == IF p.msg.kind = "promise"
                     THEN <<[kind |-> "error", id |-> p.msg.id]>> ELSE <<>>
<1>1. i \in 1..Len(pending) /\ p.msg \in Requests /\ p \in Collected
  BY OnTheWire DEF Typed
<1>2. answer \in Seq(ToClient)
  <2>1. p.msg.kind = "promise" => p.msg.id \in Calls
    BY <1>1, RequestsAreMessages
  <2>2. p.msg.kind = "promise" => [kind |-> "error", id |-> p.msg.id] \in ToClient
    BY <2>1 DEF ToClient
  <2> HIDE DEF p
  <2> QED
    BY <2>2
<1>3. toClient' \in Seq(ToClient)
  <2>1. SendToClient(answer)
    BY DEF TimerFires
  <2> HIDE DEF answer
  <2> QED
    BY <1>2, <2>1, AnswerSent
<1>4. [p EXCEPT !.timedOut = TRUE] \in Collected
  BY <1>1 DEF Collected
<1>5. pending' = [pending EXCEPT ![i] = [p EXCEPT !.timedOut = TRUE]]
  BY DEF TimerFires
<1> HIDE DEF p
<1>6. pending' \in Seq(Collected)
  BY <1>1, <1>4, <1>5 DEF Typed
<1>7. Typed'
  BY <1>3, <1>6 DEF Typed, TimerFires, client, Kept
<1> QED
  BY <1>7 DEF Counted, TimerFires

LEMMA TypedCallEnds ==
    ASSUME Typed, Counted, Kept, NEW c \in Calls, CallEnds(c)
    PROVE  Typed' /\ Counted'
<1>1. PICK kind \in {"ok", "error"} : SendToClient(<<[kind |-> kind, id |-> c]>>)
  BY DEF CallEnds
<1>2. <<[kind |-> kind, id |-> c]>> \in Seq(ToClient)
  <2>1. [kind |-> kind, id |-> c] \in ToClient
    BY DEF ToClient
  <2> QED
    BY <2>1
<1>3. toClient' \in Seq(ToClient)
  BY <1>1, <1>2, AnswerSent
<1>4. /\ active' \in SUBSET Ids /\ running' \in SUBSET Calls /\ stopped' \in SUBSET running'
  BY DEF Typed, CallEnds
<1>5. Typed'
  BY <1>3, <1>4 DEF Typed, CallEnds, client, Kept
<1> QED
  BY <1>5 DEF Counted, CallEnds

LEMMA TypedEventFires ==
    ASSUME Typed, Counted, Kept, NEW e \in Events, EventFires(e)
    PROVE  Typed' /\ Counted'
<1>1. <<[kind |-> "fire", id |-> e]>> \in Seq(ToClient)
  <2>1. [kind |-> "fire", id |-> e] \in ToClient
    BY DEF ToClient
  <2> QED
    BY <2>1
<1>2. toClient' \in Seq(ToClient)
  BY <1>1, AnswerSent DEF EventFires
<1>3. Typed'
  BY <1>2 DEF Typed, EventFires, client, server, Kept
<1> QED
  BY <1>3 DEF Counted, EventFires, server

LEMMA TypedDisposeServer ==
    ASSUME Typed, Counted, Kept, DisposeServer
    PROVE  Typed' /\ Counted'
<1>1. subs' \in [Events -> Nat]
  <2>1. ASSUME NEW e \in Events
        PROVE (IF e \in active THEN subs[e] - 1 ELSE subs[e]) \in Nat
    <3>1. subs[e] \in Nat
      BY DEF Typed
    <3>2. e \in active => subs[e] >= 1
      BY DEF Counted
    <3> QED
      BY <3>1, <3>2
  <2> QED
    BY <2>1 DEF DisposeServer
<1>2. active' \in SUBSET Ids /\ stopped' \in SUBSET running'
  BY DEF Typed, DisposeServer
<1>3. Typed'
  BY <1>1, <1>2 DEF Typed, DisposeServer, client, wire, Kept
<1> QED
  BY <1>3 DEF Counted, DisposeServer

LEMMA TypedLoseConnection ==
    ASSUME Typed, Counted, Kept, LoseConnection
    PROVE  Typed' /\ Counted'
<1>1. toServer' \in Seq(ToServer) /\ toClient' \in Seq(ToClient) /\ link' \in BOOLEAN
  <2>1. <<>> \in Seq(ToServer) /\ <<>> \in Seq(ToClient)
    OBVIOUS
  <2>2. toServer' = <<>> /\ toClient' = <<>> /\ link' = FALSE
    BY DEF LoseConnection
  <2> QED
    BY <2>1, <2>2, Zenon
<1>2. Typed'
  BY <1>1 DEF Typed, LoseConnection, client, server, Kept
<1> QED
  BY <1>2 DEF Counted, LoseConnection, server

LEMMA TypedStep ==
    ASSUME Typed, Counted, [Next]_vars
    PROVE  Typed' /\ Counted'
<1>1. CASE UNCHANGED vars
  BY <1>1 DEF Typed, Counted, vars, moving, client, wire, server
<1>2. CASE Next
  <2>1. Kept
    BY <1>2 DEF Next, Kept
  <2> QED
    BY <1>2, <2>1, TypedCall, TypedCancel, TypedCallEnds, TypedAddListener,
       TypedRemoveListener, TypedEventFires, TypedInitialized, TypedReceiveAnswer,
       TypedDisposeClient, TypedReceiveRequest, TypedReceiveDispose,
       TypedRegisterChannel, TypedFlushPending, TypedTimerFires,
       TypedDisposeServer, TypedLoseConnection
    DEF Next
<1> QED
  BY <1>1, <1>2

-----------------------------------------------------------------------------
(* The connection, and the calls on it.                                    *)

LEMMA LinkedStep ==
    ASSUME Typed, Linked, [Next]_vars
    PROVE  Linked'
<1>1. CASE UNCHANGED vars
  BY <1>1 DEF Linked, vars, moving, wire, server
<1>2. CASE Next
  <2>1. \A c \in Calls : Call(c) => Linked'
    BY DEF Linked, Call, SendToServer, server
  <2>2. \A c \in Calls : Cancel(c) => Linked'
    BY DEF Linked, Cancel, SendToServer, server
  <2>3. \A c \in Calls : CallEnds(c) => Linked'
    BY DEF Linked, CallEnds
  <2>4. \A e \in Events : AddListener(e) => Linked'
    BY DEF Linked, AddListener, SendToServer, server
  <2>5. \A e \in Events : RemoveListener(e) => Linked'
    BY DEF Linked, RemoveListener, SendToServer, server
  <2>6. \A e \in Events : EventFires(e) => Linked'
    BY DEF Linked, EventFires, server
  <2>7. Initialized => Linked'
    <3> SUFFICES ASSUME Initialized PROVE Linked'
      OBVIOUS
    <3>1. ~link => toServer' = toServer
      BY DEF Initialized, SendToServer
    <3> QED
      BY <3>1 DEF Linked, Initialized, server
  <2>8. ReceiveAnswer => Linked'
    BY DEF Linked, ReceiveAnswer, server
  <2>9. DisposeClient => Linked'
    BY DEF Linked, DisposeClient, wire, server
  <2>10. ReceiveRequest => Linked'
    BY DEF Linked, ReceiveRequest
  <2>11. ReceiveDispose => Linked'
    BY DEF Linked, ReceiveDispose
  <2>12. RegisterChannel => Linked'
    BY DEF Linked, RegisterChannel, wire
  <2>13. FlushPending => Linked'
    BY DEF Linked, FlushPending, wire
  <2>14. \A i \in DOMAIN pending : TimerFires(i) => Linked'
    BY DEF Linked, TimerFires
  <2>15. DisposeServer => Linked'
    BY DEF Linked, DisposeServer, wire
  <2>16. LoseConnection => Linked'
    BY DEF Linked, LoseConnection, server
  <2> QED
    BY <1>2, <2>1, <2>2, <2>3, <2>4, <2>5, <2>6, <2>7, <2>8, <2>9, <2>10,
       <2>11, <2>12, <2>13, <2>14, <2>15, <2>16 DEF Next
<1> QED
  BY <1>1, <1>2

\* A step that puts call c nowhere new.
LEMMA OncePlacedKept ==
    ASSUME NEW c \in Calls, OncePlaced(c),
           promise'[c] = "unused" => promise[c] = "unused",
           Waits(c)' => Waits(c), Sent(c)' => Sent(c), Held(c)' => Held(c),
           c \in running' => c \in running,
           WaitsOnce(c)', SentOnce(c)'
    PROVE  OncePlaced(c)'
  BY DEF OncePlaced

LEMMA SentStays ==
    ASSUME NEW c \in Calls, OncePlaced(c), toServer' = toServer
    PROVE  (Sent(c)' <=> Sent(c)) /\ SentOnce(c)'
<1>1. SentOnce(c)
  BY DEF OncePlaced
<1> QED
  BY <1>1 DEF Sent, SentOnce, SentAt

LEMMA SentGrows ==
    ASSUME Typed, NEW c \in Calls, OncePlaced(c), NEW m \in ToServer,
           toServer' = toServer \/ Grown(m),
           m.kind # "promise" \/ m.id # c
    PROVE  (Sent(c)' => Sent(c)) /\ SentOnce(c)'
<1>1. CASE toServer' = toServer
  BY <1>1, SentStays
<1>2. CASE Grown(m)
  <2>1. Len(toServer) \in Nat
    BY OnTheWire
  <2>2. \A i \in 1..Len(toServer)' : i \in 1..Len(toServer) \/ i = Len(toServer) + 1
    BY <1>2, <2>1 DEF Grown
  <2>3. \A i \in 1..Len(toServer)' : SentAt(i, c)' =>
            i \in 1..Len(toServer) /\ SentAt(i, c)
    BY <1>2, <2>1, <2>2 DEF Grown, SentAt
  <2>4. SentOnce(c)
    BY DEF OncePlaced
  <2> QED
    BY <2>3, <2>4 DEF Sent, SentOnce
<1> QED
  BY <1>1, <1>2

LEMMA SentShrinks ==
    ASSUME Typed, NEW c \in Calls, OncePlaced(c), Shrunk
    PROVE  /\ Sent(c)' => Sent(c)
           /\ SentOnce(c)'
           /\ SentAt(1, c) => ~Sent(c)' /\ Sent(c)
<1>1. Len(toServer) \in Nat
  BY OnTheWire
<1>2. \A i \in 1..Len(toServer)' :
          /\ i \in Nat /\ i + 1 \in 1..Len(toServer) /\ i + 1 # 1
          /\ toServer'[i] = toServer[i + 1]
  BY <1>1 DEF Shrunk
<1>3. \A i \in 1..Len(toServer)' : SentAt(i, c)' =>
          i \in Nat /\ i + 1 \in 1..Len(toServer) /\ i + 1 # 1 /\ SentAt(i + 1, c)
  BY <1>2 DEF SentAt
<1>4. SentOnce(c)
  BY DEF OncePlaced
<1>5. Sent(c)' => Sent(c)
  BY <1>3 DEF Sent
<1>6. ASSUME NEW i \in 1..Len(toServer)', NEW j \in 1..Len(toServer)',
             SentAt(i, c)', SentAt(j, c)'
      PROVE  i = j
  <2>1. i + 1 = j + 1 /\ i \in Nat /\ j \in Nat
    BY <1>3, <1>4, <1>6 DEF SentOnce
  <2> QED
    BY <2>1
<1>7. SentOnce(c)'
  BY <1>6 DEF SentOnce
<1>8. 1 \in 1..Len(toServer)
  BY <1>1 DEF Shrunk
<1>9. SentAt(1, c) => ~Sent(c)' /\ Sent(c)
  BY <1>3, <1>4, <1>8 DEF Sent, SentOnce
<1> QED
  BY <1>5, <1>7, <1>9

LEMMA WaitStays ==
    ASSUME NEW c \in Calls, OncePlaced(c), queued' = queued
    PROVE  (Waits(c)' <=> Waits(c)) /\ WaitsOnce(c)'
<1>1. WaitsOnce(c)
  BY DEF OncePlaced
<1> QED
  BY <1>1 DEF Waits, WaitsOnce

LEMMA WaitGrows ==
    ASSUME Typed, NEW c \in Calls, OncePlaced(c), NEW id \in Ids,
           queued' = Append(queued, id)
    PROVE  /\ id # c => (Waits(c)' => Waits(c)) /\ WaitsOnce(c)'
           /\ ~Waits(c) => WaitsOnce(c)'
<1>1. queued \in Seq(Ids) /\ Len(queued) \in Nat
  BY DEF Typed
<1>2. /\ Len(queued)' = Len(queued) + 1
      /\ queued'[Len(queued) + 1] = id
      /\ \A i \in 1..Len(queued) : queued'[i] = queued[i]
  BY <1>1
<1>3. \A i \in 1..Len(queued)' : \/ i \in 1..Len(queued) /\ queued'[i] = queued[i]
                                 \/ i = Len(queued) + 1 /\ queued'[i] = id
  <2>1. \A i \in 1..(Len(queued) + 1) : i \in 1..Len(queued) \/ i = Len(queued) + 1
    BY <1>1
  <2> QED
    BY <1>2, <2>1
<1>4. WaitsOnce(c)
  BY DEF OncePlaced
<1> QED
  BY <1>3, <1>4 DEF Waits, WaitsOnce

LEMMA WaitEnds ==
    ASSUME NEW c \in Calls, queued' = <<>>
    PROVE  ~Waits(c)' /\ WaitsOnce(c)'
<1>1. Len(queued)' = 0
  OBVIOUS
<1> QED
  BY <1>1 DEF Waits, WaitsOnce

LEMMA HeldStays ==
    ASSUME NEW c \in Calls, pending' = pending
    PROVE  Held(c)' <=> Held(c)
  BY DEF Held, HeldAt

LEMMA OnceCall ==
    ASSUME Typed, NEW c \in Calls, OncePlaced(c), NEW c0 \in Calls, Call(c0)
    PROVE  OncePlaced(c)'
<1>1. c0 \in Ids /\ Request(c0) \in ToServer /\ Request(c0).id = c0
  BY RequestIsOne, RequestsAreMessages DEF Ids
<1>2. /\ pending' = pending /\ running' = running
      /\ promise' = [promise EXCEPT ![c0] = "sent"] \/ promise' = [promise EXCEPT ![c0] = "waiting"]
  BY DEF Call, server
<1>3. (Held(c)' <=> Held(c))
  BY <1>2, HeldStays
<1>4. \/ toServer' = toServer /\ queued' = Append(queued, c0)
      \/ (toServer' = toServer \/ Grown(Request(c0))) /\ queued' = queued
  <2>1. CASE ready
    <3>1. SendToServer(<<Request(c0)>>) /\ queued' = queued
      BY <2>1 DEF Call
    <3>2. link \in BOOLEAN
      BY DEF Typed
    <3> QED
      BY <1>1, <3>1, <3>2, OneSent
  <2>2. CASE ~ready
    BY <2>2 DEF Call
  <2> QED
    BY <2>1, <2>2
<1>5. CASE c # c0
  <2>1. promise'[c] = promise[c]
    BY <1>2, <1>5 DEF Typed
  <2>2. (Waits(c)' => Waits(c)) /\ WaitsOnce(c)'
    BY <1>1, <1>4, <1>5, WaitStays, WaitGrows
  <2>3. (Sent(c)' => Sent(c)) /\ SentOnce(c)'
    BY <1>1, <1>4, <1>5, SentGrows, SentStays
  <2> QED
    BY <1>2, <1>3, <2>1, <2>2, <2>3, OncePlacedKept
<1>6. CASE c = c0
  <2>1. promise[c] = "unused" /\ promise'[c] # "unused"
    BY <1>2, <1>6 DEF Typed, Call
  <2>2. ~Waits(c) /\ ~Sent(c) /\ ~Held(c) /\ c \notin running
    BY <2>1 DEF OncePlaced
  <2>3. WaitsOnce(c)'
    BY <1>1, <1>4, <2>2, WaitStays, WaitGrows
  <2>4. CASE toServer' = toServer
    <3>1. ~Sent(c)' /\ SentOnce(c)'
      BY <2>2, <2>4, SentStays
    <3> QED
      BY <1>2, <1>3, <2>1, <2>2, <2>3, <3>1 DEF OncePlaced
  <2>5. CASE Grown(Request(c0)) /\ queued' = queued
    <3>1. ~Waits(c)'
      BY <2>2, <2>5, WaitStays
    <3>2. Len(toServer) \in Nat
      BY OnTheWire
    <3>3. \A i \in 1..(Len(toServer) + 1) : i \in 1..Len(toServer) \/ i = Len(toServer) + 1
      BY <3>2
    <3>4. \A i \in 1..Len(toServer)' : SentAt(i, c)' => i = Len(toServer) + 1
      BY <2>2, <2>5, <3>3 DEF Grown, Sent, SentAt
    <3>5. SentOnce(c)'
      BY <3>4 DEF SentOnce
    <3> QED
      BY <1>2, <1>3, <2>1, <2>2, <2>3, <3>1, <3>5 DEF OncePlaced
  <2> QED
    BY <1>4, <2>4, <2>5
<1> QED
  BY <1>5, <1>6

LEMMA OnceInitialized ==
    ASSUME Typed, NEW c \in Calls, OncePlaced(c), Initialized
    PROVE  OncePlaced(c)'
<1>1. PICK out, reqs, m :
          /\ Released(out, reqs, Len(out), m)
          /\ promise' = [c1 \in Calls |-> IF c1 \in ToSet(out) THEN "sent" ELSE promise[c1]]
          /\ toServer' \in Seq(ToServer)
          /\ ~link => toServer' = toServer
          /\ link => GrownBy(reqs, Len(out))
  BY InitializedSends
<1> DEFINE n == Len(out)
           l == Len(toServer)
<1>2. /\ n \in Nat /\ m \in [1..n -> 1..Len(queued)]
      /\ \A i \in 1..n : /\ out[i] = queued[m[i]] /\ out[i] \in Ids
                         /\ reqs[i] = Request(out[i])
      /\ \A i, j \in 1..n : m[i] = m[j] => i = j
      /\ ToSet(out) = {out[i] : i \in 1..n}
  BY <1>1 DEF Released
<1>3. l \in Nat /\ link \in BOOLEAN
  BY OnTheWire DEF Typed
<1>4. /\ pending' = pending /\ running' = running /\ queued' = <<>>
  BY DEF Initialized, server
<1>5. (Held(c)' <=> Held(c)) /\ ~Waits(c)' /\ WaitsOnce(c)'
  BY <1>4, HeldStays, WaitEnds
<1>6. promise'[c] = "unused" => promise[c] = "unused"
  BY <1>1
<1>7. \A i \in 1..n : out[i] = c => Waits(c)
  <2>1. ASSUME NEW i \in 1..n, out[i] = c PROVE Waits(c)
    <3>1. m[i] \in 1..Len(queued) /\ queued[m[i]] = c
      BY <1>2, <2>1
    <3> QED
      BY <3>1 DEF Waits
  <2> QED
    BY <2>1
<1>8. CASE ~link
  <2>1. (Sent(c)' => Sent(c)) /\ SentOnce(c)'
    BY <1>1, <1>8, SentStays
  <2> QED
    BY <1>4, <1>5, <1>6, <2>1, OncePlacedKept
<1>9. CASE link
  <2>1. GrownBy(reqs, n)
    BY <1>1, <1>9
  <2> HIDE DEF n, l
  <2>2. /\ Len(toServer)' = l + n
        /\ \A i \in 1..l : toServer'[i] = toServer[i]
        /\ \A i \in 1..n : toServer'[l + i] = reqs[i]
    BY <2>1 DEF GrownBy, l
  <2>3. ASSUME NEW i \in 1..(l + n), SentAt(i, c)'
        PROVE  \/ i \in 1..l /\ SentAt(i, c)
               \/ i - l \in 1..n /\ out[i - l] = c
    <3>1. CASE i \in 1..l
      BY <2>2, <2>3, <3>1 DEF SentAt
    <3>2. CASE i \notin 1..l
      <4>1. i - l \in 1..n /\ i = l + (i - l)
        BY <1>2, <1>3, <3>2
      <4>2. toServer'[i] = Request(out[i - l])
        BY <1>2, <2>2, <4>1
      <4>3. Request(out[i - l]).id = out[i - l]
        BY <1>2, <4>1, RequestIsOne
      <4> QED
        BY <2>3, <4>1, <4>2, <4>3 DEF SentAt
    <3> QED
      BY <3>1, <3>2
  <2>4. \A i \in 1..l : SentAt(i, c) => Sent(c)
    BY DEF Sent, l
  <2>5. Sent(c)' => Sent(c) \/ Waits(c)
    BY <1>7, <2>2, <2>3, <2>4 DEF Sent
  <2>6. Waits(c) => ~Sent(c) /\ ~Held(c) /\ c \notin running
    BY DEF OncePlaced
  <2>7. ASSUME NEW i \in 1..(l + n), NEW j \in 1..(l + n), SentAt(i, c)', SentAt(j, c)'
        PROVE  i = j
    <3>1. CASE i \in 1..l /\ SentAt(i, c)
      <4>1. ~Waits(c)
        BY <2>4, <2>6, <3>1
      <4>2. j \in 1..l /\ SentAt(j, c)
        BY <1>7, <2>3, <2>7, <4>1
      <4> QED
        BY <3>1, <4>2 DEF OncePlaced, SentOnce, l
    <3>2. CASE i - l \in 1..n /\ out[i - l] = c
      <4>1. Waits(c)
        BY <1>7, <3>2
      <4>2. j - l \in 1..n /\ out[j - l] = c
        BY <2>3, <2>4, <2>6, <2>7, <4>1
      <4>3. m[i - l] \in 1..Len(queued) /\ queued[m[i - l]] = c
        BY <1>2, <3>2
      <4>4. m[j - l] \in 1..Len(queued) /\ queued[m[j - l]] = c
        BY <1>2, <4>2
      <4>5. m[i - l] = m[j - l]
        BY <4>3, <4>4 DEF OncePlaced, WaitsOnce
      <4>6. i - l = j - l
        BY <1>2, <3>2, <4>2, <4>5
      <4>7. i \in Nat /\ j \in Nat
        BY <1>2, <1>3
      <4> QED
        BY <1>3, <4>6, <4>7
    <3> QED
      BY <2>3, <2>7, <3>1, <3>2
  <2>8. SentOnce(c)'
    BY <2>2, <2>7 DEF SentOnce
  <2> QED
    BY <1>4, <1>5, <1>6, <2>5, <2>6, <2>8 DEF OncePlaced
<1> QED
  BY <1>3, <1>8, <1>9

LEMMA OnceReceiveRequest ==
    ASSUME Typed, NEW c \in Calls, OncePlaced(c), ReceiveRequest
    PROVE  OncePlaced(c)'
<1> DEFINE m == Head(toServer)
<1>1. /\ Shrunk /\ m = toServer[1] /\ m \in ToServer
  BY OneTaken DEF ReceiveRequest
<1>2. m \in Requests
  BY <1>1, RequestsAreMessages DEF ReceiveRequest
<1>3. m.id = c => SentAt(1, c)
  <2>1. m.id = c => m.kind = "promise"
    BY <1>1, <1>2, RequestsAreMessages DEF ReceiveRequest
  <2> QED
    BY <1>1, <2>1 DEF SentAt
<1>4. /\ Sent(c)' => Sent(c)
      /\ SentOnce(c)'
      /\ SentAt(1, c) => ~Sent(c)' /\ Sent(c)
  BY <1>1, SentShrinks
<1>5. queued' = queued /\ promise' = promise
  BY DEF ReceiveRequest, client
<1>6. (Waits(c)' <=> Waits(c)) /\ WaitsOnce(c)'
  BY <1>5, WaitStays
<1>7. CASE registered
  <2>1. Serve(<<m>>) /\ pending' = pending
    BY <1>7 DEF ReceiveRequest
  <2>2. subs \in [Events -> Nat]
    BY DEF Typed
  <2> HIDE DEF m
  <2>3. running' = running \cup ({m.id} \cap Calls)
    BY <1>2, <2>1, <2>2, OneServed
  <2>4. Held(c)' <=> Held(c)
    BY <2>1, HeldStays
  <2>5. CASE m.id = c
    BY <1>3, <1>4, <1>5, <1>6, <2>4, <2>5 DEF OncePlaced
  <2>6. CASE m.id # c
    <3>1. c \in running' => c \in running
      BY <2>3, <2>6
    <3> QED
      BY <1>4, <1>5, <1>6, <2>4, <3>1, OncePlacedKept
  <2> QED
    BY <2>5, <2>6
<1>8. CASE ~registered
  <2> DEFINE x == [msg |-> m, timedOut |-> FALSE]
  <2>1. pending' = Append(pending, x) /\ running' = running
    BY <1>8 DEF ReceiveRequest
  <2>2. x \in Collected /\ x.msg = m
    BY <1>2 DEF Collected
  <2>3. pending \in Seq(Collected) /\ Len(pending) \in Nat
    BY DEF Typed
  <2> HIDE DEF m, x
  <2>4. /\ Len(pending)' = Len(pending) + 1
        /\ pending'[Len(pending) + 1] = x
        /\ \A i \in 1..Len(pending) : pending'[i] = pending[i]
    BY <2>1, <2>2, <2>3
  <2>5. \A i \in 1..(Len(pending) + 1) : i \in 1..Len(pending) \/ i = Len(pending) + 1
    BY <2>3
  <2>6. \A i \in 1..Len(pending)' : HeldAt(i, c)' =>
            \/ i \in 1..Len(pending) /\ HeldAt(i, c)
            \/ m.id = c
    BY <2>2, <2>4, <2>5 DEF HeldAt
  <2>7. Held(c)' => Held(c) \/ m.id = c
    BY <2>6 DEF Held
  <2>8. CASE m.id = c
    BY <1>3, <1>4, <1>5, <1>6, <2>1, <2>8 DEF OncePlaced
  <2>9. CASE m.id # c
    BY <1>4, <1>5, <1>6, <2>1, <2>7, <2>9, OncePlacedKept
  <2> QED
    BY <2>8, <2>9
<1> QED
  BY <1>7, <1>8 DEF Typed

LEMMA OnceFlushPending ==
    ASSUME Typed, NEW c \in Calls, OncePlaced(c), FlushPending
    PROVE  OncePlaced(c)'
<1>1. running' = running \cup ({pending[i].msg.id : i \in 1..Len(pending)} \cap Calls)
  BY WhatIsFlushed
<1>2. ASSUME NEW i \in 1..Len(pending), pending[i].msg.id = c PROVE Held(c)
  <2>1. pending[i].msg \in Requests /\ pending[i].msg \in ToServer
    BY OnTheWire, RequestsAreMessages
  <2>2. pending[i].msg.kind = "promise"
    <3>1. pending[i].msg.kind \in {"promise", "cancel"}
      BY <1>2, <2>1, RequestsAreMessages
    <3>2. pending[i].msg.kind \in {"promise", "listen"}
      BY <2>1, RequestsAreMessages
    <3> QED
      BY <3>1, <3>2
  <2> QED
    BY <1>2, <2>2 DEF Held, HeldAt
<1>3. c \in running' => c \in running \/ Held(c)
  BY <1>1, <1>2
<1>4. queued' = queued /\ promise' = promise /\ toServer' = toServer /\ pending' = <<>>
  BY DEF FlushPending, client, wire
<1>5. (Waits(c)' <=> Waits(c)) /\ WaitsOnce(c)'
  BY <1>4, WaitStays
<1>6. (Sent(c)' <=> Sent(c)) /\ SentOnce(c)'
  BY <1>4, SentStays
<1>7. ~Held(c)'
  <2>1. Len(pending)' = 0
    BY <1>4
  <2> QED
    BY <2>1 DEF Held
<1> QED
  BY <1>3, <1>4, <1>5, <1>6, <1>7 DEF OncePlaced

LEMMA OnceTimerFires ==
    ASSUME Typed, NEW c \in Calls, OncePlaced(c), NEW i \in DOMAIN pending, TimerFires(i)
    PROVE  OncePlaced(c)'
<1>1. /\ i \in 1..Len(pending) /\ Len(pending) \in Nat /\ pending \in Seq(Collected)
  BY OnTheWire DEF Typed
<1>2. pending' = [pending EXCEPT ![i] = [pending[i] EXCEPT !.timedOut = TRUE]]
  BY DEF TimerFires
<1>3. Len(pending)' = Len(pending)
  BY <1>1, <1>2
<1>4. ASSUME NEW j \in 1..Len(pending) PROVE pending'[j].msg = pending[j].msg
  <2>1. pending[j] \in Collected
    BY <1>1
  <2>2. CASE j = i
    <3>1. pending'[j] = [pending[j] EXCEPT !.timedOut = TRUE]
      BY <1>1, <1>2, <2>2
    <3> QED
      BY <2>1, <3>1 DEF Collected
  <2>3. CASE j # i
    <3>1. pending'[j] = pending[j]
      BY <1>1, <1>2, <2>3
    <3> QED
      BY <3>1
  <2> QED
    BY <2>2, <2>3
<1>5. Held(c)' => Held(c)
  BY <1>3, <1>4 DEF Held, HeldAt
<1>6. queued' = queued /\ promise' = promise /\ toServer' = toServer /\ running' = running
  BY DEF TimerFires, client
<1> QED
  BY <1>5, <1>6, WaitStays, SentStays, OncePlacedKept

LEMMA CallsOnceStep ==
    ASSUME Typed, CallsOnce, [Next]_vars
    PROVE  CallsOnce'
<1> SUFFICES ASSUME NEW c \in Calls PROVE OncePlaced(c)'
  BY DEF CallsOnce
<1>1. OncePlaced(c)
  BY DEF CallsOnce
<1>2. CASE UNCHANGED vars
  <2>1. /\ queued' = queued /\ promise' = promise /\ toServer' = toServer
        /\ pending' = pending /\ running' = running
    BY <1>2 DEF vars, moving, client, wire, server
  <2> QED
    BY <1>1, <2>1, WaitStays, SentStays, HeldStays, OncePlacedKept
<1>3. CASE Next
  <2>1. ASSUME NEW c0 \in Calls, Cancel(c0) PROVE OncePlaced(c)'
    <3> DEFINE m == [kind |-> "cancel", id |-> c0]
    <3>1. m \in ToServer /\ m.kind # "promise"
      BY DEF ToServer
    <3>2. SendToServer(<<m>>) /\ link \in BOOLEAN
      BY <2>1 DEF Cancel, Typed
    <3> HIDE DEF m
    <3>3. toServer' = toServer \/ Grown(m)
      BY <3>1, <3>2, OneSent
    <3>4. (Sent(c)' => Sent(c)) /\ SentOnce(c)'
      BY <1>1, <3>1, <3>3, SentGrows
    <3>5. /\ queued' = queued /\ pending' = pending /\ running' = running
          /\ promise'[c] = "unused" => promise[c] = "unused"
      BY <2>1 DEF Cancel, server, Typed
    <3> QED
      BY <1>1, <3>4, <3>5, WaitStays, HeldStays, OncePlacedKept
  <2>2. ASSUME NEW c0 \in Calls, CallEnds(c0) PROVE OncePlaced(c)'
    <3>1. /\ queued' = queued /\ promise' = promise /\ toServer' = toServer
          /\ pending' = pending /\ (c \in running' => c \in running)
      BY <2>2 DEF CallEnds, client
    <3> QED
      BY <1>1, <3>1, WaitStays, SentStays, HeldStays, OncePlacedKept
  <2>3. ASSUME NEW e \in Events, AddListener(e) PROVE OncePlaced(c)'
    <3>1. e \in Ids /\ Request(e) \in ToServer /\ Request(e).kind # "promise" /\ e # c
      BY RequestIsOne, RequestsAreMessages, ChannelRpcAssumption DEF Ids
    <3>2. /\ pending' = pending /\ running' = running /\ promise' = promise
      BY <2>3 DEF AddListener, server
    <3>3. CASE ready
      <4>1. SendToServer(<<Request(e)>>) /\ queued' = queued /\ link \in BOOLEAN
        BY <2>3, <3>3 DEF AddListener, Typed
      <4>2. toServer' = toServer \/ Grown(Request(e))
        BY <3>1, <4>1, OneSent
      <4>3. (Sent(c)' => Sent(c)) /\ SentOnce(c)'
        BY <1>1, <3>1, <4>2, SentGrows
      <4> QED
        BY <1>1, <3>2, <4>1, <4>3, WaitStays, HeldStays, OncePlacedKept
    <3>4. CASE ~ready
      <4>1. toServer' = toServer /\ queued' = Append(queued, e)
        BY <2>3, <3>4 DEF AddListener
      <4>2. (Waits(c)' => Waits(c)) /\ WaitsOnce(c)'
        BY <1>1, <3>1, <4>1, WaitGrows
      <4> QED
        BY <1>1, <3>2, <4>1, <4>2, SentStays, HeldStays, OncePlacedKept
    <3> QED
      BY <3>3, <3>4
  <2>4. ASSUME NEW e \in Events, RemoveListener(e) PROVE OncePlaced(c)'
    <3> DEFINE m == [kind |-> "dispose", id |-> e]
    <3>1. m \in ToServer /\ m.kind # "promise"
      BY DEF ToServer
    <3>2. SendToServer(<<m>>) /\ link \in BOOLEAN
      BY <2>4 DEF RemoveListener, Typed
    <3> HIDE DEF m
    <3>3. toServer' = toServer \/ Grown(m)
      BY <3>1, <3>2, OneSent
    <3>4. (Sent(c)' => Sent(c)) /\ SentOnce(c)'
      BY <1>1, <3>1, <3>3, SentGrows
    <3>5. /\ queued' = queued /\ pending' = pending /\ running' = running
          /\ promise' = promise
      BY <2>4 DEF RemoveListener, server
    <3> QED
      BY <1>1, <3>4, <3>5, WaitStays, HeldStays, OncePlacedKept
  <2>5. ASSUME NEW e \in Events, EventFires(e) PROVE OncePlaced(c)'
    <3>1. /\ queued' = queued /\ promise' = promise /\ toServer' = toServer
          /\ pending' = pending /\ running' = running
      BY <2>5 DEF EventFires, client, server
    <3> QED
      BY <1>1, <3>1, WaitStays, SentStays, HeldStays, OncePlacedKept
  <2>6. ASSUME ReceiveAnswer PROVE OncePlaced(c)'
    <3>1. /\ queued' = queued /\ toServer' = toServer
          /\ pending' = pending /\ running' = running
          /\ promise'[c] = "unused" => promise[c] = "unused"
      BY <2>6 DEF ReceiveAnswer, server
    <3> QED
      BY <1>1, <3>1, WaitStays, SentStays, HeldStays, OncePlacedKept
  <2>7. ASSUME DisposeClient PROVE OncePlaced(c)'
    <3>1. /\ queued' = <<>> /\ toServer' = toServer
          /\ pending' = pending /\ running' = running
          /\ promise'[c] = "unused" => promise[c] = "unused"
      BY <2>7 DEF DisposeClient, server, wire
    <3> QED
      BY <1>1, <3>1, WaitEnds, SentStays, HeldStays, OncePlacedKept
  <2>8. ASSUME ReceiveDispose PROVE OncePlaced(c)'
    <3>1. /\ queued' = queued /\ promise' = promise
          /\ pending' = pending /\ running' = running
      BY <2>8 DEF ReceiveDispose, client
    <3>2. Shrunk
      BY <2>8, OneTaken DEF ReceiveDispose
    <3>3. (Sent(c)' => Sent(c)) /\ SentOnce(c)'
      BY <1>1, <3>2, SentShrinks
    <3> QED
      BY <1>1, <3>1, <3>3, WaitStays, HeldStays, OncePlacedKept
  <2>9. ASSUME RegisterChannel PROVE OncePlaced(c)'
    <3>1. /\ queued' = queued /\ promise' = promise /\ toServer' = toServer
          /\ pending' = pending /\ running' = running
      BY <2>9 DEF RegisterChannel, client, wire
    <3> QED
      BY <1>1, <3>1, WaitStays, SentStays, HeldStays, OncePlacedKept
  <2>10. ASSUME DisposeServer PROVE OncePlaced(c)'
    <3>1. /\ queued' = queued /\ promise' = promise /\ toServer' = toServer
          /\ pending' = pending /\ running' = running
      BY <2>10 DEF DisposeServer, client, wire
    <3> QED
      BY <1>1, <3>1, WaitStays, SentStays, HeldStays, OncePlacedKept
  <2>11. ASSUME LoseConnection PROVE OncePlaced(c)'
    <3>1. /\ queued' = queued /\ promise' = promise /\ toServer' = <<>>
          /\ pending' = pending /\ running' = running
      BY <2>11 DEF LoseConnection, client, server
    <3>2. Len(toServer)' = 0
      BY <3>1
    <3>3. ~Sent(c)' /\ SentOnce(c)'
      BY <3>2 DEF Sent, SentOnce
    <3> QED
      BY <1>1, <3>1, <3>3, WaitStays, HeldStays, OncePlacedKept
  <2> QED
    BY <1>1, <1>3, <2>1, <2>2, <2>3, <2>4, <2>5, <2>6, <2>7, <2>8, <2>9, <2>10,
       <2>11, OnceCall, OnceInitialized, OnceReceiveRequest, OnceFlushPending,
       OnceTimerFires DEF Next
<1> QED
  BY <1>2, <1>3

\* The server's book of calls: a request that is served is of a call that
\* does not run, so that its entry is new.
LEMMA CallsBookedStep ==
    ASSUME Typed, CallsOnce, CallsBooked, [Next]_vars
    PROVE  CallsBooked'
<1> SUFFICES ASSUME serverUp' PROVE (active \cap Calls = running \ stopped)'
  BY DEF CallsBooked
<1> USE DEF CallsBooked
<1>1. stopped \subseteq running
  BY DEF Typed
<1>2. ASSUME serverUp, UNCHANGED <<active, running, stopped>>
      PROVE  (active \cap Calls = running \ stopped)'
  BY <1>2
<1>3. CASE UNCHANGED vars
  BY <1>2, <1>3 DEF vars, moving, server
<1>4. CASE Next
  <2>1. ASSUME NEW c \in Calls, Call(c) PROVE (active \cap Calls = running \ stopped)'
    BY <1>2, <2>1 DEF Call, server
  <2>2. ASSUME NEW c \in Calls, Cancel(c) PROVE (active \cap Calls = running \ stopped)'
    BY <1>2, <2>2 DEF Cancel, server
  <2>3. ASSUME NEW c \in Calls, CallEnds(c) PROVE (active \cap Calls = running \ stopped)'
    BY <2>3 DEF CallEnds
  <2>4. ASSUME NEW e \in Events, AddListener(e) PROVE (active \cap Calls = running \ stopped)'
    BY <1>2, <2>4 DEF AddListener, server
  <2>5. ASSUME NEW e \in Events, RemoveListener(e) PROVE (active \cap Calls = running \ stopped)'
    BY <1>2, <2>5 DEF RemoveListener, server
  <2>6. ASSUME NEW e \in Events, EventFires(e) PROVE (active \cap Calls = running \ stopped)'
    BY <1>2, <2>6 DEF EventFires, server
  <2>7. ASSUME Initialized PROVE (active \cap Calls = running \ stopped)'
    BY <1>2, <2>7 DEF Initialized, server
  <2>8. ASSUME ReceiveAnswer PROVE (active \cap Calls = running \ stopped)'
    BY <1>2, <2>8 DEF ReceiveAnswer, server
  <2>9. ASSUME DisposeClient PROVE (active \cap Calls = running \ stopped)'
    BY <1>2, <2>9 DEF DisposeClient, server
  <2>10. ASSUME ReceiveRequest PROVE (active \cap Calls = running \ stopped)'
    <3> DEFINE m == Head(toServer)
    <3>1. m = toServer[1] /\ m \in ToServer /\ 1 \in 1..Len(toServer) /\ serverUp /\ stopped' = stopped
      <4>1. Len(toServer) \in Nat /\ Shrunk
        BY <2>10, OnTheWire, OneTaken DEF ReceiveRequest
      <4> QED
        BY <2>10, <4>1, OneTaken DEF ReceiveRequest, Shrunk
    <3>2. m \in Requests
      BY <2>10, <3>1, RequestsAreMessages DEF ReceiveRequest
    <3>3. m.id \in Calls => m.id \notin running
      <4> SUFFICES ASSUME m.id \in Calls PROVE m.id \notin running
        OBVIOUS
      <4>1. m.kind = "promise"
        BY <2>10, <3>1, RequestsAreMessages DEF ReceiveRequest
      <4>2. Sent(m.id)
        BY <3>1, <4>1 DEF Sent, SentAt
      <4> QED
        BY <4>2 DEF CallsOnce, OncePlaced
    <3>4. CASE registered
      <4>1. Serve(<<m>>)
        BY <2>10, <3>4 DEF ReceiveRequest
      <4>2. subs \in [Events -> Nat]
        BY DEF Typed
      <4> HIDE DEF m
      <4>3. /\ active' = active \cup {m.id}
            /\ running' = running \cup ({m.id} \cap Calls)
        BY <3>2, <4>1, <4>2, OneServed
      <4> QED
        BY <1>1, <3>1, <3>3, <4>3
    <3>5. CASE ~registered
      BY <1>2, <2>10, <3>1, <3>5 DEF ReceiveRequest
    <3> QED
      BY <3>4, <3>5
  <2>11. ASSUME ReceiveDispose PROVE (active \cap Calls = running \ stopped)'
    BY <1>1, <2>11 DEF ReceiveDispose, Typed
  <2>12. ASSUME RegisterChannel PROVE (active \cap Calls = running \ stopped)'
    BY <1>2, <2>12 DEF RegisterChannel
  <2>13. ASSUME FlushPending PROVE (active \cap Calls = running \ stopped)'
    <3> DEFINE ids == {pending[i].msg.id : i \in 1..Len(pending)}
    <3>1. /\ active' = active \cup ids
          /\ running' = running \cup (ids \cap Calls)
      BY <2>13, WhatIsFlushed
    <3>2. ASSUME NEW i \in 1..Len(pending), pending[i].msg.id \in Calls
          PROVE  pending[i].msg.id \notin running
      <4>1. pending[i].msg \in Requests /\ pending[i].msg \in ToServer
        BY OnTheWire, RequestsAreMessages
      <4>2. pending[i].msg.kind \in {"promise", "cancel"}
        BY <3>2, <4>1, RequestsAreMessages
      <4>3. pending[i].msg.kind = "promise"
        <5>1. pending[i].msg.kind \in {"promise", "listen"}
          BY <4>1, RequestsAreMessages
        <5> QED
          BY <4>2, <5>1
      <4>4. Held(pending[i].msg.id)
        BY <4>3 DEF Held, HeldAt
      <4> QED
        BY <3>2, <4>4 DEF CallsOnce, OncePlaced
    <3>3. \A c \in ids : c \in Calls => c \notin running
      BY <3>2
    <3>4. stopped' = stopped /\ serverUp
      BY <2>13 DEF FlushPending
    <3> HIDE DEF ids
    <3> QED
      BY <1>1, <3>1, <3>3, <3>4
  <2>14. ASSUME NEW i \in DOMAIN pending, TimerFires(i)
         PROVE (active \cap Calls = running \ stopped)'
    BY <1>2, <2>14 DEF TimerFires
  <2>15. ASSUME DisposeServer PROVE (active \cap Calls = running \ stopped)'
    BY <2>15 DEF DisposeServer
  <2>16. ASSUME LoseConnection PROVE (active \cap Calls = running \ stopped)'
    BY <1>2, <2>16 DEF LoseConnection, server
  <2> QED
    BY <1>4, <2>1, <2>2, <2>3, <2>4, <2>5, <2>6, <2>7, <2>8, <2>9, <2>10, <2>11,
       <2>12, <2>13, <2>14, <2>15, <2>16 DEF Next
<1> QED
  BY <1>3, <1>4

-----------------------------------------------------------------------------
(* A connection that began with the handshake done.                        *)

LEMMA ShakenStep ==
    ASSUME Typed, Shaken, [Next]_vars
    PROVE  Shaken'
<1>1. CASE UNCHANGED vars
  BY <1>1 DEF Shaken, vars, moving, client, server
<1>2. CASE Next
  <2> SUFFICES ASSUME start' = "steady"
               PROVE  (ready /\ queued = <<>> /\ registered /\ ~flushDue /\ pending = <<>>)'
    BY DEF Shaken
  <2>1. start = "steady"
    BY <1>2 DEF Next
  <2>2. ready /\ queued = <<>> /\ registered /\ ~flushDue /\ pending = <<>>
    BY <2>1 DEF Shaken
  <2>3. DOMAIN pending = {}
    BY <2>2
  <2>4. ~RegisterChannel /\ ~FlushPending /\ ~ \E i \in DOMAIN pending : TimerFires(i)
    BY <2>2, <2>3 DEF RegisterChannel, FlushPending
  <2>5. ASSUME NEW c \in Calls, Call(c) PROVE (ready /\ queued = <<>> /\ registered /\ ~flushDue /\ pending = <<>>)'
    BY <2>2, <2>5 DEF Call, client, server
  <2>6. ASSUME NEW c \in Calls, Cancel(c) PROVE (ready /\ queued = <<>> /\ registered /\ ~flushDue /\ pending = <<>>)'
    BY <2>2, <2>6 DEF Cancel, client, server
  <2>7. ASSUME NEW c \in Calls, CallEnds(c) PROVE (ready /\ queued = <<>> /\ registered /\ ~flushDue /\ pending = <<>>)'
    BY <2>2, <2>7 DEF CallEnds, client, server
  <2>8. ASSUME NEW e \in Events, AddListener(e) PROVE (ready /\ queued = <<>> /\ registered /\ ~flushDue /\ pending = <<>>)'
    BY <2>2, <2>8 DEF AddListener, client, server
  <2>9. ASSUME NEW e \in Events, RemoveListener(e) PROVE (ready /\ queued = <<>> /\ registered /\ ~flushDue /\ pending = <<>>)'
    BY <2>2, <2>9 DEF RemoveListener, client, server
  <2>10. ASSUME NEW e \in Events, EventFires(e) PROVE (ready /\ queued = <<>> /\ registered /\ ~flushDue /\ pending = <<>>)'
    BY <2>2, <2>10 DEF EventFires, client, server
  <2>11. ASSUME Initialized PROVE (ready /\ queued = <<>> /\ registered /\ ~flushDue /\ pending = <<>>)'
    BY <2>2, <2>11 DEF Initialized, client, server
  <2>12. ASSUME ReceiveAnswer PROVE (ready /\ queued = <<>> /\ registered /\ ~flushDue /\ pending = <<>>)'
    BY <2>2, <2>12 DEF ReceiveAnswer, client, server
  <2>13. ASSUME DisposeClient PROVE (ready /\ queued = <<>> /\ registered /\ ~flushDue /\ pending = <<>>)'
    BY <2>2, <2>13 DEF DisposeClient, client, server
  <2>14. ASSUME ReceiveRequest PROVE (ready /\ queued = <<>> /\ registered /\ ~flushDue /\ pending = <<>>)'
    BY <2>2, <2>14 DEF ReceiveRequest, client, server
  <2>15. ASSUME ReceiveDispose PROVE (ready /\ queued = <<>> /\ registered /\ ~flushDue /\ pending = <<>>)'
    BY <2>2, <2>15 DEF ReceiveDispose, client, server
  <2>16. ASSUME DisposeServer PROVE (ready /\ queued = <<>> /\ registered /\ ~flushDue /\ pending = <<>>)'
    BY <2>2, <2>16 DEF DisposeServer, client, server
  <2>17. ASSUME LoseConnection PROVE (ready /\ queued = <<>> /\ registered /\ ~flushDue /\ pending = <<>>)'
    BY <2>2, <2>17 DEF LoseConnection, client, server
  <2> QED
    BY <1>2, <2>4, <2>5, <2>6, <2>7, <2>8, <2>9, <2>10, <2>11, <2>12,
       <2>13, <2>14, <2>15, <2>16, <2>17 DEF Next
<1> QED
  BY <1>1, <1>2

\* Initialize finds nothing that waits.
LEMMA NothingReleased ==
    ASSUME Typed, Initialized, queued = <<>>
    PROVE  toServer' = toServer /\ promise' = promise
<1>1. PICK out, reqs, m :
          /\ Released(out, reqs, Len(out), m)
          /\ promise' = [c1 \in Calls |-> IF c1 \in ToSet(out) THEN "sent" ELSE promise[c1]]
          /\ toServer' \in Seq(ToServer)
          /\ ~link => toServer' = toServer
          /\ link => GrownBy(reqs, Len(out))
  BY InitializedSends
<1> DEFINE n == Len(out)
<1>2. n \in Nat /\ m \in [1..n -> 1..Len(queued)] /\ ToSet(out) = {out[i] : i \in 1..n}
  BY <1>1 DEF Released
<1>3. 1..Len(queued) = {}
  OBVIOUS
<1>4. 1 \notin 1..n
  BY <1>2, <1>3
<1> HIDE DEF n
<1>5. n = 0 /\ 1..n = {}
  BY <1>2, <1>4
<1>6. ToSet(out) = {}
  BY <1>2, <1>5
<1>7. promise' = promise
  BY <1>1, <1>6 DEF Typed
<1>8. toServer' = toServer
  <2>1. CASE link
    <3>1. GrownBy(reqs, n)
      BY <1>1, <2>1 DEF n
    <3>2. toServer \in Seq(ToServer) /\ Len(toServer) \in Nat
      BY DEF Typed
    <3>3. /\ Len(toServer)' = Len(toServer)
          /\ \A i \in 1..Len(toServer) : toServer'[i] = toServer[i]
      BY <1>5, <3>1, <3>2 DEF GrownBy
    <3> QED
      BY <1>1, <3>2, <3>3
  <2> QED
    BY <1>1, <2>1 DEF Typed
<1> QED
  BY <1>7, <1>8

LEMMA KindsAbout ==
    ASSUME Typed, NEW i \in 1..Len(toServer), NEW e \in Events
    PROVE  /\ About(i, e) <=> toServer[i].id = e
           /\ About(i, e) => toServer[i].kind = "listen" \/ toServer[i].kind = "dispose"
<1>1. toServer[i] \in ToServer
  BY OnTheWire
<1>2. toServer[i].id \in Events => toServer[i].kind \in {"listen", "dispose"}
  BY <1>1, RequestsAreMessages
<1> QED
  BY <1>2 DEF About

LEMMA InTurnStays ==
    ASSUME NEW e \in Events, InTurn(e), toServer' = toServer,
           e \in active' <=> e \in active, e \in listening' <=> e \in listening
    PROVE  InTurn(e)'
  BY DEF InTurn, NoneAbout, About

\* A message about something else was sent.
LEMMA InTurnGrows ==
    ASSUME Typed, NEW e \in Events, InTurn(e), NEW m \in ToServer, Grown(m), m.id # e,
           e \in active' <=> e \in active, e \in listening' <=> e \in listening
    PROVE  InTurn(e)'
<1>0. PICK n : n = Len(toServer)
  OBVIOUS
<1>1. n \in Nat
  BY <1>0, OnTheWire
<1>2. /\ Len(toServer)' = n + 1 /\ toServer'[n + 1] = m
      /\ \A i \in 1..n : toServer'[i] = toServer[i]
  BY <1>0 DEF Grown
<1>3. \A i \in 1..(n + 1) : i \in 1..n \/ i = n + 1
  BY <1>1
<1>4. \A i \in 1..n : i \in 1..(n + 1) /\ i < n + 1 /\ i \in Nat
  BY <1>1
<1>5. ASSUME NEW i \in 1..(n + 1), About(i, e)'
      PROVE  i \in 1..n /\ About(i, e) /\ toServer'[i] = toServer[i]
  BY <1>2, <1>3, <1>5 DEF About
<1>6. \A a, b : NoneAbout(a, b, e)' => NoneAbout(a, b, e)
  BY <1>0, <1>2, <1>4 DEF NoneAbout, About
<1>7. NoneAbout(0, n + 2, e)' => NoneAbout(0, n + 1, e)
  <2>1. NoneAbout(0, n + 2, e) => NoneAbout(0, n + 1, e)
    BY <1>0, <1>1 DEF NoneAbout
  <2> QED
    BY <1>6, <2>1
<1>8. ASSUME NEW i \in 1..n, NoneAbout(i, n + 2, e)' PROVE NoneAbout(i, n + 1, e)
  <2>1. NoneAbout(i, n + 2, e)
    BY <1>6, <1>8
  <2> QED
    BY <1>0, <1>1, <2>1 DEF NoneAbout
<1>9. /\ NoneAbout(0, n + 1, e) => (e \in active <=> e \in listening)
      /\ \A i \in 1..n : About(i, e) /\ NoneAbout(0, i, e) =>
             (toServer[i].kind = "listen" <=> e \notin active)
      /\ \A i \in 1..n : About(i, e) /\ NoneAbout(i, n + 1, e) =>
             (toServer[i].kind = "listen" <=> e \in listening)
      /\ \A i, j \in 1..n :
             i < j /\ About(i, e) /\ About(j, e) /\ NoneAbout(i, j, e) =>
             toServer[i].kind # toServer[j].kind
  BY <1>0 DEF InTurn
<1>10. (n + 1) + 1 = n + 2
  BY <1>1
<1>11. NoneAbout(0, n + 2, e)' => (e \in active' <=> e \in listening')
  BY <1>7, <1>9
<1>12. ASSUME NEW i \in 1..(n + 1), About(i, e)', NoneAbout(0, i, e)'
       PROVE  toServer'[i].kind = "listen" <=> e \notin active'
  BY <1>5, <1>6, <1>9, <1>12
<1>13. ASSUME NEW i \in 1..(n + 1), About(i, e)', NoneAbout(i, n + 2, e)'
       PROVE  toServer'[i].kind = "listen" <=> e \in listening'
  BY <1>5, <1>8, <1>9, <1>13
<1>14. ASSUME NEW i \in 1..(n + 1), NEW j \in 1..(n + 1), i < j, About(i, e)', About(j, e)',
              NoneAbout(i, j, e)'
       PROVE  toServer'[i].kind # toServer'[j].kind
  BY <1>5, <1>6, <1>9, <1>14
<1> QED
  BY <1>2, <1>10, <1>11, <1>12, <1>13, <1>14 DEF InTurn

\* A message about e was sent: the other way round than the client had it.
LEMMA InTurnSends ==
    ASSUME Typed, NEW e \in Events, InTurn(e), NEW m \in ToServer, Grown(m), m.id = e,
           m.kind = "listen" <=> e \notin listening,
           m.kind = "listen" <=> e \in listening',
           e \in active' <=> e \in active
    PROVE  InTurn(e)'
<1>0. PICK n : n = Len(toServer)
  OBVIOUS
<1>1. n \in Nat
  BY <1>0, OnTheWire
<1>2. m.kind = "listen" \/ m.kind = "dispose"
  BY RequestsAreMessages
<1>3. /\ Len(toServer)' = n + 1 /\ toServer'[n + 1] = m
      /\ \A i \in 1..n : toServer'[i] = toServer[i]
  BY <1>0 DEF Grown
<1>4. \A i \in 1..(n + 1) : i \in 1..n \/ i = n + 1
  BY <1>1
<1>5. \A i \in 1..n : i \in 1..(n + 1) /\ i < n + 1 /\ i \in Nat
  BY <1>1
<1>6. /\ n + 1 \in 1..(n + 1) /\ n + 1 < n + 2 /\ 0 < n + 1 /\ ~ (n + 1 < n + 1)
      /\ \A i \in 1..n : i < n + 2 /\ ~ (n + 1 < i)
  BY <1>1
<1>7. About(n + 1, e)'
  BY <1>2, <1>3 DEF About
<1>8. ASSUME NEW i \in 1..n
      PROVE  (About(i, e)' <=> About(i, e)) /\ toServer'[i] = toServer[i]
  BY <1>3 DEF About
<1>9. \A a, b : NoneAbout(a, b, e)' => NoneAbout(a, b, e)
  BY <1>0, <1>3, <1>5 DEF NoneAbout, About
<1>10. /\ NoneAbout(0, n + 1, e) => (e \in active <=> e \in listening)
       /\ \A i \in 1..n : About(i, e) /\ NoneAbout(0, i, e) =>
              (toServer[i].kind = "listen" <=> e \notin active)
       /\ \A i \in 1..n : About(i, e) /\ NoneAbout(i, n + 1, e) =>
              (toServer[i].kind = "listen" <=> e \in listening)
       /\ \A i, j \in 1..n :
              i < j /\ About(i, e) /\ About(j, e) /\ NoneAbout(i, j, e) =>
              toServer[i].kind # toServer[j].kind
  BY <1>0 DEF InTurn
<1>11. ~NoneAbout(0, n + 2, e)' /\ \A i \in 1..n : ~NoneAbout(i, n + 2, e)'
  BY <1>3, <1>5, <1>6, <1>7 DEF NoneAbout
<1>12. ASSUME NEW i \in 1..(n + 1), About(i, e)', NoneAbout(0, i, e)'
       PROVE  toServer'[i].kind = "listen" <=> e \notin active'
  <2>1. CASE i \in 1..n
    BY <1>8, <1>9, <1>10, <1>12, <2>1
  <2>2. CASE i = n + 1
    <3>1. NoneAbout(0, n + 1, e)
      BY <1>9, <1>12, <2>2
    <3> QED
      BY <1>3, <1>10, <2>2, <3>1
  <2> QED
    BY <1>4, <2>1, <2>2
<1>13. ASSUME NEW i \in 1..(n + 1), About(i, e)', NoneAbout(i, n + 2, e)'
       PROVE  toServer'[i].kind = "listen" <=> e \in listening'
  BY <1>3, <1>4, <1>11, <1>13
<1>14. ASSUME NEW i \in 1..(n + 1), NEW j \in 1..(n + 1), i < j, About(i, e)', About(j, e)',
              NoneAbout(i, j, e)'
       PROVE  toServer'[i].kind # toServer'[j].kind
  <2>1. i \in 1..n
    BY <1>4, <1>6, <1>14
  <2>2. CASE j \in 1..n
    BY <1>8, <1>9, <1>10, <1>14, <2>1, <2>2
  <2>3. CASE j = n + 1
    <3>1. NoneAbout(i, n + 1, e)
      BY <1>9, <1>14, <2>3
    <3>2. toServer[i].kind = "listen" <=> e \in listening
      BY <1>8, <1>10, <1>14, <2>1, <3>1
    <3> QED
      BY <1>3, <1>8, <2>1, <2>3, <3>2
  <2> QED
    BY <1>4, <2>2, <2>3
<1>15. (n + 1) + 1 = n + 2
  BY <1>1
<1> QED
  BY <1>3, <1>11, <1>12, <1>13, <1>14, <1>15 DEF InTurn

\* The first message was taken, and the server did what it says.
LEMMA InTurnShrinks ==
    ASSUME Typed, NEW e \in Events, InTurn(e), Shrunk,
           About(1, e) => (e \in active' <=> toServer[1].kind = "listen"),
           ~About(1, e) => (e \in active' <=> e \in active),
           e \in listening' <=> e \in listening
    PROVE  InTurn(e)'
<1>0. PICK n : n = Len(toServer)
  OBVIOUS
<1>1. n \in Nat /\ n # 0
  BY <1>0, OnTheWire DEF Shrunk
<1>2. Len(toServer)' = n - 1 /\ \A i \in 1..(n - 1) : toServer'[i] = toServer[i + 1]
  BY <1>0 DEF Shrunk
<1>3. 1 \in 1..n /\ n - 1 \in Nat /\ (n - 1) + 1 = n
  BY <1>1
<1>4. \A i \in 1..(n - 1) : i \in Nat /\ i + 1 \in 1..n /\ 1 < i + 1
  BY <1>1
<1>5. \A i \in 1..(n - 1) : (About(i, e)' <=> About(i + 1, e)) /\ toServer'[i] = toServer[i + 1]
  BY <1>2 DEF About
<1>6. \A k \in 1..n : k = 1 \/ (k - 1 \in 1..(n - 1) /\ (k - 1) + 1 = k)
  BY <1>1
<1>7. ASSUME NEW a \in Nat, NEW b \in Nat, NoneAbout(a, b, e)'
      PROVE  /\ NoneAbout(a + 1, b + 1, e)
             /\ a = 0 /\ ~About(1, e) => NoneAbout(0, b + 1, e)
  <2>1. ASSUME NEW k \in 1..n, k # 1, a + 1 < k, k < b + 1 PROVE ~About(k, e)
    <3>1. k - 1 \in 1..(n - 1) /\ (k - 1) + 1 = k
      BY <1>6, <2>1
    <3>2. a < k - 1 /\ k - 1 < b
      BY <1>1, <2>1
    <3>3. ~About(k - 1, e)'
      BY <1>2, <1>7, <3>1, <3>2 DEF NoneAbout
    <3> QED
      BY <1>5, <3>1, <3>3
  <2>2. ASSUME NEW k \in 1..n, a + 1 < k PROVE k # 1
    BY <1>1, <2>2
  <2>3. NoneAbout(a + 1, b + 1, e)
    BY <1>0, <2>1, <2>2 DEF NoneAbout
  <2>4. ASSUME a = 0, ~About(1, e) PROVE NoneAbout(0, b + 1, e)
    <3>1. \A k \in 1..n : k = 1 \/ 0 + 1 < k
      BY <1>1
    <3> QED
      BY <1>0, <2>1, <2>4, <3>1 DEF NoneAbout
  <2> QED
    BY <2>3, <2>4
<1>8. /\ NoneAbout(0, n + 1, e) => (e \in active <=> e \in listening)
      /\ \A i \in 1..n : About(i, e) /\ NoneAbout(0, i, e) =>
             (toServer[i].kind = "listen" <=> e \notin active)
      /\ \A i \in 1..n : About(i, e) /\ NoneAbout(i, n + 1, e) =>
             (toServer[i].kind = "listen" <=> e \in listening)
      /\ \A i, j \in 1..n :
             i < j /\ About(i, e) /\ About(j, e) /\ NoneAbout(i, j, e) =>
             toServer[i].kind # toServer[j].kind
  BY <1>0 DEF InTurn
<1>9. ASSUME NoneAbout(0, n, e)' PROVE e \in active' <=> e \in listening'
  <2>1. /\ NoneAbout(1, n + 1, e)
        /\ ~About(1, e) => NoneAbout(0, n + 1, e)
    <3>1. 0 \in Nat /\ 0 + 1 = 1
      OBVIOUS
    <3> QED
      BY <1>1, <1>7, <1>9, <3>1
  <2> QED
    BY <1>3, <1>8, <2>1
<1>10. ASSUME NEW i \in 1..(n - 1), About(i, e)', NoneAbout(0, i, e)'
       PROVE  toServer'[i].kind = "listen" <=> e \notin active'
  <2>1. /\ NoneAbout(1, i + 1, e)
        /\ ~About(1, e) => NoneAbout(0, i + 1, e)
    <3>1. 0 \in Nat /\ 0 + 1 = 1
      OBVIOUS
    <3> QED
      BY <1>4, <1>7, <1>10, <3>1
  <2>2. About(i + 1, e) /\ i + 1 \in 1..n /\ toServer'[i] = toServer[i + 1] /\ 1 < i + 1
    BY <1>4, <1>5, <1>10
  <2>3. CASE About(1, e)
    <3>1. toServer[1].kind # toServer[i + 1].kind
      BY <1>3, <1>8, <2>1, <2>2, <2>3
    <3>2. /\ toServer[1].kind = "listen" \/ toServer[1].kind = "dispose"
          /\ toServer[i + 1].kind = "listen" \/ toServer[i + 1].kind = "dispose"
      BY <2>2, <2>3 DEF About
    <3> QED
      BY <2>2, <2>3, <3>1, <3>2
  <2>4. CASE ~About(1, e)
    BY <1>8, <2>1, <2>2, <2>4
  <2> QED
    BY <2>3, <2>4
<1>11. ASSUME NEW i \in 1..(n - 1), About(i, e)', NoneAbout(i, n, e)'
       PROVE  toServer'[i].kind = "listen" <=> e \in listening'
  <2>1. NoneAbout(i + 1, n + 1, e)
    BY <1>1, <1>4, <1>7, <1>11
  <2> QED
    BY <1>4, <1>5, <1>8, <1>11, <2>1
<1>12. ASSUME NEW i \in 1..(n - 1), NEW j \in 1..(n - 1), i < j, About(i, e)', About(j, e)',
              NoneAbout(i, j, e)'
       PROVE  toServer'[i].kind # toServer'[j].kind
  <2>1. NoneAbout(i + 1, j + 1, e)
    BY <1>4, <1>7, <1>12
  <2>2. i + 1 < j + 1
    BY <1>4, <1>12
  <2>3. toServer[i + 1].kind # toServer[j + 1].kind
    BY <1>4, <1>5, <1>8, <1>12, <2>1, <2>2
  <2> QED
    BY <1>5, <2>3
<1> QED
  BY <1>2, <1>3, <1>9, <1>10, <1>11, <1>12 DEF InTurn

LEMMA ListensInTurnStep ==
    ASSUME Typed, Linked, Shaken, ListensInTurn, [Next]_vars
    PROVE  ListensInTurn'
<1>1. CASE UNCHANGED vars
  <2>1. /\ start' = start /\ link' = link /\ toServer' = toServer
        /\ active' = active /\ listening' = listening
    BY <1>1 DEF vars, moving, client, wire, server
  <2> QED
    BY <2>1, InTurnStays DEF ListensInTurn
<1>2. CASE Next
  <2> SUFFICES ASSUME start' = "steady", link', NEW e \in Events PROVE InTurn(e)'
    BY DEF ListensInTurn
  <2>1. start = "steady"
    BY <1>2 DEF Next
  <2>2. ready /\ registered /\ queued = <<>> /\ ~flushDue /\ DOMAIN pending = {}
    BY <2>1 DEF Shaken
  <2>3. ASSUME link' = link PROVE link /\ InTurn(e) /\ serverUp
    BY <2>1, <2>3 DEF ListensInTurn, Linked
  <2>4. ASSUME NEW c \in Calls, Call(c) PROVE InTurn(e)'
    <3>1. link /\ InTurn(e) /\ active' = active /\ listening' = listening
      BY <2>3, <2>4 DEF Call, server
    <3>2. c \in Ids /\ c # e
      BY ChannelRpcAssumption DEF Ids
    <3>3. Request(c) \in ToServer /\ Request(c).id # e
      BY <3>2, RequestIsOne, RequestsAreMessages
    <3>4. Grown(Request(c))
      BY <2>2, <2>4, <3>1, <3>3, OneSent DEF Call
    <3> QED
      BY <3>1, <3>3, <3>4, InTurnGrows
  <2>5. ASSUME NEW c \in Calls, Cancel(c) PROVE InTurn(e)'
    <3> DEFINE m == [kind |-> "cancel", id |-> c]
    <3>1. link /\ InTurn(e) /\ active' = active /\ listening' = listening
      BY <2>3, <2>5 DEF Cancel, server
    <3>2. m \in ToServer /\ m.id # e
      BY ChannelRpcAssumption DEF ToServer
    <3>3. SendToServer(<<m>>)
      BY <2>5 DEF Cancel
    <3> HIDE DEF m
    <3>4. Grown(m)
      BY <3>1, <3>2, <3>3, OneSent
    <3> QED
      BY <3>1, <3>2, <3>4, InTurnGrows
  <2>6. ASSUME NEW c \in Calls, CallEnds(c) PROVE InTurn(e)'
    <3>1. link' = link /\ toServer' = toServer /\ listening' = listening /\ active' = active \ {c}
      BY <2>6 DEF CallEnds, client
    <3>2. c # e
      BY ChannelRpcAssumption
    <3> QED
      BY <2>3, <3>1, <3>2, InTurnStays
  <2>7. ASSUME NEW e0 \in Events, AddListener(e0) PROVE InTurn(e)'
    <3>1. link /\ InTurn(e) /\ active' = active /\ listening' = listening \cup {e0}
      BY <2>3, <2>7 DEF AddListener, server
    <3>2. e0 \in Ids /\ e0 \notin Calls /\ e0 \notin listening
      BY <2>7, ChannelRpcAssumption DEF Ids, AddListener
    <3>3. Request(e0) \in ToServer /\ Request(e0).id = e0 /\ Request(e0).kind = "listen"
      BY <3>2, RequestIsOne, RequestsAreMessages
    <3>4. Grown(Request(e0))
      BY <2>2, <2>7, <3>1, <3>3, OneSent DEF AddListener
    <3>5. CASE e = e0
      BY <3>1, <3>2, <3>3, <3>4, <3>5, InTurnSends
    <3>6. CASE e # e0
      BY <3>1, <3>3, <3>4, <3>6, InTurnGrows
    <3> QED
      BY <3>5, <3>6
  <2>8. ASSUME NEW e0 \in Events, RemoveListener(e0) PROVE InTurn(e)'
    <3> DEFINE m == [kind |-> "dispose", id |-> e0]
    <3>1. /\ link /\ InTurn(e) /\ active' = active /\ listening' = listening \ {e0}
          /\ e0 \in listening
      BY <2>3, <2>8 DEF RemoveListener, server
    <3>2. m \in ToServer /\ m.id = e0 /\ m.kind # "listen"
      BY DEF ToServer
    <3>3. SendToServer(<<m>>)
      BY <2>8 DEF RemoveListener
    <3> HIDE DEF m
    <3>4. Grown(m)
      BY <3>1, <3>2, <3>3, OneSent
    <3>5. CASE e = e0
      BY <3>1, <3>2, <3>4, <3>5, InTurnSends
    <3>6. CASE e # e0
      BY <3>1, <3>2, <3>4, <3>6, InTurnGrows
    <3> QED
      BY <3>5, <3>6
  <2>9. ASSUME NEW e0 \in Events, EventFires(e0) PROVE InTurn(e)'
    <3>1. link' = link /\ toServer' = toServer /\ listening' = listening /\ active' = active
      BY <2>9 DEF EventFires, client, server
    <3> QED
      BY <2>3, <3>1, InTurnStays
  <2>10. ASSUME Initialized PROVE InTurn(e)'
    <3>1. link' = link /\ listening' = listening /\ active' = active
      BY <2>10 DEF Initialized, server
    <3>2. toServer' = toServer
      BY <2>2, <2>10, NothingReleased
    <3> QED
      BY <2>3, <3>1, <3>2, InTurnStays
  <2>11. ASSUME ReceiveAnswer PROVE InTurn(e)'
    <3>1. link' = link /\ toServer' = toServer /\ listening' = listening /\ active' = active
      BY <2>11 DEF ReceiveAnswer, server
    <3> QED
      BY <2>3, <3>1, InTurnStays
  <2>12. ~DisposeClient /\ ~DisposeServer /\ ~LoseConnection
    <3>1. DisposeClient \/ DisposeServer => ~link /\ link' = link
      BY DEF DisposeClient, DisposeServer, wire
    <3>2. ~LoseConnection
      BY DEF LoseConnection
    <3> QED
      BY <3>1, <3>2
  <2>13. ASSUME ReceiveRequest PROVE InTurn(e)'
    <3> DEFINE m == Head(toServer)
    <3>1. link /\ InTurn(e) /\ listening' = listening
      BY <2>3, <2>13 DEF ReceiveRequest, client
    <3>2. Shrunk /\ m = toServer[1] /\ m \in ToServer
      BY <2>13, OneTaken DEF ReceiveRequest
    <3>3. m \in Requests /\ m.kind \in {"promise", "listen"}
      BY <2>13, <3>2, RequestsAreMessages DEF ReceiveRequest
    <3>4. Serve(<<m>>) /\ subs \in [Events -> Nat]
      BY <2>2, <2>13 DEF ReceiveRequest, Typed
    <3>5. m.id = e => m.kind = "listen"
      BY <3>2, <3>3, RequestsAreMessages
    <3> HIDE DEF m
    <3>6. active' = active \cup {m.id}
      BY <3>3, <3>4, OneServed
    <3>7. About(1, e) <=> m.id = e
      BY <3>2, <3>5 DEF About
    <3>8. About(1, e) => (e \in active' <=> toServer[1].kind = "listen")
      BY <3>2, <3>5, <3>6, <3>7
    <3>9. ~About(1, e) => (e \in active' <=> e \in active)
      BY <3>6, <3>7
    <3> QED
      BY <3>1, <3>2, <3>8, <3>9, InTurnShrinks
  <2>14. ASSUME ReceiveDispose PROVE InTurn(e)'
    <3> DEFINE m == Head(toServer)
    <3>1. link /\ InTurn(e) /\ listening' = listening /\ active' = active \ ({m.id} \cap active)
      BY <2>3, <2>14 DEF ReceiveDispose, client
    <3>2. Shrunk /\ m = toServer[1] /\ m \in ToServer /\ m.kind \in {"cancel", "dispose"}
      BY <2>14, OneTaken DEF ReceiveDispose
    <3>3. m.id = e => m.kind = "dispose"
      BY <3>2, RequestsAreMessages
    <3> HIDE DEF m
    <3>4. About(1, e) <=> m.id = e
      BY <3>2, <3>3 DEF About
    <3>5. About(1, e) => (e \in active' <=> toServer[1].kind = "listen")
      BY <3>1, <3>2, <3>3, <3>4
    <3>6. ~About(1, e) => (e \in active' <=> e \in active)
      BY <3>1, <3>4
    <3> QED
      BY <3>1, <3>2, <3>5, <3>6, InTurnShrinks
  <2>15. ~RegisterChannel /\ ~FlushPending /\ ~ \E i \in DOMAIN pending : TimerFires(i)
    BY <2>2 DEF RegisterChannel, FlushPending
  <2> QED
    BY <1>2, <2>4, <2>5, <2>6, <2>7, <2>8, <2>9, <2>10, <2>11, <2>12, <2>13,
       <2>14, <2>15 DEF Next
<1> QED
  BY <1>1, <1>2

\* A request that arrives for an event finds none of its subscriptions.
LEMMA ArrivesNew ==
    ASSUME Typed, Linked, ListensInTurn, start = "steady", ReceiveRequest,
           Head(toServer).id \in Events
    PROVE  Head(toServer).id \notin active
<1> DEFINE m == Head(toServer)
           e == m.id
<1>1. Shrunk /\ m = toServer[1] /\ m \in ToServer /\ toServer # <<>>
  BY OneTaken DEF ReceiveRequest
<1>2. link
  BY <1>1 DEF Linked, Typed
<1>3. m.kind = "listen"
  BY <1>1, RequestsAreMessages DEF ReceiveRequest
<1>4. e \in Events
  OBVIOUS
<1> HIDE DEF m
<1>5. InTurn(e)
  BY <1>2, <1>4 DEF ListensInTurn
<1>6. 1 \in 1..Len(toServer)
  <2>1. Len(toServer) \in Nat
    BY OnTheWire
  <2> QED
    BY <1>1, <2>1 DEF Shrunk
<1>7. About(1, e)
  BY <1>1, <1>3 DEF About
<1>8. NoneAbout(0, 1, e)
  <2>1. \A k \in 1..Len(toServer) : ~ (k < 1)
    BY OnTheWire
  <2> QED
    BY <2>1 DEF NoneAbout
<1>9. toServer[1].kind = "listen" <=> e \notin active
  BY <1>5, <1>6, <1>7, <1>8 DEF InTurn
<1> QED
  BY <1>1, <1>3, <1>9 DEF m

LEMMA SubscribedStep ==
    ASSUME Typed, Linked, Shaken, ListensInTurn, Subscribed, [Next]_vars
    PROVE  Subscribed'
<1>1. CASE UNCHANGED vars
  BY <1>1 DEF Subscribed, vars, moving, server
<1>2. CASE Next
  <2> SUFFICES ASSUME start' = "steady", serverUp', NEW e \in Events
               PROVE  subs'[e] = IF e \in active' THEN 1 ELSE 0
    BY DEF Subscribed
  <2>1. start = "steady"
    BY <1>2 DEF Next
  <2>2. registered /\ ~flushDue /\ DOMAIN pending = {}
    BY <2>1 DEF Shaken
  <2>3. ASSUME serverUp PROVE subs[e] = IF e \in active THEN 1 ELSE 0
    BY <2>1, <2>3 DEF Subscribed
  <2>4. subs[e] \in Nat /\ subs \in [Events -> Nat]
    BY DEF Typed
  <2>5. ASSUME serverUp' = serverUp, subs' = subs, active' = active
        PROVE  subs'[e] = IF e \in active' THEN 1 ELSE 0
    BY <2>3, <2>5
  <2>6. ASSUME NEW c \in Calls, Call(c) PROVE subs'[e] = IF e \in active' THEN 1 ELSE 0
    BY <2>5, <2>6 DEF Call, server
  <2>7. ASSUME NEW c \in Calls, Cancel(c) PROVE subs'[e] = IF e \in active' THEN 1 ELSE 0
    BY <2>5, <2>7 DEF Cancel, server
  <2>8. ASSUME NEW c \in Calls, CallEnds(c) PROVE subs'[e] = IF e \in active' THEN 1 ELSE 0
    <3>1. serverUp' = serverUp /\ subs' = subs /\ active' = active \ {c}
      BY <2>8 DEF CallEnds
    <3>2. c # e
      BY ChannelRpcAssumption
    <3> QED
      BY <2>3, <3>1, <3>2
  <2>9. ASSUME NEW e0 \in Events, AddListener(e0)
        PROVE  subs'[e] = IF e \in active' THEN 1 ELSE 0
    BY <2>5, <2>9 DEF AddListener, server
  <2>10. ASSUME NEW e0 \in Events, RemoveListener(e0)
         PROVE  subs'[e] = IF e \in active' THEN 1 ELSE 0
    BY <2>5, <2>10 DEF RemoveListener, server
  <2>11. ASSUME NEW e0 \in Events, EventFires(e0)
         PROVE  subs'[e] = IF e \in active' THEN 1 ELSE 0
    BY <2>5, <2>11 DEF EventFires, server
  <2>12. ASSUME Initialized PROVE subs'[e] = IF e \in active' THEN 1 ELSE 0
    BY <2>5, <2>12 DEF Initialized, server
  <2>13. ASSUME ReceiveAnswer PROVE subs'[e] = IF e \in active' THEN 1 ELSE 0
    BY <2>5, <2>13 DEF ReceiveAnswer, server
  <2>14. ASSUME DisposeClient PROVE subs'[e] = IF e \in active' THEN 1 ELSE 0
    BY <2>5, <2>14 DEF DisposeClient, server
  <2>15. ASSUME ReceiveRequest PROVE subs'[e] = IF e \in active' THEN 1 ELSE 0
    <3> DEFINE m == Head(toServer)
    <3>1. m \in ToServer /\ serverUp
      BY <2>15, OneTaken DEF ReceiveRequest
    <3>2. m \in Requests
      BY <2>15, <3>1, RequestsAreMessages DEF ReceiveRequest
    <3>3. Serve(<<m>>)
      BY <2>2, <2>15 DEF ReceiveRequest
    <3>4. m.id = e => e \notin active
      BY <2>1, <2>15, ArrivesNew
    <3> HIDE DEF m
    <3>5. /\ active' = active \cup {m.id}
          /\ subs'[e] = IF m.id = e THEN subs[e] + 1 ELSE subs[e]
      BY <2>4, <3>2, <3>3, OneServed
    <3>6. CASE m.id = e
      <4>1. subs[e] = 0 /\ e \in active'
        BY <2>3, <3>1, <3>4, <3>5, <3>6
      <4> QED
        BY <3>5, <3>6, <4>1
    <3>7. CASE m.id # e
      BY <2>3, <3>1, <3>5, <3>7
    <3> QED
      BY <3>6, <3>7
  <2>16. ASSUME ReceiveDispose PROVE subs'[e] = IF e \in active' THEN 1 ELSE 0
    <3> DEFINE ids == {Head(toServer).id} \cap active
    <3>1. /\ serverUp /\ active' = active \ ids
          /\ subs' = [e1 \in Events |-> IF e1 \in ids THEN subs[e1] - 1 ELSE subs[e1]]
      BY <2>16 DEF ReceiveDispose
    <3>2. e \in ids => e \in active
      OBVIOUS
    <3> HIDE DEF ids
    <3>3. subs'[e] = IF e \in ids THEN subs[e] - 1 ELSE subs[e]
      BY <3>1
    <3>4. subs[e] = IF e \in active THEN 1 ELSE 0
      BY <2>3, <3>1
    <3>5. CASE e \in ids
      BY <3>1, <3>2, <3>3, <3>4, <3>5
    <3>6. CASE e \notin ids
      BY <3>1, <3>3, <3>4, <3>6
    <3> QED
      BY <3>5, <3>6
  <2>17. ~RegisterChannel /\ ~FlushPending /\ ~ \E i \in DOMAIN pending : TimerFires(i)
    BY <2>2 DEF RegisterChannel, FlushPending
  <2>18. ~DisposeServer
    BY DEF DisposeServer
  <2>19. ASSUME LoseConnection PROVE subs'[e] = IF e \in active' THEN 1 ELSE 0
    BY <2>5, <2>19 DEF LoseConnection, server
  <2> QED
    BY <1>2, <2>6, <2>7, <2>8, <2>9, <2>10, <2>11, <2>12, <2>13, <2>14, <2>15,
       <2>16, <2>17, <2>18, <2>19 DEF Next
<1> QED
  BY <1>1, <1>2

-----------------------------------------------------------------------------
(* The cancel of a call follows its request.                               *)

LEMMA FollowedStays ==
    ASSUME NEW c \in Calls, Followed(c), toServer' = toServer,
           c \in running' => c \in running,
           c \in running' /\ c \in stopped => c \in stopped'
    PROVE  Followed(c)'
  BY DEF Followed, SentAt, CancelAt

\* Something was sent that is not the request of c.
LEMMA FollowedGrows ==
    ASSUME Typed, NEW c \in Calls, Followed(c), NEW m \in ToServer, Grown(m),
           m.kind # "promise" \/ m.id # c,
           running' = running, stopped' = stopped
    PROVE  Followed(c)'
<1>1. PICK n : n = Len(toServer)
  OBVIOUS
<1>2. n \in Nat
  BY <1>1, OnTheWire
<1>3. /\ Len(toServer)' = n + 1 /\ toServer'[n + 1] = m
      /\ \A i \in 1..n : toServer'[i] = toServer[i]
  BY <1>1 DEF Grown
<1>4. \A i \in 1..(n + 1) : i \in 1..n \/ i = n + 1
  BY <1>2
<1>5. \A i \in 1..n : i \in 1..(n + 1)
  BY <1>2
<1>6. \A k \in 1..n : CancelAt(k, c) => CancelAt(k, c)'
  BY <1>3 DEF CancelAt
<1>7. ASSUME NEW i \in 1..(n + 1), SentAt(i, c)' PROVE i \in 1..n /\ SentAt(i, c)
  BY <1>3, <1>4, <1>7 DEF SentAt
<1>8. ASSUME NEW i \in 1..(n + 1), SentAt(i, c)'
      PROVE  \E k \in 1..(n + 1) : i < k /\ CancelAt(k, c)'
  <2>1. i \in 1..n /\ SentAt(i, c)
    BY <1>7, <1>8
  <2>2. PICK k \in 1..n : i < k /\ CancelAt(k, c)
    BY <1>1, <2>1 DEF Followed
  <2> QED
    BY <1>5, <1>6, <2>2
<1>9. c \in running' /\ c \notin stopped' => \E k \in 1..(n + 1) : CancelAt(k, c)'
  <2> SUFFICES ASSUME c \in running', c \notin stopped'
               PROVE  \E k \in 1..(n + 1) : CancelAt(k, c)'
    OBVIOUS
  <2>1. PICK k \in 1..n : CancelAt(k, c)
    BY <1>1 DEF Followed
  <2> QED
    BY <1>5, <1>6, <2>1
<1> QED
  BY <1>3, <1>8, <1>9 DEF Followed

\* The cancel of c was sent: it is last.
LEMMA FollowedSends ==
    ASSUME Typed, NEW c \in Calls, NEW m \in ToServer, Grown(m),
           m.kind = "cancel", m.id = c
    PROVE  Followed(c)'
<1>1. PICK n : n = Len(toServer)
  OBVIOUS
<1>2. n \in Nat
  BY <1>1, OnTheWire
<1>3. /\ Len(toServer)' = n + 1 /\ toServer'[n + 1] = m
  BY <1>1 DEF Grown
<1>4. n + 1 \in 1..(n + 1) /\ \A i \in 1..(n + 1) : i = n + 1 \/ i < n + 1
  BY <1>2
<1>5. CancelAt(n + 1, c)' /\ ~SentAt(n + 1, c)'
  BY <1>3 DEF CancelAt, SentAt
<1> QED
  BY <1>3, <1>4, <1>5 DEF Followed

\* The first message was taken; if it was the cancel of c, c is stopped.
LEMMA FollowedShrinks ==
    ASSUME Typed, NEW c \in Calls, Followed(c), Shrunk,
           c \in running' => c \in running \/ SentAt(1, c),
           c \in stopped => c \in stopped',
           CancelAt(1, c) /\ c \in running' => c \in stopped'
    PROVE  Followed(c)'
<1>1. PICK n : n = Len(toServer)
  OBVIOUS
<1>2. n \in Nat /\ n # 0
  BY <1>1, OnTheWire DEF Shrunk
<1>3. Len(toServer)' = n - 1 /\ \A i \in 1..(n - 1) : toServer'[i] = toServer[i + 1]
  BY <1>1 DEF Shrunk
<1>4. \A i \in 1..(n - 1) : i \in Nat /\ i + 1 \in 1..n
  BY <1>2
<1>5. 1 \in 1..n /\ \A k \in 1..n : k \in Nat /\ (k = 1 \/ (k - 1 \in 1..(n - 1) /\ (k - 1) + 1 = k))
  BY <1>2
<1>6. ASSUME NEW k \in 1..n, k # 1, CancelAt(k, c)
      PROVE  k - 1 \in 1..(n - 1) /\ CancelAt(k - 1, c)'
  <2>1. k - 1 \in 1..(n - 1) /\ (k - 1) + 1 = k
    BY <1>5, <1>6
  <2>2. toServer'[k - 1] = toServer[k]
    BY <1>3, <2>1
  <2> QED
    BY <1>6, <2>1, <2>2 DEF CancelAt
<1>7. ASSUME NEW i \in 1..(n - 1), SentAt(i, c)'
      PROVE  \E k \in 1..(n - 1) : i < k /\ CancelAt(k, c)'
  <2>1. i \in Nat /\ i + 1 \in 1..n /\ SentAt(i + 1, c)
    BY <1>3, <1>4, <1>7 DEF SentAt
  <2>2. PICK k \in 1..n : i + 1 < k /\ CancelAt(k, c)
    BY <1>1, <2>1 DEF Followed
  <2>3. k # 1 /\ i < k - 1
    BY <1>5, <2>1, <2>2
  <2> QED
    BY <1>6, <2>2, <2>3
<1>8. c \in running' /\ c \notin stopped' => \E k \in 1..(n - 1) : CancelAt(k, c)'
  <2> SUFFICES ASSUME c \in running', c \notin stopped'
               PROVE  \E k \in 1..(n - 1) : CancelAt(k, c)'
    OBVIOUS
  <2>1. ~CancelAt(1, c) /\ c \notin stopped
    OBVIOUS
  <2>2. \E k \in 1..n : CancelAt(k, c)
    <3>1. CASE c \in running
      BY <1>1, <2>1, <3>1 DEF Followed
    <3>2. CASE SentAt(1, c)
      BY <1>1, <1>5, <3>2 DEF Followed
    <3> QED
      BY <3>1, <3>2
  <2>3. PICK k \in 1..n : CancelAt(k, c)
    BY <2>2
  <2>4. k # 1
    BY <2>1, <2>3
  <2> QED
    BY <1>6, <2>3, <2>4
<1> QED
  BY <1>3, <1>7, <1>8 DEF Followed

LEMMA CancelFollowsStep ==
    ASSUME Typed, Linked, CallsBooked, Shaken, CancelFollows, [Next]_vars
    PROVE  CancelFollows'
<1>1. CASE UNCHANGED vars
  <2>1. /\ start' = start /\ link' = link /\ toServer' = toServer /\ promise' = promise
        /\ running' = running /\ stopped' = stopped
    BY <1>1 DEF vars, moving, client, wire, server
  <2> QED
    BY <2>1, FollowedStays DEF CancelFollows
<1>2. CASE Next
  <2> SUFFICES ASSUME start' = "steady", link', NEW c \in Calls, promise'[c] = "cancelled"
               PROVE  Followed(c)'
    BY DEF CancelFollows
  <2>1. start = "steady"
    BY <1>2 DEF Next
  <2>2. ready /\ registered /\ queued = <<>> /\ ~flushDue /\ DOMAIN pending = {}
    BY <2>1 DEF Shaken
  <2>3. ASSUME link' = link, promise[c] = "cancelled" PROVE link /\ Followed(c) /\ serverUp
    BY <2>1, <2>3 DEF CancelFollows, Linked
  <2>4. ASSUME NEW c0 \in Calls, Call(c0) PROVE Followed(c)'
    <3>1. /\ link' = link /\ running' = running /\ stopped' = stopped
          /\ promise' = [promise EXCEPT ![c0] = "sent"]
          /\ SendToServer(<<Request(c0)>>)
      BY <2>2, <2>4 DEF Call, server
    <3>2. promise[c] = "cancelled" /\ c # c0
      BY <3>1 DEF Typed
    <3>3. c0 \in Ids
      BY DEF Ids
    <3>4. Request(c0) \in ToServer /\ Request(c0).id # c
      BY <3>2, <3>3, RequestIsOne, RequestsAreMessages
    <3>5. link /\ Followed(c)
      BY <2>3, <3>1, <3>2
    <3>6. Grown(Request(c0))
      BY <3>1, <3>4, <3>5, OneSent
    <3> QED
      BY <3>1, <3>4, <3>5, <3>6, FollowedGrows
  <2>5. ASSUME NEW c0 \in Calls, Cancel(c0) PROVE Followed(c)'
    <3> DEFINE m == [kind |-> "cancel", id |-> c0]
    <3>1. /\ link' = link /\ running' = running /\ stopped' = stopped
          /\ promise' = [promise EXCEPT ![c0] = "cancelled"]
          /\ SendToServer(<<m>>)
      BY <2>5 DEF Cancel, server
    <3>2. m \in ToServer /\ m.kind = "cancel" /\ m.id = c0
      BY DEF ToServer
    <3> HIDE DEF m
    <3>3. Grown(m)
      BY <3>1, <3>2, OneSent
    <3>4. CASE c = c0
      BY <3>2, <3>3, <3>4, FollowedSends
    <3>5. CASE c # c0
      <4>1. promise[c] = "cancelled"
        BY <3>1, <3>5 DEF Typed
      <4>2. Followed(c)
        BY <2>3, <3>1, <4>1
      <4> QED
        BY <3>1, <3>2, <3>3, <4>2, FollowedGrows
    <3> QED
      BY <3>4, <3>5
  <2>6. ASSUME NEW c0 \in Calls, CallEnds(c0) PROVE Followed(c)'
    <3>1. /\ link' = link /\ promise' = promise /\ toServer' = toServer
          /\ running' = running \ {c0} /\ stopped' = stopped \ {c0}
      BY <2>6 DEF CallEnds, client
    <3>2. Followed(c)
      BY <2>3, <3>1
    <3> QED
      BY <3>1, <3>2, FollowedStays
  <2>7. ASSUME NEW e \in Events, AddListener(e) PROVE Followed(c)'
    <3>1. /\ link' = link /\ promise' = promise /\ running' = running /\ stopped' = stopped
          /\ SendToServer(<<Request(e)>>)
      BY <2>2, <2>7 DEF AddListener, server
    <3>2. link /\ Followed(c)
      BY <2>3, <3>1
    <3>3. e \in Ids /\ e # c
      BY ChannelRpcAssumption DEF Ids
    <3>4. Request(e) \in ToServer /\ Request(e).id # c
      BY <3>3, RequestIsOne, RequestsAreMessages
    <3>5. Grown(Request(e))
      BY <3>1, <3>2, <3>4, OneSent
    <3> QED
      BY <3>1, <3>2, <3>4, <3>5, FollowedGrows
  <2>8. ASSUME NEW e \in Events, RemoveListener(e) PROVE Followed(c)'
    <3> DEFINE m == [kind |-> "dispose", id |-> e]
    <3>1. /\ link' = link /\ promise' = promise /\ running' = running /\ stopped' = stopped
          /\ SendToServer(<<m>>)
      BY <2>8 DEF RemoveListener, server
    <3>2. link /\ Followed(c)
      BY <2>3, <3>1
    <3>3. m \in ToServer /\ m.kind # "promise"
      BY DEF ToServer
    <3> HIDE DEF m
    <3>4. Grown(m)
      BY <3>1, <3>2, <3>3, OneSent
    <3> QED
      BY <3>1, <3>2, <3>3, <3>4, FollowedGrows
  <2>9. ASSUME NEW e \in Events, EventFires(e) PROVE Followed(c)'
    <3>1. /\ link' = link /\ promise' = promise /\ toServer' = toServer
          /\ running' = running /\ stopped' = stopped
      BY <2>9 DEF EventFires, client, server
    <3> QED
      BY <2>3, <3>1, FollowedStays
  <2>10. ASSUME Initialized PROVE Followed(c)'
    <3>1. link' = link /\ running' = running /\ stopped' = stopped
      BY <2>10 DEF Initialized, server
    <3>2. toServer' = toServer /\ promise' = promise
      BY <2>2, <2>10, NothingReleased
    <3> QED
      BY <2>3, <3>1, <3>2, FollowedStays
  <2>11. ASSUME ReceiveAnswer PROVE Followed(c)'
    <3>1. /\ link' = link /\ toServer' = toServer
          /\ running' = running /\ stopped' = stopped
      BY <2>11 DEF ReceiveAnswer, server
    <3>2. promise[c] = "cancelled"
      BY <2>11 DEF ReceiveAnswer
    <3> QED
      BY <2>3, <3>1, <3>2, FollowedStays
  <2>12. ~DisposeClient /\ ~DisposeServer /\ ~LoseConnection
    <3>1. DisposeClient \/ DisposeServer => ~link /\ link' = link
      BY DEF DisposeClient, DisposeServer, wire
    <3>2. ~LoseConnection
      BY DEF LoseConnection
    <3> QED
      BY <3>1, <3>2
  <2>13. ASSUME ReceiveRequest PROVE Followed(c)'
    <3> DEFINE m == Head(toServer)
    <3>1. link' = link /\ promise' = promise /\ stopped' = stopped
      BY <2>13 DEF ReceiveRequest, client
    <3>2. link /\ Followed(c)
      BY <2>3, <3>1
    <3>3. Shrunk /\ m = toServer[1] /\ m \in ToServer
      BY <2>13, OneTaken DEF ReceiveRequest
    <3>4. m \in Requests /\ m.kind \in {"promise", "listen"}
      BY <2>13, <3>3, RequestsAreMessages DEF ReceiveRequest
    <3>5. Serve(<<m>>) /\ subs \in [Events -> Nat]
      BY <2>2, <2>13 DEF ReceiveRequest, Typed
    <3>6. m.id = c => m.kind = "promise"
      BY <3>3, <3>4, RequestsAreMessages
    <3> HIDE DEF m
    <3>7. running' = running \cup ({m.id} \cap Calls)
      BY <3>4, <3>5, OneServed
    <3>8. c \in running' => c \in running \/ SentAt(1, c)
      BY <3>3, <3>6, <3>7 DEF SentAt
    <3>9. ~CancelAt(1, c)
      BY <3>3, <3>4 DEF CancelAt
    <3> QED
      BY <3>1, <3>2, <3>3, <3>8, <3>9, FollowedShrinks
  <2>14. ASSUME ReceiveDispose PROVE Followed(c)'
    <3> DEFINE m == Head(toServer)
    <3>1. /\ link' = link /\ promise' = promise /\ running' = running
          /\ stopped' = stopped \cup (({m.id} \cap active) \cap running)
      BY <2>14 DEF ReceiveDispose, client
    <3>2. link /\ Followed(c) /\ serverUp
      BY <2>3, <3>1
    <3>3. Shrunk /\ m = toServer[1]
      BY <2>14, OneTaken DEF ReceiveDispose
    <3> HIDE DEF m
    <3>4. active \cap Calls = running \ stopped
      BY <3>2 DEF CallsBooked
    <3>5. CancelAt(1, c) /\ c \in running' => c \in stopped'
      BY <3>1, <3>3, <3>4 DEF CancelAt
    <3> QED
      BY <3>1, <3>2, <3>3, <3>5, FollowedShrinks
  <2>15. ~RegisterChannel /\ ~FlushPending /\ ~ \E i \in DOMAIN pending : TimerFires(i)
    BY <2>2 DEF RegisterChannel, FlushPending
  <2> QED
    BY <1>2, <2>4, <2>5, <2>6, <2>7, <2>8, <2>9, <2>10, <2>11, <2>12, <2>13,
       <2>14, <2>15 DEF Next
<1> QED
  BY <1>1, <1>2

-----------------------------------------------------------------------------
(* The invariant, and what follows from it.                                *)

LEMMA InitInv == Init => IInv
<1> SUFFICES ASSUME Init PROVE IInv
  OBVIOUS
<1>1. Typed /\ Counted
  BY TypedInit
<1>2. /\ link /\ serverUp /\ toServer = <<>> /\ pending = <<>> /\ queued = <<>>
      /\ running = {} /\ stopped = {} /\ active = {} /\ listening = {} /\ flushDue = FALSE
      /\ subs = [e \in Events |-> 0] /\ promise = [c \in Calls |-> "unused"]
      /\ ready = (start = "steady") /\ registered = ready
  BY DEF Init
<1>3. Len(toServer) = 0 /\ Len(pending) = 0 /\ Len(queued) = 0
  BY <1>2
<1>4. 1..Len(toServer) = {} /\ 1..Len(pending) = {} /\ 1..Len(queued) = {}
  BY <1>3
<1>5. Linked
  BY <1>2 DEF Linked
<1>6. CallsOnce
  BY <1>2, <1>4 DEF CallsOnce, OncePlaced, Waits, Sent, Held, WaitsOnce, SentOnce
<1>7. CallsBooked
  BY <1>2 DEF CallsBooked
<1>8. Shaken
  BY <1>2 DEF Shaken
<1>9. ListensInTurn
  BY <1>2, <1>4 DEF ListensInTurn, InTurn
<1>10. Subscribed
  BY <1>2 DEF Subscribed
<1>11. CancelFollows
  BY <1>2 DEF CancelFollows
<1> QED
  BY <1>1, <1>5, <1>6, <1>7, <1>8, <1>9, <1>10, <1>11 DEF IInv

LEMMA InvStep == IInv /\ [Next]_vars => IInv'
<1> SUFFICES ASSUME IInv, [Next]_vars PROVE IInv'
  OBVIOUS
<1>1. /\ Typed /\ Counted /\ Linked /\ CallsOnce /\ CallsBooked
      /\ Shaken /\ ListensInTurn /\ Subscribed /\ CancelFollows
  BY DEF IInv
<1>2. Typed' /\ Counted'
  BY <1>1, TypedStep
<1>3. Linked' /\ CallsOnce' /\ CallsBooked'
  BY <1>1, LinkedStep, CallsOnceStep, CallsBookedStep
<1>4. Shaken' /\ ListensInTurn' /\ Subscribed'
  BY <1>1, ShakenStep, ListensInTurnStep, SubscribedStep
<1>5. CancelFollows'
  BY <1>1, CancelFollowsStep
<1> QED
  BY <1>2, <1>3, <1>4, <1>5 DEF IInv

LEMMA Invariant == Spec => []IInv
  BY InitInv, InvStep, PTL DEF Spec

LEMMA TablesFollow == IInv => TablesSound
<1> SUFFICES ASSUME IInv PROVE TablesSound
  OBVIOUS
<1>1. Typed /\ Counted /\ CallsBooked /\ Subscribed /\ CancelFollows
  BY DEF IInv
<1>2. TypeOK
  <2>1. \A i \in DOMAIN pending : /\ pending[i].msg \in ToServer
                                  /\ pending[i].timedOut \in BOOLEAN
    BY <1>1, OnTheWire, RequestsAreMessages
  <2> QED
    BY <1>1, <2>1 DEF Typed, TypeOK
<1>3. BookMatchesWork
  <2> SUFFICES ASSUME serverUp, start = "steady"
               PROVE  active \cap Events = {e \in Events : subs[e] > 0}
    BY <1>1 DEF BookMatchesWork, CallsBooked
  <2>1. \A e \in Events : subs[e] = IF e \in active THEN 1 ELSE 0
    BY <1>1 DEF Subscribed
  <2>2. \A e \in Events : e \in active <=> subs[e] > 0
    BY <2>1
  <2> QED
    BY <2>2
<1>4. CancelReaches
  <2> SUFFICES ASSUME start = "steady", NEW c \in Calls, link, promise[c] = "cancelled",
                      c \in running, c \notin stopped
               PROVE  OnTheWay({"cancel"}, c)
    BY DEF CancelReaches
  <2>1. PICK k \in 1..Len(toServer) : CancelAt(k, c)
    BY <1>1 DEF CancelFollows, Followed
  <2>2. DOMAIN toServer = 1..Len(toServer)
    BY <1>1 DEF Typed
  <2> QED
    BY <2>1, <2>2 DEF OnTheWay, CancelAt
<1> QED
  BY <1>2, <1>3, <1>4 DEF TablesSound

LEMMA NoStrayFollows == IInv => NoStrayAfterHandshake
<1> SUFFICES ASSUME IInv, start = "steady", NEW e \in Events, link, e \notin listening,
                    ~OnTheWay({"listen", "dispose"}, e)
             PROVE  subs[e] = 0
  BY DEF NoStrayAfterHandshake, NoStraySubscription
<1>1. Typed /\ Linked /\ ListensInTurn /\ Subscribed
  BY DEF IInv
<1>2. DOMAIN toServer = 1..Len(toServer)
  BY <1>1 DEF Typed
<1>3. NoneAbout(0, Len(toServer) + 1, e)
  BY <1>2 DEF NoneAbout, About, OnTheWay
<1>4. e \in active <=> e \in listening
  BY <1>1, <1>3 DEF ListensInTurn, InTurn
<1> QED
  BY <1>1, <1>4 DEF Subscribed, Linked

\* A step sends no request of a call that was rejected before it.
LEMMA NoRejectedSent ==
    ASSUME Typed, [Next]_vars, NEW c \in Calls, promise[c] \in Rejected, Sent(c)'
    PROVE  Sent(c)
<1> USE DEF Rejected
<1>1. ASSUME toServer' = toServer PROVE Sent(c)
  BY <1>1 DEF Sent, SentAt
<1>2. ASSUME Shrunk PROVE Sent(c)
  <2>1. Len(toServer) \in Nat
    BY OnTheWire
  <2>2. \A i \in 1..Len(toServer)' :
            i + 1 \in 1..Len(toServer) /\ toServer'[i] = toServer[i + 1]
    BY <1>2, <2>1 DEF Shrunk
  <2> QED
    BY <2>2 DEF Sent, SentAt
<1>3. ASSUME NEW m \in ToServer, SendToServer(<<m>>), m.kind # "promise" \/ m.id # c
      PROVE  Sent(c)
  <2>1. CASE link
    <3>1. Grown(m)
      BY <1>3, <2>1, OneSent
    <3>2. Len(toServer) \in Nat
      BY OnTheWire
    <3>3. \A i \in 1..(Len(toServer) + 1) : i \in 1..Len(toServer) \/ i = Len(toServer) + 1
      BY <3>2
    <3> QED
      BY <1>3, <3>1, <3>3 DEF Grown, Sent, SentAt
  <2>2. CASE ~link
    BY <1>1, <1>3, <2>2, OneSent
  <2> QED
    BY <2>1, <2>2 DEF Typed
<1>4. CASE UNCHANGED vars
  BY <1>1, <1>4 DEF vars, moving, wire
<1>5. CASE Next
  <2>1. ASSUME NEW c0 \in Calls, Call(c0) PROVE Sent(c)
    <3>1. promise[c0] = "unused"
      BY <2>1 DEF Call
    <3>2. c0 \in Ids /\ c0 # c
      BY <3>1 DEF Ids
    <3>3. Request(c0) \in ToServer /\ Request(c0).id # c
      BY <3>2, RequestIsOne, RequestsAreMessages
    <3>4. toServer' = toServer \/ SendToServer(<<Request(c0)>>)
      BY <2>1 DEF Call
    <3> QED
      BY <1>1, <1>3, <3>3, <3>4
  <2>2. ASSUME NEW c0 \in Calls, Cancel(c0) PROVE Sent(c)
    <3> DEFINE m == [kind |-> "cancel", id |-> c0]
    <3>1. m \in ToServer /\ m.kind # "promise"
      BY DEF ToServer
    <3>2. SendToServer(<<m>>)
      BY <2>2 DEF Cancel
    <3> HIDE DEF m
    <3> QED
      BY <1>3, <3>1, <3>2
  <2>3. ASSUME NEW c0 \in Calls, CallEnds(c0) PROVE Sent(c)
    BY <1>1, <2>3 DEF CallEnds
  <2>4. ASSUME NEW e \in Events, AddListener(e) PROVE Sent(c)
    <3>1. e \in Ids /\ e # c
      BY ChannelRpcAssumption DEF Ids
    <3>2. Request(e) \in ToServer /\ Request(e).id # c
      BY <3>1, RequestIsOne, RequestsAreMessages
    <3>3. toServer' = toServer \/ SendToServer(<<Request(e)>>)
      BY <2>4 DEF AddListener
    <3> QED
      BY <1>1, <1>3, <3>2, <3>3
  <2>5. ASSUME NEW e \in Events, RemoveListener(e) PROVE Sent(c)
    <3> DEFINE m == [kind |-> "dispose", id |-> e]
    <3>1. m \in ToServer /\ m.kind # "promise"
      BY DEF ToServer
    <3>2. SendToServer(<<m>>)
      BY <2>5 DEF RemoveListener
    <3> HIDE DEF m
    <3> QED
      BY <1>3, <3>1, <3>2
  <2>6. ASSUME NEW e \in Events, EventFires(e) PROVE Sent(c)
    BY <1>1, <2>6 DEF EventFires
  <2>7. ASSUME Initialized PROVE Sent(c)
    <3>1. PICK out, reqs, m :
              /\ Released(out, reqs, Len(out), m)
              /\ ~link => toServer' = toServer
              /\ link => GrownBy(reqs, Len(out))
      BY <2>7, InitializedSends
    <3> DEFINE n == Len(out)
    <3>2. /\ n \in Nat
          /\ \A i \in 1..n : /\ Sendable(out[i]) /\ out[i] \in Ids
                             /\ reqs[i] = Request(out[i])
      BY <3>1 DEF Released
    <3>3. \A i \in 1..n : reqs[i].id # c
      <4>1. \A i \in 1..n : out[i] # c
        BY <3>2, ChannelRpcAssumption DEF Sendable
      <4>2. \A i \in 1..n : reqs[i].id = out[i]
        BY <3>2, RequestIsOne
      <4> QED
        BY <4>1, <4>2
    <3> HIDE DEF n
    <3>4. CASE link
      <4>1. PICK l : l = Len(toServer)
        OBVIOUS
      <4>2. l \in Nat
        BY <4>1, OnTheWire
      <4>3. /\ Len(toServer)' = l + n
            /\ \A i \in 1..l : toServer'[i] = toServer[i]
            /\ \A i \in 1..n : toServer'[l + i] = reqs[i]
        BY <3>1, <3>4, <4>1 DEF GrownBy, n
      <4>4. \A i \in 1..(l + n) : i \in 1..l \/ (i - l \in 1..n /\ i = l + (i - l))
        BY <3>2, <4>2
      <4>5. \A i \in 1..(l + n) : SentAt(i, c)' => i \in 1..l /\ SentAt(i, c)
        BY <3>3, <4>3, <4>4 DEF SentAt
      <4> QED
        BY <4>1, <4>3, <4>5 DEF Sent
    <3>5. CASE ~link
      BY <1>1, <3>1, <3>5
    <3> QED
      BY <3>4, <3>5 DEF Typed
  <2>8. ASSUME ReceiveAnswer PROVE Sent(c)
    BY <1>1, <2>8 DEF ReceiveAnswer
  <2>9. ASSUME DisposeClient PROVE Sent(c)
    BY <1>1, <2>9 DEF DisposeClient, wire
  <2>10. ASSUME ReceiveRequest \/ ReceiveDispose PROVE Sent(c)
    BY <1>2, <2>10, OneTaken DEF ReceiveRequest, ReceiveDispose
  <2>11. ASSUME RegisterChannel \/ FlushPending \/ DisposeServer PROVE Sent(c)
    BY <1>1, <2>11 DEF RegisterChannel, FlushPending, DisposeServer, wire
  <2>12. ASSUME NEW i \in DOMAIN pending, TimerFires(i) PROVE Sent(c)
    BY <1>1, <2>12 DEF TimerFires
  <2>13. ASSUME LoseConnection PROVE Sent(c)
    <3>1. Len(toServer)' = 0
      BY <2>13 DEF LoseConnection
    <3> QED
      BY <3>1 DEF Sent
  <2> QED
    BY <1>5, <2>1, <2>2, <2>3, <2>4, <2>5, <2>6, <2>7, <2>8, <2>9, <2>10, <2>11,
       <2>12, <2>13 DEF Next
<1> QED
  BY <1>4, <1>5

-----------------------------------------------------------------------------
(***************************************************************************)
(* The tables of both ends are well formed, the server's book lists the    *)
(* work that is under way, and what was cancelled at one end is stopped at *)
(* the other: for any calls, events and numbers of listeners.              *)
(***************************************************************************)
THEOREM TablesStaySound == Spec => []TablesSound
  BY Invariant, TablesFollow, PTL

(***************************************************************************)
(* On a connection that began with the handshake done the server keeps no  *)
(* subscription nobody listens to, once nothing about it is on the way.    *)
(***************************************************************************)
THEOREM NoStray == Spec => []NoStrayAfterHandshake
  BY Invariant, NoStrayFollows, PTL

(***************************************************************************)
(* doRequest sends no call that was rejected while it waited.              *)
(***************************************************************************)
THEOREM NeverSentOnceRejected == Spec => RejectedNeverSent
<1>1. IInv /\ [Next]_vars =>
        [\A c \in Calls :
            /\ promise[c] \in Rejected
            /\ \E i \in DOMAIN toServer' : toServer'[i] = [kind |-> "promise", id |-> c]
            => OnTheWay({"promise"}, c)]_vars
  <2> SUFFICES ASSUME IInv, IInv', [Next]_vars, NEW c \in Calls, promise[c] \in Rejected,
                      NEW i \in DOMAIN toServer',
                      toServer'[i] = [kind |-> "promise", id |-> c]
               PROVE  OnTheWay({"promise"}, c)
    BY InvStep
  <2>1. DOMAIN toServer = 1..Len(toServer) /\ DOMAIN toServer' = 1..Len(toServer)'
    BY DEF IInv, Typed
  <2>2. Sent(c)'
    BY <2>1 DEF Sent, SentAt
  <2>3. Sent(c)
    BY <2>2, NoRejectedSent DEF IInv
  <2> QED
    BY <2>1, <2>3 DEF Sent, SentAt, OnTheWay
<1> QED
  BY <1>1, Invariant, PTL DEF Spec, RejectedNeverSent
=============================================================================
