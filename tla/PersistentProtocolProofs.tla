----------------------- MODULE PersistentProtocolProofs -----------------------
(***************************************************************************)
(* Nothing is skipped, freed too early or handed over more than once per   *)
(* socket, and the congestion signal tracks the buffer, for any number of  *)
(* messages and sockets; and two PersistentProtocol instances implement    *)
(* ReplayLink.                                                             *)
(***************************************************************************)
EXTENDS PersistentProtocol, FiniteSetTheorems, WellFoundedInduction, TLAPS

-----------------------------------------------------------------------------
(* The inductive invariant.                                                 *)

\* The variables the argument is about.  The byte counter's type rests on a sum
\* over the buffer and is taken up with the congestion signal, below.
Shape ==
    /\ outgoingMsgId \in [Peers -> Nat]
    /\ outgoingUnackMsg \in [Peers -> Seq(Entry)]
    /\ incomingAckId \in [Peers -> Nat]
    /\ socket \in [Peers -> Sockets]
    /\ wire \in [Sockets -> [Peers -> Seq(Frame)]]
    /\ broken \in SUBSET Sockets
    /\ fired \in [Peers -> Seq(Nat \ {0})]

\* p has been handed message i, or there is no message i.
Has(p, i) == i = 0 \/ i \in Seen(p)

\* What p holds are its latest messages, one after the other.
BufferIsSuffix(p) ==
    /\ Len(outgoingUnackMsg[p]) <= outgoingMsgId[p]
    /\ \A i \in 1..Len(outgoingUnackMsg[p]) :
          outgoingUnackMsg[p][i].id = outgoingMsgId[p] - Len(outgoingUnackMsg[p]) + i

\* What p was handed is an initial part of the messages.
Solid(p) == \A i \in Seen(p) : 1..i \subseteq Seen(p)

\* Every acknowledgement p gives, or has written into a message it keeps, is of
\* a message p was handed.
AcksHonest(p) ==
    /\ Has(p, incomingAckId[p])
    /\ \A i \in 1..Len(outgoingUnackMsg[p]) : Has(p, outgoingUnackMsg[p][i].ack)

\* What p no longer holds, the other side was handed.
FreedSeen(p) ==
    \A i \in 1..(outgoingMsgId[p] - Len(outgoingUnackMsg[p])) : i \in Seen(Other(p))

\* A message in flight follows one that its reader was handed or that is ahead
\* of it.
Follows(w, i, seen) ==
    \/ w[i].id = 1
    \/ w[i].id - 1 \in seen
    \/ \E j \in 1..(i-1) : w[j].id = w[i].id - 1

\* Of the frames w in flight to a reader that was handed seen, whose writer was
\* handed acked and sent top messages.
SoundWire(w, seen, acked, top) ==
    \A i \in 1..Len(w) :
        /\ w[i].ack = 0 \/ w[i].ack \in acked
        /\ w[i].type = "Regular" => w[i].id \in 1..top /\ Follows(w, i, seen)
        /\ w[i].type # "Regular" => w[i].id = 0

WireSound(s, q) ==
    SoundWire(wire[s][q], Seen(q), Seen(Other(q)), outgoingMsgId[Other(q)])

\* The latest message of p was handed over, or is in flight on p's socket.
LatestOnItsWay(p) ==
    Reaches(socket[p], Other(p)) =>
        \/ Has(Other(p), outgoingMsgId[p])
        \/ \E j \in 1..Len(wire[socket[p]][Other(p)]) :
              wire[socket[p]][Other(p)][j].id = outgoingMsgId[p]

PeerInv(p) ==
    /\ BufferIsSuffix(p)
    /\ Solid(p)
    /\ AcksHonest(p)
    /\ FreedSeen(p)
    /\ LatestOnItsWay(p)

IInv ==
    /\ Shape
    /\ \A p \in Peers : PeerInv(p)
    /\ \A s \in Sockets, q \in Peers : WireSound(s, q)
    /\ NoGap

-----------------------------------------------------------------------------
LEMMA OtherPeer ==
    ASSUME NEW p \in Peers
    PROVE  /\ Other(p) \in Peers /\ Other(p) # p /\ Other(Other(p)) = p
           /\ Peers = {p, Other(p)}
<1>1. PICK a, b \in Peers : a # b /\ Peers = {a, b}
  BY PeersAssumption
<1>2. Other(a) = b /\ Other(b) = a
  BY <1>1 DEF Other
<1>3. CASE p = a
  BY <1>1, <1>2, <1>3
<1>4. CASE p = b
  <2>1. Peers = {b, a}
    BY <1>1
  <2> QED
    BY <1>1, <1>2, <1>4, <2>1
<1> QED
  BY <1>1, <1>3, <1>4

LEMMA InitIInv == Init => IInv
<1> SUFFICES ASSUME Init PROVE IInv
  OBVIOUS
<1>0. 1 \in Sockets /\ 0 \in Nat
  BY BoundsAssumption DEF Sockets
<1>1. Shape
  <2>1. <<>> \in Seq(Entry) /\ <<>> \in Seq(Frame) /\ <<>> \in Seq(Nat \ {0})
    OBVIOUS
  <2> QED
    BY <1>0, <2>1 DEF Init, Shape
<1>2. ASSUME NEW p \in Peers
      PROVE  /\ DOMAIN fired[p] = {} /\ Seen(p) = {} /\ Len(outgoingUnackMsg[p]) = 0
             /\ outgoingMsgId[p] = 0 /\ incomingAckId[p] = 0
  <2>1. fired[p] = <<>> /\ outgoingUnackMsg[p] = <<>>
    BY Zenon DEF Init
  <2>2. DOMAIN fired[p] = {} /\ Len(outgoingUnackMsg[p]) = 0
    BY <2>1
  <2>3. Seen(p) = {}
    BY <2>2 DEF Seen
  <2>4. outgoingMsgId[p] = 0 /\ incomingAckId[p] = 0
    BY Zenon DEF Init
  <2> QED
    BY <2>2, <2>3, <2>4
<1>3. ASSUME NEW p \in Peers PROVE PeerInv(p)
  <2>1. BufferIsSuffix(p)
    BY <1>2 DEF BufferIsSuffix
  <2>2. Solid(p) /\ AcksHonest(p)
    BY <1>2 DEF Solid, AcksHonest, Has
  <2>3. FreedSeen(p)
    BY <1>2 DEF FreedSeen
  <2>4. LatestOnItsWay(p)
    BY <1>2 DEF LatestOnItsWay, Has
  <2> QED
    BY <2>1, <2>2, <2>3, <2>4 DEF PeerInv
<1>4. ASSUME NEW s \in Sockets, NEW q \in Peers PROVE WireSound(s, q)
  BY DEF Init, WireSound, SoundWire
<1>5. NoGap
  BY <1>2 DEF NoGap
<1> QED
  BY <1>1, <1>3, <1>4, <1>5 DEF IInv

-----------------------------------------------------------------------------
(* Sequences of frames.                                                     *)

LEMMA Joined ==
    ASSUME NEW S, NEW w \in Seq(S), NEW fs \in Seq(S)
    PROVE  /\ \A j \in 1..Len(w) : j \in 1..Len(w \o fs) /\ (w \o fs)[j] = w[j]
           /\ \A k \in 1..Len(fs) :
                 Len(w) + k \in 1..Len(w \o fs) /\ (w \o fs)[Len(w) + k] = fs[k]
<1>1. Len(w) \in Nat /\ Len(fs) \in Nat /\ Len(w \o fs) = Len(w) + Len(fs)
  OBVIOUS
<1>2. \A j \in 1..Len(w) : (w \o fs)[j] = w[j]
  OBVIOUS
<1>3. \A k \in 1..Len(fs) : (w \o fs)[Len(w) + k] = fs[k]
  OBVIOUS
<1>4. \A j \in 1..Len(w) : j \in 1..(Len(w) + Len(fs))
  BY <1>1
<1>5. \A k \in 1..Len(fs) : Len(w) + k \in 1..(Len(w) + Len(fs))
  BY <1>1
<1> QED
  BY <1>1, <1>2, <1>3, <1>4, <1>5

LEMMA Rest ==
    ASSUME NEW S, NEW w \in Seq(S), NEW j \in 1..Len(w), j > 1
    PROVE  j - 1 \in 1..Len(Tail(w)) /\ Tail(w)[j - 1] = w[j]
<1>1. Len(w) \in Nat /\ w # <<>>
  OBVIOUS
<1>2. Len(Tail(w)) = Len(w) - 1
  BY <1>1
<1>3. j - 1 \in 1..(Len(w) - 1) /\ (j - 1) + 1 = j
  BY <1>1
<1>4. \A k \in 1..(Len(w) - 1) : Tail(w)[k] = w[k + 1]
  BY <1>1
<1> QED
  BY <1>2, <1>3, <1>4

LEMMA SoundMonotone ==
    ASSUME NEW w \in Seq(Frame), NEW seen, NEW seen2, NEW acked, NEW acked2,
           NEW top \in Nat, NEW top2 \in Nat,
           seen \subseteq seen2, acked \subseteq acked2, top <= top2,
           SoundWire(w, seen, acked, top)
    PROVE  SoundWire(w, seen2, acked2, top2)
BY DEF SoundWire, Follows

LEMMA SoundAppend ==
    ASSUME NEW w \in Seq(Frame), NEW fs \in Seq(Frame), NEW seen, NEW acked,
           NEW top \in Nat,
           SoundWire(w, seen, acked, top),
           \A i \in 1..Len(fs) :
               /\ fs[i].ack = 0 \/ fs[i].ack \in acked
               /\ fs[i].type = "Regular" =>
                    /\ fs[i].id \in 1..top
                    /\ \/ fs[i].id = 1
                       \/ fs[i].id - 1 \in seen
                       \/ \E j \in 1..(i-1) : fs[j].id = fs[i].id - 1
                       \/ \E j \in 1..Len(w) : w[j].id = fs[i].id - 1
               /\ fs[i].type # "Regular" => fs[i].id = 0
    PROVE  /\ w \o fs \in Seq(Frame)
           /\ SoundWire(w \o fs, seen, acked, top)
<1> DEFINE v == w \o fs
<1>1. v \in Seq(Frame) /\ Len(v) = Len(w) + Len(fs)
  OBVIOUS
<1>2. \A i \in 1..Len(w) : v[i] = w[i]
  OBVIOUS
<1>3. \A i \in 1..Len(fs) : v[Len(w) + i] = fs[i]
  OBVIOUS
<1> HIDE DEF v
<1>4. ASSUME NEW i \in 1..Len(v)
      PROVE  /\ v[i].ack = 0 \/ v[i].ack \in acked
             /\ v[i].type = "Regular" => v[i].id \in 1..top /\ Follows(v, i, seen)
             /\ v[i].type # "Regular" => v[i].id = 0
  <2>1. CASE i <= Len(w)
    <3>1. i \in 1..Len(w) /\ v[i] = w[i]
      BY <1>2, <2>1
    <3>2. Follows(w, i, seen) => Follows(v, i, seen)
      BY <1>2, <3>1 DEF Follows
    <3> QED
      BY <3>1, <3>2 DEF SoundWire
  <2>2. CASE i > Len(w)
    <3>1. PICK k \in 1..Len(fs) : i = Len(w) + k
      <4>1. i - Len(w) \in 1..Len(fs) /\ i = Len(w) + (i - Len(w))
        BY <1>1, <2>2
      <4> QED
        BY <4>1
    <3>2. v[i] = fs[k]
      BY <1>3, <3>1
    <3>3. ASSUME fs[k].type = "Regular" PROVE Follows(v, i, seen)
      <4>1. CASE \E j \in 1..(k-1) : fs[j].id = fs[k].id - 1
        <5>1. PICK j \in 1..(k-1) : fs[j].id = fs[k].id - 1
          BY <4>1
        <5>2. v[Len(w) + j] = fs[j] /\ Len(w) + j \in 1..(i-1)
          BY <1>3, <3>1, <5>1
        <5> QED
          BY <3>2, <5>1, <5>2 DEF Follows
      <4>2. CASE \E j \in 1..Len(w) : w[j].id = fs[k].id - 1
        <5>1. PICK j \in 1..Len(w) : w[j].id = fs[k].id - 1
          BY <4>2
        <5>2. v[j] = w[j] /\ j \in 1..(i-1)
          BY <1>2, <2>2, <5>1
        <5> QED
          BY <3>2, <5>1, <5>2 DEF Follows
      <4> QED
        BY <3>2, <3>3, <4>1, <4>2 DEF Follows
    <3> QED
      BY <3>2, <3>3
  <2> QED
    BY <1>1, <2>1, <2>2
<1> QED
  BY <1>1, <1>4 DEF SoundWire, v

\* Reading the first frame hands its message over.
LEMMA SoundTail ==
    ASSUME NEW w \in Seq(Frame), w # <<>>, NEW seen, NEW seen2, NEW acked,
           NEW top \in Nat, SoundWire(w, seen, acked, top),
           seen \subseteq seen2,
           Head(w).type = "Regular" => Head(w).id \in seen2
    PROVE  /\ Tail(w) \in Seq(Frame)
           /\ SoundWire(Tail(w), seen2, acked, top)
<1> DEFINE v == Tail(w)
<1>1. v \in Seq(Frame) /\ Len(v) = Len(w) - 1 /\ Head(w) = w[1] /\ 1 \in 1..Len(w)
  OBVIOUS
<1>2. \A i \in 1..Len(v) : v[i] = w[i + 1] /\ i + 1 \in 1..Len(w)
  OBVIOUS
<1> HIDE DEF v
<1>3. ASSUME NEW i \in 1..Len(v), v[i].type = "Regular"
      PROVE  Follows(v, i, seen2)
  <2>1. Follows(w, i + 1, seen) /\ w[i+1].id \in 1..top
    BY <1>2, <1>3 DEF SoundWire
  <2>2. CASE \E j \in 1..i : w[j].id = w[i+1].id - 1
    <3>1. PICK j \in 1..i : w[j].id = w[i+1].id - 1
      BY <2>2
    <3>2. CASE j = 1
      <4>1. w[1].type = "Regular" \/ w[1].id = 0
        BY <1>1 DEF SoundWire
      <4> QED
        BY <1>1, <1>2, <2>1, <3>1, <3>2, <4>1 DEF Follows
    <3>3. CASE j > 1
      <4>1. j - 1 \in 1..(i-1) /\ j - 1 \in 1..Len(v) /\ j = (j - 1) + 1
        BY <1>1, <3>3
      <4>2. v[j-1] = w[j]
        BY <1>2, <4>1
      <4> QED
        BY <1>2, <3>1, <4>1, <4>2 DEF Follows
    <3> QED
      BY <3>1, <3>2, <3>3
  <2> QED
    BY <1>2, <2>1, <2>2 DEF Follows
<1>4. SoundWire(v, seen2, acked, top)
  BY <1>2, <1>3 DEF SoundWire
<1> QED
  BY <1>1, <1>4 DEF v

LEMMA SeenAppend ==
    ASSUME Shape, NEW p \in Peers, NEW i \in Nat \ {0},
           fired' = [fired EXCEPT ![p] = Append(@, i)]
    PROVE  /\ Seen(p)' = Seen(p) \cup {i}
           /\ \A q \in Peers \ {p} : Seen(q)' = Seen(q)
           /\ fired' \in [Peers -> Seq(Nat \ {0})]
<1>1. fired[p] \in Seq(Nat \ {0}) /\ fired'[p] = Append(fired[p], i)
  BY DEF Shape
<1>2. Len(fired'[p]) = Len(fired[p]) + 1 /\ fired'[p][Len(fired[p]) + 1] = i
  BY <1>1
<1>3. \A k \in 1..Len(fired[p]) : fired'[p][k] = fired[p][k]
  BY <1>1
<1>4. DOMAIN fired[p] = 1..Len(fired[p]) /\ DOMAIN fired'[p] = 1..Len(fired'[p])
  BY <1>1
<1>5. Seen(p)' = Seen(p) \cup {i}
  <2>1. \A x \in Seen(p)' : x \in Seen(p) \/ x = i
    BY <1>1, <1>2, <1>3, <1>4 DEF Seen
  <2>2. \A x \in Seen(p) : x \in Seen(p)'
    BY <1>1, <1>2, <1>3, <1>4 DEF Seen
  <2>3. i \in Seen(p)'
    BY <1>1, <1>2, <1>4 DEF Seen
  <2> QED
    BY <2>1, <2>2, <2>3
<1>6. fired' \in [Peers -> Seq(Nat \ {0})]
  BY <1>1 DEF Shape
<1>7. \A q \in Peers \ {p} : Seen(q)' = Seen(q)
  BY DEF Seen, Shape
<1> QED
  BY <1>5, <1>6, <1>7

-----------------------------------------------------------------------------
(* Steps.                                                                   *)

\* Writing sound frames keeps every wire sound and in type.
LEMMA WrittenSound ==
    ASSUME IInv, NEW p \in Peers, NEW fs \in Seq(Frame),
           wire' = Written(p, fs), fired' = fired,
           outgoingMsgId' \in [Peers -> Nat],
           \A q \in Peers : outgoingMsgId[q] <= outgoingMsgId'[q],
           \A i \in 1..Len(fs) :
               /\ Has(p, fs[i].ack)
               /\ fs[i].type = "Regular" => (Reaches(socket[p], Other(p)) =>
                    /\ fs[i].id \in 1..outgoingMsgId'[p]
                    /\ \/ fs[i].id = 1
                       \/ fs[i].id - 1 \in Seen(Other(p))
                       \/ \E j \in 1..(i-1) : fs[j].id = fs[i].id - 1
                       \/ \E j \in 1..Len(wire[socket[p]][Other(p)]) :
                             wire[socket[p]][Other(p)][j].id = fs[i].id - 1)
               /\ fs[i].type # "Regular" => fs[i].id = 0
    PROVE  /\ wire' \in [Sockets -> [Peers -> Seq(Frame)]]
           /\ \A s \in Sockets, q \in Peers : WireSound(s, q)'
           /\ Reaches(socket[p], Other(p)) =>
                wire'[socket[p]][Other(p)] = wire[socket[p]][Other(p)] \o fs
           /\ wire'[socket[Other(p)]][p] = wire[socket[Other(p)]][p]
<1> DEFINE o == Other(p)
           c == socket[p]
<1>0. o \in Peers /\ o # p /\ Other(o) = p /\ Peers = {p, o}
  BY OtherPeer
<1>1. /\ wire \in [Sockets -> [Peers -> Seq(Frame)]] /\ c \in Sockets
      /\ outgoingMsgId \in [Peers -> Nat] /\ socket[o] \in Sockets
  BY <1>0 DEF IInv, Shape
<1>2. \A s \in Sockets, q \in Peers :
         SoundWire(wire[s][q], Seen(q), Seen(Other(q)), outgoingMsgId'[Other(q)])
  <2> SUFFICES ASSUME NEW s \in Sockets, NEW q \in Peers
               PROVE  SoundWire(wire[s][q], Seen(q), Seen(Other(q)), outgoingMsgId'[Other(q)])
    OBVIOUS
  <2>1. Other(q) \in Peers
    BY OtherPeer
  <2>2. outgoingMsgId[Other(q)] <= outgoingMsgId'[Other(q)]
        /\ outgoingMsgId[Other(q)] \in Nat /\ outgoingMsgId'[Other(q)] \in Nat
        /\ wire[s][q] \in Seq(Frame)
    BY <1>1, <2>1
  <2>3. SoundWire(wire[s][q], Seen(q), Seen(Other(q)), outgoingMsgId[Other(q)])
    BY DEF IInv, WireSound
  <2> QED
    BY <2>2, <2>3, SoundMonotone
<1>3. \A q \in Peers : Seen(q)' = Seen(q)
  BY DEF Seen
<1>4. CASE ~Reaches(c, o)
  <2>1. wire' = wire
    BY <1>4 DEF Written
  <2>2. ASSUME NEW s \in Sockets, NEW q \in Peers PROVE WireSound(s, q)'
    <3>1. Other(q) \in Peers
      BY OtherPeer
    <3>2. SoundWire(wire'[s][q], Seen(q)', Seen(Other(q))', outgoingMsgId'[Other(q)])
      BY <1>2, <1>3, <2>1, <3>1
    <3> QED
      BY <3>2 DEF WireSound
  <2> QED
    BY <1>1, <1>4, <2>1, <2>2
<1>5. CASE Reaches(c, o)
  <2>1. wire' = [wire EXCEPT ![c][o] = @ \o fs]
    BY <1>5 DEF Written
  <2>2. wire[c][o] \in Seq(Frame)
    BY <1>0, <1>1
  <2>3. wire'[c][o] = wire[c][o] \o fs
    BY <1>0, <1>1, <2>1
  <2>4. \A s \in Sockets, q \in Peers : s # c \/ q # o => wire'[s][q] = wire[s][q]
    BY <1>0, <1>1, <2>1
  <2>5. SoundWire(wire[c][o], Seen(o), Seen(p), outgoingMsgId'[p])
    BY <1>0, <1>1, <1>2
  <2>6. outgoingMsgId'[p] \in Nat
    OBVIOUS
  <2>7. \A i \in 1..Len(fs) :
           /\ fs[i].ack = 0 \/ fs[i].ack \in Seen(p)
           /\ fs[i].type = "Regular" =>
                /\ fs[i].id \in 1..outgoingMsgId'[p]
                /\ \/ fs[i].id = 1
                   \/ fs[i].id - 1 \in Seen(o)
                   \/ \E j \in 1..(i-1) : fs[j].id = fs[i].id - 1
                   \/ \E j \in 1..Len(wire[c][o]) : wire[c][o][j].id = fs[i].id - 1
           /\ fs[i].type # "Regular" => fs[i].id = 0
    BY <1>5 DEF Has
  <2>8. /\ wire[c][o] \o fs \in Seq(Frame)
        /\ SoundWire(wire[c][o] \o fs, Seen(o), Seen(p), outgoingMsgId'[p])
    BY <2>2, <2>5, <2>6, <2>7, SoundAppend
  <2>9. ASSUME NEW s \in Sockets, NEW q \in Peers PROVE WireSound(s, q)'
    <3>1. CASE s = c /\ q = o
      BY <1>0, <1>3, <2>3, <2>8, <3>1 DEF WireSound
    <3>2. CASE ~(s = c /\ q = o)
      <4>1. Other(q) \in Peers
        BY OtherPeer
      <4> QED
        BY <1>2, <1>3, <2>4, <3>2, <4>1 DEF WireSound
    <3> QED
      BY <3>1, <3>2
  <2>10. wire' \in [Sockets -> [Peers -> Seq(Frame)]]
    <3>1. \A s \in Sockets : wire[s] \in [Peers -> Seq(Frame)]
      BY <1>1
    <3>2. [wire[c] EXCEPT ![o] = wire[c][o] \o fs] \in [Peers -> Seq(Frame)]
      BY <1>1, <2>8, <3>1
    <3>3. wire' = [wire EXCEPT ![c] = [wire[c] EXCEPT ![o] = wire[c][o] \o fs]]
      BY <2>1
    <3> QED
      BY <1>1, <3>2, <3>3
  <2> QED
    BY <1>0, <1>1, <2>3, <2>4, <2>9, <2>10
<1> QED
  BY <1>4, <1>5

\* A step in which both sides keep what they were handed and what they hold,
\* every acknowledgement stands, and wires only grow.
LEMMA QuietStep ==
    ASSUME IInv, NEW p \in Peers, NEW fs \in Seq(Frame),
           wire' = Written(p, fs), fired' = fired,
           UNCHANGED <<outgoingMsgId, outgoingUnackMsg, incomingAckId, socket, broken>>,
           \A i \in 1..Len(fs) : fs[i].type # "Regular" /\ fs[i].id = 0 /\ Has(p, fs[i].ack)
    PROVE  IInv'
<1> DEFINE o == Other(p)
<1>0. o \in Peers /\ o # p /\ Other(o) = p /\ Peers = {p, o}
  BY OtherPeer
<1>1. /\ wire' \in [Sockets -> [Peers -> Seq(Frame)]]
      /\ \A s \in Sockets, q \in Peers : WireSound(s, q)'
      /\ Reaches(socket[p], o) => wire'[socket[p]][o] = wire[socket[p]][o] \o fs
      /\ wire'[socket[o]][p] = wire[socket[o]][p]
  <2>1. outgoingMsgId' \in [Peers -> Nat]
        /\ \A q \in Peers : outgoingMsgId[q] <= outgoingMsgId'[q]
    BY DEF IInv, Shape
  <2> QED
    BY <2>1, WrittenSound
<1>2. Shape'
  BY <1>1 DEF IInv, Shape
<1>3. \A q \in Peers : Seen(q)' = Seen(q)
  BY DEF Seen
<1>4. NoGap'
  BY DEF IInv, NoGap
<1>5. ASSUME NEW q \in Peers PROVE PeerInv(q)'
  <2>1. PeerInv(q)
    BY DEF IInv
  <2>2. Other(q) \in Peers
    BY OtherPeer
  <2>3. BufferIsSuffix(q)' /\ Solid(q)' /\ AcksHonest(q)' /\ FreedSeen(q)'
    BY <1>3, <2>1, <2>2 DEF PeerInv, BufferIsSuffix, Solid, AcksHonest, Has, FreedSeen
  <2>4. LatestOnItsWay(q)'
    <3>0. LatestOnItsWay(q)
      BY <2>1 DEF PeerInv
    <3>1. CASE q = p
      <4>1. wire[socket[p]][o] \in Seq(Frame)
        BY <1>0 DEF IInv, Shape
      <4>2. \A j \in 1..Len(wire[socket[p]][o]) :
               j \in 1..Len(wire[socket[p]][o] \o fs)
               /\ (wire[socket[p]][o] \o fs)[j] = wire[socket[p]][o][j]
        BY <4>1, Joined
      <4>3. Reaches(socket[p], o)' = Reaches(socket[p], o)
        BY DEF Reaches
      <4>4. CASE ~Reaches(socket[p], o)
        BY <3>1, <4>3, <4>4 DEF LatestOnItsWay
      <4>5. CASE Reaches(socket[p], o)
        <5>1. wire'[socket[p]][o] = wire[socket[p]][o] \o fs
          BY <1>1, <4>5
        <5>2. Has(o, outgoingMsgId[p])' \/ \E j \in 1..Len(wire'[socket[p]][o]) :
                  wire'[socket[p]][o][j].id = outgoingMsgId[p]
          BY <1>0, <1>3, <3>0, <3>1, <4>2, <4>5, <5>1 DEF LatestOnItsWay, Has
        <5> QED
          BY <3>1, <5>2 DEF LatestOnItsWay
      <4> QED
        BY <4>4, <4>5
    <3>2. CASE q = o
      BY <1>0, <1>1, <1>3, <3>0, <3>2 DEF LatestOnItsWay, Has, Reaches
    <3> QED
      BY <1>0, <3>1, <3>2
  <2> QED
    BY <2>3, <2>4 DEF PeerInv
<1> QED
  BY <1>1, <1>2, <1>4, <1>5 DEF IInv

LEMMA SendIInv ==
    ASSUME IInv, NEW p \in Peers, NEW n \in Sizes, Send(p, n)
    PROVE  IInv'
<1> DEFINE o == Other(p)
           id == outgoingMsgId[p] + 1
           msg == Regular(id, incomingAckId[p])
           entry == [id |-> id, ack |-> incomingAckId[p], size |-> n]
           abandons == unackBytes[p] + n > MaxBytes /\ ~overflowed[p]
           fs == IF abandons THEN <<msg, DisconnectFrame(incomingAckId[p])>> ELSE <<msg>>
           buf == outgoingUnackMsg[p]
<1>0. o \in Peers /\ o # p /\ Other(o) = p /\ Peers = {p, o}
  BY OtherPeer
<1>1. /\ outgoingMsgId \in [Peers -> Nat] /\ incomingAckId \in [Peers -> Nat]
      /\ outgoingUnackMsg \in [Peers -> Seq(Entry)]
      /\ buf \in Seq(Entry) /\ outgoingMsgId[p] \in Nat /\ incomingAckId[p] \in Nat
  BY DEF IInv, Shape
<1>2. /\ outgoingMsgId' = [outgoingMsgId EXCEPT ![p] = id]
      /\ outgoingUnackMsg' = [outgoingUnackMsg EXCEPT ![p] = Append(@, entry)]
      /\ wire' = Written(p, fs)
      /\ UNCHANGED <<incomingAckId, socket, broken, fired>>
  BY DEF Send
<1>3. \A q \in Peers : Seen(q)' = Seen(q)
  BY <1>2 DEF Seen
<1>4. PeerInv(p) /\ PeerInv(o)
  BY <1>0 DEF IInv
<1>5. /\ fs \in Seq(Frame) /\ Len(fs) >= 1 /\ fs[1] = msg
      /\ \A i \in 1..Len(fs) :
            /\ fs[i].ack = incomingAckId[p]
            /\ fs[i].type = "Regular" => i = 1
            /\ fs[i].type # "Regular" => fs[i].id = 0
  <2>1. msg \in Frame /\ msg.id = id /\ msg.type = "Regular" /\ msg.ack = incomingAckId[p]
    BY <1>1 DEF Regular, Frame
  <2>2. /\ DisconnectFrame(incomingAckId[p]) \in Frame
        /\ DisconnectFrame(incomingAckId[p]).type # "Regular"
        /\ DisconnectFrame(incomingAckId[p]).id = 0
        /\ DisconnectFrame(incomingAckId[p]).ack = incomingAckId[p]
    BY <1>1 DEF DisconnectFrame, Frame
  <2> HIDE DEF msg
  <2>3. CASE abandons
    BY <2>1, <2>2, <2>3
  <2>4. CASE ~abandons
    BY <2>1, <2>2, <2>4
  <2> QED
    BY <2>3, <2>4
<1>6. outgoingMsgId' \in [Peers -> Nat] /\ outgoingMsgId'[p] = id
      /\ outgoingMsgId'[o] = outgoingMsgId[o]
      /\ \A q \in Peers : outgoingMsgId[q] <= outgoingMsgId'[q]
  BY <1>0, <1>1, <1>2
<1>7. \A i \in 1..Len(fs) :
         /\ Has(p, fs[i].ack)
         /\ fs[i].type = "Regular" => (Reaches(socket[p], Other(p)) =>
              /\ fs[i].id \in 1..outgoingMsgId'[p]
              /\ \/ fs[i].id = 1
                 \/ fs[i].id - 1 \in Seen(Other(p))
                 \/ \E j \in 1..(i-1) : fs[j].id = fs[i].id - 1
                 \/ \E j \in 1..Len(wire[socket[p]][Other(p)]) :
                       wire[socket[p]][Other(p)][j].id = fs[i].id - 1)
         /\ fs[i].type # "Regular" => fs[i].id = 0
  <2> SUFFICES ASSUME NEW i \in 1..Len(fs)
               PROVE  /\ Has(p, fs[i].ack)
                      /\ fs[i].type = "Regular" => (Reaches(socket[p], Other(p)) =>
                           /\ fs[i].id \in 1..outgoingMsgId'[p]
                           /\ \/ fs[i].id = 1
                              \/ fs[i].id - 1 \in Seen(Other(p))
                              \/ \E j \in 1..Len(wire[socket[p]][Other(p)]) :
                                    wire[socket[p]][Other(p)][j].id = fs[i].id - 1)
    BY <1>5
  <2>1. Has(p, fs[i].ack)
    BY <1>4, <1>5 DEF PeerInv, AcksHonest
  <2>2. msg.id = id
    BY DEF Regular
  <2>3. ASSUME fs[i].type = "Regular", Reaches(socket[p], Other(p))
        PROVE  /\ fs[i].id \in 1..outgoingMsgId'[p]
               /\ \/ fs[i].id = 1
                  \/ fs[i].id - 1 \in Seen(Other(p))
                  \/ \E j \in 1..Len(wire[socket[p]][Other(p)]) :
                        wire[socket[p]][Other(p)][j].id = fs[i].id - 1
    <3>1. fs[i].id = id
      BY <1>5, <2>2, <2>3
    <3>2. Has(o, outgoingMsgId[p]) \/ \E j \in 1..Len(wire[socket[p]][o]) :
              wire[socket[p]][o][j].id = outgoingMsgId[p]
      BY <1>4, <2>3 DEF PeerInv, LatestOnItsWay
    <3>3. id - 1 = outgoingMsgId[p] /\ id \in 1..id /\ (outgoingMsgId[p] = 0 => id = 1)
      BY <1>1
    <3>4. outgoingMsgId'[p] = id
      BY <1>6
    <3> HIDE DEF id
    <3> QED
      BY <3>1, <3>2, <3>3, <3>4 DEF Has
  <2> QED
    BY <2>1, <2>3
<1> HIDE DEF fs
<1>8. /\ wire' \in [Sockets -> [Peers -> Seq(Frame)]]
      /\ \A s \in Sockets, q \in Peers : WireSound(s, q)'
      /\ Reaches(socket[p], o) => wire'[socket[p]][o] = wire[socket[p]][o] \o fs
      /\ wire'[socket[o]][p] = wire[socket[o]][p]
  BY <1>2, <1>5, <1>6, <1>7, WrittenSound
<1>9. entry \in Entry
  BY <1>1 DEF Entry
<1>10. /\ outgoingUnackMsg' \in [Peers -> Seq(Entry)]
       /\ outgoingUnackMsg'[p] = Append(buf, entry)
       /\ outgoingUnackMsg'[o] = outgoingUnackMsg[o]
  <2> HIDE DEF entry
  <2> QED
    BY <1>0, <1>1, <1>2, <1>9
<1>11. /\ Len(outgoingUnackMsg'[p]) = Len(buf) + 1
       /\ outgoingUnackMsg'[p][Len(buf) + 1] = entry
       /\ \A i \in 1..Len(buf) : outgoingUnackMsg'[p][i] = buf[i]
  BY <1>1, <1>9, <1>10
<1>12. Shape'
  BY <1>2, <1>6, <1>8, <1>10 DEF IInv, Shape
<1>13. NoGap'
  BY <1>2 DEF IInv, NoGap
<1>14. PeerInv(p)'
  <2>1. BufferIsSuffix(p)'
    <3>1. BufferIsSuffix(p) /\ Len(buf) \in Nat
      BY <1>1, <1>4 DEF PeerInv
    <3>2. ASSUME NEW i \in 1..Len(outgoingUnackMsg'[p])
          PROVE  outgoingUnackMsg'[p][i].id
                   = outgoingMsgId'[p] - Len(outgoingUnackMsg'[p]) + i
      <4>1. CASE i = Len(buf) + 1
        <5>1. outgoingUnackMsg'[p][i] = entry /\ entry.id = outgoingMsgId[p] + 1
          BY <1>11, <4>1
        <5>2. outgoingUnackMsg'[p][i].id = outgoingMsgId[p] + 1
          BY <5>1
        <5>3. outgoingMsgId'[p] - Len(outgoingUnackMsg'[p]) + i = outgoingMsgId[p] + 1
          <6>1. Len(outgoingUnackMsg'[p]) = i
            BY <1>11, <4>1
          <6>2. outgoingMsgId'[p] = outgoingMsgId[p] + 1 /\ i \in Nat
            BY <1>6, <3>1, <4>1
          <6> QED
            BY <1>1, <6>1, <6>2
        <5> QED
          BY <5>2, <5>3
      <4>2. CASE i # Len(buf) + 1
        <5>1. i \in 1..Len(buf)
          BY <1>11, <3>1, <4>2
        <5>2. outgoingUnackMsg'[p][i].id = outgoingMsgId[p] - Len(buf) + i
          BY <1>11, <3>1, <5>1 DEF BufferIsSuffix
        <5> QED
          BY <1>1, <1>6, <1>11, <3>1, <5>2
      <4> QED
        BY <4>1, <4>2
    <3> QED
      BY <1>1, <1>6, <1>11, <3>1, <3>2 DEF BufferIsSuffix
  <2>2. Solid(p)'
    BY <1>3, <1>4 DEF PeerInv, Solid
  <2>3. AcksHonest(p)'
    <3>1. AcksHonest(p) /\ \A x : Has(p, x)' = Has(p, x)
      BY <1>3, <1>4 DEF PeerInv, Has
    <3>2. entry.ack = incomingAckId[p]
      OBVIOUS
    <3>3. \A i \in 1..Len(outgoingUnackMsg'[p]) : i = Len(buf) + 1 \/ i \in 1..Len(buf)
      BY <1>1, <1>11
    <3> QED
      BY <1>2, <1>11, <3>1, <3>2, <3>3 DEF AcksHonest
  <2>4. FreedSeen(p)'
    <3>1. outgoingMsgId'[p] - Len(outgoingUnackMsg'[p]) = outgoingMsgId[p] - Len(buf)
      BY <1>1, <1>6, <1>11
    <3> QED
      BY <1>0, <1>3, <1>4, <3>1 DEF PeerInv, FreedSeen
  <2>5. LatestOnItsWay(p)'
    <3>1. Reaches(socket[p], o)' = Reaches(socket[p], o)
      BY <1>2 DEF Reaches
    <3>2. CASE Reaches(socket[p], o)
      <4>1. wire[socket[p]][o] \in Seq(Frame)
        BY <1>0 DEF IInv, Shape
      <4>2. /\ Len(wire[socket[p]][o]) + 1 \in 1..Len(wire[socket[p]][o] \o fs)
            /\ (wire[socket[p]][o] \o fs)[Len(wire[socket[p]][o]) + 1] = fs[1]
        <5>1. 1 \in 1..Len(fs)
          BY <1>5
        <5> QED
          BY <1>5, <4>1, <5>1, Joined
      <4>3. fs[1].id = outgoingMsgId'[p]
        BY <1>5, <1>6 DEF Regular
      <4>4. wire'[socket[p]][o] = wire[socket[p]][o] \o fs
        BY <1>8, <3>2
      <4>5. \E j \in 1..Len(wire'[socket[p]][o]) :
                wire'[socket[p]][o][j].id = outgoingMsgId'[p]
        BY <4>2, <4>3, <4>4
      <4> QED
        BY <1>2, <4>5 DEF LatestOnItsWay
    <3>3. CASE ~Reaches(socket[p], o)
      BY <1>2, <3>1, <3>3 DEF LatestOnItsWay
    <3> QED
      BY <3>2, <3>3
  <2> QED
    BY <2>1, <2>2, <2>3, <2>4, <2>5 DEF PeerInv
<1>15. PeerInv(o)'
  <2>1. Other(o) = p /\ socket'[o] = socket[o] /\ wire'[socket[o]][p] = wire[socket[o]][p]
    BY <1>0, <1>2, <1>8
  <2>2. BufferIsSuffix(o)' /\ Solid(o)' /\ FreedSeen(o)'
    BY <1>0, <1>3, <1>4, <1>6, <1>10 DEF PeerInv, BufferIsSuffix, Solid, FreedSeen
  <2>3. AcksHonest(o)'
    BY <1>0, <1>2, <1>3, <1>4, <1>10 DEF PeerInv, AcksHonest, Has
  <2>4. LatestOnItsWay(o)'
    <3>1. LatestOnItsWay(o) /\ Has(p, outgoingMsgId[o])' = Has(p, outgoingMsgId[o])
      BY <1>0, <1>3, <1>4, <1>6 DEF PeerInv, Has
    <3> QED
      BY <1>2, <1>6, <2>1, <3>1 DEF LatestOnItsWay, Reaches
  <2> QED
    BY <2>2, <2>3, <2>4 DEF PeerInv
<1> QED
  BY <1>0, <1>8, <1>12, <1>13, <1>14, <1>15 DEF IInv

\* A set that holds 1..n holds n.
LEMMA LastOfRange ==
    ASSUME NEW n \in Nat, NEW S, \A i \in 1..n : i \in S
    PROVE  n = 0 \/ n \in S
<1>1. n = 0 \/ n \in 1..n
  OBVIOUS
<1> QED
  BY <1>1, Zenon

\* An acknowledgement splits a buffer of consecutive messages.
LEMMA CutExists ==
    ASSUME NEW buf \in Seq(Entry), NEW low \in Nat, NEW a \in Nat,
           \A i \in 1..Len(buf) : buf[i].id = low + i
    PROVE  \E n \in 0..Len(buf) :
              /\ \A i \in 1..n : buf[i].id <= a
              /\ n < Len(buf) => buf[n + 1].id > a
<1>0. Len(buf) \in Nat
  OBVIOUS
<1>1. CASE a <= low
  <2>1. 0 < Len(buf) => 1 \in 1..Len(buf) /\ low + 1 > a
    BY <1>0, <1>1
  <2>2. 0 \in 0..Len(buf) /\ \A i \in 1..0 : buf[i].id <= a
    BY <1>0
  <2>3. 0 < Len(buf) => buf[0 + 1].id > a
    <3>1. 0 + 1 = 1
      OBVIOUS
    <3>2. 0 < Len(buf) => buf[1].id > a
      <4>1. 0 < Len(buf) => buf[1].id = low + 1
        BY <2>1
      <4> QED
        BY <2>1, <4>1
    <3>3. buf[0 + 1] = buf[1]
      BY <3>1, Zenon
    <3> QED
      BY <3>2, <3>3, Zenon
  <2> QED
    BY <2>2, <2>3
<1>2. CASE a > low /\ a - low <= Len(buf)
  <2>1. PICK n \in 0..Len(buf) : low + n = a
    <3>1. a - low \in 0..Len(buf) /\ low + (a - low) = a
      BY <1>0, <1>2
    <3> QED
      BY <3>1
  <2>2. \A i \in 1..n : i \in 1..Len(buf) /\ low + i <= a
    BY <1>0, <2>1
  <2>3. n < Len(buf) => n + 1 \in 1..Len(buf) /\ low + (n + 1) > a
    BY <1>0, <2>1
  <2> QED
    BY <2>2, <2>3
<1>3. CASE a > low /\ a - low > Len(buf)
  <2>1. \A i \in 1..Len(buf) : low + i <= a
    BY <1>0, <1>3
  <2>2. Len(buf) \in 0..Len(buf) /\ ~(Len(buf) < Len(buf))
    BY <1>0
  <2> QED
    BY <2>1, <2>2
<1>4. a <= low \/ (a > low /\ a - low <= Len(buf)) \/ (a > low /\ a - low > Len(buf))
  BY <1>0
<1> QED
  BY <1>1, <1>2, <1>3, <1>4

\* The number of entries an acknowledgement frees.
LEMMA AcknowledgedFrees ==
    ASSUME Shape, NEW p \in Peers, BufferIsSuffix(p), NEW a \in Nat
    PROVE  /\ Acknowledged(p, a) \in 0..Len(outgoingUnackMsg[p])
           /\ Acknowledged(p, a) > 0 =>
                outgoingMsgId[p] - Len(outgoingUnackMsg[p]) + Acknowledged(p, a) <= a
<1> DEFINE buf == outgoingUnackMsg[p]
           low == outgoingMsgId[p] - Len(buf)
           n == Acknowledged(p, a)
           Cut(k) == /\ \A i \in 1..k : buf[i].id <= a
                     /\ k < Len(buf) => buf[k + 1].id > a
<1>1. buf \in Seq(Entry) /\ Len(buf) \in Nat /\ outgoingMsgId[p] \in Nat
  BY DEF Shape
<1>2. low \in Nat /\ \A i \in 1..Len(buf) : buf[i].id = low + i
  BY <1>1 DEF BufferIsSuffix
<1>3. \E k \in 0..Len(buf) : Cut(k)
  <2> HIDE DEF buf, low
  <2> QED
    BY <1>1, <1>2, CutExists
<1>4. n = CHOOSE k \in 0..Len(buf) : Cut(k)
  BY DEF Acknowledged
<1> HIDE DEF Cut, n
<1>5. n \in 0..Len(buf) /\ Cut(n)
  BY <1>3, <1>4
<1> HIDE DEF buf, low
<1>6. ASSUME n > 0 PROVE low + n <= a
  <2>1. n \in 1..n /\ n \in 1..Len(buf)
    BY <1>1, <1>5, <1>6
  <2>2. buf[n].id <= a /\ buf[n].id = low + n
    BY <1>2, <1>5, <2>1 DEF Cut
  <2> QED
    BY <2>2
<1> QED
  BY <1>5, <1>6 DEF buf, low, n

\* The buffer without its first n entries.
LEMMA DropFront ==
    ASSUME NEW S, NEW q \in Seq(S), NEW n \in 0..Len(q)
    PROVE  /\ SubSeq(q, n + 1, Len(q)) \in Seq(S)
           /\ Len(SubSeq(q, n + 1, Len(q))) = Len(q) - n
           /\ \A i \in 1..(Len(q) - n) :
                 i + n \in 1..Len(q) /\ SubSeq(q, n + 1, Len(q))[i] = q[i + n]
<1>1. Len(q) \in Nat /\ n \in Nat
  OBVIOUS
<1>2. \A i \in 1..(Len(q) - n) : i + n \in 1..Len(q)
  BY <1>1
<1> DEFINE r == SubSeq(q, n + 1, Len(q))
<1>3. r \in Seq(S)
  BY <1>1
<1>4. Len(r) = Len(q) - n
  BY <1>1
<1>5. \A i \in 1..(Len(q) - n) : r[i] = q[i + n]
  BY <1>1
<1> HIDE DEF r
<1>6. /\ r \in Seq(S) /\ Len(r) = Len(q) - n
      /\ \A i \in 1..(Len(q) - n) : i + n \in 1..Len(q) /\ r[i] = q[i + n]
  BY <1>2, <1>3, <1>4, <1>5
<1> QED
  BY <1>6 DEF r

\* Message i may be handed over when the one before it was.
LEMMA NoGapAppend ==
    ASSUME NEW f \in Seq(Nat \ {0}), NEW x \in Nat,
           x = 1 \/ \E k \in 1..Len(f) : f[k] = x - 1,
           \A i \in 1..Len(f) : f[i] = 1 \/ \E j \in 1..(i-1) : f[j] = f[i] - 1
    PROVE  \A i \in 1..Len(Append(f, x)) :
              Append(f, x)[i] = 1
                \/ \E j \in 1..(i-1) : Append(f, x)[j] = Append(f, x)[i] - 1
<1> DEFINE g == Append(f, x)
<1>1. Len(g) = Len(f) + 1 /\ g[Len(f) + 1] = x /\ \A i \in 1..Len(f) : g[i] = f[i]
      /\ Len(f) \in Nat
  OBVIOUS
<1> HIDE DEF g
<1>2. ASSUME NEW i \in 1..Len(g) PROVE g[i] = 1 \/ \E j \in 1..(i-1) : g[j] = g[i] - 1
  <2>1. CASE i = Len(f) + 1
    <3>1. \A k \in 1..Len(f) : k \in 1..(i-1)
      BY <1>1, <2>1
    <3> QED
      BY <1>1, <2>1, <3>1
  <2>2. CASE i # Len(f) + 1
    <3>1. i \in 1..Len(f) /\ \A j \in 1..(i-1) : j \in 1..Len(f)
      BY <1>1, <2>2
    <3> QED
      BY <1>1, <3>1
  <2> QED
    BY <2>1, <2>2
<1> QED
  BY <1>2 DEF g

LEMMA ReadIInv ==
    ASSUME IInv, NEW p \in Peers, Read(p)
    PROVE  IInv'
<1> DEFINE o == Other(p)
           s == socket[p]
           w == wire[s][p]
           frame == Head(w)
           n == Acknowledged(p, frame.ack)
           buf == outgoingUnackMsg[p]
<1>0. o \in Peers /\ o # p /\ Other(o) = p /\ Peers = {p, o}
  BY OtherPeer
<1>1. /\ s \in Sockets /\ w \in Seq(Frame) /\ w # <<>> /\ buf \in Seq(Entry)
      /\ outgoingMsgId \in [Peers -> Nat] /\ incomingAckId \in [Peers -> Nat]
      /\ outgoingUnackMsg \in [Peers -> Seq(Entry)]
      /\ wire \in [Sockets -> [Peers -> Seq(Frame)]]
  BY DEF IInv, Shape, Read
<1>2. frame \in Frame /\ frame = w[1] /\ 1 \in 1..Len(w)
  BY <1>1
<1>3. frame.ack \in Nat /\ frame.id \in Nat
  BY <1>2 DEF Frame
<1>4. WireSound(s, p) /\ PeerInv(p) /\ PeerInv(o)
  BY <1>0, <1>1 DEF IInv
<1>5. /\ frame.ack = 0 \/ frame.ack \in Seen(o)
      /\ frame.type = "Regular" =>
           frame.id \in 1..outgoingMsgId[o] /\ (frame.id = 1 \/ frame.id - 1 \in Seen(p))
  BY <1>2, <1>4 DEF WireSound, SoundWire, Follows
<1>6. /\ wire' = [wire EXCEPT ![s][p] = Tail(@)]
      /\ outgoingUnackMsg' = [outgoingUnackMsg EXCEPT ![p] = SubSeq(@, n + 1, Len(@))]
      /\ UNCHANGED <<outgoingMsgId, socket, broken>>
  BY DEF Read, ProcessAck
<1>7. /\ Seen(o)' = Seen(o)
      /\ Seen(p) \subseteq Seen(p)'
      /\ Seen(p)' \subseteq Seen(p) \cup {frame.id}
      /\ frame.type = "Regular" => frame.id \in Seen(p)'
      /\ frame.type # "Regular" => fired' = fired
      /\ fired' \in [Peers -> Seq(Nat \ {0})]
  <2>1. CASE frame.type = "Regular"
    <3>1. fired' = [fired EXCEPT ![p] = Append(@, frame.id)]
      BY <2>1 DEF Read
    <3>2. frame.id \in Nat \ {0}
      BY <1>0, <1>1, <1>5, <2>1
    <3>3. /\ Seen(p)' = Seen(p) \cup {frame.id}
          /\ \A q \in Peers \ {p} : Seen(q)' = Seen(q)
          /\ fired' \in [Peers -> Seq(Nat \ {0})]
      BY <3>1, <3>2, SeenAppend DEF IInv
    <3> QED
      BY <1>0, <2>1, <3>3
  <2>2. CASE frame.type # "Regular"
    <3>1. fired' = fired
      BY <2>2 DEF Read
    <3> QED
      BY <2>2, <3>1 DEF Seen, IInv, Shape
  <2> QED
    BY <2>1, <2>2
<1>8. n \in 0..Len(buf) /\ (n > 0 => outgoingMsgId[p] - Len(buf) + n <= frame.ack)
  <2>1. Shape /\ BufferIsSuffix(p)
    BY <1>4 DEF IInv, PeerInv
  <2> HIDE DEF frame
  <2> QED
    BY <1>3, <2>1, AcknowledgedFrees
<1>low. /\ outgoingMsgId[p] \in Nat /\ Len(buf) \in Nat /\ n \in Nat
        /\ Len(buf) <= outgoingMsgId[p]
        /\ \A i \in 1..Len(buf) : buf[i].id = outgoingMsgId[p] - Len(buf) + i
  BY <1>1, <1>4, <1>8 DEF PeerInv, BufferIsSuffix
<1> HIDE DEF n, frame
<1>9. /\ outgoingUnackMsg' \in [Peers -> Seq(Entry)]
      /\ outgoingUnackMsg'[o] = outgoingUnackMsg[o]
      /\ Len(outgoingUnackMsg'[p]) = Len(buf) - n
      /\ \A i \in 1..Len(outgoingUnackMsg'[p]) :
            i + n \in 1..Len(buf) /\ outgoingUnackMsg'[p][i] = buf[i + n]
  <2>1. outgoingUnackMsg'[p] = SubSeq(buf, n + 1, Len(buf))
    BY <1>1, <1>6
  <2>2. /\ SubSeq(buf, n + 1, Len(buf)) \in Seq(Entry)
        /\ Len(SubSeq(buf, n + 1, Len(buf))) = Len(buf) - n
        /\ \A i \in 1..(Len(buf) - n) :
              SubSeq(buf, n + 1, Len(buf))[i] = buf[i + n] /\ i + n \in 1..Len(buf)
    <3> HIDE DEF buf
    <3> QED
      BY <1>1, <1>8, DropFront
  <2>3. outgoingUnackMsg'[o] = outgoingUnackMsg[o]
    BY <1>0, <1>1, <1>6
  <2>4. outgoingUnackMsg' \in [Peers -> Seq(Entry)]
    <3>1. outgoingUnackMsg' = [outgoingUnackMsg EXCEPT ![p] = outgoingUnackMsg'[p]]
      BY <1>1, <1>6
    <3>2. outgoingUnackMsg'[p] \in Seq(Entry)
      BY <2>1, <2>2
    <3> QED
      BY <1>1, <3>1, <3>2
  <2>5. Len(outgoingUnackMsg'[p]) = Len(buf) - n
    BY <2>1, <2>2
  <2>6. \A i \in 1..Len(outgoingUnackMsg'[p]) :
           i + n \in 1..Len(buf) /\ outgoingUnackMsg'[p][i] = buf[i + n]
    BY <2>1, <2>2, <2>5
  <2> QED
    BY <2>3, <2>4, <2>5, <2>6
<1>10. /\ wire' \in [Sockets -> [Peers -> Seq(Frame)]]
       /\ wire'[s][p] = Tail(w)
       /\ \A t \in Sockets, q \in Peers : t # s \/ q # p => wire'[t][q] = wire[t][q]
       /\ SoundWire(Tail(w), Seen(p)', Seen(o), outgoingMsgId[o])
  <2>1. SoundWire(w, Seen(p), Seen(o), outgoingMsgId[o]) /\ outgoingMsgId[o] \in Nat
    BY <1>0, <1>1, <1>4 DEF WireSound
  <2>2. Tail(w) \in Seq(Frame) /\ SoundWire(Tail(w), Seen(p)', Seen(o), outgoingMsgId[o])
    <3>1. Head(w).type = "Regular" => Head(w).id \in Seen(p)'
      BY <1>7 DEF frame
    <3> HIDE DEF w
    <3> QED
      BY <1>1, <1>7, <2>1, <3>1, SoundTail
  <2>3. wire[s] \in [Peers -> Seq(Frame)]
    BY <1>1
  <2>4. wire' = [wire EXCEPT ![s] = [wire[s] EXCEPT ![p] = Tail(w)]]
    BY <1>6
  <2>5. [wire[s] EXCEPT ![p] = Tail(w)] \in [Peers -> Seq(Frame)]
    <3> HIDE DEF w
    <3> QED
      BY <2>2, <2>3
  <2>6. wire' \in [Sockets -> [Peers -> Seq(Frame)]]
    BY <1>1, <2>4, <2>5
  <2>7. wire'[s] = [wire[s] EXCEPT ![p] = Tail(w)]
        /\ \A t \in Sockets : t # s => wire'[t] = wire[t]
    BY <1>1, <2>4
  <2>8. wire'[s][p] = Tail(w) /\ \A q \in Peers : q # p => wire'[s][q] = wire[s][q]
    BY <2>3, <2>7
  <2>9. ASSUME NEW t \in Sockets, NEW q \in Peers, t # s \/ q # p
        PROVE  wire'[t][q] = wire[t][q]
    <3>1. CASE t = s
      BY <2>8, <2>9, <3>1
    <3>2. CASE t # s
      BY <2>7, <3>2
    <3> QED
      BY <3>1, <3>2
  <2> HIDE DEF w, s
  <2> QED
    BY <2>2, <2>6, <2>8, <2>9
<1>11. incomingAckId' \in [Peers -> Nat] /\ incomingAckId'[o] = incomingAckId[o]
       /\ (incomingAckId'[p] = incomingAckId[p]
           \/ (frame.type = "Regular" /\ incomingAckId'[p] = frame.id))
  <2>1. \/ incomingAckId' = incomingAckId
        \/ frame.type = "Regular"
           /\ incomingAckId' = [incomingAckId EXCEPT ![p] = frame.id]
    BY DEF Read, frame
  <2>2. incomingAckId \in [Peers -> Nat]
    BY <1>1
  <2>3. CASE incomingAckId' = incomingAckId
    BY <2>2, <2>3
  <2>4. CASE frame.type = "Regular"
             /\ incomingAckId' = [incomingAckId EXCEPT ![p] = frame.id]
    <3>1. frame.id \in Nat /\ o \in Peers /\ o # p
      BY <1>0, <1>3
    <3>2. incomingAckId' = [incomingAckId EXCEPT ![p] = frame.id]
      BY <2>4
    <3> HIDE DEF o
    <3>3. /\ incomingAckId' \in [Peers -> Nat] /\ incomingAckId'[o] = incomingAckId[o]
          /\ incomingAckId'[p] = frame.id
      BY <2>2, <3>1, <3>2
    <3> QED
      BY <2>4, <3>3
  <2> QED
    BY <2>1, <2>3, <2>4
<1>12. Shape'
  BY <1>6, <1>7, <1>9, <1>10, <1>11 DEF IInv, Shape
<1>13. ASSUME NEW t \in Sockets, NEW q \in Peers PROVE WireSound(t, q)'
  <2>1. CASE t = s /\ q = p
    BY <1>6, <1>7, <1>10, <2>1 DEF WireSound
  <2>2. CASE ~(t = s /\ q = p)
    <3>0. Other(q) \in Peers /\ wire[t][q] \in Seq(Frame) /\ outgoingMsgId[Other(q)] \in Nat
      BY <1>1, OtherPeer
    <3>1. SoundWire(wire[t][q], Seen(q), Seen(Other(q)), outgoingMsgId[Other(q)])
      BY DEF IInv, WireSound
    <3>2. Seen(q) \subseteq Seen(q)' /\ Seen(Other(q)) \subseteq Seen(Other(q))'
      BY <1>0, <1>7, <3>0
    <3>3. SoundWire(wire[t][q], Seen(q)', Seen(Other(q))', outgoingMsgId[Other(q)])
      BY <3>0, <3>1, <3>2, SoundMonotone
    <3> QED
      BY <1>6, <1>10, <2>2, <3>3 DEF WireSound
  <2> QED
    BY <2>1, <2>2
<1>14. NoGap'
  <2>1. CASE frame.type # "Regular"
    BY <1>7, <2>1 DEF IInv, NoGap
  <2>2. CASE frame.type = "Regular"
    <3>1. fired'[p] = Append(fired[p], frame.id) /\ fired'[o] = fired[o]
          /\ fired[p] \in Seq(Nat \ {0})
      <4>1. fired' = [fired EXCEPT ![p] = Append(@, frame.id)]
        BY <2>2 DEF Read, frame
      <4> QED
        BY <1>0, <4>1 DEF IInv, Shape
    <3>2. ASSUME NEW i \in DOMAIN fired'[p]
          PROVE  fired'[p][i] = 1 \/ \E j \in 1..(i-1) : fired'[p][j] = fired'[p][i] - 1
      <4>1. frame.id = 1 \/ \E k \in 1..Len(fired[p]) : fired[p][k] = frame.id - 1
        <5>1. DOMAIN fired[p] = 1..Len(fired[p])
          BY <3>1
        <5> QED
          BY <1>5, <2>2, <5>1 DEF Seen
      <4>2. \A k \in 1..Len(fired[p]) :
               fired[p][k] = 1 \/ \E j \in 1..(k-1) : fired[p][j] = fired[p][k] - 1
        <5>1. DOMAIN fired[p] = 1..Len(fired[p])
          BY <3>1
        <5> QED
          BY <5>1 DEF IInv, NoGap
      <4>3. \A k \in 1..Len(fired'[p]) :
               fired'[p][k] = 1 \/ \E j \in 1..(k-1) : fired'[p][j] = fired'[p][k] - 1
        <5> DEFINE f == fired[p]
        <5>1. f \in Seq(Nat \ {0}) /\ fired'[p] = Append(f, frame.id)
          BY <3>1
        <5>2. frame.id = 1 \/ \E k \in 1..Len(f) : f[k] = frame.id - 1
          BY <4>1
        <5>3. \A k \in 1..Len(f) : f[k] = 1 \/ \E j \in 1..(k-1) : f[j] = f[k] - 1
          BY <4>2
        <5> HIDE DEF f
        <5>4. \A k \in 1..Len(Append(f, frame.id)) :
                 Append(f, frame.id)[k] = 1
                   \/ \E j \in 1..(k-1) : Append(f, frame.id)[j] = Append(f, frame.id)[k] - 1
          BY <1>3, <5>1, <5>2, <5>3, NoGapAppend
        <5> QED
          BY <5>1, <5>4
      <4>4. DOMAIN fired'[p] = 1..Len(fired'[p])
        BY <1>0, <1>7
      <4> QED
        BY <3>2, <4>3, <4>4
    <3>3. ASSUME NEW i \in DOMAIN fired'[o]
          PROVE  fired'[o][i] = 1 \/ \E j \in 1..(i-1) : fired'[o][j] = fired'[o][i] - 1
      BY <1>0, <3>1 DEF IInv, NoGap
    <3> QED
      BY <1>0, <3>2, <3>3 DEF NoGap
  <2> QED
    BY <2>1, <2>2
<1>15. PeerInv(p)'
  <2>1. BufferIsSuffix(p)'
    <3>1. outgoingMsgId'[p] = outgoingMsgId[p]
      BY <1>6
    <3>2. ASSUME NEW i \in 1..Len(outgoingUnackMsg'[p])
          PROVE  outgoingUnackMsg'[p][i].id
                   = outgoingMsgId'[p] - Len(outgoingUnackMsg'[p]) + i
      <4>1. outgoingUnackMsg'[p][i].id = outgoingMsgId[p] - Len(buf) + (i + n)
        <5> HIDE DEF buf
        <5> QED
          BY <1>low, <1>9
      <4> HIDE DEF buf
      <4> QED
        BY <1>low, <1>9, <3>1, <4>1
    <3>3. Len(outgoingUnackMsg'[p]) <= outgoingMsgId'[p]
      <4> HIDE DEF buf
      <4> QED
        BY <1>low, <1>9, <3>1
    <3> QED
      BY <3>2, <3>3 DEF BufferIsSuffix
  <2>2. Solid(p)'
    <3>1. Solid(p)
      BY <1>4 DEF PeerInv
    <3>2. ASSUME NEW i \in Seen(p)', NEW k \in 1..i PROVE k \in Seen(p)'
      <4>1. CASE i \in Seen(p)
        BY <1>7, <3>1, <3>2, <4>1 DEF Solid
      <4>2. CASE i \notin Seen(p)
        <5>1. i = frame.id /\ frame.type = "Regular"
          <6>1. i = frame.id
            BY <1>7, <4>2
          <6>2. frame.type # "Regular" => Seen(p)' = Seen(p)
            BY <1>7 DEF Seen
          <6> QED
            BY <4>2, <6>1, <6>2
        <5>2. CASE k = i
          BY <5>2
        <5>3. CASE k # i
          <6>1. frame.id - 1 \in Seen(p) /\ k \in 1..(frame.id - 1)
            BY <1>3, <1>5, <3>2, <5>1, <5>3
          <6> QED
            BY <1>7, <3>1, <6>1 DEF Solid
        <5> QED
          BY <5>2, <5>3
      <4> QED
        BY <4>1, <4>2
    <3> QED
      BY <3>2 DEF Solid
  <2>3. AcksHonest(p)'
    <3>1. AcksHonest(p)
      BY <1>4 DEF PeerInv
    <3>2. incomingAckId[p] = 0 \/ incomingAckId[p] \in Seen(p)
      BY <3>1 DEF AcksHonest, Has
    <3>3. incomingAckId'[p] = 0 \/ incomingAckId'[p] \in Seen(p)'
      BY <1>7, <1>11, <3>2
    <3>4. \A i \in 1..Len(buf) : buf[i].ack = 0 \/ buf[i].ack \in Seen(p)
      BY <3>1 DEF AcksHonest, Has
    <3>5. \A i \in 1..Len(outgoingUnackMsg'[p]) :
             outgoingUnackMsg'[p][i].ack = 0 \/ outgoingUnackMsg'[p][i].ack \in Seen(p)'
      <4> HIDE DEF buf
      <4> QED
        BY <1>7, <1>9, <3>4
    <3> QED
      BY <3>3, <3>5 DEF AcksHonest, Has
  <2>4. FreedSeen(p)'
    <3>1. FreedSeen(p) /\ Solid(o)
      BY <1>4 DEF PeerInv
    <3>2. ASSUME NEW i \in 1..(outgoingMsgId[p] - Len(buf) + n) PROVE i \in Seen(o)
      <4>1. CASE n = 0
        BY <1>1, <3>1, <3>2, <4>1 DEF FreedSeen
      <4>2. CASE n > 0
        <5>1. i \in 1..frame.ack
          BY <1>1, <1>3, <1>8, <3>2, <4>2
        <5> QED
          BY <1>3, <1>5, <3>1, <5>1 DEF Solid
      <4> QED
        BY <1>8, <4>1, <4>2
    <3>3. outgoingMsgId'[p] - Len(outgoingUnackMsg'[p]) = outgoingMsgId[p] - Len(buf) + n
      BY <1>1, <1>6, <1>8, <1>9
    <3> QED
      BY <1>7, <3>2, <3>3 DEF FreedSeen
  <2>5. LatestOnItsWay(p)'
    <3>1. LatestOnItsWay(p)
      BY <1>4 DEF PeerInv
    <3>2. wire'[socket[p]][o] = wire[socket[p]][o]
      BY <1>0, <1>1, <1>10
    <3> QED
      BY <1>6, <1>7, <3>1, <3>2 DEF LatestOnItsWay, Has, Reaches
  <2> QED
    BY <2>1, <2>2, <2>3, <2>4, <2>5 DEF PeerInv
<1>16. PeerInv(o)'
  <2>0. outgoingMsgId' = outgoingMsgId /\ outgoingUnackMsg'[o] = outgoingUnackMsg[o]
        /\ incomingAckId'[o] = incomingAckId[o] /\ Seen(o)' = Seen(o)
    BY <1>6, <1>7, <1>9, <1>11
  <2>a. BufferIsSuffix(o)'
    BY <1>4, <2>0 DEF PeerInv, BufferIsSuffix
  <2>b. Solid(o)'
    BY <1>4, <2>0 DEF PeerInv, Solid
  <2>c. AcksHonest(o)'
    BY <1>4, <2>0 DEF PeerInv, AcksHonest, Has
  <2>1. BufferIsSuffix(o)' /\ Solid(o)' /\ AcksHonest(o)'
    BY <2>a, <2>b, <2>c
  <2>2. FreedSeen(o)'
    BY <1>0, <1>4, <1>6, <1>7, <1>9 DEF PeerInv, FreedSeen
  <2>3. LatestOnItsWay(o)'
    <3>1. LatestOnItsWay(o) /\ Other(o) = p
      BY <1>0, <1>4 DEF PeerInv
    <3>2. Reaches(socket[o], p)' = Reaches(socket[o], p)
      BY <1>6 DEF Reaches
    <3>3. CASE ~Reaches(socket[o], p)
      BY <1>6, <3>1, <3>2, <3>3 DEF LatestOnItsWay
    <3>4. CASE Has(p, outgoingMsgId[o])
      BY <1>6, <1>7, <3>1, <3>4 DEF LatestOnItsWay, Has
    <3>5. CASE \E j \in 1..Len(wire[socket[o]][p]) :
                  wire[socket[o]][p][j].id = outgoingMsgId[o]
      <4>1. PICK j \in 1..Len(wire[socket[o]][p]) :
                  wire[socket[o]][p][j].id = outgoingMsgId[o]
        BY <3>5
      <4>2. CASE socket[o] # s
        <5>1. wire'[socket[o]][p] = wire[socket[o]][p]
          BY <1>0, <1>10, <4>2 DEF IInv, Shape
        <5> QED
          BY <1>6, <3>1, <4>1, <5>1 DEF LatestOnItsWay
      <4>3. CASE socket[o] = s /\ j = 1
        <5>1. frame.id = outgoingMsgId[o]
          BY <1>2, <4>1, <4>3
        <5>2. frame.type # "Regular" => frame.id = 0
          BY <1>2, <1>4 DEF WireSound, SoundWire
        <5>3. Has(p, outgoingMsgId[o])'
          BY <1>6, <1>7, <5>1, <5>2 DEF Has
        <5> QED
          BY <1>6, <3>1, <5>3 DEF LatestOnItsWay
      <4>4. CASE socket[o] = s /\ j > 1
        <5>1. j - 1 \in 1..Len(Tail(w)) /\ Tail(w)[j - 1] = w[j]
          <6>1. j \in 1..Len(w) /\ j > 1
            BY <4>1, <4>4
          <6> HIDE DEF w
          <6> QED
            BY <1>1, <6>1, Rest
        <5>2. w[j].id = outgoingMsgId[o] /\ wire'[socket[o]][p] = Tail(w)
          BY <1>10, <4>1, <4>4
        <5>3. wire'[socket[o]][p][j - 1].id = outgoingMsgId[o]
              /\ j - 1 \in 1..Len(wire'[socket[o]][p])
          <6> HIDE DEF w
          <6> QED
            BY <5>1, <5>2
        <5> QED
          BY <1>6, <3>1, <5>3 DEF LatestOnItsWay
      <4>5. j = 1 \/ j > 1
        BY <4>1
      <4> QED
        BY <4>2, <4>3, <4>4, <4>5
    <3> QED
      BY <3>1, <3>3, <3>4, <3>5 DEF LatestOnItsWay
  <2> QED
    BY <2>1, <2>2, <2>3 DEF PeerInv
<1> QED
  BY <1>0, <1>12, <1>13, <1>14, <1>15, <1>16 DEF IInv

LEMMA ReplaceIInv ==
    ASSUME IInv, NEW p \in Peers, NEW s \in Sockets, ReplaceSocket(p, s)
    PROVE  IInv'
<1> DEFINE o == Other(p)
           buf == outgoingUnackMsg[p]
           w == wire[s][o]
           fs == Entries(p)
<1>0. o \in Peers /\ o # p /\ Other(o) = p /\ Peers = {p, o}
  BY OtherPeer
<1>1. /\ buf \in Seq(Entry) /\ w \in Seq(Frame)
      /\ outgoingMsgId \in [Peers -> Nat] /\ outgoingMsgId[p] \in Nat
      /\ socket \in [Peers -> Sockets]
      /\ wire \in [Sockets -> [Peers -> Seq(Frame)]]
  BY <1>0 DEF IInv, Shape
<1>2. /\ socket' = [socket EXCEPT ![p] = s] /\ socket[p] < s
      /\ UNCHANGED <<outgoingMsgId, outgoingUnackMsg, incomingAckId, broken, fired>>
      /\ wire' = [t \in Sockets |-> [q \in Peers |->
                    IF q = p THEN IF t < s THEN <<>> ELSE wire[t][q]
                    ELSE IF t = s /\ Reaches(s, q) THEN wire[t][q] \o Entries(p)
                    ELSE wire[t][q]]]
  BY DEF ReplaceSocket, bufferVars
<1>3. \A q \in Peers : Seen(q)' = Seen(q)
  BY <1>2 DEF Seen
<1>4. PeerInv(p) /\ PeerInv(o)
  BY <1>0 DEF IInv
<1>5. /\ fs \in Seq(Frame) /\ Len(fs) = Len(buf)
      /\ \A i \in 1..Len(fs) :
            fs[i].type = "Regular" /\ fs[i].id = buf[i].id /\ fs[i].ack = buf[i].ack
  <2>1. fs = [i \in 1..Len(buf) |-> Regular(buf[i].id, buf[i].ack)] /\ Len(buf) \in Nat
    BY <1>1 DEF Entries
  <2>2. \A i \in 1..Len(buf) : buf[i].id \in Nat /\ buf[i].ack \in Nat
    <3>1. \A i \in 1..Len(buf) : buf[i] \in Entry
      <4> HIDE DEF buf
      <4> QED
        BY <1>1
    <3> HIDE DEF buf
    <3> QED
      BY <3>1 DEF Entry
  <2>3. \A i \in 1..Len(buf) : Regular(buf[i].id, buf[i].ack) \in Frame
    BY <2>2 DEF Regular, Frame
  <2> HIDE DEF fs, buf
  <2>4. fs \in Seq(Frame) /\ Len(fs) = Len(buf)
    BY <2>1, <2>3
  <2>5. ASSUME NEW i \in 1..Len(fs)
        PROVE  fs[i].type = "Regular" /\ fs[i].id = buf[i].id /\ fs[i].ack = buf[i].ack
    <3>1. fs[i] = Regular(buf[i].id, buf[i].ack)
      BY <2>1, <2>4
    <3> QED
      BY <3>1 DEF Regular
  <2> QED
    BY <2>4, <2>5
<1>6. /\ Len(buf) \in Nat /\ Len(buf) <= outgoingMsgId[p]
      /\ \A i \in 1..Len(buf) : buf[i].id = outgoingMsgId[p] - Len(buf) + i
      /\ \A i \in 1..Len(buf) : buf[i].ack = 0 \/ buf[i].ack \in Seen(p)
      /\ \A i \in 1..(outgoingMsgId[p] - Len(buf)) : i \in Seen(o)
  BY <1>1, <1>4 DEF PeerInv, BufferIsSuffix, AcksHonest, FreedSeen, Has
<1>7. w \o fs \in Seq(Frame) /\ SoundWire(w \o fs, Seen(o), Seen(p), outgoingMsgId[p])
  <2>1. SoundWire(w, Seen(o), Seen(p), outgoingMsgId[p])
    BY <1>0 DEF IInv, WireSound
  <2>2. ASSUME NEW i \in 1..Len(fs)
        PROVE  /\ fs[i].ack = 0 \/ fs[i].ack \in Seen(p)
               /\ fs[i].type = "Regular" =>
                    /\ fs[i].id \in 1..outgoingMsgId[p]
                    /\ \/ fs[i].id = 1
                       \/ fs[i].id - 1 \in Seen(o)
                       \/ \E j \in 1..(i-1) : fs[j].id = fs[i].id - 1
                       \/ \E j \in 1..Len(w) : w[j].id = fs[i].id - 1
               /\ fs[i].type # "Regular" => fs[i].id = 0
    <3> HIDE DEF fs, buf, w
    <3>1. fs[i].id = outgoingMsgId[p] - Len(buf) + i /\ i \in 1..Len(buf)
      BY <1>5, <1>6
    <3>2. fs[i].id \in 1..outgoingMsgId[p]
      BY <1>1, <1>6, <3>1
    <3>5. (fs[i].ack = 0 \/ fs[i].ack \in Seen(p)) /\ fs[i].type = "Regular"
      BY <1>5, <1>6
    <3>6. \/ fs[i].id = 1
          \/ fs[i].id - 1 \in Seen(o)
          \/ \E j \in 1..(i-1) : fs[j].id = fs[i].id - 1
      <4>1. CASE i = 1
        BY <1>1, <1>6, <3>1, <4>1
      <4>2. CASE i > 1
        <5>1. i - 1 \in 1..Len(fs) /\ i - 1 \in 1..(i-1)
          BY <4>2
        <5>2. fs[i-1].id = fs[i].id - 1
          <6>1. fs[i-1].id = buf[i-1].id /\ i - 1 \in 1..Len(buf)
            BY <1>5, <5>1
          <6>2. buf[i-1].id = outgoingMsgId[p] - Len(buf) + (i - 1)
            BY <1>6, <6>1
          <6>3. outgoingMsgId[p] - Len(buf) + (i - 1) = (outgoingMsgId[p] - Len(buf) + i) - 1
            BY <1>1, <1>6
          <6>4. fs[i].id - 1 = (outgoingMsgId[p] - Len(buf) + i) - 1
            BY <3>1, Zenon
          <6>5. fs[i-1].id = outgoingMsgId[p] - Len(buf) + (i - 1)
            BY <6>1, <6>2, Zenon
          <6> QED
            BY <6>3, <6>4, <6>5, Zenon
        <5> QED
          BY <5>1, <5>2
      <4> QED
        BY <4>1, <4>2
    <3> QED
      BY <3>2, <3>5, <3>6
  <2> HIDE DEF fs, w
  <2> QED
    BY <1>1, <1>5, <2>1, <2>2, SoundAppend
<1>8. ASSUME NEW t \in Sockets
      PROVE  /\ wire'[t][p] = IF t < s THEN <<>> ELSE wire[t][p]
             /\ wire'[t][o] = IF t = s /\ Reaches(s, o) THEN w \o fs ELSE wire[t][o]
             /\ wire'[t] \in [Peers -> Seq(Frame)]
  <2>1. wire'[t] = [q \in Peers |->
                    IF q = p THEN IF t < s THEN <<>> ELSE wire[t][q]
                    ELSE IF t = s /\ Reaches(s, q) THEN wire[t][q] \o Entries(p)
                    ELSE wire[t][q]]
    BY <1>2
  <2>2. wire'[t][p] = IF t < s THEN <<>> ELSE wire[t][p]
    BY <2>1
  <2>3. wire'[t][o] = IF t = s /\ Reaches(s, o) THEN w \o fs ELSE wire[t][o]
    BY <1>0, <2>1
  <2>4. wire'[t][p] \in Seq(Frame) /\ wire'[t][o] \in Seq(Frame)
    <3>1. wire[t][p] \in Seq(Frame) /\ wire[t][o] \in Seq(Frame) /\ <<>> \in Seq(Frame)
      BY <1>0, <1>1
    <3> HIDE DEF fs, w
    <3> QED
      BY <1>7, <2>2, <2>3, <3>1
  <2>5. wire'[t] = [q \in Peers |-> wire'[t][q]]
    BY <2>1
  <2>6. \A q \in Peers : wire'[t][q] \in Seq(Frame)
    BY <1>0, <2>4
  <2> QED
    BY <2>2, <2>3, <2>5, <2>6
<1>9. Shape'
  <2>1. wire' \in [Sockets -> [Peers -> Seq(Frame)]]
    <3>1. wire' = [t \in Sockets |-> wire'[t]]
      BY <1>2
    <3> QED
      BY <1>8, <3>1
  <2>2. socket' \in [Peers -> Sockets]
    BY <1>1, <1>2
  <2> QED
    BY <1>2, <2>1, <2>2 DEF IInv, Shape
<1>10. NoGap'
  BY <1>2 DEF IInv, NoGap
<1>11. ASSUME NEW t \in Sockets, NEW q \in Peers PROVE WireSound(t, q)'
  <2>0. SoundWire(wire[t][q], Seen(q), Seen(Other(q)), outgoingMsgId[Other(q)])
    BY DEF IInv, WireSound
  <2>1. Other(q) \in Peers /\ Seen(Other(q))' = Seen(Other(q)) /\ Seen(q)' = Seen(q)
        /\ outgoingMsgId' = outgoingMsgId
    BY <1>2, <1>3, OtherPeer
  <2>2. SoundWire(wire'[t][q], Seen(q), Seen(Other(q)), outgoingMsgId[Other(q)])
    <3>1. CASE q = p
      <4>1. CASE t < s
        <5>1. wire'[t][p] = <<>>
          BY <1>8, <4>1
        <5>2. Len(wire'[t][p]) = 0
          BY <5>1
        <5> QED
          BY <3>1, <5>2 DEF SoundWire
      <4>2. CASE ~(t < s)
        BY <1>8, <2>0, <3>1, <4>2
      <4> QED
        BY <4>1, <4>2
    <3>2. CASE q = o
      <4>1. CASE t = s /\ Reaches(s, o)
        <5>1. wire'[t][o] = w \o fs
          BY <1>8, <4>1
        <5> QED
          BY <1>0, <1>7, <3>2, <5>1
      <4>2. CASE ~(t = s /\ Reaches(s, o))
        <5>1. wire'[t][o] = wire[t][o]
          BY <1>8, <4>2
        <5> QED
          BY <2>0, <3>2, <5>1
      <4> QED
        BY <4>1, <4>2
    <3> QED
      BY <1>0, <3>1, <3>2
  <2> QED
    BY <2>1, <2>2 DEF WireSound
<1>12. ASSUME NEW q \in Peers
       PROVE  BufferIsSuffix(q)' /\ Solid(q)' /\ AcksHonest(q)' /\ FreedSeen(q)'
  <2>1. PeerInv(q) /\ Other(q) \in Peers
    BY OtherPeer DEF IInv
  <2>2. UNCHANGED <<outgoingMsgId, outgoingUnackMsg, incomingAckId>>
        /\ Seen(q)' = Seen(q) /\ Seen(Other(q))' = Seen(Other(q))
    BY <1>2, <1>3, <2>1
  <2> QED
    BY <2>1, <2>2 DEF PeerInv, BufferIsSuffix, Solid, AcksHonest, FreedSeen, Has
<1>13. LatestOnItsWay(p)'
  <2>1. socket'[p] = s /\ socket'[o] = socket[o] /\ broken' = broken
    BY <1>0, <1>1, <1>2
  <2>2. CASE ~Reaches(s, o)
    BY <2>1, <2>2 DEF LatestOnItsWay, Reaches
  <2>3. CASE Reaches(s, o)
    <3>1. wire'[s][o] = w \o fs
      BY <1>8, <2>3
    <3>2. CASE Len(buf) = 0
      <4>1. outgoingMsgId[p] = 0 \/ outgoingMsgId[p] \in Seen(o)
        <5>1. outgoingMsgId[p] - Len(buf) = outgoingMsgId[p] /\ outgoingMsgId[p] \in Nat
          BY <1>1, <3>2
        <5>2. \A i \in 1..outgoingMsgId[p] : i \in Seen(o)
          <6> HIDE DEF buf, o
          <6>1. \A i \in 1..(outgoingMsgId[p] - Len(buf)) : i \in Seen(o)
            BY <1>6, Zenon
          <6> QED
            BY <5>1, <6>1, Zenon
        <5> QED
          BY <5>1, <5>2, LastOfRange, Zenon
      <4> QED
        BY <1>0, <1>2, <1>3, <4>1 DEF LatestOnItsWay, Has
    <3>3. CASE Len(buf) > 0
      <4>1. Len(buf) \in 1..Len(fs) /\ fs[Len(buf)].id = outgoingMsgId[p]
        <5> HIDE DEF fs, buf
        <5>1. Len(buf) \in 1..Len(buf) /\ Len(buf) \in 1..Len(fs)
          BY <1>5, <1>6, <3>3
        <5>2. fs[Len(buf)].id = buf[Len(buf)].id
          BY <1>5, <5>1
        <5>3. buf[Len(buf)].id = outgoingMsgId[p] - Len(buf) + Len(buf)
          BY <1>6, <5>1
        <5> QED
          BY <1>1, <1>6, <5>1, <5>2, <5>3
      <4>2. /\ Len(w) + Len(buf) \in 1..Len(w \o fs)
            /\ (w \o fs)[Len(w) + Len(buf)] = fs[Len(buf)]
        <5> HIDE DEF fs, buf, w
        <5> QED
          BY <1>1, <1>5, <4>1, Joined
      <4>3. \E j \in 1..Len(wire'[s][o]) : wire'[s][o][j].id = outgoingMsgId[p]
        <5> HIDE DEF fs, buf, w
        <5>1. Len(w) + Len(buf) \in 1..Len(wire'[s][o])
          BY <3>1, <4>2, Zenon
        <5>2. wire'[s][o][Len(w) + Len(buf)].id = outgoingMsgId[p]
          BY <3>1, <4>1, <4>2, Zenon
        <5> QED
          BY <5>1, <5>2, Zenon
      <4> QED
        BY <1>2, <2>1, <4>3, Zenon DEF LatestOnItsWay
    <3> QED
      BY <1>6, <3>2, <3>3
  <2> QED
    BY <2>2, <2>3
<1>14. LatestOnItsWay(o)'
  <2>1. socket'[p] = s /\ socket'[o] = socket[o] /\ broken' = broken /\ Other(o) = p
        /\ outgoingMsgId' = outgoingMsgId /\ socket[o] \in Sockets
    BY <1>0, <1>1, <1>2
  <2>2. CASE ~(socket[o] \notin broken /\ s <= socket[o])
    BY <2>1, <2>2 DEF LatestOnItsWay, Reaches
  <2>3. CASE socket[o] \notin broken /\ s <= socket[o]
    <3>0. socket[p] \in Nat /\ s \in Nat /\ socket[o] \in Nat
      BY <1>0, <1>1 DEF Sockets
    <3>1. Reaches(socket[o], p)
      BY <1>2, <2>3, <3>0 DEF Reaches
    <3>2. wire'[socket[o]][p] = wire[socket[o]][p]
      BY <1>8, <2>1, <2>3, <3>0
    <3>3. Has(p, outgoingMsgId[o]) \/ \E j \in 1..Len(wire[socket[o]][p]) :
              wire[socket[o]][p][j].id = outgoingMsgId[o]
      BY <1>4, <2>1, <3>1 DEF PeerInv, LatestOnItsWay
    <3>4. outgoingMsgId[o] = 0 \/ outgoingMsgId[o] \in Seen(p)'
          \/ \E j \in 1..Len(wire'[socket[o]][p]) :
                 wire'[socket[o]][p][j].id = outgoingMsgId[o]
      BY <1>3, <3>2, <3>3 DEF Has
    <3> QED
      BY <2>1, <3>4 DEF LatestOnItsWay, Has
  <2> QED
    BY <2>2, <2>3
<1>15. ASSUME NEW q \in Peers PROVE PeerInv(q)'
  BY <1>0, <1>12, <1>13, <1>14 DEF PeerInv
<1> QED
  BY <1>9, <1>10, <1>11, <1>15 DEF IInv

LEMMA BreakIInv ==
    ASSUME IInv, NEW s \in Sockets, Break(s)
    PROVE  IInv'
<1>1. /\ broken' = broken \cup {s}
      /\ wire' = [wire EXCEPT ![s] = [q \in Peers |-> <<>>]]
      /\ UNCHANGED <<outgoingMsgId, outgoingUnackMsg, incomingAckId, socket, fired>>
  BY DEF Break, bufferVars
<1>2. wire \in [Sockets -> [Peers -> Seq(Frame)]] /\ socket \in [Peers -> Sockets]
  BY DEF IInv, Shape
<1>3. \A q \in Peers : Seen(q)' = Seen(q)
  BY <1>1 DEF Seen
<1>4. wire' \in [Sockets -> [Peers -> Seq(Frame)]]
  <2>1. [q \in Peers |-> <<>>] \in [Peers -> Seq(Frame)]
    OBVIOUS
  <2> QED
    BY <1>1, <1>2, <2>1
<1>5. Shape'
  BY <1>1, <1>4 DEF IInv, Shape
<1>6. NoGap'
  BY <1>1 DEF IInv, NoGap
<1>7. ASSUME NEW t \in Sockets, NEW q \in Peers PROVE WireSound(t, q)'
  <2>1. Other(q) \in Peers
    BY OtherPeer
  <2>2. CASE t = s
    <3>1. wire'[t][q] = <<>>
      BY <1>1, <1>2, <2>2
    <3>2. Len(wire'[t][q]) = 0
      BY <3>1
    <3> QED
      BY <3>2 DEF WireSound, SoundWire
  <2>3. CASE t # s
    <3>1. wire'[t] = wire[t]
      BY <1>1, <1>2, <2>3
    <3>2. WireSound(t, q)
      BY DEF IInv
    <3> QED
      BY <1>1, <1>3, <2>1, <3>1, <3>2 DEF WireSound
  <2> QED
    BY <2>2, <2>3
<1>8. ASSUME NEW q \in Peers PROVE PeerInv(q)'
  <2>1. PeerInv(q) /\ Other(q) \in Peers
    BY OtherPeer DEF IInv
  <2>2. Seen(q)' = Seen(q) /\ Seen(Other(q))' = Seen(Other(q))
    BY <1>3, <2>1
  <2>3. BufferIsSuffix(q)' /\ Solid(q)' /\ AcksHonest(q)' /\ FreedSeen(q)'
    BY <1>1, <2>1, <2>2 DEF PeerInv, BufferIsSuffix, Solid, AcksHonest, FreedSeen, Has
  <2>4. LatestOnItsWay(q)'
    <3>1. LatestOnItsWay(q)
      BY <2>1 DEF PeerInv
    <3>2. CASE socket[q] = s
      BY <1>1, <3>2 DEF LatestOnItsWay, Reaches
    <3>3. CASE socket[q] # s
      <4>1. wire'[socket[q]] = wire[socket[q]]
        BY <1>1, <1>2, <3>3
      <4>2. Reaches(socket[q], Other(q))' => Reaches(socket[q], Other(q))
        BY <1>1 DEF Reaches
      <4> QED
        BY <1>1, <2>2, <3>1, <4>1, <4>2 DEF LatestOnItsWay, Has
    <3> QED
      BY <3>2, <3>3
  <2> QED
    BY <2>3, <2>4 DEF PeerInv
<1> QED
  BY <1>5, <1>6, <1>7, <1>8 DEF IInv

LEMMA NextIInv == IInv /\ [Next]_vars => IInv'
<1> SUFFICES ASSUME IInv, [Next]_vars PROVE IInv'
  OBVIOUS
<1>1. CASE UNCHANGED vars
  <2>1. UNCHANGED <<outgoingMsgId, outgoingUnackMsg, incomingAckId, socket, wire,
                    broken, fired>>
    BY <1>1 DEF vars, bufferVars, netVars
  <2>2. Shape' /\ NoGap'
    BY <2>1 DEF IInv, Shape, NoGap
  <2>3. \A q \in Peers : Seen(q)' = Seen(q)
    BY <2>1 DEF Seen
  <2>4. ASSUME NEW s \in Sockets, NEW q \in Peers PROVE WireSound(s, q)'
    <3>1. WireSound(s, q) /\ Other(q) \in Peers
      BY OtherPeer DEF IInv
    <3> QED
      BY <2>1, <2>3, <3>1 DEF WireSound
  <2>5. ASSUME NEW q \in Peers PROVE PeerInv(q)'
    <3>1. PeerInv(q) /\ Other(q) \in Peers
      BY OtherPeer DEF IInv
    <3>2. Seen(q)' = Seen(q) /\ Seen(Other(q))' = Seen(Other(q))
      BY <2>3, <3>1
    <3>3. BufferIsSuffix(q)' /\ Solid(q)' /\ AcksHonest(q)' /\ FreedSeen(q)'
      BY <2>1, <3>1, <3>2
         DEF PeerInv, BufferIsSuffix, Solid, AcksHonest, FreedSeen, Has
    <3>4. LatestOnItsWay(q)'
      BY <2>1, <3>1, <3>2 DEF PeerInv, LatestOnItsWay, Reaches, Has
    <3> QED
      BY <3>3, <3>4 DEF PeerInv
  <2> QED
    BY <2>2, <2>4, <2>5 DEF IInv
<1>2. ASSUME NEW p \in Peers, NEW n \in Sizes, Send(p, n) PROVE IInv'
  BY <1>2, SendIInv
<1>3. ASSUME NEW p \in Peers PROVE <<KeepAliveFrame(incomingAckId[p])>> \in Seq(Frame)
                                   /\ <<DisconnectFrame(incomingAckId[p])>> \in Seq(Frame)
                                   /\ Has(p, incomingAckId[p])
  <2>1. incomingAckId[p] \in Nat /\ AcksHonest(p)
    BY DEF IInv, Shape, PeerInv
  <2>2. KeepAliveFrame(incomingAckId[p]) \in Frame /\ DisconnectFrame(incomingAckId[p]) \in Frame
    BY <2>1 DEF KeepAliveFrame, DisconnectFrame, Frame
  <2> QED
    BY <2>1, <2>2 DEF AcksHonest
<1>4. ASSUME NEW p \in Peers, KeepAlive(p) PROVE IInv'
  <2> DEFINE fs == <<KeepAliveFrame(incomingAckId[p])>>
  <2>1. wire' = Written(p, fs) /\ fired' = fired
        /\ UNCHANGED <<outgoingMsgId, outgoingUnackMsg, incomingAckId, socket, broken>>
    BY <1>4 DEF KeepAlive, bufferVars
  <2>2. fs \in Seq(Frame)
    BY <1>3
  <2>3. \A i \in 1..Len(fs) : fs[i].type # "Regular" /\ fs[i].id = 0 /\ Has(p, fs[i].ack)
    BY <1>3 DEF KeepAliveFrame
  <2> HIDE DEF fs
  <2> QED
    BY <2>1, <2>2, <2>3, QuietStep
<1>5. ASSUME NEW p \in Peers, GraceExpires(p) PROVE IInv'
  <2> DEFINE fs == <<DisconnectFrame(incomingAckId[p])>>
  <2>1. wire' = Written(p, fs) /\ fired' = fired
        /\ UNCHANGED <<outgoingMsgId, outgoingUnackMsg, incomingAckId, socket, broken>>
    BY <1>5 DEF GraceExpires, bufferVars
  <2>2. fs \in Seq(Frame)
    BY <1>3
  <2>3. \A i \in 1..Len(fs) : fs[i].type # "Regular" /\ fs[i].id = 0 /\ Has(p, fs[i].ack)
    BY <1>3 DEF DisconnectFrame
  <2> HIDE DEF fs
  <2> QED
    BY <2>1, <2>2, <2>3, QuietStep
<1> QED
  BY <1>1, <1>2, <1>4, <1>5, ReadIInv, ReplaceIInv, BreakIInv DEF Next

THEOREM LinkInvariant == Spec => []IInv
<1>1. Init => IInv
  BY InitIInv
<1>2. IInv /\ [Next]_vars => IInv'
  BY NextIInv
<1> QED
  BY <1>1, <1>2, PTL DEF Spec

-----------------------------------------------------------------------------
\* No message is skipped, however often the connection is lost.
THEOREM NothingSkipped == Spec => []NoGap
<1>1. IInv => NoGap
  BY DEF IInv
<1> QED
  BY <1>1, LinkInvariant, PTL

\* A message leaves the replay buffer only when the other side has it.
THEOREM NothingFreedEarly == Spec => []ForgottenOnlyWhenSeen
<1>1. IInv => ForgottenOnlyWhenSeen
  <2> SUFFICES ASSUME IInv, NEW p \in Peers, NEW i \in 1..outgoingMsgId[p],
                      \A k \in DOMAIN outgoingUnackMsg[p] : outgoingUnackMsg[p][k].id # i
               PROVE  i \in Seen(Other(p))
    BY DEF ForgottenOnlyWhenSeen
  <2> DEFINE buf == outgoingUnackMsg[p]
  <2>1. /\ buf \in Seq(Entry) /\ outgoingMsgId[p] \in Nat
        /\ BufferIsSuffix(p) /\ FreedSeen(p)
    BY DEF IInv, Shape, PeerInv
  <2>2. DOMAIN buf = 1..Len(buf) /\ Len(buf) \in Nat
    BY <2>1
  <2>3. CASE i <= outgoingMsgId[p] - Len(buf)
    BY <2>1, <2>2, <2>3 DEF FreedSeen
  <2>4. CASE i > outgoingMsgId[p] - Len(buf)
    <3>1. PICK k \in 1..Len(buf) : i = outgoingMsgId[p] - Len(buf) + k
      <4>1. i - (outgoingMsgId[p] - Len(buf)) \in 1..Len(buf)
        BY <2>1, <2>2, <2>4
      <4>2. i = outgoingMsgId[p] - Len(buf) + (i - (outgoingMsgId[p] - Len(buf)))
        BY <2>1, <2>2
      <4> QED
        BY <4>1, <4>2
    <3>2. buf[k].id = i
      BY <2>1, <3>1 DEF BufferIsSuffix
    <3> QED
      BY <2>2, <3>2
  <2> QED
    BY <2>1, <2>2, <2>3, <2>4
<1> QED
  BY <1>1, LinkInvariant, PTL

-----------------------------------------------------------------------------
(* Refinement.                                                              *)

LEMMA Freed ==
    ASSUME IInv, NEW p \in Peers
    PROVE  /\ outgoingMsgId[p] - Len(outgoingUnackMsg[p]) \in Nat
           /\ \A i \in 1..(outgoingMsgId[p] - Len(outgoingUnackMsg[p])) :
                 i \in Seen(Other(p))
<1>1. /\ outgoingMsgId[p] \in Nat /\ Len(outgoingUnackMsg[p]) \in Nat
      /\ BufferIsSuffix(p) /\ FreedSeen(p)
  BY DEF IInv, Shape, PeerInv
<1> QED
  BY <1>1 DEF BufferIsSuffix, FreedSeen

LEMMA LinkTerms ==
    ASSUME NEW p \in Peers
    PROVE  Link!Other(p) = Other(p) /\ Link!Seen(p) = Seen(p)
BY DEF Link!Other, Other, Link!Seen, Seen

LEMMA FreedLater ==
    ASSUME IInv', NEW p \in Peers
    PROVE  /\ outgoingMsgId'[p] - Len(outgoingUnackMsg'[p]) \in Nat
           /\ \A i \in 1..(outgoingMsgId'[p] - Len(outgoingUnackMsg'[p])) :
                 i \in Seen(Other(p))'
<1>1. /\ outgoingMsgId'[p] \in Nat /\ Len(outgoingUnackMsg'[p]) \in Nat
      /\ BufferIsSuffix(p)' /\ FreedSeen(p)'
  BY DEF IInv, Shape, PeerInv
<1> QED
  BY <1>1 DEF BufferIsSuffix, FreedSeen

\* Sending is the abstract send: the buffer grows by what was counted.
LEMMA SendImplements ==
    ASSUME IInv, NEW p \in Peers, NEW n \in Sizes, Send(p, n)
    PROVE  Link!Next
<1> DEFINE freed == [q \in Peers |-> outgoingMsgId[q] - Len(outgoingUnackMsg[q])]
<1>1. /\ outgoingMsgId \in [Peers -> Nat]
      /\ outgoingUnackMsg \in [Peers -> Seq(Entry)] /\ outgoingUnackMsg[p] \in Seq(Entry)
  BY DEF IInv, Shape
<1>2. /\ outgoingMsgId' = [outgoingMsgId EXCEPT ![p] = @ + 1]
      /\ fired' = fired
  BY DEF Send
<1>3. /\ Len(outgoingUnackMsg'[p]) = Len(outgoingUnackMsg[p]) + 1
      /\ Len(outgoingUnackMsg[p]) \in Nat
      /\ \A q \in Peers : q # p => outgoingUnackMsg'[q] = outgoingUnackMsg[q]
  <2> DEFINE entry == [id |-> outgoingMsgId[p] + 1, ack |-> incomingAckId[p], size |-> n]
  <2>1. outgoingUnackMsg' = [outgoingUnackMsg EXCEPT ![p] = Append(@, entry)]
    BY DEF Send
  <2> HIDE DEF entry
  <2>2. outgoingUnackMsg'[p] = Append(outgoingUnackMsg[p], entry)
    BY <1>1, <2>1
  <2> QED
    BY <1>1, <2>1, <2>2
<1>4. ASSUME NEW q \in Peers
      PROVE  outgoingMsgId'[q] - Len(outgoingUnackMsg'[q])
               = outgoingMsgId[q] - Len(outgoingUnackMsg[q])
  <2>1. CASE q = p
    BY <1>1, <1>2, <1>3, <2>1
  <2>2. CASE q # p
    BY <1>1, <1>2, <1>3, <2>2
  <2> QED
    BY <2>1, <2>2
<1>5. freed' = freed
  BY <1>4
<1> HIDE DEF freed
<1>6. Link!SendOne(p)
  BY <1>2 DEF Link!SendOne
<1> QED
  BY <1>5, <1>6 DEF Link!Next, freed

\* Reading a frame hands its message over and forgets what it acknowledges.
LEMMA ReadImplements ==
    ASSUME IInv, IInv', NEW p \in Peers, Read(p)
    PROVE  Link!Next
<1> DEFINE freed == [q \in Peers |-> outgoingMsgId[q] - Len(outgoingUnackMsg[q])]
           o == Other(p)
           frame == Head(wire[socket[p]][p])
           n == Acknowledged(p, frame.ack)
<1>0. o \in Peers /\ o # p /\ Other(o) = p /\ Peers = {p, o}
  BY OtherPeer
<1>1. /\ outgoingMsgId \in [Peers -> Nat] /\ outgoingMsgId' = outgoingMsgId
      /\ outgoingUnackMsg \in [Peers -> Seq(Entry)] /\ outgoingUnackMsg[p] \in Seq(Entry)
      /\ wire[socket[p]][p] \in Seq(Frame) /\ wire[socket[p]][p] # <<>>
      /\ socket[p] \in Sockets
  BY DEF IInv, Shape, Read
<1>2. outgoingUnackMsg' = [outgoingUnackMsg EXCEPT ![p] = SubSeq(@, n + 1, Len(@))]
  BY DEF Read, ProcessAck
<1>3. frame \in Frame /\ frame = wire[socket[p]][p][1] /\ 1 \in 1..Len(wire[socket[p]][p])
  BY <1>1
<1>4. frame.type = "Regular" =>
        frame.id \in 1..outgoingMsgId[o] /\ (frame.id = 1 \/ frame.id - 1 \in Seen(p))
  BY <1>1, <1>3 DEF IInv, WireSound, SoundWire, Follows
<1>5. n \in 0..Len(outgoingUnackMsg[p])
  <2>1. Shape /\ BufferIsSuffix(p) /\ frame.ack \in Nat
    BY <1>3 DEF IInv, PeerInv, Frame
  <2> HIDE DEF frame
  <2> QED
    BY <2>1, AcknowledgedFrees
<1> HIDE DEF n
<1>6. /\ Len(outgoingUnackMsg'[p]) = Len(outgoingUnackMsg[p]) - n
      /\ outgoingUnackMsg'[o] = outgoingUnackMsg[o]
  <2>1. outgoingUnackMsg'[p] = SubSeq(outgoingUnackMsg[p], n + 1, Len(outgoingUnackMsg[p]))
    BY <1>1, <1>2
  <2>2. Len(outgoingUnackMsg'[p]) = Len(outgoingUnackMsg[p]) - n
    BY <1>1, <1>5, <2>1, DropFront
  <2> QED
    BY <1>0, <1>1, <1>2, <2>2
<1>7. /\ freed[p] \in Nat /\ freed'[p] \in Nat /\ freed[p] <= freed'[p]
      /\ freed'[o] = freed[o] /\ freed'[o] \in Nat
      /\ \A i \in 1..freed'[p] : i \in Seen(o)'
  <2>1. /\ outgoingMsgId[p] - Len(outgoingUnackMsg[p]) \in Nat
        /\ outgoingMsgId'[p] - Len(outgoingUnackMsg'[p]) \in Nat
        /\ outgoingMsgId'[o] - Len(outgoingUnackMsg'[o]) \in Nat
        /\ \A i \in 1..(outgoingMsgId'[p] - Len(outgoingUnackMsg'[p])) : i \in Seen(o)'
    BY <1>0, Freed, FreedLater
  <2>2. outgoingMsgId[p] \in Nat /\ Len(outgoingUnackMsg[p]) \in Nat /\ n \in Nat
    BY <1>1, <1>5
  <2>3. outgoingMsgId'[p] - Len(outgoingUnackMsg'[p])
          = outgoingMsgId[p] - Len(outgoingUnackMsg[p]) + n
    BY <1>1, <1>6, <2>2
  <2>4. freed[p] = outgoingMsgId[p] - Len(outgoingUnackMsg[p])
        /\ freed'[p] = outgoingMsgId'[p] - Len(outgoingUnackMsg'[p])
        /\ freed[o] = outgoingMsgId[o] - Len(outgoingUnackMsg[o])
        /\ freed'[o] = outgoingMsgId'[o] - Len(outgoingUnackMsg'[o])
    BY <1>0
  <2>5. freed'[o] = freed[o] /\ freed'[o] \in Nat
    BY <1>1, <1>6, <2>1, <2>4
  <2>6. freed[p] \in Nat /\ freed'[p] \in Nat /\ freed'[p] = freed[p] + n
    BY <2>1, <2>3, <2>4
  <2>7. \A i \in 1..freed'[p] : i \in Seen(o)'
    BY <2>1, <2>4
  <2> HIDE DEF freed
  <2> QED
    BY <2>2, <2>5, <2>6, <2>7
<1>8. Seen(o)' = Seen(o) /\ Link!Other(p) = o /\ Link!Seen(p) = Seen(p) /\ Link!Seen(o) = Seen(o)
  <2>1. fired'[o] = fired[o]
    BY <1>0 DEF Read, IInv, Shape
  <2> QED
    BY <1>0, <2>1, LinkTerms DEF Seen
<1>9. Link!Forget(p)
  <2>1. freed' = [q \in Peers |-> freed'[q]]
    OBVIOUS
  <2> HIDE DEF freed
  <2>2. freed' \in [Peers -> Nat]
    BY <1>0, <1>7, <2>1
  <2>3. \A q \in Peers \ {p} : freed'[q] = freed[q]
    BY <1>0, <1>7
  <2>4. \A i \in 1..freed'[p] : i \in Link!Seen(Link!Other(p))
    BY <1>7, <1>8
  <2> QED
    BY <1>7, <2>2, <2>3, <2>4 DEF Link!Forget, freed
<1>10. CASE frame.type = "Regular"
  <2>1. fired' = [fired EXCEPT ![p] = Append(@, frame.id)]
    BY <1>10 DEF Read
  <2>2. Link!Hand(p)
    <3> HIDE DEF frame
    <3> QED
      BY <1>1, <1>4, <1>8, <1>10, <2>1 DEF Link!Hand
  <2> QED
    BY <1>9, <2>2 DEF Link!Next
<1>11. CASE frame.type # "Regular"
  <2>1. fired' = fired
    BY <1>11 DEF Read
  <2> QED
    BY <1>1, <1>9, <2>1 DEF Link!Next
<1> QED
  BY <1>10, <1>11

\* Every step of the two instances is a step of the abstract link.
LEMMA StepImplements == IInv /\ IInv' /\ [Next]_vars => [Link!Next]_(Link!linkVars)
<1> SUFFICES ASSUME IInv, IInv', [Next]_vars PROVE [Link!Next]_(Link!linkVars)
  OBVIOUS
<1>1. ASSUME UNCHANGED <<outgoingMsgId, outgoingUnackMsg, fired>>
      PROVE  UNCHANGED Link!linkVars
  BY <1>1 DEF Link!linkVars
<1>2. CASE UNCHANGED vars
  BY <1>1, <1>2 DEF vars, bufferVars
<1>3. CASE \E p \in Peers, n \in Sizes : Send(p, n)
  BY <1>3, SendImplements
<1>4. CASE \E p \in Peers : KeepAlive(p) \/ GraceExpires(p)
  BY <1>1, <1>4 DEF KeepAlive, GraceExpires, bufferVars
<1>5. CASE \E p \in Peers : Read(p)
  BY <1>5, ReadImplements
<1>6. CASE \E p \in Peers, s \in Sockets : ReplaceSocket(p, s)
  BY <1>1, <1>6 DEF ReplaceSocket, bufferVars
<1>7. CASE \E s \in Sockets : Break(s)
  BY <1>1, <1>7 DEF Break, bufferVars
<1> QED
  BY <1>2, <1>3, <1>4, <1>5, <1>6, <1>7 DEF Next

\* Two PersistentProtocol instances implement the abstract link.
THEOREM Implementation == Spec => ImplementsLink
<1>1. Init => Link!Init
  <2> SUFFICES ASSUME Init PROVE Link!Init
    OBVIOUS
  <2>1. /\ outgoingMsgId = [p \in Peers |-> 0]
        /\ fired = [p \in Peers |-> <<>>]
    BY DEF Init
  <2>2. \A p \in Peers : outgoingMsgId[p] = 0 /\ Len(outgoingUnackMsg[p]) = 0
    <3>1. ASSUME NEW p \in Peers
          PROVE  outgoingMsgId[p] = 0 /\ Len(outgoingUnackMsg[p]) = 0
      <4>1. outgoingUnackMsg[p] = <<>> /\ outgoingMsgId[p] = 0
        BY Zenon DEF Init
      <4> QED
        BY <4>1
    <3> QED
      BY <3>1, Zenon
  <2>3. [p \in Peers |-> outgoingMsgId[p] - Len(outgoingUnackMsg[p])] = [p \in Peers |-> 0]
    BY <2>2
  <2> QED
    BY <2>1, <2>3, Zenon DEF Link!Init
<1>2. IInv /\ IInv' /\ [Next]_vars => [Link!Next]_(Link!linkVars)
  BY StepImplements
<1> QED
  BY <1>1, <1>2, LinkInvariant, PTL DEF Spec, ImplementsLink, Link!Spec
-----------------------------------------------------------------------------
(* The byte counter.  What a sum over a sequence is, for every sequence, is  *)
(* proved by induction on its length: a set of numbers without a least one   *)
(* is empty.                                                                 *)

LEMMA LessIsWellFounded == IsWellFoundedOn({x \in Nat \X Nat : x[1] < x[2]}, Nat)
<1>1. OpToRel(<, Nat) = {x \in Nat \X Nat : x[1] < x[2]}
  BY DEF OpToRel
<1> QED
  BY <1>1, NatLessThanWellFounded

LEMMA LeastNumber ==
    ASSUME NEW T \in SUBSET Nat, T # {}
    PROVE  \E m \in T : \A k \in T : m <= k
<1> DEFINE R == {x \in Nat \X Nat : x[1] < x[2]}
<1>1. IsWellFoundedOn(R, Nat)
  BY LessIsWellFounded
<1> HIDE DEF R
<1>2. PICK m \in T : \A k \in T : <<k, m>> \notin R
  BY <1>1, WFMin
<1>3. ASSUME NEW k \in T PROVE m <= k
  <2>1. k \in Nat /\ m \in Nat
    OBVIOUS
  <2>2. <<k, m>> \notin R
    BY <1>2
  <2>3. ~ (k < m)
    BY <2>1, <2>2 DEF R
  <2> QED
    BY <2>1, <2>3
<1> QED
  BY <1>3

LEMMA AllNumbers ==
    ASSUME NEW T \in SUBSET Nat, 0 \in T, \A n \in T : n + 1 \in T
    PROVE  T = Nat
<1> DEFINE U == Nat \ T
<1> SUFFICES ASSUME U # {} PROVE FALSE
  OBVIOUS
<1>1. PICK m \in U : \A k \in U : m <= k
  BY LeastNumber
<1>2. m \in Nat /\ m # 0
  OBVIOUS
<1>3. m - 1 \in Nat /\ m = (m - 1) + 1
  BY <1>2
<1>4. m - 1 \in T
  BY <1>1, <1>3
<1> QED
  BY <1>3, <1>4

\* f[i] is the size of the first i entries of e.
SumsTo(e, n, f) == f[0] = 0 /\ \A i \in 1..n : f[i] = f[i-1] + e[i].size

LEMMA SumsExist ==
    ASSUME NEW e \in Seq(Entry)
    PROVE  \E f \in [0..Len(e) -> Nat] : SumsTo(e, Len(e), f)
<1> DEFINE T == {n \in Nat : n <= Len(e) => \E f \in [0..n -> Nat] : SumsTo(e, n, f)}
<1>1. 0 \in T
  <2>1. [i \in 0..0 |-> 0] \in [0..0 -> Nat] /\ SumsTo(e, 0, [i \in 0..0 |-> 0])
    BY DEF SumsTo
  <2> QED
    BY <2>1
<1>2. ASSUME NEW n \in T PROVE n + 1 \in T
  <2> SUFFICES ASSUME n + 1 <= Len(e)
               PROVE  \E f \in [0..(n+1) -> Nat] : SumsTo(e, n + 1, f)
    OBVIOUS
  <2>1. n \in Nat /\ Len(e) \in Nat /\ n <= Len(e)
    OBVIOUS
  <2>2. PICK f \in [0..n -> Nat] : SumsTo(e, n, f)
    BY <2>1
  <2>3. e[n + 1] \in Entry
    BY <2>1
  <2>4. e[n + 1].size \in Nat
    BY <2>3, SizesAssumption DEF Entry
  <2> DEFINE g == [i \in 0..(n+1) |-> IF i = n + 1 THEN f[n] + e[n+1].size ELSE f[i]]
  <2>5. g \in [0..(n+1) -> Nat]
    <3>1. \A i \in 0..(n+1) : i = n + 1 \/ i \in 0..n
      BY <2>1
    <3>2. f[n] \in Nat
      BY <2>1
    <3> QED
      BY <2>4, <3>1, <3>2
  <2>6. SumsTo(e, n + 1, g)
    <3>1. g[0] = 0
      BY <2>1, <2>2 DEF SumsTo
    <3>2. ASSUME NEW i \in 1..(n+1) PROVE g[i] = g[i-1] + e[i].size
      <4>1. i - 1 \in 0..n /\ g[i-1] = f[i-1]
        BY <2>1
      <4>2. CASE i = n + 1
        BY <2>1, <4>1, <4>2
      <4>3. CASE i # n + 1
        <5>1. i \in 1..n /\ g[i] = f[i]
          BY <2>1, <4>3
        <5> QED
          BY <2>2, <4>1, <5>1 DEF SumsTo
      <4> QED
        BY <4>2, <4>3
    <3> QED
      BY <3>1, <3>2 DEF SumsTo
  <2> QED
    BY <2>5, <2>6
<1> HIDE DEF T
<1>3. T = Nat
  <2>1. T \in SUBSET Nat
    BY DEF T
  <2> QED
    BY <1>1, <1>2, <2>1, AllNumbers
<1> QED
  BY <1>3 DEF T

\* The first n entries of d are those of e after its first a, and so are the sums.
PartOf(d, n, e, a) == \A i \in 1..n : d[i] = e[a + i]

Tracks(g, n, f, a) == \A i \in 0..n : g[i] \in Nat /\ f[a + i] = f[a] + g[i]

LEMMA SumsAlike ==
    ASSUME NEW e \in Seq(Entry), NEW d, NEW a \in Nat, NEW n \in Nat, a + n <= Len(e),
           PartOf(d, n, e, a),
           NEW f \in [0..Len(e) -> Nat], SumsTo(e, Len(e), f),
           NEW g, SumsTo(d, n, g)
    PROVE  Tracks(g, n, f, a)
<1> DEFINE T == {i \in Nat : i <= n => g[i] \in Nat /\ f[a + i] = f[a] + g[i]}
<1>1. 0 \in T
  <2>1. a \in 0..Len(e) /\ a + 0 = a
    OBVIOUS
  <2>2. f[a] \in Nat /\ g[0] = 0
    BY <2>1 DEF SumsTo
  <2>3. f[a + 0] = f[a] + g[0]
    BY <2>1, <2>2
  <2> QED
    BY <2>2, <2>3
<1>2. ASSUME NEW i \in T PROVE i + 1 \in T
  <2> SUFFICES ASSUME i + 1 <= n
               PROVE  g[i+1] \in Nat /\ f[a + (i + 1)] = f[a] + g[i+1]
    OBVIOUS
  <2>1. i \in Nat /\ i <= n /\ i + 1 \in 1..n /\ Len(e) \in Nat
    OBVIOUS
  <2>2. g[i] \in Nat /\ f[a + i] = f[a] + g[i]
    BY <2>1
  <2>3. a + (i + 1) \in 1..Len(e) /\ (a + (i + 1)) - 1 = a + i /\ (i + 1) - 1 = i
        /\ a \in 0..Len(e)
    BY <2>1
  <2>4. e[a + (i + 1)] \in Entry
    BY <2>3
  <2>5. e[a + (i + 1)].size \in Nat
    BY <2>4, SizesAssumption DEF Entry
  <2>6. f[a + (i + 1)] = f[a + i] + e[a + (i + 1)].size
    BY <2>3 DEF SumsTo
  <2>7. g[i+1] = g[i] + d[i+1].size
    BY <2>1, <2>3 DEF SumsTo
  <2>8. d[i+1].size = e[a + (i + 1)].size
    BY <2>1 DEF PartOf
  <2>9. f[a] \in Nat
    BY <2>3
  <2>10. g[i+1] = g[i] + e[a + (i + 1)].size
    BY <2>7, <2>8
  <2>11. f[a + (i + 1)] = f[a] + g[i] + e[a + (i + 1)].size
    BY <2>2, <2>6
  <2> DEFINE z == e[a + (i + 1)].size
             u == f[a + (i + 1)]
             v == g[i + 1]
             w == g[i]
             y == f[a]
  <2>12. z \in Nat /\ w \in Nat /\ y \in Nat /\ v = w + z /\ u = y + w + z
    BY <2>2, <2>5, <2>9, <2>10, <2>11
  <2> HIDE DEF z, u, v, w, y
  <2>13. v \in Nat /\ u = y + v
    BY <2>12
  <2> QED
    BY <2>13 DEF u, v, y
<1> HIDE DEF T
<1>3. T = Nat
  <2>1. T \in SUBSET Nat
    BY DEF T
  <2> QED
    BY <1>1, <1>2, <2>1, AllNumbers
<1> SUFFICES ASSUME NEW i \in 0..n
             PROVE  g[i] \in Nat /\ f[a + i] = f[a] + g[i]
  BY DEF Tracks
<1>4. i \in T /\ i <= n
  BY <1>3
<1> QED
  BY <1>4 DEF T

\* SizeOf is what its recursive definition says.
LEMMA SizeIsSum ==
    ASSUME NEW e \in Seq(Entry), NEW f \in [0..Len(e) -> Nat], SumsTo(e, Len(e), f)
    PROVE  SizeOf(e) = f[Len(e)]
<1> DEFINE Defines(g) == g = [i \in 0..Len(e) |-> IF i = 0 THEN 0 ELSE g[i-1] + e[i].size]
           sum == CHOOSE g : Defines(g)
<1>1. SizeOf(e) = sum[Len(e)]
  BY DEF SizeOf
<1>2. Len(e) \in Nat
  OBVIOUS
<1>3. Defines(f)
  <2>1. \A i \in 0..Len(e) : i # 0 => i \in 1..Len(e)
    BY <1>2
  <2>2. \A i \in 0..Len(e) : f[i] = IF i = 0 THEN 0 ELSE f[i-1] + e[i].size
    BY <2>1 DEF SumsTo
  <2> QED
    BY <2>2
<1>4. Defines(sum)
  BY <1>3
<1> HIDE DEF sum
<1>5. SumsTo(e, Len(e), sum)
  <2>1. sum[0] = 0
    BY <1>2, <1>4
  <2>2. \A i \in 1..Len(e) : i \in 0..Len(e) /\ i # 0
    BY <1>2
  <2>3. \A i \in 1..Len(e) : sum[i] = sum[i-1] + e[i].size
    BY <1>4, <2>2
  <2> QED
    BY <2>1, <2>3 DEF SumsTo
<1>6. PartOf(e, Len(e), e, 0)
  BY <1>2 DEF PartOf
<1>7. sum[Len(e)] \in Nat /\ f[0 + Len(e)] = f[0] + sum[Len(e)]
  <2>1. 0 \in Nat /\ 0 + Len(e) <= Len(e)
    BY <1>2
  <2>2. Tracks(sum, Len(e), f, 0)
    BY <1>2, <1>5, <1>6, <2>1, SumsAlike
  <2> QED
    BY <1>2, <2>2 DEF Tracks
<1>8. f[0] = 0
  BY DEF SumsTo
<1> QED
  BY <1>1, <1>2, <1>7, <1>8

LEMMA SizeOfPart ==
    ASSUME NEW e \in Seq(Entry), NEW d \in Seq(Entry), NEW a \in Nat, a + Len(d) <= Len(e),
           PartOf(d, Len(d), e, a),
           NEW f \in [0..Len(e) -> Nat], SumsTo(e, Len(e), f)
    PROVE  f[a + Len(d)] = f[a] + SizeOf(d) /\ SizeOf(d) \in Nat
<1>1. PICK g \in [0..Len(d) -> Nat] : SumsTo(d, Len(d), g)
  BY SumsExist
<1>2. SizeOf(d) = g[Len(d)] /\ Len(d) \in Nat
  BY <1>1, SizeIsSum
<1>3. Tracks(g, Len(d), f, a)
  BY <1>1, <1>2, SumsAlike
<1> QED
  BY <1>2, <1>3 DEF Tracks

\* Sizes add up over the two parts of a buffer, and by an entry at a time.
LEMMA SizeSplits ==
    ASSUME NEW e \in Seq(Entry), NEW n \in 0..Len(e)
    PROVE  /\ SizeOf(SubSeq(e, 1, n)) \in Nat /\ SizeOf(SubSeq(e, n + 1, Len(e))) \in Nat
           /\ SizeOf(e) = SizeOf(SubSeq(e, 1, n)) + SizeOf(SubSeq(e, n + 1, Len(e)))
<1>1. PICK f \in [0..Len(e) -> Nat] : SumsTo(e, Len(e), f)
  BY SumsExist
<1>2. SizeOf(e) = f[Len(e)] /\ f[0] = 0 /\ Len(e) \in Nat
  BY <1>1, SizeIsSum DEF SumsTo
<1> DEFINE front == SubSeq(e, 1, n)
           rest == SubSeq(e, n + 1, Len(e))
<1>3. /\ front \in Seq(Entry) /\ Len(front) = n
      /\ PartOf(front, Len(front), e, 0)
  BY DEF PartOf
<1>4. /\ rest \in Seq(Entry) /\ Len(rest) = Len(e) - n
      /\ PartOf(rest, Len(rest), e, n)
  BY DEF PartOf
<1> HIDE DEF front, rest
<1>5. f[0 + n] = f[0] + SizeOf(front) /\ SizeOf(front) \in Nat
  BY <1>1, <1>2, <1>3, SizeOfPart
<1>6. f[n + (Len(e) - n)] = f[n] + SizeOf(rest) /\ SizeOf(rest) \in Nat
  <2>1. n \in Nat /\ n + Len(rest) <= Len(e)
    BY <1>2, <1>4
  <2>2. f[n + Len(rest)] = f[n] + SizeOf(rest) /\ SizeOf(rest) \in Nat
    BY <1>1, <1>4, <2>1, SizeOfPart
  <2> QED
    BY <1>4, <2>2
<1>7. f[Len(e)] = SizeOf(front) + SizeOf(rest)
  <2>1. 0 + n = n /\ n + (Len(e) - n) = Len(e)
    BY <1>2
  <2> QED
    BY <1>2, <1>5, <1>6, <2>1
<1> QED
  BY <1>2, <1>5, <1>6, <1>7 DEF front, rest

LEMMA SizeOfOne ==
    ASSUME NEW e \in Seq(Entry), Len(e) = 1
    PROVE  SizeOf(e) = e[1].size
<1>1. PICK f \in [0..Len(e) -> Nat] : SumsTo(e, Len(e), f)
  BY SumsExist
<1>2. SizeOf(e) = f[1] /\ f[0] = 0 /\ f[1] = f[0] + e[1].size
  <2>1. SizeOf(e) = f[Len(e)]
    BY <1>1, SizeIsSum
  <2>2. 1 \in 1..Len(e) /\ 1 - 1 = 0
    OBVIOUS
  <2> QED
    BY <1>1, <2>1, <2>2 DEF SumsTo
<1>3. e[1] \in Entry
  OBVIOUS
<1>4. e[1].size \in Nat
  BY <1>3, SizesAssumption DEF Entry
<1> QED
  BY <1>2, <1>4

LEMMA SizeOfNone == SizeOf(<<>>) = 0
<1> DEFINE e == <<>>
<1>1. e \in Seq(Entry) /\ Len(e) = 0
  OBVIOUS
<1> HIDE DEF e
<1>2. PICK f \in [0..Len(e) -> Nat] : SumsTo(e, Len(e), f)
  BY <1>1, SumsExist
<1>3. SizeOf(e) = f[Len(e)]
  BY <1>1, <1>2, SizeIsSum
<1>4. SizeOf(e) = 0
  BY <1>1, <1>2, <1>3 DEF SumsTo
<1> QED
  BY <1>4 DEF e

LEMMA SizeAppended ==
    ASSUME NEW e \in Seq(Entry), NEW x \in Entry
    PROVE  SizeOf(Append(e, x)) = SizeOf(e) + x.size /\ SizeOf(e) \in Nat
<1> DEFINE d == Append(e, x)
           n == Len(e)
<1>1. /\ d \in Seq(Entry) /\ n \in 0..Len(d) /\ Len(d) = n + 1
      /\ SubSeq(d, 1, n) = e /\ SubSeq(d, n + 1, Len(d)) \in Seq(Entry)
      /\ Len(SubSeq(d, n + 1, Len(d))) = 1 /\ SubSeq(d, n + 1, Len(d))[1] = x
  <2>1. d \in Seq(Entry) /\ Len(d) = n + 1 /\ n \in Nat
    OBVIOUS
  <2>2. SubSeq(d, 1, n) = e
    OBVIOUS
  <2>3. d[n + 1] = x
    OBVIOUS
  <2> HIDE DEF d, n
  <2>4. /\ SubSeq(d, n + 1, Len(d)) \in Seq(Entry)
        /\ Len(SubSeq(d, n + 1, Len(d))) = 1 /\ SubSeq(d, n + 1, Len(d))[1] = x
    BY <2>1, <2>3
  <2> QED
    BY <2>1, <2>2, <2>4
<1> HIDE DEF d, n
<1>2. /\ SizeOf(SubSeq(d, 1, n)) \in Nat
      /\ SizeOf(d) = SizeOf(SubSeq(d, 1, n)) + SizeOf(SubSeq(d, n + 1, Len(d)))
  BY <1>1, SizeSplits
<1>3. SizeOf(SubSeq(d, n + 1, Len(d))) = x.size
  BY <1>1, SizeOfOne
<1> QED
  BY <1>1, <1>2, <1>3 DEF d

-----------------------------------------------------------------------------
(* The congestion signal.                                                   *)

\* What the byte counter b, the buffer e and the flags of one side have to do
\* with each other.
Tracked(b, e, sat, over) ==
    /\ b = SizeOf(e)
    /\ sat => b > LowWater
    /\ ~over /\ ~sat => b <= HighWater
    /\ ~over => b <= MaxBytes

BytesTyped ==
    /\ unackBytes \in [Peers -> Nat]
    /\ saturated \in [Peers -> BOOLEAN]
    /\ overflowed \in [Peers -> BOOLEAN]
    /\ closed \in [Peers -> BOOLEAN]

BInv ==
    /\ IInv
    /\ BytesTyped
    /\ SaturationTracksBuffer

LEMMA SendTracked ==
    ASSUME NEW b \in Nat, NEW n \in Nat, NEW e \in Seq(Entry), NEW x \in Entry, x.size = n,
           NEW sat \in BOOLEAN, NEW over \in BOOLEAN, Tracked(b, e, sat, over)
    PROVE  /\ b + n \in Nat
           /\ Tracked(b + n, Append(e, x), sat \/ (b + n <= MaxBytes /\ b + n > HighWater),
                      over \/ (b + n > MaxBytes /\ ~over))
<1>1. SizeOf(Append(e, x)) = SizeOf(e) + n
  BY SizeAppended
<1>2. /\ b = SizeOf(e)
      /\ sat => b > LowWater
      /\ ~over /\ ~sat => b <= HighWater
      /\ ~over => b <= MaxBytes
  BY DEF Tracked
<1>3. b + n = SizeOf(Append(e, x))
  BY <1>1, <1>2
<1> DEFINE sat2 == sat \/ (b + n <= MaxBytes /\ b + n > HighWater)
           over2 == over \/ (b + n > MaxBytes /\ ~over)
<1>4. /\ sat2 => b + n > LowWater
      /\ ~over2 /\ ~sat2 => b + n <= HighWater
      /\ ~over2 => b + n <= MaxBytes
  BY <1>2, MarksAssumption
<1> HIDE DEF sat2, over2
<1>5. Tracked(b + n, Append(e, x), sat2, over2)
  BY <1>3, <1>4 DEF Tracked
<1> QED
  BY <1>5 DEF sat2, over2

LEMMA AckTracked ==
    ASSUME NEW b \in Nat, NEW e \in Seq(Entry), NEW n \in 0..Len(e),
           NEW sat \in BOOLEAN, NEW over \in BOOLEAN, Tracked(b, e, sat, over)
    PROVE  /\ b - SizeOf(SubSeq(e, 1, n)) \in Nat
           /\ Tracked(b - SizeOf(SubSeq(e, 1, n)), SubSeq(e, n + 1, Len(e)),
                      sat /\ b - SizeOf(SubSeq(e, 1, n)) > LowWater, over)
<1> DEFINE front == SizeOf(SubSeq(e, 1, n))
           rest == SizeOf(SubSeq(e, n + 1, Len(e)))
<1>1. front \in Nat /\ rest \in Nat /\ SizeOf(e) = front + rest
  BY SizeSplits
<1>2. /\ b = SizeOf(e)
      /\ sat => b > LowWater
      /\ ~over /\ ~sat => b <= HighWater
      /\ ~over => b <= MaxBytes
  BY DEF Tracked
<1> DEFINE c == b - front
           sat2 == sat /\ c > LowWater
<1> HIDE DEF front
<1>3. c = rest
  BY <1>1, <1>2
<1>4. c \in Nat /\ c <= b
  <2> HIDE DEF rest
  <2> QED
    BY <1>1, <1>2
<1>5. /\ sat2 => c > LowWater
      /\ ~over /\ ~sat2 => c <= HighWater
      /\ ~over => c <= MaxBytes
  <2> HIDE DEF c
  <2> QED
    BY <1>2, <1>4, MarksAssumption
<1> HIDE DEF sat2, c
<1>6. Tracked(c, SubSeq(e, n + 1, Len(e)), sat2, over)
  BY <1>3, <1>5 DEF Tracked
<1> QED
  BY <1>4, <1>6 DEF c, sat2, front

LEMMA EachTracked ==
    SaturationTracksBuffer <=>
      \A p \in Peers : Tracked(unackBytes[p], outgoingUnackMsg[p], saturated[p], overflowed[p])
BY DEF SaturationTracksBuffer, Tracked

LEMMA InitBInv == Init => BInv
<1> SUFFICES ASSUME Init PROVE BInv
  OBVIOUS
<1>1. IInv
  BY InitIInv
<1>2. BytesTyped
  <2>1. 0 \in Nat
    OBVIOUS
  <2> QED
    BY <2>1 DEF Init, BytesTyped
<1>3. ASSUME NEW p \in Peers
      PROVE  Tracked(unackBytes[p], outgoingUnackMsg[p], saturated[p], overflowed[p])
  <2>1. unackBytes[p] = 0 /\ outgoingUnackMsg[p] = <<>> /\ saturated[p] = FALSE
    BY <1>2, Zenon DEF Init
  <2>2. 0 <= HighWater /\ 0 <= MaxBytes
    BY MarksAssumption
  <2>3. 0 = SizeOf(<<>>)
    BY SizeOfNone
  <2> QED
    BY <2>1, <2>2, <2>3 DEF Tracked
<1> QED
  BY <1>1, <1>2, <1>3, EachTracked DEF BInv

LEMMA SendBInv ==
    ASSUME BInv, NEW p \in Peers, NEW n \in Sizes, Send(p, n)
    PROVE  BytesTyped' /\ SaturationTracksBuffer'
<1> DEFINE x == [id |-> outgoingMsgId[p] + 1, ack |-> incomingAckId[p], size |-> n]
           b == unackBytes[p] + n
           abandons == b > MaxBytes /\ ~overflowed[p]
           sat == saturated[p] \/ (b <= MaxBytes /\ b > HighWater)
           over == overflowed[p] \/ abandons
<1>1. /\ outgoingUnackMsg' = [outgoingUnackMsg EXCEPT ![p] = Append(@, x)]
      /\ unackBytes' = [unackBytes EXCEPT ![p] = b]
      /\ overflowed' = [overflowed EXCEPT ![p] = over]
      /\ closed' = [closed EXCEPT ![p] = @ \/ abandons]
      /\ saturated' = [saturated EXCEPT ![p] = sat]
  BY DEF Send
<1>2. /\ outgoingMsgId[p] \in Nat /\ incomingAckId[p] \in Nat
      /\ outgoingUnackMsg \in [Peers -> Seq(Entry)] /\ outgoingUnackMsg[p] \in Seq(Entry)
  BY DEF BInv, IInv, Shape
<1>3. /\ unackBytes \in [Peers -> Nat] /\ saturated \in [Peers -> BOOLEAN]
      /\ overflowed \in [Peers -> BOOLEAN] /\ closed \in [Peers -> BOOLEAN]
      /\ unackBytes[p] \in Nat /\ saturated[p] \in BOOLEAN /\ overflowed[p] \in BOOLEAN
  BY DEF BInv, BytesTyped
<1>4. x \in Entry /\ x.size = n /\ n \in Nat
  BY <1>2, SizesAssumption DEF Entry
<1>5. \A q \in Peers : Tracked(unackBytes[q], outgoingUnackMsg[q], saturated[q], overflowed[q])
  BY EachTracked DEF BInv
<1> HIDE DEF x
<1>6. b \in Nat /\ Tracked(b, Append(outgoingUnackMsg[p], x), sat, over)
  BY <1>2, <1>3, <1>4, <1>5, SendTracked
<1>7. sat \in BOOLEAN /\ over \in BOOLEAN /\ (closed[p] \/ abandons) \in BOOLEAN
  OBVIOUS
<1> HIDE DEF b, sat, over, abandons
<1>8. BytesTyped'
  BY <1>1, <1>3, <1>6, <1>7 DEF BytesTyped
<1>9. ASSUME NEW q \in Peers
      PROVE  Tracked(unackBytes[q], outgoingUnackMsg[q], saturated[q], overflowed[q])'
  <2>1. CASE q = p
    <3>1. /\ unackBytes'[p] = b /\ outgoingUnackMsg'[p] = Append(outgoingUnackMsg[p], x)
          /\ saturated'[p] = sat /\ overflowed'[p] = over
      BY <1>1, <1>2, <1>3
    <3> QED
      BY <1>6, <2>1, <3>1 DEF Tracked
  <2>2. CASE q # p
    <3>1. /\ unackBytes'[q] = unackBytes[q] /\ outgoingUnackMsg'[q] = outgoingUnackMsg[q]
          /\ saturated'[q] = saturated[q] /\ overflowed'[q] = overflowed[q]
      BY <1>1, <1>2, <1>3, <2>2
    <3> QED
      BY <1>5, <3>1 DEF Tracked
  <2> QED
    BY <2>1, <2>2
<1>10. SaturationTracksBuffer'
  BY <1>9 DEF SaturationTracksBuffer, Tracked
<1> QED
  BY <1>8, <1>10

LEMMA ReadBInv ==
    ASSUME BInv, NEW p \in Peers, Read(p)
    PROVE  BytesTyped' /\ SaturationTracksBuffer'
<1> DEFINE frame == Head(wire[socket[p]][p])
           n == Acknowledged(p, frame.ack)
           buf == outgoingUnackMsg[p]
           b == unackBytes[p] - SizeOf(SubSeq(buf, 1, n))
           sat == saturated[p] /\ b > LowWater
           shut == closed[p] \/ frame.type = "Disconnect"
<1>1. /\ outgoingUnackMsg' = [outgoingUnackMsg EXCEPT ![p] = SubSeq(buf, n + 1, Len(buf))]
      /\ unackBytes' = [unackBytes EXCEPT ![p] = b]
      /\ saturated' = [saturated EXCEPT ![p] = sat]
      /\ closed' = [closed EXCEPT ![p] = shut]
      /\ overflowed' = overflowed
  BY DEF Read, ProcessAck
<1>2. /\ outgoingUnackMsg \in [Peers -> Seq(Entry)] /\ buf \in Seq(Entry)
      /\ wire[socket[p]][p] \in Seq(Frame) /\ wire[socket[p]][p] # <<>>
  BY DEF BInv, IInv, Shape, Read
<1>3. /\ unackBytes \in [Peers -> Nat] /\ saturated \in [Peers -> BOOLEAN]
      /\ overflowed \in [Peers -> BOOLEAN] /\ closed \in [Peers -> BOOLEAN]
      /\ unackBytes[p] \in Nat /\ saturated[p] \in BOOLEAN /\ overflowed[p] \in BOOLEAN
  BY DEF BInv, BytesTyped
<1>4. n \in 0..Len(buf)
  <2>1. frame \in Frame
    BY <1>2
  <2>2. Shape /\ BufferIsSuffix(p) /\ frame.ack \in Nat
    BY <2>1 DEF BInv, IInv, PeerInv, Frame
  <2> HIDE DEF frame
  <2> QED
    BY <2>2, AcknowledgedFrees
<1>5. \A q \in Peers : Tracked(unackBytes[q], outgoingUnackMsg[q], saturated[q], overflowed[q])
  BY EachTracked DEF BInv
<1> HIDE DEF n
<1>6. b \in Nat /\ Tracked(b, SubSeq(buf, n + 1, Len(buf)), sat, overflowed[p])
  BY <1>2, <1>3, <1>4, <1>5, AckTracked
<1>7. sat \in BOOLEAN /\ shut \in BOOLEAN
  OBVIOUS
<1> HIDE DEF b, sat, shut
<1>8. BytesTyped'
  BY <1>1, <1>3, <1>6, <1>7 DEF BytesTyped
<1>9. ASSUME NEW q \in Peers
      PROVE  Tracked(unackBytes[q], outgoingUnackMsg[q], saturated[q], overflowed[q])'
  <2>1. CASE q = p
    <3>1. /\ unackBytes'[p] = b /\ outgoingUnackMsg'[p] = SubSeq(buf, n + 1, Len(buf))
          /\ saturated'[p] = sat /\ overflowed'[p] = overflowed[p]
      BY <1>1, <1>2, <1>3
    <3> QED
      BY <1>6, <2>1, <3>1 DEF Tracked
  <2>2. CASE q # p
    <3>1. /\ unackBytes'[q] = unackBytes[q] /\ outgoingUnackMsg'[q] = outgoingUnackMsg[q]
          /\ saturated'[q] = saturated[q] /\ overflowed'[q] = overflowed[q]
      BY <1>1, <1>2, <1>3, <2>2
    <3> QED
      BY <1>5, <3>1 DEF Tracked
  <2> QED
    BY <2>1, <2>2
<1>10. SaturationTracksBuffer'
  BY <1>9 DEF SaturationTracksBuffer, Tracked
<1> QED
  BY <1>8, <1>10

LEMMA NextBInv == BInv /\ [Next]_vars => BInv'
<1> SUFFICES ASSUME BInv, [Next]_vars PROVE BytesTyped' /\ SaturationTracksBuffer'
  BY NextIInv DEF BInv
<1>1. ASSUME UNCHANGED <<unackBytes, saturated, overflowed, closed, outgoingUnackMsg>>
      PROVE  BytesTyped' /\ SaturationTracksBuffer'
  BY <1>1 DEF BInv, BytesTyped, SaturationTracksBuffer
<1>2. CASE UNCHANGED vars
  BY <1>1, <1>2 DEF vars, bufferVars, flagVars
<1>3. ASSUME NEW p \in Peers, GraceExpires(p)
      PROVE  BytesTyped' /\ SaturationTracksBuffer'
  <2>1. /\ overflowed' = [overflowed EXCEPT ![p] = TRUE]
        /\ closed' = [closed EXCEPT ![p] = TRUE]
        /\ UNCHANGED <<unackBytes, saturated, outgoingUnackMsg>>
    BY <1>3 DEF GraceExpires, bufferVars
  <2>2. BytesTyped'
    BY <2>1 DEF BInv, BytesTyped
  <2>3. \A q \in Peers : overflowed[q] => overflowed'[q]
    BY <2>1 DEF BInv, BytesTyped
  <2>4. SaturationTracksBuffer'
    BY <2>1, <2>3 DEF BInv, SaturationTracksBuffer
  <2> QED
    BY <2>2, <2>4
<1>4. CASE \E p \in Peers : KeepAlive(p) \/ \E s \in Sockets : ReplaceSocket(p, s)
  BY <1>1, <1>4 DEF KeepAlive, ReplaceSocket, bufferVars, flagVars
<1>5. CASE \E s \in Sockets : Break(s)
  BY <1>1, <1>5 DEF Break, bufferVars, flagVars
<1> QED
  BY <1>2, <1>3, <1>4, <1>5, SendBInv, ReadBInv DEF Next

\* The congestion signal and the byte counter agree with the buffer, whatever
\* the sizes, the marks and the acknowledgements.
THEOREM SignalTracksBuffer == Spec => []SaturationTracksBuffer
<1>1. Init => BInv
  BY InitBInv
<1>2. BInv /\ [Next]_vars => BInv'
  BY NextBInv
<1>3. BInv => SaturationTracksBuffer
  BY DEF BInv
<1> QED
  BY <1>1, <1>2, <1>3, PTL DEF Spec

\* Every variable keeps its type: the byte counter, from which the sizes of
\* acknowledged messages are counted off, is never negative.
THEOREM TypesKept == Spec => []TypeOK
<1>1. Init => BInv
  BY InitBInv
<1>2. BInv /\ [Next]_vars => BInv'
  BY NextBInv
<1>3. BInv => TypeOK
  BY DEF BInv, BytesTyped, IInv, Shape, TypeOK
<1> QED
  BY <1>1, <1>2, <1>3, PTL DEF Spec

-----------------------------------------------------------------------------
(* How often a message is handed over.                                      *)

\* How often i occurs in f.
Times(f, i) == Cardinality({n \in DOMAIN f : f[n] = i})

\* The messages on the t-th socket are there once, and those who were handed
\* what f lists have had each of them less than t times.
Fresh(w, t, f) ==
    \A j \in 1..Len(w) : w[j].id # 0 =>
        /\ Times(f, w[j].id) < t
        /\ \A k \in 1..Len(w) : w[k].id = w[j].id => k = j

\* The invariant, for the messages q is handed.
Once(q) ==
    /\ Seen(q) \subseteq 1..outgoingMsgId[Other(q)]
    /\ \A i \in Nat : Times(fired[q], i) <= socket[q] /\ Times(fired[q], i) <= socket[Other(q)]
    /\ \A t \in Sockets : Fresh(wire[t][q], t, fired[q])
    /\ \A t \in Sockets : t < socket[q] \/ t > socket[Other(q)] => wire[t][q] = <<>>

CInv == IInv /\ \A q \in Peers : Once(q)

LEMMA TimesTyped ==
    ASSUME NEW f \in Seq(Nat \ {0}), NEW i
    PROVE  IsFiniteSet({n \in DOMAIN f : f[n] = i}) /\ Times(f, i) \in Nat
<1>1. DOMAIN f = 1..Len(f) /\ Len(f) \in Nat
  OBVIOUS
<1>2. IsFiniteSet(DOMAIN f)
  BY <1>1, FS_Interval
<1>3. IsFiniteSet({n \in DOMAIN f : f[n] = i})
  BY <1>2, FS_Subset
<1> QED
  BY <1>3, FS_CardinalityType DEF Times

LEMMA TimesAppend ==
    ASSUME NEW f \in Seq(Nat \ {0}), NEW x \in Nat \ {0}, NEW i
    PROVE  Times(Append(f, x), i) = IF i = x THEN Times(f, i) + 1 ELSE Times(f, i)
<1> DEFINE g == Append(f, x)
           n == Len(f) + 1
           S == {k \in DOMAIN f : f[k] = i}
           T == {k \in DOMAIN g : g[k] = i}
<1>1. /\ DOMAIN f = 1..Len(f) /\ Len(f) \in Nat
      /\ DOMAIN g = 1..n /\ g[n] = x /\ \A k \in 1..Len(f) : g[k] = f[k]
  OBVIOUS
<1> HIDE DEF g
<1>2. n \notin S /\ \A k \in 1..n : k = n \/ k \in 1..Len(f)
  BY <1>1
<1>3. \A k \in 1..Len(f) : k \in 1..n
  BY <1>1
<1>4. n \in 1..n
  BY <1>1
<1>5. T = IF i = x THEN S \cup {n} ELSE S
  <2> HIDE DEF n
  <2> QED
    BY <1>1, <1>2, <1>3, <1>4
<1>6. IsFiniteSet(S)
  BY TimesTyped
<1> HIDE DEF S, n
<1>7. Cardinality(S \cup {n}) = Cardinality(S) + 1
  BY <1>2, <1>6, FS_AddElement
<1>8. Cardinality(T) = IF i = x THEN Cardinality(S) + 1 ELSE Cardinality(S)
  BY <1>5, <1>7
<1> QED
  BY <1>8 DEF Times, S, g

LEMMA TimesNone ==
    ASSUME NEW f, NEW i, \A n \in DOMAIN f : f[n] # i
    PROVE  Times(f, i) = 0
<1>1. {n \in DOMAIN f : f[n] = i} = {}
  OBVIOUS
<1> QED
  BY <1>1, FS_EmptySet DEF Times

\* At most one new message is written, in front.
LEMMA FreshWritten ==
    ASSUME NEW w \in Seq(Frame), NEW fs \in Seq(Frame), NEW t, NEW f, Fresh(w, t, f),
           \A k \in 1..Len(fs) : fs[k].id # 0 =>
               /\ k = 1
               /\ Times(f, fs[k].id) < t
               /\ \A j \in 1..Len(w) : w[j].id # fs[k].id
    PROVE  Fresh(w \o fs, t, f)
<1> DEFINE v == w \o fs
<1>1. v \in Seq(Frame) /\ Len(v) = Len(w) + Len(fs) /\ Len(w) \in Nat /\ Len(fs) \in Nat
  OBVIOUS
<1>2. \A i \in 1..Len(w) : v[i] = w[i]
  OBVIOUS
<1>3. \A i \in 1..Len(fs) : v[Len(w) + i] = fs[i]
  OBVIOUS
<1> HIDE DEF v
<1>4. ASSUME NEW i \in 1..Len(v)
      PROVE  \/ i \in 1..Len(w) /\ v[i] = w[i]
             \/ \E k \in 1..Len(fs) : i = Len(w) + k /\ v[i] = fs[k]
  <2>1. CASE i <= Len(w)
    <3>1. i \in 1..Len(w)
      BY <1>1, <2>1
    <3> QED
      BY <1>2, <3>1
  <2>2. CASE i > Len(w)
    <3>1. i - Len(w) \in 1..Len(fs) /\ i = Len(w) + (i - Len(w))
      BY <1>1, <2>2
    <3>2. v[i] = fs[i - Len(w)]
      BY <1>3, <3>1
    <3> QED
      BY <3>1, <3>2
  <2> QED
    BY <1>1, <2>1, <2>2
<1>5. ASSUME NEW j \in 1..Len(v), v[j].id # 0 PROVE Times(f, v[j].id) < t
  BY <1>4, <1>5 DEF Fresh
<1>6. ASSUME NEW j \in 1..Len(v), v[j].id # 0, NEW k \in 1..Len(v), v[k].id = v[j].id
      PROVE  k = j
  <2>1. CASE j \in 1..Len(w) /\ v[j] = w[j]
    <3>1. CASE k \in 1..Len(w) /\ v[k] = w[k]
      BY <1>6, <2>1, <3>1 DEF Fresh
    <3>2. CASE \E m \in 1..Len(fs) : k = Len(w) + m /\ v[k] = fs[m]
      BY <1>6, <2>1, <3>2
    <3> QED
      BY <1>4, <3>1, <3>2
  <2>2. CASE \E m \in 1..Len(fs) : j = Len(w) + m /\ v[j] = fs[m]
    <3>1. PICK m \in 1..Len(fs) : j = Len(w) + m /\ v[j] = fs[m]
      BY <2>2
    <3>2. CASE k \in 1..Len(w) /\ v[k] = w[k]
      BY <1>6, <3>1, <3>2
    <3>3. CASE \E l \in 1..Len(fs) : k = Len(w) + l /\ v[k] = fs[l]
      BY <1>6, <3>1, <3>3
    <3> QED
      BY <1>4, <3>2, <3>3
  <2> QED
    BY <1>4, <2>1, <2>2
<1>7. Fresh(v, t, f)
  BY <1>5, <1>6 DEF Fresh
<1> QED
  BY <1>7 DEF v

\* What is left after the first frame was read; x is its message, or 0.
LEMMA FreshTail ==
    ASSUME NEW w \in Seq(Frame), w # <<>>, NEW t, NEW f \in Seq(Nat \ {0}), NEW g,
           Fresh(w, t, f),
           g = IF w[1].id = 0 THEN f ELSE Append(f, w[1].id)
    PROVE  Fresh(Tail(w), t, g)
<1> DEFINE v == Tail(w)
           x == w[1].id
<1>1. Len(v) = Len(w) - 1 /\ 1 \in 1..Len(w) /\ Len(w) \in Nat /\ w[1] \in Frame
  OBVIOUS
<1>2. \A i \in 1..Len(v) : v[i] = w[i + 1]
  BY <1>1
<1> HIDE DEF v
<1>3. \A i \in 1..Len(v) : i + 1 \in 1..Len(w) /\ i + 1 # 1
  BY <1>1
<1>4. x \in Nat
  BY <1>1 DEF Frame
<1>5. ASSUME NEW j \in 1..Len(v), v[j].id # 0 PROVE Times(g, v[j].id) < t
  <2>1. w[j + 1].id # 0 /\ Times(f, w[j + 1].id) < t /\ w[1].id # w[j + 1].id
    BY <1>1, <1>2, <1>3, <1>5 DEF Fresh
  <2>2. CASE x = 0
    BY <1>2, <2>1, <2>2
  <2>3. CASE x # 0
    <3>1. x \in Nat \ {0} /\ g = Append(f, x)
      BY <1>4, <2>3
    <3>2. Times(g, w[j + 1].id) = Times(f, w[j + 1].id)
      BY <2>1, <3>1, TimesAppend
    <3> QED
      BY <1>2, <2>1, <3>2
  <2> QED
    BY <2>2, <2>3
<1>6. ASSUME NEW j \in 1..Len(v), v[j].id # 0, NEW k \in 1..Len(v), v[k].id = v[j].id
      PROVE  k = j
  <2>0. /\ j + 1 \in 1..Len(w) /\ w[j + 1].id # 0
        /\ k + 1 \in 1..Len(w) /\ w[k + 1].id = w[j + 1].id
    BY <1>2, <1>3, <1>6
  <2>1. k + 1 = j + 1
    BY <2>0 DEF Fresh
  <2> QED
    BY <2>1
<1>7. Fresh(v, t, g)
  BY <1>5, <1>6 DEF Fresh
<1> QED
  BY <1>7 DEF v

\* A message read from socket s may still be on a later one.
LEMMA FreshLater ==
    ASSUME NEW w \in Seq(Frame), NEW t \in Nat, NEW s \in Nat, s < t,
           NEW f \in Seq(Nat \ {0}), NEW x \in Nat \ {0},
           Fresh(w, t, f), Times(f, x) < s
    PROVE  Fresh(w, t, Append(f, x))
<1>1. ASSUME NEW j \in 1..Len(w), w[j].id # 0 PROVE Times(Append(f, x), w[j].id) < t
  <2>1. Times(f, w[j].id) < t
    BY <1>1 DEF Fresh
  <2>2. CASE w[j].id = x
    <3>1. Times(Append(f, x), w[j].id) = Times(f, x) + 1
      BY <2>2, TimesAppend
    <3>2. Times(f, x) \in Nat
      BY TimesTyped
    <3> QED
      BY <3>1, <3>2
  <2>3. CASE w[j].id # x
    <3>1. Times(Append(f, x), w[j].id) = Times(f, w[j].id)
      BY <2>3, TimesAppend
    <3> QED
      BY <2>1, <3>1
  <2> QED
    BY <2>2, <2>3
<1> QED
  BY <1>1 DEF Fresh

\* What is written again is fresh on the next socket.
LEMMA FreshEntries ==
    ASSUME IInv, NEW p \in Peers, NEW t, NEW f,
           \A i \in Nat : Times(f, i) < t
    PROVE  Fresh(Entries(p), t, f) /\ Len(Entries(p)) = Len(outgoingUnackMsg[p])
<1> DEFINE buf == outgoingUnackMsg[p]
           w == Entries(p)
<1>1. buf \in Seq(Entry) /\ BufferIsSuffix(p) /\ outgoingMsgId[p] \in Nat
  BY DEF IInv, Shape, PeerInv
<1>2. Len(buf) \in Nat /\ DOMAIN buf = 1..Len(buf)
  BY <1>1
<1>3. w = [i \in 1..Len(buf) |-> Regular(buf[i].id, buf[i].ack)]
  BY <1>2 DEF Entries
<1>4. Len(w) = Len(buf) /\ \A i \in 1..Len(buf) : w[i].id = buf[i].id
  BY <1>2, <1>3 DEF Regular
<1>5. \A i \in 1..Len(buf) : buf[i].id = outgoingMsgId[p] - Len(buf) + i /\ buf[i].id \in Nat
  <2>1. \A i \in 1..Len(buf) : buf[i] \in Entry
    BY <1>1
  <2> QED
    BY <1>1, <2>1 DEF BufferIsSuffix, Entry
<1> HIDE DEF w, buf
<1>6. \A j, k \in 1..Len(buf) : buf[j].id = buf[k].id => j = k
  BY <1>1, <1>2, <1>5
<1>7. Fresh(w, t, f)
  BY <1>4, <1>5, <1>6 DEF Fresh
<1> QED
  BY <1>4, <1>7 DEF w, buf

LEMMA InitOnce == Init => \A q \in Peers : Once(q)
<1> SUFFICES ASSUME Init, NEW q \in Peers PROVE Once(q)
  OBVIOUS
<1>1. Other(q) \in Peers
  BY OtherPeer
<1>2. fired[q] = <<>> /\ socket[q] = 1 /\ socket[Other(q)] = 1
  BY <1>1, Zenon DEF Init
<1>3. DOMAIN fired[q] = {}
  BY <1>2
<1>4. Seen(q) \subseteq 1..outgoingMsgId[Other(q)]
  BY <1>3 DEF Seen
<1>5. \A i \in Nat : Times(fired[q], i) = 0
  BY <1>3, TimesNone
<1>6. \A t \in Sockets : wire[t][q] = <<>>
  BY DEF Init
<1>7. \A t \in Sockets : Fresh(wire[t][q], t, fired[q])
  BY <1>6 DEF Fresh
<1> QED
  BY <1>2, <1>4, <1>5, <1>6, <1>7 DEF Once

LEMMA WrittenOnce ==
    ASSUME CInv, NEW p \in Peers, NEW fs \in Seq(Frame),
           wire' = Written(p, fs), fired' = fired, socket' = socket,
           outgoingMsgId' \in [Peers -> Nat],
           \A q \in Peers : outgoingMsgId[q] <= outgoingMsgId'[q],
           \A k \in 1..Len(fs) : fs[k].id # 0 => k = 1 /\ fs[k].id = outgoingMsgId[p] + 1
    PROVE  \A q \in Peers : Once(q)'
<1> DEFINE o == Other(p)
           c == socket[p]
<1>0. o \in Peers /\ o # p /\ Other(o) = p /\ Peers = {p, o}
  BY OtherPeer
<1>1. /\ wire \in [Sockets -> [Peers -> Seq(Frame)]] /\ c \in Sockets
      /\ socket[o] \in Sockets /\ outgoingMsgId \in [Peers -> Nat]
      /\ fired[o] \in Seq(Nat \ {0})
  BY <1>0 DEF CInv, IInv, Shape
<1>2. /\ Reaches(c, o) => wire' = [wire EXCEPT ![c] = [wire[c] EXCEPT ![o] = wire[c][o] \o fs]]
      /\ ~Reaches(c, o) => wire' = wire
  BY DEF Written
<1>3. ASSUME NEW t \in Sockets, NEW q \in Peers, ~ (q = o /\ t = c /\ Reaches(c, o))
      PROVE  wire'[t][q] = wire[t][q]
  BY <1>1, <1>2, <1>3
<1>4. ASSUME Reaches(c, o) PROVE wire'[c][o] = wire[c][o] \o fs
  <2> DEFINE v == wire[c][o] \o fs
  <2>1. wire[c] \in [Peers -> Seq(Frame)]
    BY <1>1
  <2>2. wire' = [wire EXCEPT ![c] = [wire[c] EXCEPT ![o] = v]]
    BY <1>2, <1>4
  <2> HIDE DEF v
  <2>3. wire'[c] = [wire[c] EXCEPT ![o] = v]
    BY <1>1, <2>2
  <2>4. wire'[c][o] = v
    BY <1>0, <2>1, <2>3
  <2> QED
    BY <2>4 DEF v
<1>5. ASSUME Reaches(c, o) PROVE Fresh(wire'[c][o], c, fired[o])
  <2> DEFINE w == wire[c][o]
             x == outgoingMsgId[p] + 1
  <2>1. w \in Seq(Frame) /\ Fresh(w, c, fired[o]) /\ x \in Nat \ {0} /\ c >= 1
    BY <1>0, <1>1 DEF CInv, Once, Sockets
  <2>2. \A j \in 1..Len(w) : w[j].id # x
    <3>1. WireSound(c, o)
      BY <1>0, <1>1 DEF CInv, IInv
    <3>2. \A j \in 1..Len(w) : w[j].id = 0 \/ w[j].id \in 1..outgoingMsgId[p]
      BY <1>0, <3>1 DEF WireSound, SoundWire
    <3>3. outgoingMsgId[p] \in Nat
      BY <1>1
    <3> HIDE DEF w
    <3> QED
      BY <3>2, <3>3
  <2>3. Times(fired[o], x) = 0
    <3>1. Seen(o) \subseteq 1..outgoingMsgId[p] /\ outgoingMsgId[p] \in Nat
      BY <1>0, <1>1 DEF CInv, Once
    <3>2. x \notin Seen(o)
      BY <3>1
    <3>3. \A n \in DOMAIN fired[o] : fired[o][n] # x
      BY <3>2 DEF Seen
    <3> QED
      BY <3>3, TimesNone
  <2>4. \A k \in 1..Len(fs) : fs[k].id # 0 =>
            /\ k = 1
            /\ Times(fired[o], fs[k].id) < c
            /\ \A j \in 1..Len(w) : w[j].id # fs[k].id
    <3>1. 0 < c
      BY <1>1 DEF Sockets
    <3> HIDE DEF w, c
    <3> QED
      BY <2>2, <2>3, <3>1
  <2> HIDE DEF w, x
  <2>5. Fresh(w \o fs, c, fired[o])
    BY <2>1, <2>4, FreshWritten
  <2> QED
    BY <1>4, <1>5, <2>5 DEF w
<1>6. ASSUME NEW q \in Peers PROVE Once(q)'
  <2>0. Other(q) \in Peers /\ Once(q)
    BY OtherPeer DEF CInv
  <2>1. Seen(q)' \subseteq 1..outgoingMsgId'[Other(q)]
    <3>1. Seen(q)' = Seen(q)
      BY DEF Seen
    <3>2. /\ Seen(q) \subseteq 1..outgoingMsgId[Other(q)]
          /\ outgoingMsgId[Other(q)] <= outgoingMsgId'[Other(q)]
          /\ outgoingMsgId[Other(q)] \in Nat /\ outgoingMsgId'[Other(q)] \in Nat
      BY <1>1, <2>0 DEF Once
    <3> QED
      BY <3>1, <3>2
  <2>2. \A i \in Nat : Times(fired'[q], i) <= socket'[q] /\ Times(fired'[q], i) <= socket'[Other(q)]
    BY <2>0 DEF Once
  <2>3. ASSUME NEW t \in Sockets PROVE Fresh(wire'[t][q], t, fired'[q])
    <3>1. CASE q = o /\ t = c /\ Reaches(c, o)
      BY <1>5, <3>1
    <3>2. CASE ~ (q = o /\ t = c /\ Reaches(c, o))
      <4>1. wire'[t][q] = wire[t][q]
        BY <1>3, <3>2
      <4> QED
        BY <2>0, <4>1 DEF Once
    <3> QED
      BY <3>1, <3>2
  <2>4. ASSUME NEW t \in Sockets, t < socket'[q] \/ t > socket'[Other(q)] PROVE wire'[t][q] = <<>>
    <3>1. ~ (q = o /\ t = c /\ Reaches(c, o))
      BY <1>0, <1>1, <2>4 DEF Reaches, Sockets
    <3>2. wire'[t][q] = wire[t][q]
      BY <1>3, <3>1
    <3> QED
      BY <2>0, <2>4, <3>2 DEF Once
  <2> QED
    BY <2>1, <2>2, <2>3, <2>4 DEF Once
<1> QED
  BY <1>6

LEMMA ReadOnce ==
    ASSUME CInv, NEW p \in Peers, Read(p)
    PROVE  \A q \in Peers : Once(q)'
<1> DEFINE o == Other(p)
           s == socket[p]
           w == wire[s][p]
           x == w[1].id
           f == fired[p]
<1>0. o \in Peers /\ o # p /\ Other(o) = p /\ Peers = {p, o}
  BY OtherPeer
<1>1. /\ wire \in [Sockets -> [Peers -> Seq(Frame)]] /\ s \in Sockets /\ socket[o] \in Sockets
      /\ w \in Seq(Frame) /\ w # <<>> /\ f \in Seq(Nat \ {0})
      /\ fired \in [Peers -> Seq(Nat \ {0})] /\ outgoingMsgId[o] \in Nat
  BY <1>0 DEF CInv, IInv, Shape, Read
<1>2. /\ wire' = [wire EXCEPT ![s] = [wire[s] EXCEPT ![p] = Tail(w)]]
      /\ socket' = socket /\ outgoingMsgId' = outgoingMsgId
  BY DEF Read
<1>3. 1 \in 1..Len(w) /\ Head(w) = w[1] /\ w[1] \in Frame
  BY <1>1
<1>4. /\ w[1].type = "Regular" => x \in 1..outgoingMsgId[o]
      /\ w[1].type # "Regular" => x = 0
  <2>1. WireSound(s, p)
    BY <1>1 DEF CInv, IInv
  <2> QED
    BY <1>3, <2>1 DEF WireSound, SoundWire
<1>5. /\ x # 0 => fired' = [fired EXCEPT ![p] = Append(f, x)]
      /\ x = 0 => fired' = fired
  <2>1. CASE w[1].type = "Regular"
    <3>1. fired' = [fired EXCEPT ![p] = Append(f, x)]
      BY <1>3, <2>1 DEF Read
    <3>2. x # 0
      BY <1>1, <1>4, <2>1
    <3> QED
      BY <3>1, <3>2
  <2>2. CASE w[1].type # "Regular"
    <3>1. fired' = fired
      BY <1>3, <2>2 DEF Read
    <3> QED
      BY <1>4, <2>2, <3>1
  <2> QED
    BY <2>1, <2>2
<1>6. fired'[p] = IF x = 0 THEN f ELSE Append(f, x)
  BY <1>1, <1>5
<1>7. Once(p) /\ Once(o)
  BY <1>0 DEF CInv
<1>8. s <= socket[o]
  <2>1. ~ (s > socket[o])
    BY <1>0, <1>1, <1>7 DEF Once
  <2> QED
    BY <1>1, <2>1 DEF Sockets
<1>9. x # 0 => /\ x \in Nat \ {0} /\ x \in 1..outgoingMsgId[o] /\ Times(f, x) < s
  <2>1. Fresh(w, s, f)
    BY <1>1, <1>7 DEF Once
  <2> QED
    BY <1>3, <1>4, <2>1 DEF Fresh
<1>10. Once(p)'
  <2> HIDE DEF x
  <2>1. Seen(p)' \subseteq 1..outgoingMsgId[o]
    <3>1. CASE x = 0
      BY <1>0, <1>5, <1>7, <3>1 DEF Once, Seen
    <3>2. CASE x # 0
      <4>1. Shape
        BY DEF CInv, IInv
      <4>2. Seen(p)' = Seen(p) \cup {x}
        BY <1>5, <1>9, <3>2, <4>1, SeenAppend
      <4> QED
        BY <1>0, <1>7, <1>9, <3>2, <4>2 DEF Once
    <3> QED
      BY <3>1, <3>2
  <2>2. ASSUME NEW i \in Nat PROVE Times(fired'[p], i) <= s /\ Times(fired'[p], i) <= socket[o]
    <3>1. Times(f, i) <= s /\ Times(f, i) <= socket[o] /\ Times(f, i) \in Nat
      BY <1>0, <1>1, <1>7, TimesTyped DEF Once
    <3>2. CASE x = 0 \/ i # x
      <4>1. Times(fired'[p], i) = Times(f, i)
        BY <1>1, <1>6, <1>9, <3>2, TimesAppend
      <4> QED
        BY <3>1, <4>1
    <3>3. CASE x # 0 /\ i = x
      <4>1. Times(fired'[p], i) = Times(f, i) + 1 /\ Times(f, i) < s
        BY <1>1, <1>6, <1>9, <3>3, TimesAppend
      <4>2. s \in Nat /\ socket[o] \in Nat
        BY <1>1 DEF Sockets
      <4> HIDE DEF s, f
      <4> QED
        BY <1>8, <3>1, <4>1, <4>2
    <3> QED
      BY <3>2, <3>3
  <2>3. ASSUME NEW t \in Sockets PROVE Fresh(wire'[t][p], t, fired'[p])
    <3>0. Fresh(wire[t][p], t, f) /\ wire[t][p] \in Seq(Frame)
      BY <1>1, <1>7 DEF Once
    <3>1. CASE t = s
      <4>1. wire'[t][p] = Tail(w)
        BY <1>1, <1>2, <3>1
      <4>2. fired'[p] = IF w[1].id = 0 THEN f ELSE Append(f, w[1].id)
        BY <1>6 DEF x
      <4>3. Fresh(Tail(w), s, fired'[p])
        BY <1>1, <3>0, <3>1, <4>2, FreshTail
      <4> QED
        BY <3>1, <4>1, <4>3
    <3>2. CASE t # s
      <4>1. wire'[t][p] = wire[t][p]
        BY <1>1, <1>2, <3>2
      <4>2. CASE x = 0
        BY <1>6, <3>0, <4>1, <4>2
      <4>3. CASE x # 0 /\ t < s
        <5>1. wire[t][p] = <<>>
          BY <1>7, <4>3 DEF Once
        <5> QED
          BY <4>1, <5>1 DEF Fresh
      <4>4. CASE x # 0 /\ s < t
        <5>1. t \in Nat /\ s \in Nat
          BY <1>1 DEF Sockets
        <5>2. Fresh(wire[t][p], t, Append(f, x))
          BY <1>1, <1>9, <3>0, <4>4, <5>1, FreshLater
        <5> QED
          BY <1>6, <4>1, <4>4, <5>2
      <4>5. t < s \/ s < t
        BY <1>1, <3>2 DEF Sockets
      <4> QED
        BY <4>2, <4>3, <4>4, <4>5
    <3> QED
      BY <3>1, <3>2
  <2>4. ASSUME NEW t \in Sockets, t < s \/ t > socket[o] PROVE wire'[t][p] = <<>>
    <3>1. wire[t][p] = <<>>
      BY <1>0, <1>7, <2>4 DEF Once
    <3>2. t # s
      BY <1>1, <3>1
    <3> QED
      BY <1>1, <1>2, <3>1, <3>2
  <2> QED
    BY <1>0, <1>2, <2>1, <2>2, <2>3, <2>4 DEF Once
<1>11. Once(o)'
  <2>1. fired'[o] = fired[o]
    BY <1>0, <1>1, <1>5
  <2>2. \A t \in Sockets : wire'[t][o] = wire[t][o]
    BY <1>0, <1>1, <1>2
  <2>3. Seen(o)' = Seen(o)
    BY <2>1 DEF Seen
  <2> QED
    BY <1>0, <1>2, <1>7, <2>1, <2>2, <2>3 DEF Once
<1> QED
  BY <1>0, <1>10, <1>11

LEMMA ReplaceOnce ==
    ASSUME CInv, NEW p \in Peers, NEW s \in Sockets, ReplaceSocket(p, s)
    PROVE  \A q \in Peers : Once(q)'
<1> DEFINE o == Other(p)
<1>0. o \in Peers /\ o # p /\ Other(o) = p /\ Peers = {p, o}
  BY OtherPeer
<1>1. /\ wire \in [Sockets -> [Peers -> Seq(Frame)]] /\ socket \in [Peers -> Sockets]
      /\ socket[p] \in Sockets /\ socket[o] \in Sockets
  BY <1>0 DEF CInv, IInv, Shape
<1>2. /\ socket[p] < s /\ socket' = [socket EXCEPT ![p] = s]
      /\ UNCHANGED <<outgoingMsgId, fired>>
  BY DEF ReplaceSocket, bufferVars
<1>3. \A t \in Sockets : wire'[t][p] = IF t < s THEN <<>> ELSE wire[t][p]
  BY DEF ReplaceSocket
<1>4. \A t \in Sockets : wire'[t][o] = IF t = s /\ Reaches(s, o)
                                       THEN wire[t][o] \o Entries(p) ELSE wire[t][o]
  BY <1>0 DEF ReplaceSocket
<1>5. socket'[p] = s /\ socket'[o] = socket[o]
  BY <1>0, <1>1, <1>2
<1>6. \A q \in Peers : Seen(q)' = Seen(q)
  BY <1>2 DEF Seen
<1>7. Once(p) /\ Once(o)
  BY <1>0 DEF CInv
<1>8. s \in Nat /\ socket[p] \in Nat /\ socket[o] \in Nat /\ Sockets \subseteq Nat
  BY <1>1 DEF Sockets
<1>9. \A q \in Peers, i \in Nat : Times(fired[q], i) \in Nat
  BY TimesTyped DEF CInv, IInv, Shape
<1>10. Once(p)'
  <2>1. ASSUME NEW i \in Nat PROVE Times(fired[p], i) <= s /\ Times(fired[p], i) <= socket[o]
    <3>1. Times(fired[p], i) <= socket[p] /\ Times(fired[p], i) <= socket[o] /\ Times(fired[p], i) \in Nat
      BY <1>0, <1>7, <1>9 DEF Once
    <3> QED
      BY <1>2, <1>8, <3>1
  <2>2. ASSUME NEW t \in Sockets PROVE Fresh(wire'[t][p], t, fired[p])
    <3>1. CASE t < s
      BY <1>3, <3>1 DEF Fresh
    <3>2. CASE ~ (t < s)
      BY <1>3, <1>7, <3>2 DEF Once
    <3> QED
      BY <3>1, <3>2
  <2>3. ASSUME NEW t \in Sockets, t < s \/ t > socket[o] PROVE wire'[t][p] = <<>>
    BY <1>0, <1>3, <1>7, <2>3 DEF Once
  <2> QED
    BY <1>0, <1>2, <1>5, <1>6, <1>7, <2>1, <2>2, <2>3 DEF Once
<1>11. Once(o)'
  <2>1. ASSUME NEW i \in Nat PROVE Times(fired[o], i) < s /\ Times(fired[o], i) <= socket[o]
    <3>1. Times(fired[o], i) <= socket[p] /\ Times(fired[o], i) <= socket[o] /\ Times(fired[o], i) \in Nat
      BY <1>0, <1>7, <1>9 DEF Once
    <3> QED
      BY <1>2, <1>8, <3>1
  <2>2. ASSUME NEW t \in Sockets PROVE Fresh(wire'[t][o], t, fired[o])
    <3>1. CASE t = s /\ Reaches(s, o)
      <4>1. t > socket[p]
        BY <1>2, <1>8, <3>1
      <4>2. wire[t][o] = <<>>
        BY <1>0, <1>7, <4>1 DEF Once
      <4>3. Fresh(Entries(p), s, fired[o])
        BY <2>1, FreshEntries DEF CInv
      <4>4. Entries(p) \in Seq(Frame)
        <5>1. outgoingUnackMsg[p] \in Seq(Entry)
          BY DEF CInv, IInv, Shape
        <5>2. \A i \in 1..Len(outgoingUnackMsg[p]) : outgoingUnackMsg[p][i] \in Entry
          BY <5>1
        <5>3. \A i \in 1..Len(outgoingUnackMsg[p]) :
                 Regular(outgoingUnackMsg[p][i].id, outgoingUnackMsg[p][i].ack) \in Frame
          BY <5>2 DEF Regular, Frame, Entry
        <5>4. DOMAIN outgoingUnackMsg[p] = 1..Len(outgoingUnackMsg[p])
              /\ Len(outgoingUnackMsg[p]) \in Nat
          BY <5>1
        <5> QED
          BY <5>3, <5>4 DEF Entries
      <4>5. <<>> \o Entries(p) = Entries(p)
        BY <4>4
      <4> QED
        BY <1>4, <3>1, <4>2, <4>3, <4>5
    <3>2. CASE ~ (t = s /\ Reaches(s, o))
      BY <1>4, <1>7, <3>2 DEF Once
    <3> QED
      BY <3>1, <3>2
  <2>3. ASSUME NEW t \in Sockets, t < socket[o] \/ t > s PROVE wire'[t][o] = <<>>
    <3>1. ~ (t = s /\ Reaches(s, o))
      BY <1>8, <2>3 DEF Reaches
    <3>2. t < socket[o] \/ t > socket[p]
      BY <1>2, <1>8, <2>3
    <3> QED
      BY <1>0, <1>4, <1>7, <3>1, <3>2 DEF Once
  <2>4. \A i \in Nat : Times(fired[o], i) <= s /\ Times(fired[o], i) <= socket[o]
    BY <1>0, <1>8, <1>9, <2>1
  <2> QED
    BY <1>0, <1>2, <1>5, <1>6, <1>7, <2>2, <2>3, <2>4 DEF Once
<1> QED
  BY <1>0, <1>10, <1>11

LEMMA NextCInv == CInv /\ [Next]_vars => CInv'
<1> SUFFICES ASSUME CInv, [Next]_vars PROVE \A q \in Peers : Once(q)'
  BY NextIInv DEF CInv
<1>0. /\ \A q \in Peers : Once(q) /\ Other(q) \in Peers
      /\ outgoingMsgId \in [Peers -> Nat] /\ incomingAckId \in [Peers -> Nat]
      /\ wire \in [Sockets -> [Peers -> Seq(Frame)]]
  BY OtherPeer DEF CInv, IInv, Shape
<1>1. CASE UNCHANGED vars
  BY <1>0, <1>1 DEF vars, bufferVars, netVars, Once, Seen
<1>2. ASSUME NEW p \in Peers, NEW n \in Sizes, Send(p, n) PROVE \A q \in Peers : Once(q)'
  <2> DEFINE id == outgoingMsgId[p] + 1
             msg == Regular(id, incomingAckId[p])
             last == DisconnectFrame(incomingAckId[p])
             abandons == unackBytes[p] + n > MaxBytes /\ ~overflowed[p]
             fs == IF abandons THEN <<msg, last>> ELSE <<msg>>
  <2>1. /\ outgoingMsgId' = [outgoingMsgId EXCEPT ![p] = id]
        /\ wire' = Written(p, fs) /\ fired' = fired /\ socket' = socket
    BY <1>2 DEF Send
  <2>2. outgoingMsgId' \in [Peers -> Nat] /\ \A q \in Peers : outgoingMsgId[q] <= outgoingMsgId'[q]
    BY <1>0, <2>1
  <2>3. msg \in Frame /\ msg.id = id /\ last \in Frame /\ last.id = 0
    BY <1>0 DEF Regular, DisconnectFrame, Frame
  <2> HIDE DEF msg, last
  <2>4. fs \in Seq(Frame) /\ \A k \in 1..Len(fs) : fs[k].id # 0 => k = 1 /\ fs[k].id = id
    <3>1. CASE abandons
      BY <2>3, <3>1
    <3>2. CASE ~abandons
      BY <2>3, <3>2
    <3> QED
      BY <3>1, <3>2
  <2> HIDE DEF fs
  <2> QED
    BY <2>1, <2>2, <2>4, WrittenOnce
<1>3. ASSUME NEW p \in Peers, KeepAlive(p) \/ GraceExpires(p) PROVE \A q \in Peers : Once(q)'
  <2>1. PICK x \in {KeepAliveFrame(incomingAckId[p]), DisconnectFrame(incomingAckId[p])} :
           wire' = Written(p, <<x>>)
    BY <1>3 DEF KeepAlive, GraceExpires
  <2>2. UNCHANGED <<outgoingMsgId, fired, socket>>
    BY <1>3 DEF KeepAlive, GraceExpires, bufferVars
  <2>3. x \in Frame /\ x.id = 0
    BY <1>0 DEF KeepAliveFrame, DisconnectFrame, Frame
  <2>4. /\ <<x>> \in Seq(Frame)
        /\ \A k \in 1..Len(<<x>>) : <<x>>[k].id # 0 => k = 1 /\ <<x>>[k].id = outgoingMsgId[p] + 1
    BY <2>3
  <2>5. outgoingMsgId' \in [Peers -> Nat] /\ \A q \in Peers : outgoingMsgId[q] <= outgoingMsgId'[q]
    BY <1>0, <2>2
  <2> QED
    BY <2>1, <2>2, <2>4, <2>5, WrittenOnce
<1>4. ASSUME NEW s \in Sockets, Break(s) PROVE \A q \in Peers : Once(q)'
  <2>1. /\ UNCHANGED <<outgoingMsgId, fired, socket>>
        /\ wire' = [wire EXCEPT ![s] = [q \in Peers |-> <<>>]]
    BY <1>4 DEF Break, bufferVars
  <2>2. \A t \in Sockets, q \in Peers : wire'[t][q] = wire[t][q] \/ wire'[t][q] = <<>>
    BY <1>0, <2>1
  <2>3. ASSUME NEW q \in Peers PROVE Once(q)'
    <3>1. Seen(q)' = Seen(q)
      BY <2>1 DEF Seen
    <3>2. \A t \in Sockets : Fresh(wire'[t][q], t, fired[q])
      BY <1>0, <2>2 DEF Once, Fresh
    <3>3. \A t \in Sockets : t < socket[q] \/ t > socket[Other(q)] => wire'[t][q] = <<>>
      BY <1>0, <2>2 DEF Once
    <3> QED
      BY <1>0, <2>1, <3>1, <3>2, <3>3 DEF Once
  <2> QED
    BY <2>3
<1> QED
  BY <1>1, <1>2, <1>3, <1>4, ReadOnce, ReplaceOnce DEF Next

\* A message is handed over at most once per socket: repeated by a reconnect
\* and by nothing else, neither by a heartbeat nor by two copies in flight.
THEOREM HandedOncePerSocket == Spec => []OncePerSocket
<1>1. Init => CInv
  BY InitIInv, InitOnce DEF CInv
<1>2. CInv /\ [Next]_vars => CInv'
  BY NextCInv
<1>3. CInv => OncePerSocket
  <2> SUFFICES ASSUME CInv, NEW p \in Peers, NEW i \in Seen(p)
               PROVE  Times(fired[p], i) <= socket[Other(p)]
    BY DEF OncePerSocket, Times
  <2>1. fired[p] \in Seq(Nat \ {0}) /\ Once(p)
    BY DEF CInv, IInv, Shape
  <2>2. i \in Nat
    BY <2>1 DEF Seen
  <2> QED
    BY <2>1, <2>2 DEF Once
<1> QED
  BY <1>1, <1>2, <1>3, PTL DEF Spec
=============================================================================
