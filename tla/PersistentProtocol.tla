------------------------- MODULE PersistentProtocol -------------------------
(***************************************************************************)
(* packages/rpc: two PersistentProtocol instances facing each other over a *)
(* succession of sockets.  Each keeps what it sent until the other         *)
(* acknowledges it and writes all of it again when its socket is replaced. *)
(* The two sides replace their sockets independently: one may already      *)
(* write to a new socket while the other still reads the old one.          *)
(***************************************************************************)
EXTENDS Integers, Sequences, FiniteSets

CONSTANTS
    Peers,
    Sizes,              \* payload sizes a message may have
    HighWater,          \* saturationHighWaterMarkBytes
    LowWater,           \* saturationLowWaterMarkBytes
    MaxBytes,           \* replayBufferMaxBytes
    MaxSend,            \* bound: MaxSend[p] messages are sent by p
    MaxSockets,         \* bound: sockets, one after the other
    MaxWire             \* bound: frames in flight when a heartbeat is written

ASSUME PeersAssumption == \E p, q \in Peers : p # q /\ Peers = {p, q}
ASSUME SizesAssumption == Sizes \subseteq Nat
ASSUME MarksAssumption ==
    /\ LowWater \in Nat /\ HighWater \in Nat /\ MaxBytes \in Nat
    /\ LowWater <= HighWater /\ HighWater <= MaxBytes
ASSUME BoundsAssumption ==
    MaxSend \in [Peers -> Nat] /\ MaxSockets \in Nat \ {0} /\ MaxWire \in Nat

Other(p) == CHOOSE q \in Peers : q # p
Sockets == 1..MaxSockets

VARIABLES
    outgoingMsgId,
    outgoingUnackMsg,   \* sequence of [id, ack, size], oldest first
    incomingAckId,
    unackBytes,
    saturated,
    overflowed,
    socket,             \* socket[p]: the socket p holds
    wire,               \* wire[s][p]: frames on socket s not yet read by p
    broken,             \* sockets that lost their connection
    fired,              \* fired[p]: numbers of the messages onMessage was fired with
    closed              \* closed[p]: onClose was fired

bufferVars == <<outgoingMsgId, outgoingUnackMsg, unackBytes>>
flagVars == <<saturated, overflowed, closed>>
netVars == <<socket, wire, broken>>
vars == <<bufferVars, incomingAckId, flagVars, netVars, fired>>

-----------------------------------------------------------------------------
(* Frames.  id is 0 in every frame but a Regular one.                       *)

Regular(i, a) == [type |-> "Regular", id |-> i, ack |-> a]
\* (Mutant: a heartbeat carries no acknowledgement.)
KeepAliveFrameWithoutAck(a) == [type |-> "KeepAlive", id |-> 0, ack |-> 0]

KeepAliveFrame(a) == [type |-> "KeepAlive", id |-> 0, ack |-> a]
DisconnectFrame(a) == [type |-> "Disconnect", id |-> 0, ack |-> a]

\* What is written to a socket reaches the other side unless the connection
\* is gone or the other side has stopped listening to it.
Reaches(s, q) == s \notin broken /\ socket[q] <= s

\* socket.write for each of the frames, to the socket p holds.
Written(p, frames) ==
    IF Reaches(socket[p], Other(p))
    THEN [wire EXCEPT ![socket[p]][Other(p)] = @ \o frames]
    ELSE wire

\* (Mutant: the oldest kept message is not written again.)
EntriesButFirst(q) == [i \in 1..(Len(outgoingUnackMsg[q]) - 1) |->
    Regular(outgoingUnackMsg[q][i + 1].id, outgoingUnackMsg[q][i + 1].ack)]

Entries(q) == [i \in DOMAIN outgoingUnackMsg[q] |->
                 Regular(outgoingUnackMsg[q][i].id, outgoingUnackMsg[q][i].ack)]

Init ==
    /\ outgoingMsgId = [p \in Peers |-> 0]
    /\ outgoingUnackMsg = [p \in Peers |-> <<>>]
    /\ incomingAckId = [p \in Peers |-> 0]
    /\ unackBytes = [p \in Peers |-> 0]
    /\ saturated = [p \in Peers |-> FALSE]
    /\ overflowed = [p \in Peers |-> FALSE]
    /\ socket = [p \in Peers |-> 1]
    /\ wire = [s \in Sockets |-> [p \in Peers |-> <<>>]]
    /\ broken = {}
    /\ fired = [p \in Peers |-> <<>>]
    /\ closed = [p \in Peers |-> FALSE]

-----------------------------------------------------------------------------
(* send: the message is kept and written; then the replay buffer's limit    *)
(* and, if that was not passed, the high-water mark are looked at.          *)

Send(p, n) ==
    LET id == outgoingMsgId[p] + 1
        msg == Regular(id, incomingAckId[p])
        bytes == unackBytes[p] + n
        abandons == bytes > MaxBytes /\ ~overflowed[p]
    IN  /\ outgoingMsgId[p] < MaxSend[p]
        /\ outgoingMsgId' = [outgoingMsgId EXCEPT ![p] = id]
        /\ outgoingUnackMsg' = [outgoingUnackMsg EXCEPT
               ![p] = Append(@, [id |-> id, ack |-> incomingAckId[p], size |-> n])]
        /\ unackBytes' = [unackBytes EXCEPT ![p] = bytes]
        /\ wire' = Written(p, IF abandons
                              THEN <<msg, DisconnectFrame(incomingAckId[p])>>
                              ELSE <<msg>>)
        /\ overflowed' = [overflowed EXCEPT ![p] = @ \/ abandons]
        /\ closed' = [closed EXCEPT ![p] = @ \/ abandons]
        /\ saturated' = [saturated EXCEPT
               ![p] = @ \/ (bytes <= MaxBytes /\ bytes > HighWater)]
        /\ UNCHANGED <<incomingAckId, socket, broken, fired>>

\* (Mutant: the heartbeat repeats what is not acknowledged.)
KeepAliveRepeats(p) ==
    /\ Reaches(socket[p], Other(p)) => Len(wire[socket[p]][Other(p)]) < MaxWire
    /\ wire' = Written(p, Append(Entries(p), KeepAliveFrame(incomingAckId[p])))
    /\ UNCHANGED <<bufferVars, incomingAckId, flagVars, socket, broken, fired>>

\* The heartbeat timer.
KeepAlive(p) ==
    /\ Reaches(socket[p], Other(p)) => Len(wire[socket[p]][Other(p)]) < MaxWire
    /\ wire' = Written(p, <<KeepAliveFrame(incomingAckId[p])>>)
    /\ UNCHANGED <<bufferVars, incomingAckId, flagVars, socket, broken, fired>>

\* The acknowledgement timer finds the oldest unacknowledged message older
\* than the grace period.
GraceExpires(p) ==
    /\ outgoingUnackMsg[p] # <<>>
    /\ ~overflowed[p]
    /\ overflowed' = [overflowed EXCEPT ![p] = TRUE]
    /\ closed' = [closed EXCEPT ![p] = TRUE]
    /\ wire' = Written(p, <<DisconnectFrame(incomingAckId[p])>>)
    /\ UNCHANGED <<bufferVars, incomingAckId, saturated, socket, broken, fired>>

\* (Mutant: an acknowledgement frees one message too many.)
AcknowledgedOneMore(q, ack) ==
    CHOOSE n \in 0..Len(outgoingUnackMsg[q]) :
        /\ \A i \in 1..n : outgoingUnackMsg[q][i].id <= ack + 1
        /\ n < Len(outgoingUnackMsg[q]) => outgoingUnackMsg[q][n + 1].id > ack + 1

\* processAck: entries leave the front of the buffer while their number is at
\* most ack.
Acknowledged(q, ack) ==
    CHOOSE n \in 0..Len(outgoingUnackMsg[q]) :
        /\ \A i \in 1..n : outgoingUnackMsg[q][i].id <= ack
        /\ n < Len(outgoingUnackMsg[q]) => outgoingUnackMsg[q][n + 1].id > ack

SizeOf(entries) ==
    LET sum[i \in 0..Len(entries)] == IF i = 0 THEN 0 ELSE sum[i-1] + entries[i].size
    IN  sum[Len(entries)]

\* (Mutant: an acknowledgement counts off the bytes of one message.)
ProcessAckCountsOne(p, ack) ==
    LET buffer == outgoingUnackMsg[p]
        n == Acknowledged(p, ack)
        bytes == IF n = 0 THEN unackBytes[p] ELSE unackBytes[p] - buffer[1].size
    IN  /\ outgoingUnackMsg' = [outgoingUnackMsg EXCEPT ![p] = SubSeq(@, n + 1, Len(@))]
        /\ unackBytes' = [unackBytes EXCEPT ![p] = bytes]
        /\ saturated' = [saturated EXCEPT ![p] = @ /\ bytes > LowWater]

ProcessAck(p, ack) ==
    LET n == Acknowledged(p, ack)
        bytes == unackBytes[p] - SizeOf(SubSeq(outgoingUnackMsg[p], 1, n))
    IN  /\ outgoingUnackMsg' = [outgoingUnackMsg EXCEPT ![p] = SubSeq(@, n + 1, Len(@))]
        /\ unackBytes' = [unackBytes EXCEPT ![p] = bytes]
        /\ saturated' = [saturated EXCEPT ![p] = @ /\ bytes > LowWater]

\* readMessages takes one whole frame off the socket p listens to.
Read(p) ==
    LET s == socket[p]
        frame == Head(wire[s][p])
    IN  /\ wire[s][p] # <<>>
        /\ wire' = [wire EXCEPT ![s][p] = Tail(@)]
        /\ ProcessAck(p, frame.ack)
        /\ IF frame.type = "Regular"
           THEN /\ incomingAckId' = [incomingAckId EXCEPT ![p] = frame.id]
                /\ fired' = [fired EXCEPT ![p] = Append(@, frame.id)]
           ELSE UNCHANGED <<incomingAckId, fired>>
        /\ closed' = [closed EXCEPT ![p] = @ \/ frame.type = "Disconnect"]
        /\ UNCHANGED <<outgoingMsgId, overflowed, socket, broken>>

\* replaceSocket: what p had not read of the old socket is dropped, and every
\* message p still keeps is written to the new one.
ReplaceSocket(p, s) ==
    /\ socket[p] < s
    /\ socket' = [socket EXCEPT ![p] = s]
    /\ wire' = [t \in Sockets |-> [q \in Peers |->
                  IF q = p THEN IF t < s THEN <<>> ELSE wire[t][q]
                  ELSE IF t = s /\ Reaches(s, q) THEN wire[t][q] \o Entries(p)
                  ELSE wire[t][q]]]
    /\ UNCHANGED <<bufferVars, incomingAckId, flagVars, broken, fired>>

\* The environment: a connection is lost with what is in flight on it.  The
\* last socket stays up.
Break(s) ==
    /\ s \notin broken
    /\ s < MaxSockets
    /\ broken' = broken \cup {s}
    /\ wire' = [wire EXCEPT ![s] = [q \in Peers |-> <<>>]]
    /\ UNCHANGED <<bufferVars, incomingAckId, flagVars, socket, fired>>

Next ==
    \/ \E p \in Peers :
          \/ \E n \in Sizes : Send(p, n)
          \/ KeepAlive(p)
          \/ GraceExpires(p)
          \/ Read(p)
          \/ \E s \in Sockets : ReplaceSocket(p, s)
    \/ \E s \in Sockets : Break(s)

Spec == Init /\ [][Next]_vars

\* The timers fire, arrived frames are read, and a side whose connection is
\* gone, or whose peer is already on a later socket, gets a later socket.
Stale(p) == socket[p] \in broken \/ socket[p] < socket[Other(p)]
Reconnect(p) == Stale(p) /\ \E s \in Sockets : ReplaceSocket(p, s)

FairSpec ==
    /\ Spec
    /\ \A p \in Peers :
          /\ WF_vars(Read(p))
          /\ WF_vars(KeepAlive(p))
          /\ WF_vars(Reconnect(p))
-----------------------------------------------------------------------------
(* Properties.                                                              *)

Seen(p) == {fired[p][i] : i \in DOMAIN fired[p]}

Entry == [id : Nat \ {0}, ack : Nat, size : Sizes]
Frame == [type : {"Regular", "KeepAlive", "Disconnect"}, id : Nat, ack : Nat]

\* The types of the variables.
TypeOK ==
    /\ outgoingMsgId \in [Peers -> Nat]
    /\ outgoingUnackMsg \in [Peers -> Seq(Entry)]
    /\ incomingAckId \in [Peers -> Nat]
    /\ unackBytes \in [Peers -> Nat]
    /\ saturated \in [Peers -> BOOLEAN]
    /\ overflowed \in [Peers -> BOOLEAN]
    /\ socket \in [Peers -> Sockets]
    /\ wire \in [Sockets -> [Peers -> Seq(Frame)]]
    /\ broken \in SUBSET Sockets
    /\ fired \in [Peers -> Seq(Nat \ {0})]
    /\ closed \in [Peers -> BOOLEAN]

\* No message is skipped: whatever was lost with a connection, a message is
\* handed to the channel layer only after the one before it ("replay, so that
\* nothing is lost across a reconnect").
NoGap ==
    \A p \in Peers : \A i \in DOMAIN fired[p] :
        fired[p][i] = 1 \/ \E j \in 1..(i-1) : fired[p][j] = fired[p][i] - 1

\* A message leaves the replay buffer only when the other side's channel layer
\* has it: an acknowledgement that went back, or one captured in an old frame
\* and replayed, never frees too much.
ForgottenOnlyWhenSeen ==
    \A p \in Peers : \A i \in 1..outgoingMsgId[p] :
        (\A k \in DOMAIN outgoingUnackMsg[p] : outgoingUnackMsg[p][k].id # i)
            => i \in Seen(Other(p))

\* A message is handed over at most once per socket its sender has held: it is
\* repeated by a reconnect and by nothing else.
OncePerSocket ==
    \A p \in Peers : \A i \in Seen(p) :
        Cardinality({n \in DOMAIN fired[p] : fired[p][n] = i}) <= socket[Other(p)]

\* The congestion signal agrees with the buffer, and so do the bytes it is
\* computed from: a session that was not given up is under the limit, saturated
\* only above the low mark, and above the high mark only when saturated.
SaturationTracksBuffer ==
    \A p \in Peers :
        /\ unackBytes[p] = SizeOf(outgoingUnackMsg[p])
        /\ saturated[p] => unackBytes[p] > LowWater
        /\ ~overflowed[p] /\ ~saturated[p] => unackBytes[p] <= HighWater
        /\ ~overflowed[p] => unackBytes[p] <= MaxBytes

\* The buffer is bounded: giving the session up is said to replace an
\* unbounded heap (persistent-protocol.ts, the comment on the defaults).
BufferBounded ==
    \A p \in Peers : outgoingUnackMsg[p] # <<>> =>
        LET n == Len(outgoingUnackMsg[p])
        IN  unackBytes[p] - outgoingUnackMsg[p][n].size <= MaxBytes

\* Once the connection stays up, every message is handed over, and the buffer
\* of its sender becomes empty, so a saturated sender is drained.
EverythingArrives ==
    \A p \in Peers :
        /\ \A i \in 1..MaxSend[p] : outgoingMsgId[p] >= i ~> i \in Seen(Other(p))
        /\ saturated[p] ~> ~saturated[p]

Link == INSTANCE ReplayLink WITH
    sent <- outgoingMsgId,
    forgotten <- [p \in Peers |-> outgoingMsgId[p] - Len(outgoingUnackMsg[p])]

\* The two instances implement the abstract link.
ImplementsLink == Link!Spec
=============================================================================
