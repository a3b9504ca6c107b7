----------------------------- MODULE ChannelRpc -----------------------------
(***************************************************************************)
(* One ChannelClient and one ChannelServer on the two ends of a protocol   *)
(* that delivers in order until the connection is lost (channelClient.ts,  *)
(* channelServer.ts).  The client calls and listens on one channel, which  *)
(* the server may not know yet; requests for it are collected until it is  *)
(* registered or a timer answers them.                                     *)
(*                                                                         *)
(* An Event is one emitter of requestEvent: whether somebody listens to it *)
(* is the client's business, the subscription behind it the server's.      *)
(***************************************************************************)
EXTENDS Naturals, Sequences, SequencesExt, FiniteSets

CONSTANTS
    Calls,              \* ids of promise requests
    Events,             \* ids of event requests
    Starts,             \* "steady": after Initialize, the channel registered;
                        \* "early": before both
    MaxListens,         \* bound: listeners ever added to an event, by start
    MaxWire             \* bound: messages on the way when an event fires

ASSUME ChannelRpcAssumption ==
    /\ Calls \cap Events = {}
    /\ Starts \subseteq {"steady", "early"}
    /\ MaxListens \in [Starts -> Nat] /\ MaxWire \in Nat

VARIABLES
    start,          \* which of Starts this connection began with
    ready,          \* client: state is Idle
    queued,         \* client: doRequests waiting for Initialize
    promise,        \* client: how far each call is
    listening,      \* client: events with a listener
    handler,        \* client: events with an entry in handlers
    requested,      \* client: events with their emitter in activeRequests
    listens,        \* count of listeners added, for MaxListens
    clientUp,       \* client: not disposed
    link,           \* TRUE until the connection is lost
    toServer, toClient,
    registered,     \* server: the channel is known
    flushDue,       \* server: registerChannel's timer is set
    pending,        \* server: collected requests, TRUE once timed out
    active,         \* server: ids in activeRequests
    running,        \* server: calls being executed
    stopped,        \* server: calls whose token was cancelled
    subs,           \* server: live subscriptions per event
    serverUp        \* server: not disposed

client == <<ready, queued, promise, listening, handler, requested, listens, clientUp>>
server == <<registered, flushDue, pending, active, running, stopped, subs, serverUp>>
wire == <<link, toServer, toClient>>
moving == <<client, wire, server>>
vars == <<start, moving>>

Ids == Calls \cup Events
ToServer == [kind : {"promise", "cancel"}, id : Calls]
            \cup [kind : {"listen", "dispose"}, id : Events]
ToClient == [kind : {"init"}]
            \cup [kind : {"ok", "error"}, id : Calls] \cup [kind : {"fire"}, id : Events]
Open == {"waiting", "sent"}     \* pendingRejections has the id
Rejected == {"failed", "cancelled", "closed"}

TypeOK ==
    /\ ready \in BOOLEAN /\ queued \in Seq(Ids)
    /\ promise \in [Calls -> {"unused", "resolved"} \cup Open \cup Rejected]
    /\ listening \subseteq Events /\ handler \subseteq Events /\ requested \subseteq Events
    /\ listens \in [Events -> 0..MaxListens[start]]
    /\ clientUp \in BOOLEAN /\ serverUp \in BOOLEAN /\ link \in BOOLEAN
    /\ toServer \in Seq(ToServer) /\ toClient \in Seq(ToClient)
    /\ registered \in BOOLEAN /\ flushDue \in BOOLEAN
    /\ \A i \in DOMAIN pending : /\ pending[i].msg \in ToServer
                                 /\ pending[i].timedOut \in BOOLEAN
    /\ active \subseteq Ids /\ running \subseteq Calls /\ stopped \subseteq running
    /\ subs \in [Events -> Nat]

-----------------------------------------------------------------------------
(* protocol.send: what is sent on a lost connection goes nowhere. *)
SendToServer(msgs) == toServer' = IF link THEN toServer \o msgs ELSE toServer
SendToClient(msgs) == toClient' = IF link THEN toClient \o msgs ELSE toClient

Request(id) == [kind |-> IF id \in Calls THEN "promise" ELSE "listen", id |-> id]

(* doRequest: a call that was rejected meanwhile is not sent, a listen is. *)
Sendable(id) == id \in Events \/ promise[id] = "waiting"

(* What is sent of the requests that waited, in order. *)
SentOf(waiting) ==
    LET out[n \in 0..Len(waiting)] ==
            IF n = 0 THEN <<>>
            ELSE IF Sendable(waiting[n]) THEN Append(out[n - 1], waiting[n])
            ELSE out[n - 1]
    IN  out[Len(waiting)]

Init ==
    /\ start \in Starts
    /\ ready = (start = "steady") /\ queued = <<>>
    /\ promise = [c \in Calls |-> "unused"]
    /\ listening = {} /\ handler = Events /\ requested = {}
    /\ listens = [e \in Events |-> 0]
    /\ clientUp = TRUE /\ link = TRUE
    /\ toServer = <<>>
    /\ toClient = IF ready THEN <<>> ELSE <<[kind |-> "init"]>>
    /\ registered = ready /\ flushDue = FALSE
    /\ pending = <<>> /\ active = {} /\ running = {} /\ stopped = {}
    /\ subs = [e \in Events |-> 0]
    /\ serverUp = TRUE

-----------------------------------------------------------------------------
(* The client. *)

(* requestPromise: sent at once, or after Initialize. *)
Call(c) ==
    /\ clientUp /\ promise[c] = "unused"
    /\ IF ready
       THEN /\ promise' = [promise EXCEPT ![c] = "sent"]
            /\ SendToServer(<<Request(c)>>)
            /\ UNCHANGED queued
       ELSE /\ promise' = [promise EXCEPT ![c] = "waiting"]
            /\ queued' = Append(queued, c)
            /\ UNCHANGED toServer
    /\ UNCHANGED <<ready, listening, handler, requested, listens, clientUp,
                   link, toClient, server>>

(* The token of a call is cancelled; the server is told even before Initialize. *)
Cancel(c) ==
    /\ promise[c] \in Open
    /\ promise' = [promise EXCEPT ![c] = "cancelled"]
    /\ SendToServer(<<[kind |-> "cancel", id |-> c]>>)
    /\ UNCHANGED <<ready, queued, listening, handler, requested, listens,
                   clientUp, link, toClient, server>>

(* onWillAddFirstListener.  Only requestEvent itself sets the handler; what is
   added after dispose sends nothing and is left out. *)
AddListener(e) ==
    /\ clientUp /\ e \notin listening /\ listens[e] < MaxListens[start]
    /\ listening' = listening \cup {e}
    /\ listens' = [listens EXCEPT ![e] = @ + 1]
    /\ IF ready
       THEN /\ requested' = requested \cup {e}
            /\ SendToServer(<<Request(e)>>)
            /\ UNCHANGED queued
       ELSE /\ queued' = Append(queued, e)
            /\ UNCHANGED <<requested, toServer>>
    /\ UNCHANGED <<ready, promise, handler, clientUp, link, toClient, server>>

(* (Mutant: the server is not told that nobody listens.) *)
RemoveListenerSilently(e) ==
    /\ e \in listening
    /\ listening' = listening \ {e}
    /\ requested' = requested \ {e}
    /\ handler' = handler \ {e}
    /\ UNCHANGED <<ready, queued, promise, listens, clientUp, wire, server>>

(* onDidRemoveLastListener *)
RemoveListener(e) ==
    /\ e \in listening
    /\ listening' = listening \ {e}
    /\ requested' = requested \ {e}
    /\ handler' = handler \ {e}
    /\ SendToServer(<<[kind |-> "dispose", id |-> e]>>)
    /\ UNCHANGED <<ready, queued, promise, listens, clientUp, link, toClient, server>>

(* Initialize: the waiting requests go out in order, in the microtasks it queues. *)
Initialized ==
    /\ clientUp /\ toClient # <<>> /\ Head(toClient).kind = "init"
    /\ LET out == SentOf(queued) IN
       /\ ready' = TRUE
       /\ queued' = <<>>
       /\ promise' = [c \in Calls |->
              IF c \in ToSet(out) THEN "sent" ELSE promise[c]]
       /\ requested' = requested \cup (ToSet(out) \cap Events)
       /\ SendToServer([i \in DOMAIN out |-> Request(out[i])])
       /\ toClient' = Tail(toClient)
    /\ UNCHANGED <<listening, handler, listens, clientUp, link, server>>

(* onResponse: an answer to a call without a handler, and an event, change nothing. *)
ReceiveAnswer ==
    /\ clientUp /\ toClient # <<>> /\ Head(toClient).kind # "init"
    /\ LET answer == Head(toClient) IN
       promise' = [c \in Calls |->
           IF answer.kind \in {"ok", "error"} /\ answer.id = c /\ promise[c] = "sent"
           THEN IF answer.kind = "ok" THEN "resolved" ELSE "failed"
           ELSE promise[c]]
    /\ toClient' = Tail(toClient)
    /\ UNCHANGED <<ready, queued, listening, handler, requested, listens,
                   clientUp, link, toServer, server>>

(***************************************************************************)
(* dispose of the client: every open call is rejected, the emitters whose  *)
(* request went out are disposed, and nobody waits for Initialize any more.*)
(***************************************************************************)
DisposeClient ==
    /\ ~link /\ clientUp
    /\ clientUp' = FALSE
    /\ promise' = [c \in Calls |-> IF promise[c] \in Open THEN "closed" ELSE promise[c]]
    /\ listening' = listening \ requested
    /\ requested' = {}
    /\ queued' = <<>>
    /\ UNCHANGED <<ready, handler, listens, wire, server>>

-----------------------------------------------------------------------------
(* The server. *)

(* onPromise and onEventListen of requests for a known channel, in order. *)
Serve(msgs) ==
    LET ids == {m.id : m \in ToSet(msgs)} IN
    /\ active' = active \cup ids
    /\ running' = running \cup (ids \cap Calls)
    /\ subs' = [e \in Events |->
           subs[e] + Cardinality({i \in DOMAIN msgs : msgs[i].id = e})]

(* A request arrives: served, or collected while its channel is unknown. *)
ReceiveRequest ==
    /\ serverUp /\ toServer # <<>> /\ Head(toServer).kind \in {"promise", "listen"}
    /\ toServer' = Tail(toServer)
    /\ IF registered
       THEN Serve(<<Head(toServer)>>) /\ UNCHANGED pending
       ELSE /\ pending' = Append(pending, [msg |-> Head(toServer), timedOut |-> FALSE])
            /\ UNCHANGED <<active, running, subs>>
    /\ UNCHANGED <<client, link, toClient, registered, flushDue, stopped, serverUp>>

(***************************************************************************)
(* disposeActiveRequest: the call's token is cancelled, the subscription   *)
(* ended.  A request that is only collected is not found.                  *)
(***************************************************************************)
ReceiveDispose ==
    /\ serverUp /\ toServer # <<>> /\ Head(toServer).kind \in {"cancel", "dispose"}
    /\ toServer' = Tail(toServer)
    /\ LET ids == {Head(toServer).id} \cap active IN
       /\ active' = active \ ids
       /\ stopped' = stopped \cup (ids \cap running)
       /\ subs' = [e \in Events |-> IF e \in ids THEN subs[e] - 1 ELSE subs[e]]
    /\ UNCHANGED <<client, link, toClient, registered, flushDue, pending,
                   running, serverUp>>

(* (Mutant: the timer only logs.) *)
TimerOnlyLogs(i) ==
    /\ i \in DOMAIN pending /\ ~pending[i].timedOut
    /\ pending' = [pending EXCEPT ![i].timedOut = TRUE]
    /\ UNCHANGED <<client, wire, registered, flushDue, active,
                   running, stopped, subs, serverUp>>

(* The time for a collected request is over: answered, and still collected. *)
TimerFires(i) ==
    /\ i \in DOMAIN pending /\ ~pending[i].timedOut
    /\ pending' = [pending EXCEPT ![i].timedOut = TRUE]
    /\ SendToClient(IF pending[i].msg.kind = "promise"
                    THEN <<[kind |-> "error", id |-> pending[i].msg.id]>> ELSE <<>>)
    /\ UNCHANGED <<client, link, toServer, registered, flushDue, active,
                   running, stopped, subs, serverUp>>

RegisterChannel ==
    /\ ~registered
    /\ registered' = TRUE /\ flushDue' = TRUE
    /\ UNCHANGED <<client, wire, pending, active, running, stopped, subs, serverUp>>

(* flushPendingRequests: everything collected is served, timed out or not. *)
FlushPending ==
    /\ flushDue
    /\ flushDue' = FALSE
    /\ Serve([i \in DOMAIN pending |-> pending[i].msg])
    /\ pending' = <<>>
    /\ UNCHANGED <<client, wire, registered, stopped, serverUp>>

(* (Mutant: the entry of a call that ended stays.) *)
CallEndsKeepingEntry(c) ==
    /\ c \in running
    /\ running' = running \ {c} /\ stopped' = stopped \ {c}
    /\ \E kind \in {"ok", "error"} : SendToClient(<<[kind |-> kind, id |-> c]>>)
    /\ UNCHANGED <<client, link, toServer, registered, flushDue, pending,
                   active, subs, serverUp>>

(* The channel's promise settles: answered, and the entry removed. *)
CallEnds(c) ==
    /\ c \in running
    /\ running' = running \ {c} /\ stopped' = stopped \ {c}
    /\ active' = active \ {c}
    /\ \E kind \in {"ok", "error"} : SendToClient(<<[kind |-> kind, id |-> c]>>)
    /\ UNCHANGED <<client, link, toServer, registered, flushDue, pending, subs, serverUp>>

EventFires(e) ==
    /\ subs[e] > 0 /\ Len(toClient) < MaxWire
    /\ SendToClient(<<[kind |-> "fire", id |-> e]>>)
    /\ UNCHANGED <<client, link, toServer, server>>

(* dispose of the server: what is active ends, what is collected stays. *)
DisposeServer ==
    /\ ~link /\ serverUp
    /\ serverUp' = FALSE
    /\ active' = {}
    /\ stopped' = stopped \cup (active \cap running)
    /\ subs' = [e \in Events |-> IF e \in active THEN subs[e] - 1 ELSE subs[e]]
    /\ UNCHANGED <<client, wire, registered, flushDue, pending, running>>

(* The connection is lost with everything on it. *)
LoseConnection ==
    /\ link
    /\ link' = FALSE /\ toServer' = <<>> /\ toClient' = <<>>
    /\ UNCHANGED <<client, server>>

Next ==
    /\ UNCHANGED start
    /\ \/ \E c \in Calls : Call(c) \/ Cancel(c) \/ CallEnds(c)
       \/ \E e \in Events : AddListener(e) \/ RemoveListener(e) \/ EventFires(e)
       \/ Initialized \/ ReceiveAnswer \/ DisposeClient
       \/ ReceiveRequest \/ ReceiveDispose \/ RegisterChannel \/ FlushPending
       \/ \E i \in DOMAIN pending : TimerFires(i)
       \/ DisposeServer \/ LoseConnection

Spec == Init /\ [][Next]_vars

(***************************************************************************)
(* Messages arrive, timers fire, and a call on the server ends some day.   *)
(* Nobody is assumed to dispose of a client: IPCServer does when its       *)
(* connection goes, the owner of a client made by connectViaProtocol need  *)
(* not.                                                                    *)
(***************************************************************************)
Fairness ==
    /\ WF_moving(Initialized) /\ WF_moving(ReceiveAnswer)
    /\ WF_moving(ReceiveRequest) /\ WF_moving(ReceiveDispose) /\ WF_moving(FlushPending)
    /\ WF_moving(\E i \in DOMAIN pending : TimerFires(i))
    /\ \A c \in Calls : WF_moving(CallEnds(c))

LiveSpec == Spec /\ Fairness

-----------------------------------------------------------------------------
OnTheWay(kinds, id) == \E i \in DOMAIN toServer :
    toServer[i].kind \in kinds /\ toServer[i].id = id

(***************************************************************************)
(* The server keeps a subscription only for an event somebody listens to,  *)
(* once nothing about that event is on the way or collected: EventListen   *)
(* is sent when somebody listens, EventDispose when nobody does any more.  *)
(***************************************************************************)
NoStraySubscription ==
    \A e \in Events :
        /\ link /\ e \notin listening /\ ~OnTheWay({"listen", "dispose"}, e)
        => subs[e] = 0

(***************************************************************************)
(* That holds at least for a connection that began with Initialize and a   *)
(* registered channel: then what is sent is served in the order it is sent.*)
(***************************************************************************)
NoStrayAfterHandshake == start = "steady" => NoStraySubscription

(***************************************************************************)
(* Who listens hears: once its subscription stands and nothing is on the   *)
(* way, an event that fires finds its handler at the client.               *)
(***************************************************************************)
HeardWhileListening ==
    \A e \in Events :
        /\ link /\ e \in listening /\ subs[e] > 0
        /\ ~OnTheWay({"listen", "dispose"}, e)
        => e \in handler

(***************************************************************************)
(* A cancelled call that still runs on the server has had its token        *)
(* cancelled, or the message that will do so is on the way.  (A call that  *)
(* the server collected may be cancelled before it is served, and then     *)
(* runs to its end.)                                                       *)
(***************************************************************************)
CancelReaches ==
    start = "steady" =>
        \A c \in Calls :
            /\ link /\ promise[c] = "cancelled" /\ c \in running
            => c \in stopped \/ OnTheWay({"cancel"}, c)

(***************************************************************************)
(* activeRequests lists work that is really under way, and all of it that  *)
(* can still be stopped: its entries neither pile up nor go missing.  For  *)
(* subscriptions that takes a connection on which none is taken twice.     *)
(***************************************************************************)
BookMatchesWork ==
    serverUp =>
        /\ active \cap Calls = running \ stopped
        /\ start = "steady" => active \cap Events = {e \in Events : subs[e] > 0}

(***************************************************************************)
(* A call that was rejected at the client, by cancel or by dispose, is     *)
(* never sent afterwards (the comment above doRequest's test).             *)
(***************************************************************************)
RejectedNeverSent ==
    [][\A c \in Calls :
           /\ promise[c] \in Rejected
           /\ \E i \in DOMAIN toServer' : toServer'[i] = [kind |-> "promise", id |-> c]
           => OnTheWay({"promise"}, c)]_vars

(***************************************************************************)
(* Every call settles, answered, refused by the timer of an unknown        *)
(* channel, cancelled, or rejected by the dispose of its client, or comes  *)
(* to stand on a lost connection whose client was not disposed.  That last *)
(* end is no settlement: nothing in the client ends such a call.           *)
(***************************************************************************)
Stranded == ~link /\ clientUp
CallsSettle ==
    \A c \in Calls : (promise[c] \in Open) ~> (promise[c] \notin Open \/ Stranded)

(***************************************************************************)
(* A call ends, and once: it settles unless it is stranded on a connection *)
(* that is lost, and is not sent after its caller was told that it failed. *)
(***************************************************************************)
CallsEndOnce == CallsSettle /\ RejectedNeverSent

(***************************************************************************)
(* The tables of both ends are well formed, the server's book right, and   *)
(* what was cancelled at one end is stopped at the other.                  *)
(***************************************************************************)
TablesSound == TypeOK /\ BookMatchesWork /\ CancelReaches
=============================================================================
