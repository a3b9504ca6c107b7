----------------------------- MODULE InputQueue -----------------------------
(***************************************************************************)
(* One session's input queue: what the user types while the runtime is     *)
(* busy, and how it is executed later.                                     *)
(*                                                                         *)
(* The runtime runs one foreground execution at a time: a prompt, or a     *)
(* batch of background-task notifications taken from its command queue.    *)
(* An input that arrives meanwhile is queued in the event projection       *)
(* (proj); a guide is also put in the active turn's memory (mem), and the  *)
(* turn takes it at its next model-step boundary.  The rest waits for a    *)
(* promotion: the host reserves the item, takes the runtime's promotion    *)
(* lease, waits until nothing runs, marks the item, admits it as a prompt  *)
(* and removes it from the queue.  There are two promoters, the user's     *)
(* "send now" command and the host's automatic drain, and every step of    *)
(* either is an await during which the other, the turn, a notification or  *)
(* an edit of the queue may run.                                           *)
(*                                                                         *)
(* The user's commands are serialised by the session gate of the command   *)
(* inbox; the automatic drain calls the executor directly and is not.      *)
(***************************************************************************)
EXTENDS Integers, Sequences, FiniteSets, SequencesExt

CONSTANTS Inputs,       \* the inputs the user may send
          Notices,      \* background-task notifications
          None

ASSUME NoneAssumption == /\ None \notin Inputs
                         /\ None \notin {"user", "auto"}

Promoters == {"user", "auto"}

VARIABLES
    exec,        \* activeForegroundExecution: what runs, aborted or not
    mem,         \* activeTurn.pendingInputs: guides the turn may take
    drain,       \* the guide the turn has taken and not yet recorded
    proj,        \* pendingSteerInputs of the event projection
    holder,      \* pendingInputReservations
    lease,       \* foregroundPromotionLease: the promoter that owns it
    notes,       \* notifications in the runtime's command queue
    noticed,     \* notifications that were handed to a turn
    pc, item,    \* where each promoter is, and the input it promotes
    cmd,         \* a queue command that has read the queue and not written
    gate,        \* the drain flags: projection, runtime, external drain
    evalDue,     \* an evaluation of the automatic drain is scheduled
    sent,        \* inputs accepted
    ran,         \* how often an input was handed to a turn, at most 2
    removed,     \* inputs whose deletion was accepted
    overlapped   \* inputs consumed while a command that had read them ran

vars == <<exec, mem, drain, proj, holder, lease, notes, noticed, pc, item, cmd,
          gate, evalDue, sent, ran, removed, overlapped>>

queueVars   == <<mem, drain, proj>>
noticeVars  == <<notes, noticed>>
promoVars   == <<holder, lease, pc, item>>
historyVars == <<sent, ran, removed, overlapped>>

Idle   == [kind |-> "idle", aborted |-> FALSE, keep |-> FALSE]
Run(k) == [kind |-> k, aborted |-> FALSE, keep |-> FALSE]
NoCmd  == [op |-> "none", item |-> None, live |-> FALSE, index |-> 0,
           order |-> <<>>]

TypeOK ==
    /\ exec \in [kind : {"idle", "prompt", "notice"},
                 aborted : BOOLEAN, keep : BOOLEAN]
    /\ mem \in Seq(Inputs) /\ proj \in Seq(Inputs)
    /\ drain \in Inputs \cup {None}
    /\ holder \in [Inputs -> Promoters \cup {None}]
    /\ lease \in Promoters \cup {None}
    /\ notes \subseteq Notices /\ noticed \subseteq Notices
    /\ pc \in [Promoters -> {"idle", "picked", "reserve", "reserved",
                             "wait", "marked", "remove"}]
    /\ item \in [Promoters -> Inputs \cup {None}]
    /\ cmd \in [op : {"none", "delete", "edit", "reorder"},
                item : Inputs \cup {None}, live : BOOLEAN,
                index : Nat, order : Seq(Inputs)]
    /\ gate \in [v4 : BOOLEAN, core : BOOLEAN, external : BOOLEAN]
    /\ evalDue \in BOOLEAN
    /\ ran \in [Inputs -> 0..2]
    /\ sent \subseteq Inputs /\ removed \subseteq Inputs
    /\ overlapped \subseteq Inputs

Init ==
    /\ exec = Idle
    /\ mem = <<>> /\ drain = None /\ proj = <<>>
    /\ holder = [i \in Inputs |-> None] /\ lease = None
    /\ notes = {} /\ noticed = {}
    /\ pc = [p \in Promoters |-> "idle"]
    /\ item = [p \in Promoters |-> None]
    /\ cmd = NoCmd
    /\ gate = [v4 |-> TRUE, core |-> TRUE, external |-> FALSE]
    /\ evalDue = FALSE
    /\ sent = {} /\ ran = [i \in Inputs |-> 0]
    /\ removed = {} /\ overlapped = {}

-----------------------------------------------------------------------------
(* Helpers *)

\* The members of s that are in S, in their order.
Only(s, S) ==
    LET kept[n \in 0..Len(s)] ==
            IF n = 0 THEN <<>>
            ELSE IF s[n] \in S THEN Append(kept[n - 1], s[n])
            ELSE kept[n - 1]
    IN  kept[Len(s)]

Without(s, i) == Only(s, Inputs \ {i})

\* hasActiveOrQueuedTurnWork.
Busy == exec # Idle \/ lease # None \/ notes # {}

\* The session gate is free: the user's previous command has settled.
UserFree == cmd = NoCmd /\ pc["user"] = "idle"

\* The rows the host's projection shows: the row of an item whose turn has
\* started is gone before the item is removed.
Visible == Only(proj, {i \in Inputs : \A p \in Promoters :
                                         pc[p] = "remove" => item[p] # i})

\* setQueueAutoDrain.
Authorised(b) == [v4 |-> b, core |-> b,
                  external |-> b /\ (gate.external \/ ~gate.core)]

\* A mutant of RunNext: the notifications do not heed the lease.
RunNextUnleased(l, pending) ==
    \/ /\ pending # {}
       /\ exec' = Run("notice")
       /\ notes' = {}
       /\ noticed' = noticed \cup pending
    \/ /\ pending = {}
       /\ exec' = Idle
       /\ notes' = pending
       /\ UNCHANGED noticed

\* What the runtime does once nothing runs, given the lease and the pending
\* notifications: under a lease only the promoted command may be dequeued.
RunNext(l, pending) ==
    \/ /\ l = None /\ pending # {}
       /\ exec' = Run("notice")
       /\ notes' = {}
       /\ noticed' = noticed \cup pending
    \/ /\ l # None \/ pending = {}
       /\ exec' = Idle
       /\ notes' = pending
       /\ UNCHANGED noticed

Ran(i) == ran' = [ran EXCEPT ![i] = IF @ = 2 THEN 2 ELSE @ + 1]

\* The inputs a command in flight has read, and those being consumed.
Read     == IF cmd.op = "none" THEN {} ELSE {cmd.item} \cup ToSet(cmd.order)
Consumed == {i \in Inputs : \/ drain = i
                            \/ \E p \in Promoters :
                                  /\ pc[p] \in {"marked", "remove"}
                                  /\ item[p] = i}
\* A deletion in flight whose position in the memory moves.
Shifted     == IF cmd.op = "delete" /\ cmd.live THEN {cmd.item} ELSE {}
NoteOverlap == overlapped' = overlapped \cup (Read' \cap Consumed')

-----------------------------------------------------------------------------
(* The user's text, and notifications *)

\* sendText: an idle runtime starts it; a busy one queues it, and a guide is
\* also given to the running turn.
SendText(i, delivery) ==
    /\ UserFree /\ i \notin sent
    /\ sent' = sent \cup {i}
    /\ \/ /\ ~Busy
          /\ exec' = Run("prompt")
          /\ Ran(i)
          /\ UNCHANGED <<mem, proj>>
       \/ /\ Busy
          /\ proj' = Append(proj, i)
          /\ mem' = IF delivery = "guide" /\ exec # Idle
                    THEN Append(mem, i) ELSE mem
          /\ UNCHANGED <<exec, ran>>
    /\ UNCHANGED <<drain, noticeVars, promoVars, cmd, gate, evalDue, removed,
                   overlapped>>

\* stopActiveForegroundExecution: a second abort changes nothing.
Aborted(keepQueue) ==
    IF exec = Idle \/ exec.aborted THEN exec
    ELSE [exec EXCEPT !.aborted = TRUE, !.keep = keepQueue]

\* sendText with requestedDelivery = startNow: lease first, then preempt.
StartNow(i) ==
    /\ UserFree /\ i \notin sent
    /\ lease = None
    /\ lease' = "user"
    /\ exec' = Aborted(TRUE)
    /\ pc' = [pc EXCEPT !["user"] = "wait"]
    /\ item' = [item EXCEPT !["user"] = i]
    /\ UNCHANGED <<queueVars, holder, noticeVars, cmd, gate, evalDue,
                   historyVars>>

\* enqueueRuntimeCommand with a task notification.
Notify(n) ==
    /\ n \notin notes \cup noticed
    /\ \/ /\ exec = Idle
          /\ RunNext(lease, notes \cup {n})
       \/ /\ exec # Idle
          /\ notes' = notes \cup {n}
          /\ UNCHANGED <<exec, noticed>>
    /\ UNCHANGED <<queueVars, promoVars, cmd, gate, evalDue, historyVars>>

-----------------------------------------------------------------------------
(* The running turn *)

\* drainPendingInput: the first guide leaves the memory at once and the
\* projection only after attachments, history and prompt are written.
DrainTake ==
    /\ exec # Idle /\ drain = None /\ mem # <<>>
    /\ ~gate.external
    /\ holder[Head(mem)] = None
    /\ drain' = Head(mem)
    /\ mem' = Tail(mem)
    /\ Ran(Head(mem))
    /\ overlapped' = overlapped \cup (Read \cap {Head(mem)}) \cup Shifted
    /\ UNCHANGED <<exec, proj, promoVars, noticeVars, cmd, gate, evalDue, sent,
                   removed>>

DrainDone ==
    /\ drain # None
    /\ proj' = Without(proj, drain)
    /\ drain' = None
    /\ UNCHANGED <<exec, mem, promoVars, noticeVars, cmd, gate, evalDue,
                   historyVars>>

\* The end of the turn: guides left in memory stay in the projection as
\* ordinary items; a failure, and a cancellation that is not a preemption,
\* pause the queue, each flag by its own test; the next batch is dequeued.
\* Only a user prompt is followed by an evaluation of the automatic drain.
EndTurn(outcome) ==
    /\ exec # Idle /\ drain = None
    /\ outcome = "cancelled" => exec.aborted
    /\ LET cancelled == outcome = "cancelled" /\ ~exec.keep
           failed    == outcome = "failed"
           holdCore  == \/ failed /\ proj # <<>>
                        \/ cancelled /\ mem # <<>>
           holdV4    == (failed \/ cancelled) /\ Visible # <<>>
       IN  gate' = [v4 |-> gate.v4 /\ ~holdV4,
                    core |-> gate.core /\ ~holdCore,
                    external |-> gate.external /\ ~holdCore]
    /\ mem' = <<>>
    /\ cmd' = [cmd EXCEPT !.live = FALSE]
    /\ evalDue' = (evalDue \/ exec.kind = "prompt")
    /\ RunNext(lease, notes)
    /\ UNCHANGED <<drain, proj, promoVars, historyVars>>

\* stop: abort, and pause a queue that is not empty.
Stop ==
    /\ UserFree
    /\ exec # Idle /\ ~exec.aborted
    /\ exec' = Aborted(FALSE)
    /\ gate' = IF Visible = <<>> THEN gate ELSE Authorised(FALSE)
    /\ UNCHANGED <<queueVars, promoVars, noticeVars, cmd, evalDue, historyVars>>

SetAutoDrain(b) ==
    /\ UserFree
    /\ gate' = Authorised(b)
    /\ evalDue' = (evalDue \/ b)
    /\ UNCHANGED <<exec, queueVars, promoVars, noticeVars, cmd, historyVars>>

-----------------------------------------------------------------------------
(* Queue commands: each reads the queue, awaits the store, then writes *)

\* The order with i moved before b, or to the end when b is not there.
Moved(s, i, b) ==
    LET rest == Without(s, i)
    IN  IF b \in ToSet(rest) THEN InsertAt(rest, SelectInSeq(rest, LAMBDA x : x = b), i)
        ELSE Append(rest, i)

Reads(op, i, order) ==
    /\ UserFree
    /\ i \in ToSet(proj)
    /\ cmd' = [op |-> op, item |-> i, live |-> i \in ToSet(mem),
               index |-> IF i \in ToSet(mem)
                         THEN SelectInSeq(mem, LAMBDA x : x = i) ELSE 0,
               order |-> order]
    /\ UNCHANGED <<exec, queueVars, promoVars, noticeVars, gate, evalDue, sent,
                   ran, removed>>
    /\ NoteOverlap

DeleteRead(i) == holder[i] = None /\ Reads("delete", i, <<>>)
EditRead(i)   == Reads("edit", i, <<>>)
ReorderRead(i, b) ==
    Reads("reorder", i, Moved(IF i \in ToSet(mem) THEN mem ELSE proj, i, b))

\* removePendingInputById: the position read earlier is cut out of the memory.
DeleteWrite ==
    /\ cmd.op = "delete"
    /\ mem' = IF cmd.live /\ cmd.index <= Len(mem)
              THEN RemoveAt(mem, cmd.index) ELSE mem
    /\ proj' = Without(proj, cmd.item)
    /\ holder' = [holder EXCEPT ![cmd.item] = None]
    /\ removed' = removed \cup {cmd.item}
    /\ UNCHANGED ran

\* editPendingInputById sends the queued event again: a present item keeps
\* its place, an absent one is queued anew.
EditWrite ==
    /\ cmd.op = "edit"
    /\ proj' = IF cmd.item \in ToSet(proj) THEN proj
               ELSE Append(proj, cmd.item)
    /\ UNCHANGED <<mem, holder, removed, ran>>

\* reorderPendingInput: the memory becomes the order read earlier.
ReorderWrite ==
    /\ cmd.op = "reorder"
    /\ mem' = IF cmd.live THEN cmd.order ELSE mem
    /\ proj' = Only(cmd.order, ToSet(proj))
               \o Only(proj, Inputs \ ToSet(cmd.order))
    /\ UNCHANGED <<holder, removed, ran>>

CmdWrite ==
    /\ DeleteWrite \/ EditWrite \/ ReorderWrite
    /\ cmd' = NoCmd
    /\ UNCHANGED <<exec, drain, lease, pc, item, noticeVars, gate, evalDue,
                   sent, overlapped>>

-----------------------------------------------------------------------------
(* Promotion: sendQueuedNow, by the user or by the automatic drain *)

SendNow(i) ==
    /\ UserFree
    /\ i \in ToSet(Visible)
    /\ pc' = [pc EXCEPT !["user"] = "reserve"]
    /\ item' = [item EXCEPT !["user"] = i]
    /\ UNCHANGED <<exec, queueVars, holder, lease, noticeVars, cmd, gate,
                   evalDue, historyVars>>

\* autoDrainV4QueueIfReady reads the head; while something runs it retries.
AutoPick ==
    /\ evalDue /\ pc["auto"] = "idle"
    /\ \/ /\ Visible = <<>>                       \* completeExternalQueueDrain
          /\ gate' = [gate EXCEPT !.external = FALSE]
          /\ evalDue' = FALSE
          /\ UNCHANGED <<pc, item>>
       \/ /\ Visible # <<>>
          /\ ~gate.v4 \/ holder[Head(Visible)] # None
          /\ evalDue' = FALSE
          /\ UNCHANGED <<gate, pc, item>>
       \/ /\ Visible # <<>>
          /\ gate.v4 /\ holder[Head(Visible)] = None
          /\ exec = Idle
          /\ pc' = [pc EXCEPT !["auto"] = "picked"]
          /\ item' = [item EXCEPT !["auto"] = Head(Visible)]
          /\ evalDue' = FALSE
          /\ UNCHANGED gate
    /\ UNCHANGED <<exec, queueVars, holder, lease, noticeVars, cmd, historyVars>>

Done(p) == /\ pc' = [pc EXCEPT ![p] = "idle"]
           /\ item' = [item EXCEPT ![p] = None]

\* A mutant of GiveUp: the lease is released without a look at the commands
\* that waited behind it.
GiveUpSilently(p) ==
    /\ Done(p)
    /\ lease' = IF lease = p THEN None ELSE lease
    /\ holder' = [i \in Inputs |->
                    IF i = item[p] /\ holder[i] = p THEN None ELSE holder[i]]
    /\ gate' = IF p = "auto" THEN Authorised(FALSE) ELSE gate
    /\ UNCHANGED <<exec, queueVars, noticeVars, cmd, evalDue, historyVars>>

\* A mutant of GiveUp: only the reservation is given back.
GiveUpKeepingLease(p) ==
    /\ Done(p)
    /\ holder' = [i \in Inputs |->
                    IF i = item[p] /\ holder[i] = p THEN None ELSE holder[i]]
    /\ gate' = IF p = "auto" THEN Authorised(FALSE) ELSE gate
    /\ UNCHANGED <<exec, queueVars, lease, noticeVars, cmd, evalDue,
                   historyVars>>

\* The finally block: the lease is released, which wakes the command queue,
\* and the reservation is given back; the automatic drain pauses the queue.
GiveUp(p) ==
    /\ Done(p)
    /\ lease' = IF lease = p THEN None ELSE lease
    /\ \/ exec = Idle /\ RunNext(lease', notes)
       \/ exec # Idle /\ UNCHANGED <<exec, notes, noticed>>
    /\ holder' = [i \in Inputs |->
                    IF i = item[p] /\ holder[i] = p THEN None ELSE holder[i]]
    /\ gate' = IF p = "auto" THEN Authorised(FALSE) ELSE gate
    /\ UNCHANGED <<queueVars, cmd, evalDue, historyVars>>

\* acquireForegroundPromotionLease, idle-only: a busy runtime is a retry.
AutoLease ==
    /\ pc["auto"] = "picked"
    /\ \/ /\ item["auto"] \in ToSet(Visible) /\ ~Busy
          /\ lease' = "auto"
          /\ pc' = [pc EXCEPT !["auto"] = "reserve"]
          /\ UNCHANGED <<exec, queueVars, holder, noticeVars, item, cmd, gate,
                         evalDue, historyVars>>
       \/ /\ item["auto"] \in ToSet(Visible) /\ Busy
          /\ evalDue' = TRUE
          /\ Done("auto")
          /\ UNCHANGED <<exec, queueVars, holder, lease, noticeVars, cmd, gate,
                         historyVars>>
       \/ /\ item["auto"] \notin ToSet(Visible)
          /\ GiveUp("auto")

\* A mutant of Queued: whether the item is still there is not asked.
QueuedOnce(i) == i \in sent

\* The item is found in the memory or in the projection.
Queued(i) == i \in ToSet(mem) \cup ToSet(proj)

\* reservePendingInputById.
Reserve(p) ==
    /\ pc[p] = "reserve"
    /\ \/ /\ Queued(item[p]) /\ holder[item[p]] = None
          /\ holder' = [holder EXCEPT ![item[p]] = p]
          /\ pc' = [pc EXCEPT ![p] = IF p = "auto" THEN "wait" ELSE "reserved"]
          /\ UNCHANGED <<exec, queueVars, lease, noticeVars, item, cmd, gate,
                         evalDue, historyVars>>
       \/ /\ ~Queued(item[p]) \/ holder[item[p]] # None
          /\ GiveUp(p)

\* acquireForegroundPromotionLease, after-current, then the preemption.
LeaseAndStop ==
    /\ pc["user"] = "reserved"
    /\ \/ /\ lease = None
          /\ lease' = "user"
          /\ exec' = Aborted(TRUE)
          /\ pc' = [pc EXCEPT !["user"] = "wait"]
          /\ UNCHANGED <<queueVars, holder, noticeVars, item, cmd, gate,
                         evalDue, historyVars>>
       \/ lease # None /\ GiveUp("user")

\* An input sent with startNow is not in the queue.
Direct(p) == item[p] \notin sent

\* markPendingInputPromoting, once nothing runs.
Mark(p) ==
    /\ pc[p] = "wait"
    /\ p = "user" => exec = Idle
    /\ \/ /\ Direct(p) \/ (holder[item[p]] = p /\ Queued(item[p]))
          /\ pc' = [pc EXCEPT ![p] = "marked"]
          /\ UNCHANGED <<exec, queueVars, holder, lease, noticeVars, item, cmd,
                         gate, evalDue, sent, ran, removed>>
          /\ NoteOverlap
       \/ /\ ~Direct(p) /\ ~(holder[item[p]] = p /\ Queued(item[p]))
          /\ GiveUp(p)

\* waitForSessionIdle gives up after IDLE_POLL_TIMEOUT_MS.
WaitTimeout == pc["user"] = "wait" /\ exec # Idle /\ GiveUp("user")

\* admitPrompt with requireIdle; a pending notification makes it busy.
Admit(p) ==
    /\ pc[p] = "marked"
    /\ \/ /\ exec = Idle /\ notes = {} /\ lease = p
          /\ exec' = Run("prompt")
          /\ lease' = None
          /\ Ran(item[p])
          /\ sent' = sent \cup {item[p]}
          /\ UNCHANGED <<queueVars, holder, noticeVars, cmd, gate, evalDue,
                         removed>>
          /\ \/ Direct(p) /\ Done(p) /\ UNCHANGED overlapped
             \/ /\ ~Direct(p)
                /\ pc' = [pc EXCEPT ![p] = "remove"]
                /\ UNCHANGED item
                /\ NoteOverlap
       \/ /\ ~(exec = Idle /\ notes = {} /\ lease = p)
          /\ GiveUp(p)

\* removePendingInputById, reason "promoted".  When the item is not found the
\* command fails after the turn has started and nothing is given back.
RemovePromoted(p) ==
    /\ pc[p] = "remove"
    /\ \/ /\ holder[item[p]] \in {None, p} /\ Queued(item[p])
          /\ proj' = Without(proj, item[p])
          /\ mem' = Without(mem, item[p])
          /\ holder' = [holder EXCEPT ![item[p]] = None]
          /\ UNCHANGED gate
       \/ /\ ~(holder[item[p]] \in {None, p} /\ Queued(item[p]))
          /\ gate' = IF p = "auto" THEN Authorised(FALSE) ELSE gate
          /\ UNCHANGED <<proj, mem, holder>>
    /\ Done(p)
    /\ UNCHANGED <<exec, drain, lease, noticeVars, cmd, evalDue, historyVars>>

PromoterStep(p) == Reserve(p) \/ Mark(p) \/ Admit(p) \/ RemovePromoted(p)

-----------------------------------------------------------------------------
Turn == DrainDone \/ \E o \in {"done", "failed", "cancelled"} : EndTurn(o)

User ==
    \/ \E i \in Inputs : \/ \E d \in {"guide", "queue"} : SendText(i, d)
                         \/ StartNow(i)
                         \/ SendNow(i)
                         \/ DeleteRead(i)
                         \/ EditRead(i)
                         \/ \E b \in Inputs \cup {None} : ReorderRead(i, b)
    \/ Stop
    \/ \E b \in BOOLEAN : SetAutoDrain(b)

Next ==
    \/ User
    \/ \E n \in Notices : Notify(n)
    \/ DrainTake
    \/ Turn
    \/ CmdWrite
    \/ AutoPick \/ AutoLease
    \/ LeaseAndStop \/ WaitTimeout
    \/ \E p \in Promoters : PromoterStep(p)

\* A turn that runs ends, and the awaits of a command and of a promotion
\* return.  Nothing is assumed of the user, of the notifications or of when a
\* turn reaches the boundary at which it takes a guide.
Fairness ==
    /\ WF_vars(Turn)
    /\ WF_vars(CmdWrite)
    /\ WF_vars(AutoPick) /\ WF_vars(AutoLease)
    /\ WF_vars(LeaseAndStop)
    /\ \A p \in Promoters : WF_vars(PromoterStep(p))

Spec     == Init /\ [][Next]_vars
FairSpec == Spec /\ Fairness

-----------------------------------------------------------------------------
(* Properties *)

\* Where a promoter that owns the lease is.
Leased(p) == \/ pc[p] \in {"wait", "marked"}
             \/ p = "auto" /\ pc[p] = "reserve"

\* The promotion lease always belongs to a promotion that is still going on;
\* under the lease nothing else starts, so a marked item meets an idle runtime;
\* and no notification is left waiting in a runtime that neither runs anything
\* nor is leased.  A lease that outlived its owner would leave the session busy
\* for ever.
LeaseAccounted ==
    /\ \A p \in Promoters : lease = p <=> Leased(p)
    /\ \A p \in Promoters :
          pc[p] = "marked" \/ (p = "auto" /\ lease = p) => exec = Idle
    /\ exec = Idle /\ lease = None => notes = {}

\* Every accepted input is still queued, or was handed to a turn, or its
\* deletion was accepted: no ending of a turn, failed promotion or lost race
\* drops it.  Unless the user's own command on the queue had read it while it
\* was being consumed, it is handed to a turn once and never after its
\* deletion.  And it is reserved only while its promotion goes on: a
\* reservation that outlived it could be neither promoted nor deleted again.
InputsSettleOnce ==
    /\ \A i \in sent : i \in ToSet(proj) \/ ran[i] > 0 \/ i \in removed
    /\ \A i \in Inputs \ overlapped :
          ran[i] <= 1 /\ (i \in removed => ran[i] = 0)
    /\ \A i \in Inputs, p \in Promoters :
          holder[i] = p => /\ item[p] = i
                           /\ pc[p] \in {"reserved", "wait", "marked", "remove"}

\* A promotion that has passed the stop barrier and marked its item either
\* starts it as the next execution or finds a notification in the queue; once
\* it is started, the item leaves the queue with its reservation.
PromotionsCommit ==
    [][\A p \in Promoters :
         /\ pc[p] = "marked" /\ pc'[p] # "marked" =>
               \/ exec'.kind = "prompt" /\ ran'[item[p]] > ran[item[p]]
               \/ notes # {}
               \/ item[p] \in overlapped'
         /\ pc[p] = "remove" /\ pc'[p] # "remove" =>
               \/ item[p] \notin ToSet(proj') /\ holder'[item[p]] = None
               \/ item[p] \in overlapped']_vars

\* A notification is eventually handed to a turn and a promotion eventually
\* ends, provided that the user does not rearrange the queue for ever.
QueueAnswers ==
    <>[](cmd = NoCmd) =>
        /\ \A n \in Notices : n \in notes ~> n \in noticed
        /\ \A p \in Promoters : pc[p] # "idle" ~> pc[p] = "idle"

\* removePendingInputById removes an item of the running turn "by id" and the
\* command is accepted: the turn never takes that guide afterwards.
DeletedGuideNotTaken ==
    [][\A i \in removed : drain' = i => drain = i]_vars

\* The comment of dequeueNextRunnableBatch: with the lease no notification
\* overtakes the command that is promoted.
LeaseKeepsOrder ==
    [][\A p \in Promoters :
         pc[p] = "marked" /\ exec'.kind = "notice" => exec.kind = "notice"]_vars

\* The comment in the catch of the turn: the runtime's drain flag is switched
\* together with the projection's.
GatesAgree == gate.core = gate.v4
=============================================================================
