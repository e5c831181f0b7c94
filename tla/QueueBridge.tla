----------------------------- MODULE QueueBridge -----------------------------
(* The bridge between a chat and the durable task graph, queueBridge.ts: the *)
(* intents it records before a reply leaves, the sweep that puts them on the *)
(* queue, follow-ups that amend a task, the reconciler that relaunches an     *)
(* interrupted one, the consumer of the queue's event log with its cursor and *)
(* outbox, and the watch for an absent lane.  The queue (graph_queue.rs), the *)
(* lane that works on it and the gateway are what the bridge sees of them.    *)
(*                                                                            *)
(* A row of the outbox is named by a key: the number of the event it reports, *)
(* or a negative number for a note (an answer to a follow-up, an operator     *)
(* note).  All tasks are of one project and every note has a text of its own. *)
EXTENDS Integers, Sequences, FiniteSets

CONSTANTS
    Tasks,        \* tasks the chat asks for; "none" is none of them
    MaxAsks,      \* bound: follow-ups
    MaxEvents,    \* bound: events before the lane and the operator stop
    MaxTrouble    \* bound: follow-ups, crashes, failed reads, uncertain commands
                  \* and sends, ticks that find the lane absent; all together

ASSUME BridgeAssumption == {MaxAsks, MaxEvents, MaxTrouble} \subseteq Nat

Asks == 1 .. MaxAsks
Agents == {0} \cup Asks        \* who may carry a row to the chat: the tick, a turn
Tick == 0

VARIABLES
    card,      \* task_nodes: status and goal version of each task
    log,       \* task_events
    worker,    \* the process of each task: "none", "live", or "fenced" off
    mapped,    \* channel_tasks: "none", "creating", "queued"
    outbox,    \* channel_task_outbox: sets of keys, by state
    cursor,    \* queue_event_consumers
    thread,    \* keys whose message is in the chat
    told,      \* how often the message of an event reached it
    blurred,   \* events for whose delivery evidence was not to be had
    pc,        \* the tick: "down": no process
    todo,      \* tasks a running sweep still puts
    sweeping,  \* the guard of the sweep
    pos, end,  \* the batch of events being consumed
    queue,     \* keys deliverPendingOutbox still delivers
    carry,     \* the row each agent delivers, and how far it is
    ask,       \* the follow-ups: where, which task, and the card as it was read
    arm,       \* reconciles: off, armed, stopped, ripe, expired
    seen,      \* reconcileSeq
    round,     \* tasks the reconciler or the watch still looks at
    rearming,  \* rearmReconciles has not run yet
    stalled,   \* channel_tasks.stall_notified_at is set
    notes,     \* note keys given out
    trouble    \* how much of MaxTrouble is used

graph == <<card, log, worker>>
chat == <<thread, told, blurred>>
store == <<mapped, outbox, cursor, stalled, notes>>
tick == <<pc, todo, sweeping, pos, end, queue, round>>
recon == <<arm, seen, rearming>>
vars == <<graph, chat, store, tick, recon, carry, ask, trouble>>

Status == {"none", "pending", "running", "interrupted", "blocked", "done", "cancelled"}
Open == {"pending", "running", "blocked", "interrupted"}
Reported == {"done", "blocked", "interrupted", "cancelled"}
Card == [status : Status, version : Nat]
NoCard == [status |-> "none", version |-> 0]
NoAsk == [at |-> "none", task |-> "none", saw |-> NoCard]
Asked == [NoAsk EXCEPT !.at = "over"]
Idle == [key |-> 0, at |-> "idle"]

Rows == outbox.sending \cup outbox.uncertain \cup outbox.sent

\* eventText: the events a mapped chat is told of.
Reportable(e) ==
    /\ mapped[e.task] # "none"
    /\ \/ e.kind = "goal_updated"
       \/ e.kind = "state_changed" /\ e.status \in Reported

\* Two rows with the same words: a repeated outcome, the same goal version.
SameText(j, k) ==
    \/ j = k
    \/ /\ j > 0 /\ k > 0
       /\ log[j].task = log[k].task /\ log[j].kind = log[k].kind
       /\ IF log[j].kind = "goal_updated" THEN log[j].version = log[k].version
                                          ELSE log[j].status = log[k].status

Trouble == trouble < MaxTrouble /\ trouble' = trouble + 1

Init ==
    /\ card = [t \in Tasks |-> NoCard] /\ log = <<>> /\ worker = [t \in Tasks |-> "none"]
    /\ mapped = [t \in Tasks |-> "none"] /\ stalled = {} /\ notes = 0 /\ cursor = 0
    /\ outbox = [sending |-> {}, uncertain |-> {}, sent |-> {}]
    /\ thread = {} /\ told = <<>> /\ blurred = {}
    /\ pc = "down" /\ todo = {} /\ sweeping = FALSE /\ pos = 0 /\ end = 0
    /\ queue = {} /\ round = {}
    /\ carry = [a \in Agents |-> Idle] /\ ask = [i \in Asks |-> NoAsk]
    /\ arm = [t \in Tasks |-> "off"] /\ seen = 0 /\ rearming = FALSE
    /\ trouble = 0

-----------------------------------------------------------------------------
(* The queue.  One UPDATE of a card writes one event: the trigger names it    *)
(* goal_updated whenever the version moved, whatever the status did.          *)

Update(t, to, v) ==
    /\ card' = [card EXCEPT ![t] = [status |-> to, version |-> v]]
    /\ log' = Append(log, [task |-> t, status |-> to, version |-> v,
                  kind |-> IF card[t].status = "none" THEN "created"
                           ELSE IF v # card[t].version THEN "goal_updated"
                           ELSE "state_changed"])
    /\ told' = Append(told, 0)

Move(t, to) == Update(t, to, card[t].version)

LaneStep == Len(log) < MaxEvents /\ UNCHANGED <<thread, blurred, store, tick, recon, carry, ask, trouble>>

\* The lane: queue run claims a pending card, a worker runs it to an end.
Claim(t) ==
    /\ card[t].status = "pending" /\ LaneStep
    /\ Move(t, "running") /\ worker' = [worker EXCEPT ![t] = "live"]

Finish(t, to) ==
    /\ card[t].status = "running" /\ LaneStep
    /\ Move(t, to) /\ worker' = [worker EXCEPT ![t] = "none"]

Cancel(t) ==
    /\ card[t].status \in {"pending", "running", "blocked"} /\ LaneStep
    /\ Move(t, IF card[t].status = "running" THEN "interrupted" ELSE "cancelled")
    /\ worker' = [worker EXCEPT ![t] = IF card[t].status = "running" THEN "fenced" ELSE @]

\* The lease runs out and the worker lives: the next claim interrupts the card.
Lapse(t) ==
    /\ card[t].status = "running" /\ LaneStep
    /\ Move(t, "interrupted") /\ UNCHANGED worker

\* The watchdog kills a worker that was fenced off; one whose lease ran out ends.
WorkerStops(t) ==
    /\ worker[t] # "none" /\ card[t].status # "running"
    /\ worker' = [worker EXCEPT ![t] = "none"]
    /\ UNCHANGED <<card, log, chat, store, tick, recon, carry, ask, trouble>>

-----------------------------------------------------------------------------
(* Journalling and delivering a row.                                          *)

Journal(k) == outbox' = [outbox EXCEPT !.sending = @ \cup {k}]
MarkSent(k) == outbox' = [sending |-> outbox.sending \ {k}, uncertain |-> outbox.uncertain \ {k},
                          sent |-> outbox.sent \cup {k}]
MarkUncertain(k) == outbox' = [sending |-> outbox.sending \ {k}, sent |-> outbox.sent \ {k},
                               uncertain |-> outbox.uncertain \cup {k}]

\* Mutant of Deliver: an uncertain row is sent again without a look.
DeliverBlindly(k) == [key |-> k, at |-> IF k \in outbox.sent THEN "done" ELSE "send"]

\* deliverOutboxRow, up to its first await: a first pass sends, a later one looks.
Deliver(k) ==
    [key |-> k, at |-> IF k \in outbox.sent THEN "done"
                       ELSE IF k \in outbox.uncertain THEN "look" ELSE "send"]

Note == -(notes + 1)
SendNote(a) == 
    /\ Journal(Note) /\ notes' = notes + 1
    /\ carry' = [carry EXCEPT ![a] = [key |-> Note, at |-> "send"]]

Arrive(k) ==
    /\ thread' = thread \cup {k}
    /\ told' = IF k > 0 THEN [told EXCEPT ![k] = @ + 1] ELSE told

At(a, at) == carry' = [carry EXCEPT ![a].at = at]
Blur(ks) == blurred' = blurred \cup {k \in ks : k > 0}

\* findDelivered: the words of the row among the recent messages of the thread.
Look(a) ==
    LET k == carry[a].key IN
    /\ carry[a].at = "look"
    /\ \/ /\ \E j \in thread : SameText(j, k)
          /\ MarkSent(k) /\ At(a, "done") /\ UNCHANGED <<blurred, trouble>>
       \/ /\ \A j \in thread : ~SameText(j, k)
          /\ At(a, "send") /\ UNCHANGED <<outbox, blurred, trouble>>
       \/ Trouble /\ Blur({k}) /\ At(a, "send") /\ UNCHANGED outbox
    /\ UNCHANGED <<graph, thread, told, mapped, cursor, stalled, notes, tick, recon, ask>>

\* sendText: accepted; or uncertain, with the message in the chat or without.
Send(a) ==
    LET k == carry[a].key IN
    /\ carry[a].at = "send"
    /\ \/ Arrive(k) /\ MarkSent(k) /\ At(a, "done") /\ UNCHANGED trouble
       \/ Trouble /\ Arrive(k) /\ MarkUncertain(k) /\ At(a, "failed")
       \/ Trouble /\ MarkUncertain(k) /\ At(a, "failed") /\ UNCHANGED <<thread, told>>
    /\ UNCHANGED <<graph, blurred, mapped, cursor, stalled, notes, tick, recon, ask>>

Over(a) == carry[a].at \in {"done", "failed"}
Free(a) == carry' = [carry EXCEPT ![a] = Idle]

-----------------------------------------------------------------------------
(* What a turn leaves behind.                                                 *)

Sweepable == {t \in Tasks : mapped[t] = "creating"}

\* planReply: the intent is durable before the reply; the sweep starts with it.
Plan(t) ==
    /\ pc # "down" /\ mapped[t] = "none"
    /\ mapped' = [mapped EXCEPT ![t] = "creating"]
    /\ sweeping' = TRUE
    /\ todo' = IF sweeping THEN todo ELSE Sweepable \cup {t}
    /\ UNCHANGED <<graph, chat, outbox, cursor, stalled, notes, pc, pos, end, queue, round,
                   recon, carry, ask, trouble>>

\* putTask: refused once the card has left pending; an edit of it until then.
PutRefused(t) == card[t].status \notin {"none", "pending"}
PutLands(t) == ~PutRefused(t) /\ Update(t, "pending", card[t].version + 1)

Swept(t) ==
    /\ todo' = todo \ {t} /\ sweeping' = (todo' # {})
    /\ pc' = IF pc = "sweep" /\ todo' = {} THEN "swept" ELSE pc

Put(t) ==
    /\ t \in todo
    /\ \/ PutLands(t) /\ mapped' = [mapped EXCEPT ![t] = "queued"] /\ UNCHANGED trouble
       \/ PutRefused(t) /\ UNCHANGED <<card, log, told, mapped, trouble>>
       \/ Trouble /\ PutLands(t) /\ UNCHANGED mapped
       \/ Trouble /\ UNCHANGED <<card, log, told, mapped>>
    /\ Swept(t)
    /\ UNCHANGED <<worker, thread, blurred, outbox, cursor, stalled, notes, pos, end,
                   queue, round, recon, carry, ask>>

\* routeFollowup reads the graph; which open task is meant is the routing's choice.
ReadGraph(i, t) ==
    /\ pc # "down" /\ ask[i].at = "none" /\ Trouble
    /\ mapped[t] # "none" /\ card[t].status \in Open
    /\ ask' = [ask EXCEPT ![i] = [at |-> "amend", task |-> t, saw |-> card[t]]]
    /\ UNCHANGED <<graph, chat, store, tick, recon, carry>>

\* Unreadable, ambiguous, another project, or nothing open: the chat is asked.
AskBack(i) ==
    /\ pc # "down" /\ ask[i].at = "none" /\ Trouble
    /\ ask' = [ask EXCEPT ![i].at = "note"] /\ SendNote(i)
    /\ UNCHANGED <<graph, chat, mapped, cursor, stalled, tick, recon>>

\* amend takes the version the bridge read; a running card loses its worker.
Amends(t, v) ==
    /\ card[t].version = v /\ card[t].status \in Open
    /\ Update(t, IF card[t].status = "running" THEN "interrupted" ELSE card[t].status, v + 1)
    /\ worker' = [worker EXCEPT ![t] = IF card[t].status = "running" THEN "fenced" ELSE @]

Amend(i) ==
    LET t == ask[i].task   v == ask[i].saw.version IN
    /\ ask[i].at = "amend"
    /\ \/ Amends(t, v) /\ ask' = [ask EXCEPT ![i].at = "amended"] /\ UNCHANGED trouble
       \/ /\ ~(card[t].version = v /\ card[t].status \in Open)
          /\ ask' = [ask EXCEPT ![i].at = "refused"] /\ UNCHANGED <<graph, told, trouble>>
       \/ Trouble /\ Amends(t, v) /\ ask' = [ask EXCEPT ![i] = Asked]
       \/ Trouble /\ ask' = [ask EXCEPT ![i] = Asked] /\ UNCHANGED <<graph, told>>
    /\ UNCHANGED <<thread, blurred, store, tick, recon, carry>>

\* The answer of the queue: wait for the worker if the card read was running.
Applied(i) ==
    /\ ask[i].at \in {"amended", "refused"}
    /\ arm' = IF ask[i].at = "amended" /\ ask[i].saw.status = "running"
              THEN [arm EXCEPT ![ask[i].task] = "armed"] ELSE arm
    /\ ask' = [ask EXCEPT ![i] = [NoAsk EXCEPT !.at = "note"]] /\ SendNote(i)
    /\ UNCHANGED <<graph, chat, mapped, cursor, stalled, tick, seen, rearming, trouble>>

Noted(i) ==
    /\ ask[i].at = "note" /\ Over(i) /\ Free(i)
    /\ ask' = [ask EXCEPT ![i] = Asked]
    /\ UNCHANGED <<graph, chat, store, tick, recon, trouble>>

-----------------------------------------------------------------------------
(* The tick.                                                                  *)

Ready == carry[Tick].at \in {"idle", "done", "failed"}

\* A sweep that is already running is not joined, nor waited for.
Wake ==
    /\ pc = "idle"
    /\ IF sweeping \/ Sweepable = {}
       THEN pc' = "swept" /\ UNCHANGED <<todo, sweeping>>
       ELSE pc' = "sweep" /\ todo' = Sweepable /\ sweeping' = TRUE
    /\ UNCHANGED <<graph, chat, store, pos, end, queue, round, recon, carry, ask, trouble>>

\* Mutant of Pending: rows a crash left in the middle of a send are forgotten.
PendingUncertain ==
    /\ pc = "swept" /\ pc' = "outbox"
    /\ queue' = outbox.uncertain
    /\ UNCHANGED <<graph, chat, store, todo, sweeping, pos, end, round, recon, carry, ask, trouble>>

Pending ==
    /\ pc = "swept" /\ pc' = "outbox"
    /\ queue' = outbox.sending \cup outbox.uncertain
    /\ UNCHANGED <<graph, chat, store, todo, sweeping, pos, end, round, recon, carry, ask, trouble>>

Resend(k) ==
    /\ pc = "outbox" /\ Ready /\ k \in queue
    /\ queue' = queue \ {k} /\ carry' = [carry EXCEPT ![Tick] = Deliver(k)]
    /\ UNCHANGED <<graph, chat, store, pc, todo, sweeping, pos, end, round, recon, ask, trouble>>

\* events-read fails: the cursor stays and the tick is over.
Consume ==
    /\ pc = "outbox" /\ queue = {} /\ Ready
    /\ Free(Tick)
    /\ \/ /\ pc' = "events" /\ pos' = cursor /\ end' = Len(log) /\ UNCHANGED trouble
       \/ Trouble /\ pc' = "idle" /\ UNCHANGED <<pos, end>>
    /\ UNCHANGED <<graph, chat, store, todo, sweeping, queue, round, recon, ask>>

\* Passed over: what nobody is told of, and what the outbox already holds.
Untold(s) == Reportable(log[s]) /\ s \notin Rows

Report(s) ==
    /\ pc = "events" /\ carry[Tick].at = "idle" /\ s \in pos + 1 .. end
    /\ Untold(s) /\ \A r \in pos + 1 .. s - 1 : ~Untold(r)
    /\ pos' = s - 1 /\ Journal(s) /\ carry' = [carry EXCEPT ![Tick] = [key |-> s, at |-> "send"]]
    /\ UNCHANGED <<graph, chat, mapped, cursor, stalled, notes, pc, todo, sweeping, end, queue,
                   round, recon, ask, trouble>>

Advance ==
    /\ pc = "events" /\ carry[Tick].at = "done" /\ Free(Tick)
    /\ pos' = carry[Tick].key
    /\ UNCHANGED <<graph, chat, store, pc, todo, sweeping, end, queue, round, recon, ask, trouble>>

\* Mutant of Commit: the whole batch counts as consumed.
CommitBatch ==
    /\ pc = "events"
    /\ \/ carry[Tick].at = "failed"
       \/ carry[Tick].at = "idle" /\ \A s \in pos + 1 .. end : ~Untold(s)
    /\ Free(Tick) /\ cursor' = end /\ pos' = 0 /\ end' = 0
    /\ pc' = IF \A t \in Tasks : arm[t] = "off" THEN "watch" ELSE "reconcile"
    /\ UNCHANGED <<graph, chat, mapped, outbox, stalled, notes, todo, sweeping, queue,
                   round, recon, ask, trouble>>

\* The finally of consumeQueueEvents: however far the batch got.
Commit ==
    /\ pc = "events"
    /\ \/ carry[Tick].at = "failed" /\ cursor' = pos
       \/ /\ carry[Tick].at = "idle" /\ \A s \in pos + 1 .. end : ~Untold(s)
          /\ cursor' = end
    /\ Free(Tick) /\ pos' = 0 /\ end' = 0
    /\ pc' = IF \A t \in Tasks : arm[t] = "off" THEN "watch" ELSE "reconcile"
    /\ UNCHANGED <<graph, chat, mapped, outbox, stalled, notes, todo, sweeping, queue,
                   round, recon, ask, trouble>>

-----------------------------------------------------------------------------
(* reconcileRunningAmendments.  The clock: a worker that was fenced off is    *)
(* killed well within the settle window, and the timeout leaves the           *)
(* reconciler the polls it needs to have read the whole log.                  *)

Ripen(t) ==
    /\ arm[t] = "stopped" /\ worker[t] # "fenced"
    /\ arm' = [arm EXCEPT ![t] = "ripe"]
    /\ UNCHANGED <<graph, chat, store, tick, seen, rearming, carry, ask, trouble>>

Expire(t) ==
    /\ arm[t] = "armed" /\ seen = Len(log)
    /\ arm' = [arm EXCEPT ![t] = "expired"]
    /\ UNCHANGED <<graph, chat, store, tick, seen, rearming, carry, ask, trouble>>

\* The signal the reconciler waits for, among the events it has not read.
StopSeen(t) ==
    \E s \in seen + 1 .. Len(log) :
        log[s].task = t /\ log[s].kind = "state_changed" /\ log[s].status \in {"blocked", "interrupted"}

\* Mutant of ReadBack: a task is relaunched as soon as its interruption is seen.
ReadBackHastily ==
    /\ pc = "reconcile" /\ seen' = Len(log)
    /\ arm' = [t \in Tasks |-> IF arm[t] = "armed" /\ StopSeen(t) THEN "stopped" ELSE arm[t]]
    /\ round' = {t \in Tasks : arm'[t] \in {"stopped", "ripe"}} \X {"retry"}
                \cup {t \in Tasks : arm[t] = "expired"} \X {"give up"}
    /\ pc' = IF round' = {} THEN "watch" ELSE "judge"
    /\ UNCHANGED <<graph, chat, store, todo, sweeping, pos, end, queue, rearming, carry, ask, trouble>>

ReadBack ==
    /\ pc = "reconcile" /\ seen' = Len(log)
    /\ arm' = [t \in Tasks |-> IF arm[t] = "armed" /\ StopSeen(t) THEN "stopped" ELSE arm[t]]
    /\ round' = {t \in Tasks : arm[t] = "ripe"} \X {"retry"}
                \cup {t \in Tasks : arm[t] = "expired"} \X {"give up"}
    /\ pc' = IF round' = {} THEN "watch" ELSE "judge"
    /\ UNCHANGED <<graph, chat, store, todo, sweeping, pos, end, queue, rearming, carry, ask, trouble>>

\* events-read failed: the next tick reads again.
ReadFails ==
    /\ pc = "reconcile" /\ Trouble /\ pc' = "watch"
    /\ UNCHANGED <<graph, chat, store, todo, sweeping, pos, end, queue, round, recon, carry, ask>>

Disarm(t) == arm' = [arm EXCEPT ![t] = "off"]
Abort == pc' = "idle" /\ round' = {}

\* queue retry --reconciled yes; refused unless the card is blocked or interrupted.
Retries(t) == card[t].status \in {"blocked", "interrupted"} /\ Move(t, "pending")

Retry(t) ==
    /\ pc = "judge" /\ Ready /\ <<t, "retry">> \in round /\ Disarm(t)
    /\ \/ /\ Retries(t) /\ round' = round \ {<<t, "retry">>} /\ Free(Tick)
          /\ UNCHANGED <<outbox, notes, pc, trouble>>
       \/ /\ card[t].status \notin {"blocked", "interrupted"}
          /\ round' = round \ {<<t, "retry">>} /\ SendNote(Tick)
          /\ UNCHANGED <<card, log, told, pc, trouble>>
       \/ Trouble /\ Retries(t) /\ Abort /\ Free(Tick) /\ UNCHANGED <<outbox, notes>>
       \/ Trouble /\ Abort /\ Free(Tick) /\ UNCHANGED <<card, log, told, outbox, notes>>
    /\ UNCHANGED <<worker, thread, blurred, mapped, cursor, stalled, todo, sweeping, pos, end,
                   queue, seen, rearming, ask>>

GiveUp(t) ==
    /\ pc = "judge" /\ Ready /\ <<t, "give up">> \in round
    /\ Disarm(t) /\ round' = round \ {<<t, "give up">>} /\ SendNote(Tick)
    /\ UNCHANGED <<graph, chat, mapped, cursor, stalled, pc, todo, sweeping, pos, end, queue,
                   seen, rearming, ask, trouble>>

Judged ==
    /\ pc = "judge" /\ round = {} /\ Ready /\ Free(Tick) /\ pc' = "watch"
    /\ UNCHANGED <<graph, chat, store, todo, sweeping, pos, end, queue, round, recon, ask, trouble>>

-----------------------------------------------------------------------------
(* watchStalledTasks.  old: the queued tasks past the age that matters.       *)

Watch(old) ==
    /\ pc = "watch" /\ \A t \in old : mapped[t] = "queued"
    /\ stalled' = stalled \ {t \in old : card[t].status # "pending"}
    /\ round' = {t \in old \ stalled : /\ card[t].status = "pending"
                                      /\ \A u \in Tasks : card[u].status # "running"} \X {"stalled"}
    /\ IF round' = {} THEN pc' = "idle" /\ UNCHANGED trouble ELSE pc' = "tell" /\ Trouble
    /\ UNCHANGED <<graph, chat, mapped, outbox, cursor, notes, todo, sweeping, pos, end, queue,
                   recon, carry, ask>>

Tell(t) ==
    /\ pc = "tell" /\ carry[Tick].at = "idle" /\ <<t, "stalled">> \in round
    /\ SendNote(Tick) /\ round' = (round \ {<<t, "stalled">>}) \cup {<<t, "told">>}
    /\ UNCHANGED <<graph, chat, mapped, cursor, stalled, pc, todo, sweeping, pos, end, queue,
                   recon, ask, trouble>>

Told(t) ==
    /\ pc = "tell" /\ Over(Tick) /\ Free(Tick) /\ <<t, "told">> \in round
    /\ round' = round \ {<<t, "told">>} /\ stalled' = stalled \cup {t}
    /\ UNCHANGED <<graph, chat, mapped, outbox, cursor, notes, pc, todo, sweeping, pos, end, queue,
                   recon, ask, trouble>>

\* The end of a tick, or a failed read of the graph.
Rest ==
    /\ pc' = "idle"
    /\ \/ pc = "tell" /\ round = {} /\ Ready /\ UNCHANGED trouble
       \/ pc = "watch" /\ Trouble
    /\ UNCHANGED <<graph, chat, store, todo, sweeping, pos, end, queue, round, recon, carry, ask>>

-----------------------------------------------------------------------------
(* The process.                                                               *)

Start ==
    /\ pc = "down" /\ pc' = "idle" /\ rearming' = TRUE
    /\ UNCHANGED <<graph, chat, store, todo, sweeping, pos, end, queue, round, arm, seen, carry, ask, trouble>>

\* rearmReconciles: once per start, beside the first tick.
Rearm ==
    /\ pc # "down" /\ rearming /\ rearming' = FALSE
    /\ \/ /\ arm' = [t \in Tasks |->
                IF card[t].status = "interrupted" /\ mapped[t] # "none" /\ arm[t] = "off"
                THEN "armed" ELSE arm[t]]
          /\ UNCHANGED trouble
       \/ Trouble /\ UNCHANGED arm
    /\ UNCHANGED <<graph, chat, store, tick, seen, carry, ask>>

\* A message on its way to the gateway may still arrive.
Crash ==
    /\ pc # "down" /\ Trouble
    /\ LET sending == {carry[a].key : a \in {b \in Agents : carry[b].at = "send"}} IN
       /\ \E arrived \in SUBSET sending :
            /\ thread' = thread \cup arrived
            /\ told' = [s \in DOMAIN told |-> IF s \in arrived THEN told[s] + 1 ELSE told[s]]
       /\ Blur(sending)
    /\ pc' = "down" /\ todo' = {} /\ sweeping' = FALSE /\ pos' = 0 /\ end' = 0
    /\ queue' = {} /\ round' = {} /\ rearming' = FALSE /\ seen' = 0
    /\ carry' = [a \in Agents |-> Idle] /\ arm' = [t \in Tasks |-> "off"]
    /\ ask' = [i \in Asks |-> IF ask[i].at = "none" THEN NoAsk ELSE Asked]
    /\ UNCHANGED <<graph, store>>

Queue == \E t \in Tasks :
    \/ Claim(t) \/ Cancel(t) \/ Lapse(t) \/ WorkerStops(t)
    \/ \E to \in {"done", "blocked"} : Finish(t, to)

Turn ==
    \/ \E t \in Tasks : Plan(t)
    \/ \E i \in Asks : AskBack(i) \/ Amend(i) \/ Applied(i) \/ Noted(i)
                      \/ \E t \in Tasks : ReadGraph(i, t)

Clock == \E t \in Tasks : Ripen(t) \/ Expire(t)

TickStep ==
    \/ Wake \/ Pending \/ Consume \/ Advance \/ Commit
    \/ ReadBack \/ ReadFails \/ Judged \/ Rest
    \/ \E s \in 1 .. Len(log) : Report(s)
    \/ \E k \in queue : Resend(k)
    \/ \E t \in Tasks : Retry(t) \/ GiveUp(t) \/ Tell(t) \/ Told(t)
    \/ \E old \in SUBSET Tasks : Watch(old)

Carry == \E a \in Agents : Look(a) \/ Send(a)
Sweep == \E t \in Tasks : Put(t)

Next == Queue \/ Turn \/ Clock \/ Sweep \/ Carry \/ TickStep \/ Start \/ Rearm \/ Crash

\* The bridge polls as long as it runs and is restarted when it is down; what
\* it awaits answers.  The lane, the operator and the chat owe nothing.
Fairness ==
    /\ WF_vars(Start) /\ WF_vars(TickStep) /\ WF_vars(Look(Tick)) /\ WF_vars(Send(Tick))
    /\ \A t \in Tasks : WF_vars(Put(t))

Spec == Init /\ [][Next]_vars
FairSpec == Spec /\ Fairness

-----------------------------------------------------------------------------
(* Properties.                                                                *)

Event == [task : Tasks, kind : {"created", "goal_updated", "state_changed"},
          status : Status, version : Nat]

\* The queue, and what the bridge asks of it: every task of it is mapped.
GraphOK ==
    /\ card \in [Tasks -> Card] /\ worker \in [Tasks -> {"none", "live", "fenced"}]
    /\ log \in Seq(Event) /\ mapped \in [Tasks -> {"none", "creating", "queued"}]
    /\ todo \subseteq Tasks /\ \A t \in todo : mapped[t] # "none"
    /\ \A t \in Tasks : card[t].status # "none" => mapped[t] # "none"
    /\ \A s \in 1 .. Len(log) : mapped[log[s].task] # "none"
    /\ ask \in [Asks -> [at : {"none", "amend", "amended", "refused", "note", "over"},
                        task : Tasks \cup {"none"}, saw : Card]]
    /\ \A i \in Asks : ask[i].at = "amend" => ask[i].task \in Tasks

\* Rows name events that exist or notes given out, and whatever is delivered,
\* or is in the chat, was journalled first.
KeysOK ==
    /\ outbox \in [sending : SUBSET Int, uncertain : SUBSET Int, sent : SUBSET Int]
    /\ notes \in Nat /\ Rows \subseteq -notes .. Len(log)
    /\ told \in Seq(Nat) /\ Len(told) = Len(log)
    /\ thread \subseteq Rows /\ blurred \subseteq Rows /\ queue \subseteq Rows
    /\ carry \in [Agents -> [key : Int, at : {"idle", "look", "send", "done", "failed"}]]
    /\ \A a \in Agents : carry[a].at = "idle" \/ carry[a].key \in Rows

ControlOK ==
    /\ {cursor, pos, end, seen} \subseteq 0 .. Len(log) /\ trouble \in Nat
    /\ pc \in {"down", "idle", "sweep", "swept", "outbox", "events", "reconcile", "judge", "watch", "tell"}
    /\ {sweeping, rearming} \subseteq BOOLEAN /\ stalled \subseteq Tasks
    /\ arm \in [Tasks -> {"off", "armed", "stopped", "ripe", "expired"}]
    /\ round \subseteq Tasks \X {"retry", "give up", "stalled", "told"}

\* The types of the state.
TypeOK == GraphOK /\ KeysOK /\ ControlOK

\* Everything the chat is to be told of and the cursor has left behind is in
\* the outbox: no crash and no failed send loses an outcome.
PastIsJournalled ==
    \A s \in 1 .. cursor : Reportable(log[s]) => s \in Rows

\* A row is only marked sent when a message with its words is in the chat, and an
\* outcome reaches the chat once, unless the process died while it was being sent or the
\* history that would prove it delivered was unreadable.
DeliveredOnce ==
    /\ \A k \in outbox.sent : \E j \in thread : SameText(j, k)
    /\ \A s \in 1 .. Len(log) : told[s] > 1 => s \in blurred

Relaunched(t) == card[t].status \in {"blocked", "interrupted"} /\ card'[t].status = "pending"

\* A task is not relaunched while a worker that was fenced off may still write.
RelaunchAfterFence ==
    [][\A t \in Tasks : Relaunched(t) => worker[t] # "fenced"]_vars

\* What the reply promised is put on the queue in the end, and every outcome of a chat's
\* task is told in the end: its row is marked sent.
NothingForgotten ==
    /\ \A t \in Tasks : mapped[t] # "none" ~> card[t].status # "none"
    /\ \A s \in 1 .. MaxEvents + MaxAsks :
          (s <= Len(log) /\ Reportable(log[s])) ~> (s \in outbox.sent)

=============================================================================
