--------------------------- MODULE QueueBridgeProofs ---------------------------
(***************************************************************************)
(* Proofs about the bridge between a chat and the queue, for any tasks,    *)
(* follow-ups, events and faults: the types of its state; that the cursor  *)
(* of the event log never leaves an outcome behind that is not journalled  *)
(* in the outbox; that an outcome is told once unless its delivery was     *)
(* blurred; and that no task is relaunched over a fenced worker that has   *)
(* not ended.                                                              *)
(***************************************************************************)
EXTENDS QueueBridge, TLAPS

-----------------------------------------------------------------------------
(* The log and the outbox.                                                 *)

\* One UPDATE of a mapped card appends one event of that task.
LEMMA Updated ==
    ASSUME GraphOK, told \in Seq(Nat), Len(told) = Len(log),
           NEW t \in Tasks, NEW to \in Status, NEW v \in Nat, mapped[t] # "none", Update(t, to, v)
    PROVE  /\ card' = [card EXCEPT ![t] = [status |-> to, version |-> v]] /\ card' \in [Tasks -> Card]
           /\ log' \in Seq(Event) /\ Len(log') = Len(log) + 1
           /\ log'[Len(log) + 1].task = t /\ \A s \in 1 .. Len(log) : log'[s] = log[s]
           /\ told' \in Seq(Nat) /\ Len(told') = Len(log')
<1> DEFINE e == [task |-> t, status |-> to, version |-> v,
                 kind |-> IF card[t].status = "none" THEN "created"
                          ELSE IF v # card[t].version THEN "goal_updated" ELSE "state_changed"]
<1>1. e \in Event
  BY DEF Event
<1>2. log' = Append(log, e) /\ told' = Append(told, 0) /\ log \in Seq(Event)
  BY DEF Update, GraphOK
<1>3. card' = [card EXCEPT ![t] = [status |-> to, version |-> v]] /\ card' \in [Tasks -> Card]
  BY DEF Update, GraphOK, Card
<1> HIDE DEF e
<1>4. log' \in Seq(Event) /\ Len(log') = Len(log) + 1 /\ log'[Len(log) + 1] = e
      /\ \A s \in 1 .. Len(log) : log'[s] = log[s]
  BY <1>1, <1>2
<1>5. told' \in Seq(Nat) /\ Len(told') = Len(log')
  BY <1>2, <1>4
<1>6. e.task = t
  BY DEF e
<1> QED
  BY <1>3, <1>4, <1>5, <1>6

\* What a follow-up that is over, or was never asked, looks like.
LEMMA AskedType ==
    /\ NoAsk \in [at : {"none", "amend", "amended", "refused", "note", "over"}, task : Tasks \cup {"none"}, saw : Card]
    /\ Asked \in [at : {"none", "amend", "amended", "refused", "note", "over"}, task : Tasks \cup {"none"}, saw : Card]
    /\ NoAsk.at = "none" /\ Asked.at = "over"
BY DEF Asked, NoAsk, NoCard, Card, Status

\* An event of the log is of a task.
LEMMA LogTask ==
    ASSUME GraphOK, NEW s \in 1 .. Len(log)
    PROVE  log[s] \in Event /\ log[s].task \in Tasks
<1>1. log \in Seq(Event)
  BY DEF GraphOK
<1>2. log[s] \in Event
  BY <1>1
<1> QED
  BY <1>2 DEF Event

\* The events of a longer log are still of mapped tasks.
LEMMA StillMapped ==
    ASSUME GraphOK, told \in Seq(Nat), Len(told) = Len(log),
           NEW t \in Tasks, NEW to \in Status, NEW v \in Nat, mapped[t] # "none", Update(t, to, v),
           mapped' \in [Tasks -> {"none", "creating", "queued"}],
           \A u \in Tasks : mapped[u] # "none" => mapped'[u] # "none"
    PROVE  /\ \A u \in Tasks : card'[u].status # "none" => mapped'[u] # "none"
           /\ \A s \in 1 .. Len(log') : mapped'[log'[s].task] # "none"
<1>1. /\ card' = [card EXCEPT ![t] = [status |-> to, version |-> v]]
      /\ Len(log') = Len(log) + 1 /\ log'[Len(log) + 1].task = t
      /\ \A s \in 1 .. Len(log) : log'[s] = log[s]
  BY Updated
<1>2. \A u \in Tasks : card'[u].status # "none" => mapped'[u] # "none"
  BY <1>1 DEF GraphOK
<1>3. ASSUME NEW s \in 1 .. Len(log')
      PROVE  mapped'[log'[s].task] # "none"
  <2>0. Len(log) \in Nat
    BY DEF GraphOK
  <2>1. CASE s = Len(log) + 1
    BY <2>1, <1>1
  <2>2. CASE s # Len(log) + 1
    <3>1. s \in 1 .. Len(log) /\ log'[s] = log[s]
      BY <2>0, <2>2, <1>1
    <3>2. log[s].task \in Tasks /\ mapped[log[s].task] # "none"
      BY <3>1, LogTask DEF GraphOK
    <3> QED
      BY <3>1, <3>2
  <2> QED
    BY <2>1, <2>2
<1> QED
  BY <1>2, <1>3

\* Steps that leave the queue and what is asked of it alone.
LEMMA GraphSame ==
    ASSUME GraphOK, UNCHANGED <<card, log, worker, mapped, todo, ask>>
    PROVE  GraphOK'
BY DEF GraphOK

\* Every step keeps the queue and what is asked of it.
LEMMA GraphStep ==
    ASSUME GraphOK, told \in Seq(Nat), Len(told) = Len(log), [Next]_vars
    PROVE  GraphOK'
<1>1. ASSUME NEW t \in Tasks, Claim(t)
      PROVE  GraphOK'
  <2>1. Update(t, "running", card[t].version) /\ mapped' = mapped /\ todo' = todo /\ ask' = ask
        /\ mapped[t] # "none" /\ "running" \in Status /\ card[t].version \in Nat
    BY <1>1 DEF Claim, LaneStep, Move, GraphOK, Card, Status, store, tick
  <2>2. worker' \in [Tasks -> {"none", "live", "fenced"}]
    BY <1>1 DEF Claim, GraphOK, LaneStep
  <2> QED
    BY <2>1, <2>2, Updated, StillMapped DEF GraphOK
<1>2. ASSUME NEW t \in Tasks, Cancel(t)
      PROVE  GraphOK'
  <2>1. Update(t, (IF card[t].status = "running" THEN "interrupted" ELSE "cancelled"), card[t].version) /\ mapped' = mapped /\ todo' = todo /\ ask' = ask
        /\ mapped[t] # "none" /\ (IF card[t].status = "running" THEN "interrupted" ELSE "cancelled") \in Status /\ card[t].version \in Nat
    BY <1>2 DEF Cancel, LaneStep, Move, GraphOK, Card, Status, store, tick
  <2>2. worker' \in [Tasks -> {"none", "live", "fenced"}]
    BY <1>2 DEF Cancel, GraphOK, LaneStep
  <2> QED
    BY <2>1, <2>2, Updated, StillMapped DEF GraphOK
<1>3. ASSUME NEW t \in Tasks, Lapse(t)
      PROVE  GraphOK'
  <2>1. Update(t, "interrupted", card[t].version) /\ mapped' = mapped /\ todo' = todo /\ ask' = ask
        /\ mapped[t] # "none" /\ "interrupted" \in Status /\ card[t].version \in Nat
    BY <1>3 DEF Lapse, LaneStep, Move, GraphOK, Card, Status, store, tick
  <2>2. worker' \in [Tasks -> {"none", "live", "fenced"}]
    BY <1>3 DEF Lapse, GraphOK, LaneStep
  <2> QED
    BY <2>1, <2>2, Updated, StillMapped DEF GraphOK
<1>4. ASSUME NEW t \in Tasks, WorkerStops(t)
      PROVE  GraphOK'
  BY <1>4 DEF WorkerStops, GraphOK, chat, store, tick, recon
<1>5. ASSUME NEW t \in Tasks, NEW to \in {"done", "blocked"}, Finish(t, to)
      PROVE  GraphOK'
  <2>1. Update(t, to, card[t].version) /\ mapped' = mapped /\ todo' = todo /\ ask' = ask
        /\ mapped[t] # "none" /\ to \in Status /\ card[t].version \in Nat
    BY <1>5 DEF Finish, LaneStep, Move, GraphOK, Card, Status, store, tick
  <2>2. worker' \in [Tasks -> {"none", "live", "fenced"}]
    BY <1>5 DEF Finish, GraphOK, LaneStep
  <2> QED
    BY <2>1, <2>2, Updated, StillMapped DEF GraphOK
<1>6. ASSUME NEW t \in Tasks, Plan(t)
      PROVE  GraphOK'
  <2>1. mapped' \in [Tasks -> {"none", "creating", "queued"}] /\ mapped'[t] = "creating"
        /\ \A u \in Tasks : mapped[u] # "none" => mapped'[u] # "none"
    BY <1>6 DEF Plan, GraphOK
  <2>2. UNCHANGED <<card, log, worker, ask>> /\ todo' \subseteq Tasks /\ \A u \in todo' : mapped'[u] # "none"
    BY <1>6, <2>1 DEF Plan, GraphOK, graph, Sweepable
  <2>3. \A s \in 1 .. Len(log) : log[s].task \in Tasks
    BY LogTask
  <2> QED
    BY <2>1, <2>2, <2>3 DEF GraphOK
<1>7. ASSUME NEW i \in Asks, AskBack(i)
      PROVE  GraphOK'
  BY <1>7 DEF AskBack, GraphOK, graph, chat, tick, recon, SendNote
<1>8. ASSUME NEW i \in Asks, Amend(i)
      PROVE  GraphOK'
  <2> DEFINE u == ask[i].task
             v == ask[i].saw.version
             to == IF card[u].status = "running" THEN "interrupted" ELSE card[u].status
  <2>1. UNCHANGED <<mapped, todo>> /\ u \in Tasks /\ v \in Nat
    BY <1>8 DEF Amend, GraphOK, store, tick, Card
  <2>2. ask' \in [Asks -> [at : {"none", "amend", "amended", "refused", "note", "over"},
                          task : Tasks \cup {"none"}, saw : Card]]
    <3>1. ask' \in {[ask EXCEPT ![i].at = "amended"], [ask EXCEPT ![i].at = "refused"], [ask EXCEPT ![i] = Asked]}
      BY <1>8 DEF Amend
    <3>2. \A x \in {"amended", "refused"} : [ask EXCEPT ![i].at = x] \in [Asks -> [at : {"none", "amend", "amended", "refused", "note", "over"}, task : Tasks \cup {"none"}, saw : Card]]
      BY DEF GraphOK
    <3>3. [ask EXCEPT ![i] = Asked] \in [Asks -> [at : {"none", "amend", "amended", "refused", "note", "over"}, task : Tasks \cup {"none"}, saw : Card]]
      BY AskedType DEF GraphOK
    <3> QED
      BY <3>1, <3>2, <3>3
  <2>3. \A j \in Asks : ask'[j].at = "amend" => ask'[j].task \in Tasks
    <3>1. ask' \in {[ask EXCEPT ![i].at = "amended"], [ask EXCEPT ![i].at = "refused"], [ask EXCEPT ![i] = Asked]}
      BY <1>8 DEF Amend
    <3>2. \A x \in {"amended", "refused"}, j \in Asks : [ask EXCEPT ![i].at = x][j].at = "amend"
              => j # i /\ [ask EXCEPT ![i].at = x][j] = ask[j]
      BY DEF GraphOK
    <3>3. \A j \in Asks : [ask EXCEPT ![i] = Asked][j].at = "amend" => [ask EXCEPT ![i] = Asked][j] = ask[j]
      BY AskedType DEF GraphOK
    <3> QED
      BY <3>1, <3>2, <3>3 DEF GraphOK
  <2>4. CASE UNCHANGED graph
    BY <2>1, <2>2, <2>3, <2>4 DEF graph, GraphOK
  <2>5. CASE Amends(u, v)
    <3>1. Update(u, to, v + 1) /\ mapped[u] # "none" /\ to \in Status
      BY <2>5, <2>1 DEF Amends, Open, GraphOK, Status
    <3>2. worker' \in [Tasks -> {"none", "live", "fenced"}]
      BY <2>5, <2>1 DEF Amends, GraphOK
    <3>3. v + 1 \in Nat
      BY <2>1
    <3> HIDE DEF u, v, to
    <3> QED
      BY <2>1, <2>2, <2>3, <3>1, <3>2, <3>3, Updated, StillMapped DEF GraphOK
  <2> QED
    BY <1>8, <2>4, <2>5 DEF Amend
<1>9. ASSUME NEW i \in Asks, Applied(i)
      PROVE  GraphOK'
  BY <1>9 DEF Applied, GraphOK, graph, chat, tick, SendNote, NoAsk, NoCard, Card, Status
<1>10. ASSUME NEW i \in Asks, Noted(i)
      PROVE  GraphOK'
  BY <1>10 DEF Noted, GraphOK, graph, chat, store, tick, recon, Asked, NoAsk, NoCard, Card, Status
<1>11. ASSUME NEW i \in Asks, NEW t \in Tasks, ReadGraph(i, t)
      PROVE  GraphOK'
  BY <1>11 DEF ReadGraph, GraphOK, graph, chat, store, tick, recon
<1>12. ASSUME NEW t \in Tasks, Ripen(t)
      PROVE  GraphOK'
  BY <1>12, GraphSame DEF Ripen, graph, chat, store, tick, recon
<1>13. ASSUME NEW t \in Tasks, Expire(t)
      PROVE  GraphOK'
  BY <1>13, GraphSame DEF Expire, graph, chat, store, tick, recon
<1>14. ASSUME NEW t \in Tasks, Put(t)
      PROVE  GraphOK'
  <2>1. UNCHANGED <<worker, ask>> /\ todo' \subseteq todo /\ mapped[t] # "none"
    BY <1>14 DEF Put, Swept, GraphOK
  <2>2. mapped' \in [Tasks -> {"none", "creating", "queued"}]
        /\ \A u \in Tasks : mapped[u] # "none" => mapped'[u] # "none"
    BY <1>14 DEF Put, GraphOK
  <2>3. CASE PutLands(t)
    <3>1. Update(t, "pending", card[t].version + 1) /\ card[t].version + 1 \in Nat /\ "pending" \in Status
      BY <2>3 DEF PutLands, GraphOK, Card, Status
    <3>2. card' \in [Tasks -> Card] /\ log' \in Seq(Event)
      BY <2>1, <3>1, Updated
    <3>3. /\ \A u \in Tasks : card'[u].status # "none" => mapped'[u] # "none"
          /\ \A s \in 1 .. Len(log') : mapped'[log'[s].task] # "none"
      BY <2>1, <2>2, <3>1, StillMapped
    <3>4. todo' \subseteq Tasks /\ \A u \in todo' : mapped'[u] # "none"
      BY <2>1, <2>2 DEF GraphOK
    <3> QED
      BY <2>1, <2>2, <3>2, <3>3, <3>4 DEF GraphOK
  <2>4. CASE UNCHANGED <<card, log, told>>
    <3>1. \A s \in 1 .. Len(log) : log[s].task \in Tasks
      BY LogTask
    <3> QED
      BY <2>1, <2>2, <2>4, <3>1 DEF GraphOK
  <2> QED
    BY <1>14, <2>3, <2>4 DEF Put
<1>15. ASSUME NEW a \in Agents, Look(a)
      PROVE  GraphOK'
  BY <1>15, GraphSame DEF Look, graph, chat, store, tick, recon
<1>16. ASSUME NEW a \in Agents, Send(a)
      PROVE  GraphOK'
  BY <1>16, GraphSame DEF Send, graph, chat, store, tick, recon
<1>17. CASE Wake
  BY <1>17 DEF Wake, GraphOK, graph, chat, store, recon, Sweepable
<1>18. CASE Pending
  BY <1>18, GraphSame DEF Pending, graph, chat, store, tick, recon
<1>19. CASE Consume
  BY <1>19, GraphSame DEF Consume, graph, chat, store, tick, recon
<1>20. CASE Advance
  BY <1>20, GraphSame DEF Advance, graph, chat, store, tick, recon
<1>21. CASE Commit
  BY <1>21, GraphSame DEF Commit, graph, chat, store, tick, recon
<1>22. CASE ReadBack
  BY <1>22, GraphSame DEF ReadBack, graph, chat, store, tick, recon
<1>23. CASE ReadFails
  BY <1>23, GraphSame DEF ReadFails, graph, chat, store, tick, recon
<1>24. CASE Judged
  BY <1>24, GraphSame DEF Judged, graph, chat, store, tick, recon
<1>25. CASE Rest
  BY <1>25, GraphSame DEF Rest, graph, chat, store, tick, recon
<1>26. ASSUME NEW s \in 1 .. Len(log), Report(s)
      PROVE  GraphOK'
  BY <1>26, GraphSame DEF Report, graph, chat, store, tick, recon
<1>27. ASSUME NEW k \in queue, Resend(k)
      PROVE  GraphOK'
  BY <1>27, GraphSame DEF Resend, graph, chat, store, tick, recon
<1>28. ASSUME NEW t \in Tasks, Retry(t)
      PROVE  GraphOK'
  <2>1. UNCHANGED <<mapped, todo, ask, worker>>
    BY <1>28 DEF Retry
  <2>2. CASE Retries(t)
    <3>1. Update(t, "pending", card[t].version) /\ card[t].version \in Nat /\ mapped[t] # "none" /\ "pending" \in Status
      BY <2>2 DEF Retries, Move, GraphOK, Card, Status
    <3> QED
      BY <2>1, <3>1, Updated, StillMapped DEF GraphOK
  <2>3. CASE UNCHANGED <<card, log, told>>
    BY <2>1, <2>3 DEF GraphOK
  <2> QED
    BY <1>28, <2>2, <2>3 DEF Retry
<1>29. ASSUME NEW t \in Tasks, GiveUp(t)
      PROVE  GraphOK'
  BY <1>29, GraphSame DEF GiveUp, graph, chat, store, tick, recon
<1>30. ASSUME NEW t \in Tasks, Tell(t)
      PROVE  GraphOK'
  BY <1>30, GraphSame DEF Tell, graph, chat, store, tick, recon
<1>31. ASSUME NEW t \in Tasks, Told(t)
      PROVE  GraphOK'
  BY <1>31, GraphSame DEF Told, graph, chat, store, tick, recon
<1>32. ASSUME NEW old \in SUBSET Tasks, Watch(old)
      PROVE  GraphOK'
  BY <1>32, GraphSame DEF Watch, graph, chat, store, tick, recon
<1>33. CASE Start
  BY <1>33, GraphSame DEF Start, graph, chat, store, tick, recon
<1>34. CASE Rearm
  BY <1>34, GraphSame DEF Rearm, graph, chat, store, tick, recon
<1>35. CASE Crash
  BY <1>35 DEF Crash, GraphOK, graph, store, Asked, NoAsk, NoCard, Card, Status
<1>36. CASE UNCHANGED vars
  BY <1>36, GraphSame DEF vars, graph, store, tick
<1> QED
  BY <1>1, <1>2, <1>3, <1>4, <1>5, <1>6, <1>7, <1>8, <1>9, <1>10, <1>11, <1>12, <1>13, <1>14, <1>15, <1>16, <1>17, <1>18, <1>19, <1>20, <1>21, <1>22, <1>23, <1>24, <1>25, <1>26, <1>27, <1>28, <1>29, <1>30, <1>31, <1>32, <1>33, <1>34, <1>35, <1>36 DEF Next, Queue, Turn, Clock, Sweep, Carry, TickStep

-----------------------------------------------------------------------------
(* The log only grows, and there is a count of arrivals for each event.    *)

LogGrows ==
    /\ told' \in Seq(Nat) /\ Len(told') = Len(log') /\ Len(log) <= Len(log')
    /\ \A s \in 1 .. Len(log) : log'[s] = log[s]

\* The length of the log is a number.
LEMMA LengthNat == ASSUME GraphOK PROVE Len(log) \in Nat
BY DEF GraphOK

\* Nothing is appended.
LEMMA GrowsNot ==
    ASSUME GraphOK, KeysOK, UNCHANGED <<log, told>>
    PROVE  LogGrows
BY LengthNat DEF KeysOK, LogGrows

\* One event is appended.
LEMMA GrowsByOne ==
    ASSUME GraphOK, KeysOK, NEW t \in Tasks, NEW to \in Status, NEW v \in Nat, mapped[t] # "none", Update(t, to, v)
    PROVE  LogGrows
<1>1. told \in Seq(Nat) /\ Len(told) = Len(log) /\ Len(log) \in Nat
  BY LengthNat DEF KeysOK
<1>2. /\ Len(log') = Len(log) + 1 /\ \A s \in 1 .. Len(log) : log'[s] = log[s]
      /\ told' \in Seq(Nat) /\ Len(told') = Len(log')
  BY <1>1, Updated
<1> QED
  BY <1>1, <1>2 DEF LogGrows

\* One arrival is counted.
LEMMA ToldOnce ==
    ASSUME NEW q \in Seq(Nat), NEW k \in 1 .. Len(q)
    PROVE  [q EXCEPT ![k] = @ + 1] \in Seq(Nat) /\ Len([q EXCEPT ![k] = @ + 1]) = Len(q)
OBVIOUS

\* Every step keeps the log as it was, or appends to it.
LEMMA LogStep ==
    ASSUME GraphOK, KeysOK, [Next]_vars
    PROVE  LogGrows
<1>1. ASSUME NEW t \in Tasks, Claim(t)
      PROVE  LogGrows
  <2>1. Update(t, "running", card[t].version) /\ mapped[t] # "none" /\ "running" \in Status /\ card[t].version \in Nat
    BY <1>1 DEF Claim, Move, GraphOK, Card, Status
  <2> QED
    BY <2>1, GrowsByOne
<1>2. ASSUME NEW t \in Tasks, Cancel(t)
      PROVE  LogGrows
  <2>1. Update(t, (IF card[t].status = "running" THEN "interrupted" ELSE "cancelled"), card[t].version) /\ mapped[t] # "none" /\ (IF card[t].status = "running" THEN "interrupted" ELSE "cancelled") \in Status /\ card[t].version \in Nat
    BY <1>2 DEF Cancel, Move, GraphOK, Card, Status
  <2> QED
    BY <2>1, GrowsByOne
<1>3. ASSUME NEW t \in Tasks, Lapse(t)
      PROVE  LogGrows
  <2>1. Update(t, "interrupted", card[t].version) /\ mapped[t] # "none" /\ "interrupted" \in Status /\ card[t].version \in Nat
    BY <1>3 DEF Lapse, Move, GraphOK, Card, Status
  <2> QED
    BY <2>1, GrowsByOne
<1>4. ASSUME NEW t \in Tasks, WorkerStops(t)
      PROVE  LogGrows
  BY <1>4, GrowsNot DEF WorkerStops, graph, chat, store, tick, recon
<1>5. ASSUME NEW t \in Tasks, NEW to \in {"done", "blocked"}, Finish(t, to)
      PROVE  LogGrows
  <2>1. Update(t, to, card[t].version) /\ mapped[t] # "none" /\ to \in Status /\ card[t].version \in Nat
    BY <1>5 DEF Finish, Move, GraphOK, Card, Status
  <2> QED
    BY <2>1, GrowsByOne
<1>6. ASSUME NEW t \in Tasks, Plan(t)
      PROVE  LogGrows
  BY <1>6, GrowsNot DEF Plan, graph, chat, store, tick, recon
<1>7. ASSUME NEW i \in Asks, AskBack(i)
      PROVE  LogGrows
  BY <1>7, GrowsNot DEF AskBack, graph, chat, store, tick, recon, SendNote
<1>8. ASSUME NEW i \in Asks, Amend(i)
      PROVE  LogGrows
  <2> DEFINE u == ask[i].task
             v == ask[i].saw.version
             to == IF card[u].status = "running" THEN "interrupted" ELSE card[u].status
  <2>1. u \in Tasks /\ v \in Nat
    BY <1>8 DEF Amend, GraphOK, Card
  <2>2. CASE UNCHANGED <<graph, told>>
    BY <2>2, GrowsNot DEF graph
  <2>3. CASE Amends(u, v)
    <3>1. Update(u, to, v + 1) /\ mapped[u] # "none" /\ to \in Status /\ v + 1 \in Nat
      BY <2>3, <2>1 DEF Amends, Open, GraphOK, Status
    <3> HIDE DEF u, v, to
    <3> QED
      BY <2>1, <3>1, GrowsByOne
  <2> QED
    BY <1>8, <2>2, <2>3 DEF Amend
<1>9. ASSUME NEW i \in Asks, Applied(i)
      PROVE  LogGrows
  BY <1>9, GrowsNot DEF Applied, graph, chat, store, tick, recon, SendNote
<1>10. ASSUME NEW i \in Asks, Noted(i)
      PROVE  LogGrows
  BY <1>10, GrowsNot DEF Noted, graph, chat, store, tick, recon
<1>11. ASSUME NEW i \in Asks, NEW t \in Tasks, ReadGraph(i, t)
      PROVE  LogGrows
  BY <1>11, GrowsNot DEF ReadGraph, graph, chat, store, tick, recon
<1>12. ASSUME NEW t \in Tasks, Ripen(t)
      PROVE  LogGrows
  BY <1>12, GrowsNot DEF Ripen, graph, chat, store, tick, recon
<1>13. ASSUME NEW t \in Tasks, Expire(t)
      PROVE  LogGrows
  BY <1>13, GrowsNot DEF Expire, graph, chat, store, tick, recon
<1>14. ASSUME NEW t \in Tasks, Put(t)
      PROVE  LogGrows
  <2>1. CASE PutLands(t)
    <3>1. Update(t, "pending", card[t].version + 1) /\ card[t].version + 1 \in Nat /\ "pending" \in Status /\ mapped[t] # "none"
      BY <1>14, <2>1 DEF Put, PutLands, GraphOK, Card, Status
    <3> QED
      BY <3>1, GrowsByOne
  <2>2. CASE UNCHANGED <<card, log, told>>
    BY <2>2, GrowsNot
  <2> QED
    BY <1>14, <2>1, <2>2 DEF Put
<1>15. ASSUME NEW a \in Agents, Look(a)
      PROVE  LogGrows
  BY <1>15, GrowsNot DEF Look, graph, chat, store, tick, recon
<1>16. ASSUME NEW a \in Agents, Send(a)
      PROVE  LogGrows
  <2>1. UNCHANGED log /\ (UNCHANGED told \/ (carry[a].key \in 1 .. Len(log)
                            /\ told' = [told EXCEPT ![carry[a].key] = @ + 1]))
    <3>1. carry[a].key \in Rows /\ Rows \subseteq -notes .. Len(log) /\ notes \in Nat /\ Len(log) \in Nat
      BY <1>16 DEF Send, KeysOK, GraphOK
    <3>2. carry[a].key \in Int /\ (carry[a].key > 0 => carry[a].key \in 1 .. Len(log))
      BY <3>1
    <3>3. UNCHANGED log /\ (UNCHANGED told \/ Arrive(carry[a].key))
      BY <1>16 DEF Send, graph
    <3> QED
      BY <3>2, <3>3 DEF Arrive
  <2>2. CASE UNCHANGED told
    BY <2>1, <2>2, GrowsNot
  <2>3. CASE carry[a].key \in 1 .. Len(log) /\ told' = [told EXCEPT ![carry[a].key] = @ + 1]
    <3>1. told' \in Seq(Nat) /\ Len(told') = Len(told)
      BY <2>3, ToldOnce DEF KeysOK
    <3> QED
      BY <2>1, <3>1, LengthNat DEF KeysOK, LogGrows
  <2> QED
    BY <2>1, <2>2, <2>3
<1>17. CASE Wake
  BY <1>17, GrowsNot DEF Wake, graph, chat, store, tick, recon
<1>18. CASE Pending
  BY <1>18, GrowsNot DEF Pending, graph, chat, store, tick, recon
<1>19. CASE Consume
  BY <1>19, GrowsNot DEF Consume, graph, chat, store, tick, recon
<1>20. CASE Advance
  BY <1>20, GrowsNot DEF Advance, graph, chat, store, tick, recon
<1>21. CASE Commit
  BY <1>21, GrowsNot DEF Commit, graph, chat, store, tick, recon
<1>22. CASE ReadBack
  BY <1>22, GrowsNot DEF ReadBack, graph, chat, store, tick, recon
<1>23. CASE ReadFails
  BY <1>23, GrowsNot DEF ReadFails, graph, chat, store, tick, recon
<1>24. CASE Judged
  BY <1>24, GrowsNot DEF Judged, graph, chat, store, tick, recon
<1>25. CASE Rest
  BY <1>25, GrowsNot DEF Rest, graph, chat, store, tick, recon
<1>26. ASSUME NEW s \in 1 .. Len(log), Report(s)
      PROVE  LogGrows
  BY <1>26, GrowsNot DEF Report, graph, chat, store, tick, recon
<1>27. ASSUME NEW k \in queue, Resend(k)
      PROVE  LogGrows
  BY <1>27, GrowsNot DEF Resend, graph, chat, store, tick, recon
<1>28. ASSUME NEW t \in Tasks, Retry(t)
      PROVE  LogGrows
  <2>1. CASE Retries(t)
    <3>1. Update(t, "pending", card[t].version) /\ card[t].version \in Nat /\ mapped[t] # "none" /\ "pending" \in Status
      BY <2>1 DEF Retries, Move, GraphOK, Card, Status
    <3> QED
      BY <3>1, GrowsByOne
  <2>2. CASE UNCHANGED <<card, log, told>>
    BY <2>2, GrowsNot
  <2> QED
    BY <1>28, <2>1, <2>2 DEF Retry
<1>29. ASSUME NEW t \in Tasks, GiveUp(t)
      PROVE  LogGrows
  BY <1>29, GrowsNot DEF GiveUp, graph, chat, store, tick, recon
<1>30. ASSUME NEW t \in Tasks, Tell(t)
      PROVE  LogGrows
  BY <1>30, GrowsNot DEF Tell, graph, chat, store, tick, recon
<1>31. ASSUME NEW t \in Tasks, Told(t)
      PROVE  LogGrows
  BY <1>31, GrowsNot DEF Told, graph, chat, store, tick, recon
<1>32. ASSUME NEW old \in SUBSET Tasks, Watch(old)
      PROVE  LogGrows
  BY <1>32, GrowsNot DEF Watch, graph, chat, store, tick, recon
<1>33. CASE Start
  BY <1>33, GrowsNot DEF Start, graph, chat, store, tick, recon
<1>34. CASE Rearm
  BY <1>34, GrowsNot DEF Rearm, graph, chat, store, tick, recon
<1>35. CASE Crash
  <2>1. UNCHANGED log
    BY <1>35 DEF Crash, graph
  <2>2. PICK arrived : told' = [s \in DOMAIN told |-> IF s \in arrived THEN told[s] + 1 ELSE told[s]]
    BY <1>35 DEF Crash
  <2>3. told' \in Seq(Nat) /\ Len(told') = Len(told)
    <3>1. told \in Seq(Nat) /\ Len(told) \in Nat /\ DOMAIN told = 1 .. Len(told) /\ \A s \in 1 .. Len(told) : told[s] \in Nat
      BY DEF KeysOK
    <3>2. told' \in [1 .. Len(told) -> Nat]
      BY <2>2, <3>1
    <3> QED
      BY <3>1, <3>2
  <2> QED
    BY <2>1, <2>3, LengthNat DEF KeysOK, LogGrows
<1>36. CASE UNCHANGED vars
  BY <1>36, GrowsNot DEF vars, graph, chat
<1> QED
  BY <1>1, <1>2, <1>3, <1>4, <1>5, <1>6, <1>7, <1>8, <1>9, <1>10, <1>11, <1>12, <1>13, <1>14, <1>15, <1>16, <1>17, <1>18, <1>19, <1>20, <1>21, <1>22, <1>23, <1>24, <1>25, <1>26, <1>27, <1>28, <1>29, <1>30, <1>31, <1>32, <1>33, <1>34, <1>35, <1>36 DEF Next, Queue, Turn, Clock, Sweep, Carry, TickStep

-----------------------------------------------------------------------------
(* The keys of the outbox.                                                 *)

\* Journalling a row adds its key, marking one adds none.
LEMMA Journalled ==
    ASSUME KeysOK, NEW k \in Int, Journal(k)
    PROVE  Rows' = Rows \cup {k} /\ outbox' \in [sending : SUBSET Int, uncertain : SUBSET Int, sent : SUBSET Int]
BY DEF KeysOK, Journal, Rows

\* The state of a row changes, its key stays.
LEMMA Marked ==
    ASSUME KeysOK, NEW k \in Rows, k \in Int, MarkSent(k) \/ MarkUncertain(k)
    PROVE  Rows' = Rows /\ outbox' \in [sending : SUBSET Int, uncertain : SUBSET Int, sent : SUBSET Int]
<1>1. CASE MarkSent(k)
  BY <1>1 DEF KeysOK, MarkSent, Rows
<1>2. CASE MarkUncertain(k)
  BY <1>2 DEF KeysOK, MarkUncertain, Rows
<1> QED
  BY <1>1, <1>2

\* How far an agent is with the row it carries.
LEMMA KeysAt ==
    ASSUME KeysOK, NEW a \in Agents, carry[a].at # "idle", NEW x \in {"done", "failed", "send"},
           carry' = [carry EXCEPT ![a].at = x]
    PROVE  /\ carry' \in [Agents -> [key : Int, at : {"idle", "look", "send", "done", "failed"}]]
           /\ \A b \in Agents : carry'[b].at = "idle" \/ carry'[b].key \in Rows
BY DEF KeysOK

\* Steps that leave the rows and who carries them alone.
LEMMA KeysStill ==
    ASSUME GraphOK, KeysOK, LogGrows, UNCHANGED <<outbox, notes, thread, blurred, queue, carry>>
    PROVE  KeysOK'
BY LengthNat DEF KeysOK, LogGrows, Rows

\* The tick and the turns are agents.
LEMMA AgentsAre == Tick \in Agents /\ Asks \subseteq Agents
BY DEF Agents, Tick

\* An agent puts its row down.
LEMMA KeysIdle ==
    ASSUME GraphOK, KeysOK, LogGrows, UNCHANGED <<outbox, notes, thread, blurred, queue>>,
           NEW a \in Agents, carry' = [carry EXCEPT ![a] = Idle]
    PROVE  KeysOK'
<1>1. carry' \in [Agents -> [key : Int, at : {"idle", "look", "send", "done", "failed"}]]
      /\ \A b \in Agents : carry'[b].at = "idle" \/ carry'[b].key \in Rows
  BY DEF KeysOK, Idle
<1>2. Rows' = Rows
  BY DEF Rows
<1> QED
  BY <1>1, <1>2, LengthNat DEF KeysOK, LogGrows

\* An agent takes up a new note.
LEMMA KeysNote ==
    ASSUME GraphOK, KeysOK, LogGrows, UNCHANGED <<thread, blurred, queue>>, NEW a \in Agents, SendNote(a)
    PROVE  KeysOK'
<1>1. Note \in Int /\ Note = -(notes + 1) /\ notes \in Nat /\ Journal(Note) /\ notes' = notes + 1
      /\ carry' = [carry EXCEPT ![a] = [key |-> Note, at |-> "send"]]
  BY DEF SendNote, KeysOK, Note
<1>2. Rows' = Rows \cup {Note} /\ outbox' \in [sending : SUBSET Int, uncertain : SUBSET Int, sent : SUBSET Int]
  BY <1>1, Journalled
<1>3. Rows' \subseteq -notes' .. Len(log')
  BY <1>1, <1>2, LengthNat DEF KeysOK, LogGrows
<1>4. carry' \in [Agents -> [key : Int, at : {"idle", "look", "send", "done", "failed"}]]
      /\ \A b \in Agents : carry'[b].at = "idle" \/ carry'[b].key \in Rows'
  BY <1>1, <1>2 DEF KeysOK
<1> QED
  BY <1>1, <1>2, <1>3, <1>4 DEF KeysOK, LogGrows

\* Every step keeps them.
LEMMA KeysStep ==
    ASSUME GraphOK, KeysOK, [Next]_vars
    PROVE  KeysOK'
<1>1. ASSUME NEW t \in Tasks, Claim(t)
      PROVE  KeysOK'
  BY <1>1, LogStep, KeysStill DEF Claim, LaneStep, Move, Update, graph, chat, store, tick, recon
<1>2. ASSUME NEW t \in Tasks, Cancel(t)
      PROVE  KeysOK'
  BY <1>2, LogStep, KeysStill DEF Cancel, LaneStep, Move, Update, graph, chat, store, tick, recon
<1>3. ASSUME NEW t \in Tasks, Lapse(t)
      PROVE  KeysOK'
  BY <1>3, LogStep, KeysStill DEF Lapse, LaneStep, Move, Update, graph, chat, store, tick, recon
<1>4. ASSUME NEW t \in Tasks, WorkerStops(t)
      PROVE  KeysOK'
  BY <1>4, LogStep, KeysStill DEF WorkerStops, graph, chat, store, tick, recon
<1>5. ASSUME NEW t \in Tasks, NEW to \in {"done", "blocked"}, Finish(t, to)
      PROVE  KeysOK'
  BY <1>5, LogStep, KeysStill DEF Finish, LaneStep, Move, Update, graph, chat, store, tick, recon
<1>6. ASSUME NEW t \in Tasks, Plan(t)
      PROVE  KeysOK'
  BY <1>6, LogStep, KeysStill DEF Plan, graph, chat, store, tick, recon
<1>7. ASSUME NEW i \in Asks, AskBack(i)
      PROVE  KeysOK'
  <2>1. SendNote(i) /\ UNCHANGED <<thread, blurred, queue>> /\ i \in Agents
    BY <1>7, BridgeAssumption DEF AskBack, graph, chat, tick, Agents, Asks, Tick
  <2> QED
    BY <2>1, LogStep, KeysNote
<1>8. ASSUME NEW i \in Asks, Amend(i)
      PROVE  KeysOK'
  BY <1>8, LogStep, KeysStill DEF Amend, graph, chat, store, tick, recon
<1>9. ASSUME NEW i \in Asks, Applied(i)
      PROVE  KeysOK'
  <2>1. SendNote(i) /\ UNCHANGED <<thread, blurred, queue>> /\ i \in Agents
    BY <1>9, BridgeAssumption DEF Applied, graph, chat, tick, Agents, Asks, Tick
  <2> QED
    BY <2>1, LogStep, KeysNote
<1>10. ASSUME NEW i \in Asks, Noted(i)
      PROVE  KeysOK'
  BY <1>10, LogStep, KeysIdle, AgentsAre DEF Noted, graph, chat, store, tick, recon, Free
<1>11. ASSUME NEW i \in Asks, NEW t \in Tasks, ReadGraph(i, t)
      PROVE  KeysOK'
  BY <1>11, LogStep, KeysStill DEF ReadGraph, graph, chat, store, tick, recon
<1>12. ASSUME NEW t \in Tasks, Ripen(t)
      PROVE  KeysOK'
  BY <1>12, LogStep, KeysStill DEF Ripen, graph, chat, store, tick, recon
<1>13. ASSUME NEW t \in Tasks, Expire(t)
      PROVE  KeysOK'
  BY <1>13, LogStep, KeysStill DEF Expire, graph, chat, store, tick, recon
<1>14. ASSUME NEW t \in Tasks, Put(t)
      PROVE  KeysOK'
  BY <1>14, LogStep, KeysStill DEF Put, graph, chat, store, tick, recon
<1>15. ASSUME NEW a \in Agents, Look(a)
      PROVE  KeysOK'
  <2> DEFINE k == carry[a].key
  <2>1. k \in Rows /\ k \in Int /\ UNCHANGED <<notes, thread, queue>>
    BY <1>15 DEF Look, KeysOK, tick
  <2>2. MarkSent(k) \/ UNCHANGED outbox
    BY <1>15 DEF Look
  <2>3. Rows' = Rows /\ outbox' \in [sending : SUBSET Int, uncertain : SUBSET Int, sent : SUBSET Int]
    BY <2>1, <2>2, Marked DEF Rows, KeysOK
  <2>4. blurred' \subseteq Rows
    BY <1>15, <2>1 DEF Look, KeysOK, Blur
  <2>5. carry' \in {[carry EXCEPT ![a].at = "done"], [carry EXCEPT ![a].at = "send"]}
    BY <1>15 DEF Look, At
  <2>6. carry[a].at = "look"
    BY <1>15 DEF Look
  <2>7. /\ carry' \in [Agents -> [key : Int, at : {"idle", "look", "send", "done", "failed"}]]
        /\ \A b \in Agents : carry'[b].at = "idle" \/ carry'[b].key \in Rows
    <3>1. PICK x \in {"done", "failed", "send"} : carry' = [carry EXCEPT ![a].at = x]
      BY <2>5
    <3>2. carry[a].at # "idle"
      BY <2>6
    <3> QED
      BY <3>1, <3>2, KeysAt
  <2>8. LogGrows /\ Len(log) \in Nat
    BY LogStep, LengthNat
  <2> HIDE DEF k
  <2> QED
    BY <2>1, <2>3, <2>4, <2>7, <2>8 DEF KeysOK, LogGrows
<1>16. ASSUME NEW a \in Agents, Send(a)
      PROVE  KeysOK'
  <2> DEFINE k == carry[a].key
  <2>1. k \in Rows /\ k \in Int /\ UNCHANGED <<notes, blurred, queue>>
    BY <1>16 DEF Send, KeysOK, tick
  <2>2. MarkSent(k) \/ MarkUncertain(k)
    BY <1>16 DEF Send
  <2>3. Rows' = Rows /\ outbox' \in [sending : SUBSET Int, uncertain : SUBSET Int, sent : SUBSET Int]
    BY <2>1, <2>2, Marked DEF Rows, KeysOK
  <2>4. thread' \subseteq Rows
    BY <1>16, <2>1 DEF Send, KeysOK, Arrive
  <2>5. carry' \in {[carry EXCEPT ![a].at = "done"], [carry EXCEPT ![a].at = "failed"]}
    BY <1>16 DEF Send, At
  <2>6. carry[a].at = "send"
    BY <1>16 DEF Send
  <2>7. /\ carry' \in [Agents -> [key : Int, at : {"idle", "look", "send", "done", "failed"}]]
        /\ \A b \in Agents : carry'[b].at = "idle" \/ carry'[b].key \in Rows
    <3>1. PICK x \in {"done", "failed", "send"} : carry' = [carry EXCEPT ![a].at = x]
      BY <2>5
    <3>2. carry[a].at # "idle"
      BY <2>6
    <3> QED
      BY <3>1, <3>2, KeysAt
  <2>8. LogGrows /\ Len(log) \in Nat
    BY LogStep, LengthNat
  <2> HIDE DEF k
  <2> QED
    BY <2>1, <2>3, <2>4, <2>7, <2>8 DEF KeysOK, LogGrows
<1>17. CASE Wake
  BY <1>17, LogStep, KeysStill DEF Wake, graph, chat, store, tick, recon
<1>18. CASE Pending
  <2>1. UNCHANGED <<outbox, notes, thread, blurred, carry>> /\ queue' \subseteq Rows /\ Rows' = Rows
    BY <1>18 DEF Pending, Rows, chat, store
  <2> QED
    BY <2>1, LogStep, LengthNat DEF KeysOK, LogGrows
<1>19. CASE Consume
  BY <1>19, LogStep, KeysIdle, AgentsAre DEF Consume, graph, chat, store, tick, recon, Free
<1>20. CASE Advance
  BY <1>20, LogStep, KeysIdle, AgentsAre DEF Advance, graph, chat, store, tick, recon, Free
<1>21. CASE Commit
  BY <1>21, LogStep, KeysIdle, AgentsAre DEF Commit, graph, chat, store, tick, recon, Free
<1>22. CASE ReadBack
  BY <1>22, LogStep, KeysStill DEF ReadBack, graph, chat, store, tick, recon
<1>23. CASE ReadFails
  BY <1>23, LogStep, KeysStill DEF ReadFails, graph, chat, store, tick, recon
<1>24. CASE Judged
  BY <1>24, LogStep, KeysIdle, AgentsAre DEF Judged, graph, chat, store, tick, recon, Free
<1>25. CASE Rest
  BY <1>25, LogStep, KeysStill DEF Rest, graph, chat, store, tick, recon
<1>26. ASSUME NEW s \in 1 .. Len(log), Report(s)
      PROVE  KeysOK'
  <2>1. UNCHANGED <<notes, thread, blurred, queue>> /\ Journal(s) /\ s \in Int /\ Tick \in Agents
        /\ carry' = [carry EXCEPT ![Tick] = [key |-> s, at |-> "send"]]
    BY <1>26, BridgeAssumption DEF Report, chat, Agents, Asks, Tick
  <2>2. Rows' = Rows \cup {s} /\ outbox' \in [sending : SUBSET Int, uncertain : SUBSET Int, sent : SUBSET Int]
    BY <2>1, Journalled DEF KeysOK
  <2>3. LogGrows /\ Len(log) \in Nat /\ Rows' \subseteq -notes' .. Len(log')
    <3>1. LogGrows /\ Len(log) \in Nat /\ Len(log') \in Nat
      BY LogStep, LengthNat DEF LogGrows
    <3>2. Rows \subseteq -notes .. Len(log) /\ notes' = notes /\ notes \in Nat /\ s \in 1 .. Len(log)
      BY <2>1 DEF KeysOK
    <3>3. Len(log) <= Len(log')
      BY <3>1 DEF LogGrows
    <3> QED
      BY <2>2, <3>1, <3>2, <3>3
  <2>4. /\ carry' \in [Agents -> [key : Int, at : {"idle", "look", "send", "done", "failed"}]]
        /\ \A b \in Agents : carry'[b].at = "idle" \/ carry'[b].key \in Rows'
    BY <2>1, <2>2 DEF KeysOK
  <2> QED
    BY <2>1, <2>2, <2>3, <2>4 DEF KeysOK, LogGrows
<1>27. ASSUME NEW k \in queue, Resend(k)
      PROVE  KeysOK'
  <2>1. UNCHANGED <<outbox, notes, thread, blurred>> /\ queue' \subseteq Rows /\ Rows' = Rows
        /\ k \in Rows /\ k \in Int /\ Tick \in Agents
    BY <1>27, BridgeAssumption DEF Resend, Rows, chat, store, KeysOK, Agents, Asks, Tick
  <2>2. carry' = [carry EXCEPT ![Tick] = Deliver(k)]
    BY <1>27 DEF Resend
  <2> QED
    BY <2>1, <2>2, LogStep, LengthNat DEF KeysOK, LogGrows, Deliver
<1>28. ASSUME NEW t \in Tasks, Retry(t)
      PROVE  KeysOK'
  <2>1. UNCHANGED <<thread, blurred, queue>> /\ Tick \in Agents
    BY <1>28, BridgeAssumption DEF Retry, Agents, Asks, Tick
  <2>2. CASE SendNote(Tick)
    BY <2>1, <2>2, LogStep, KeysNote
  <2>3. CASE Free(Tick) /\ UNCHANGED <<outbox, notes>>
    BY <2>1, <2>3, LogStep, KeysIdle DEF Free
  <2> QED
    BY <1>28, <2>2, <2>3 DEF Retry
<1>29. ASSUME NEW t \in Tasks, GiveUp(t)
      PROVE  KeysOK'
  <2>1. SendNote(Tick) /\ UNCHANGED <<thread, blurred, queue>> /\ Tick \in Agents
    BY <1>29, BridgeAssumption DEF GiveUp, graph, chat, tick, Agents, Asks, Tick
  <2> QED
    BY <2>1, LogStep, KeysNote
<1>30. ASSUME NEW t \in Tasks, Tell(t)
      PROVE  KeysOK'
  <2>1. SendNote(Tick) /\ UNCHANGED <<thread, blurred, queue>> /\ Tick \in Agents
    BY <1>30, BridgeAssumption DEF Tell, graph, chat, tick, Agents, Asks, Tick
  <2> QED
    BY <2>1, LogStep, KeysNote
<1>31. ASSUME NEW t \in Tasks, Told(t)
      PROVE  KeysOK'
  BY <1>31, LogStep, KeysIdle, AgentsAre DEF Told, graph, chat, store, tick, recon, Free
<1>32. ASSUME NEW old \in SUBSET Tasks, Watch(old)
      PROVE  KeysOK'
  BY <1>32, LogStep, KeysStill DEF Watch, graph, chat, store, tick, recon
<1>33. CASE Start
  BY <1>33, LogStep, KeysStill DEF Start, graph, chat, store, tick, recon
<1>34. CASE Rearm
  BY <1>34, LogStep, KeysStill DEF Rearm, graph, chat, store, tick, recon
<1>35. CASE Crash
  <2> DEFINE sending == {carry[a].key : a \in {b \in Agents : carry[b].at = "send"}}
  <2>1. sending \subseteq Rows
    BY DEF KeysOK
  <2>2. thread' \subseteq Rows /\ blurred' \subseteq Rows /\ queue' = {} /\ UNCHANGED <<outbox, notes>> /\ Rows' = Rows
    BY <1>35, <2>1 DEF Crash, KeysOK, Blur, store, Rows
  <2>3. carry' = [a \in Agents |-> Idle]
    BY <1>35 DEF Crash
  <2> QED
    BY <2>2, <2>3, LogStep, LengthNat DEF KeysOK, LogGrows, Idle
<1>36. CASE UNCHANGED vars
  BY <1>36, LogStep, KeysStill DEF vars, chat, store, tick
<1> QED
  BY <1>1, <1>2, <1>3, <1>4, <1>5, <1>6, <1>7, <1>8, <1>9, <1>10, <1>11, <1>12, <1>13, <1>14, <1>15, <1>16, <1>17, <1>18, <1>19, <1>20, <1>21, <1>22, <1>23, <1>24, <1>25, <1>26, <1>27, <1>28, <1>29, <1>30, <1>31, <1>32, <1>33, <1>34, <1>35, <1>36 DEF Next, Queue, Turn, Clock, Sweep, Carry, TickStep

-----------------------------------------------------------------------------
(* The tick: what it has read of the log, and the batch it works through.  *)

\* No row is ever taken out of the outbox.
LEMMA RowsStay ==
    ASSUME GraphOK, KeysOK, [Next]_vars
    PROVE  Rows \subseteq Rows'
<1>1. ASSUME NEW t \in Tasks, Claim(t)
      PROVE  Rows \subseteq Rows'
  BY <1>1 DEF Claim, chat, store, LaneStep, Rows
<1>2. ASSUME NEW t \in Tasks, Cancel(t)
      PROVE  Rows \subseteq Rows'
  BY <1>2 DEF Cancel, chat, store, LaneStep, Rows
<1>3. ASSUME NEW t \in Tasks, Lapse(t)
      PROVE  Rows \subseteq Rows'
  BY <1>3 DEF Lapse, chat, store, LaneStep, Rows
<1>4. ASSUME NEW t \in Tasks, WorkerStops(t)
      PROVE  Rows \subseteq Rows'
  BY <1>4 DEF WorkerStops, chat, store, LaneStep, Rows
<1>5. ASSUME NEW t \in Tasks, NEW to \in {"done", "blocked"}, Finish(t, to)
      PROVE  Rows \subseteq Rows'
  BY <1>5 DEF Finish, chat, store, LaneStep, Rows
<1>6. ASSUME NEW t \in Tasks, Plan(t)
      PROVE  Rows \subseteq Rows'
  BY <1>6 DEF Plan, chat, store, LaneStep, Rows
<1>7. ASSUME NEW i \in Asks, AskBack(i)
      PROVE  Rows \subseteq Rows'
  BY <1>7 DEF AskBack, SendNote, Journal, Rows
<1>8. ASSUME NEW i \in Asks, Amend(i)
      PROVE  Rows \subseteq Rows'
  BY <1>8 DEF Amend, chat, store, LaneStep, Rows
<1>9. ASSUME NEW i \in Asks, Applied(i)
      PROVE  Rows \subseteq Rows'
  BY <1>9 DEF Applied, SendNote, Journal, Rows
<1>10. ASSUME NEW i \in Asks, Noted(i)
      PROVE  Rows \subseteq Rows'
  BY <1>10 DEF Noted, chat, store, LaneStep, Rows
<1>11. ASSUME NEW i \in Asks, NEW t \in Tasks, ReadGraph(i, t)
      PROVE  Rows \subseteq Rows'
  BY <1>11 DEF ReadGraph, chat, store, LaneStep, Rows
<1>12. ASSUME NEW t \in Tasks, Ripen(t)
      PROVE  Rows \subseteq Rows'
  BY <1>12 DEF Ripen, chat, store, LaneStep, Rows
<1>13. ASSUME NEW t \in Tasks, Expire(t)
      PROVE  Rows \subseteq Rows'
  BY <1>13 DEF Expire, chat, store, LaneStep, Rows
<1>14. ASSUME NEW t \in Tasks, Put(t)
      PROVE  Rows \subseteq Rows'
  BY <1>14 DEF Put, chat, store, LaneStep, Rows
<1>15. ASSUME NEW a \in Agents, Look(a)
      PROVE  Rows \subseteq Rows'
  <2>1. carry[a].key \in Rows /\ carry[a].key \in Int
    BY <1>15 DEF Look, KeysOK
  <2>2. MarkSent(carry[a].key) \/ MarkUncertain(carry[a].key) \/ UNCHANGED outbox
    BY <1>15 DEF Look
  <2> QED
    BY <2>1, <2>2, Marked DEF Rows
<1>16. ASSUME NEW a \in Agents, Send(a)
      PROVE  Rows \subseteq Rows'
  <2>1. carry[a].key \in Rows /\ carry[a].key \in Int
    BY <1>16 DEF Send, KeysOK
  <2>2. MarkSent(carry[a].key) \/ MarkUncertain(carry[a].key) \/ UNCHANGED outbox
    BY <1>16 DEF Send
  <2> QED
    BY <2>1, <2>2, Marked DEF Rows
<1>17. CASE Wake
  BY <1>17 DEF Wake, chat, store, LaneStep, Rows
<1>18. CASE Pending
  BY <1>18 DEF Pending, chat, store, LaneStep, Rows
<1>19. CASE Consume
  BY <1>19 DEF Consume, chat, store, LaneStep, Rows
<1>20. CASE Advance
  BY <1>20 DEF Advance, chat, store, LaneStep, Rows
<1>21. CASE Commit
  BY <1>21 DEF Commit, chat, store, LaneStep, Rows
<1>22. CASE ReadBack
  BY <1>22 DEF ReadBack, chat, store, LaneStep, Rows
<1>23. CASE ReadFails
  BY <1>23 DEF ReadFails, chat, store, LaneStep, Rows
<1>24. CASE Judged
  BY <1>24 DEF Judged, chat, store, LaneStep, Rows
<1>25. CASE Rest
  BY <1>25 DEF Rest, chat, store, LaneStep, Rows
<1>26. ASSUME NEW s \in 1 .. Len(log), Report(s)
      PROVE  Rows \subseteq Rows'
  BY <1>26 DEF Report, SendNote, Journal, Rows
<1>27. ASSUME NEW k \in queue, Resend(k)
      PROVE  Rows \subseteq Rows'
  BY <1>27 DEF Resend, chat, store, LaneStep, Rows
<1>28. ASSUME NEW t \in Tasks, Retry(t)
      PROVE  Rows \subseteq Rows'
  <2>1. UNCHANGED outbox \/ Journal(Note)
    BY <1>28 DEF Retry, SendNote
  <2> QED
    BY <2>1 DEF Journal, Rows, KeysOK
<1>29. ASSUME NEW t \in Tasks, GiveUp(t)
      PROVE  Rows \subseteq Rows'
  <2>1. Journal(Note)
    BY <1>29 DEF GiveUp, SendNote
  <2> QED
    BY <2>1 DEF Journal, Rows, KeysOK
<1>30. ASSUME NEW t \in Tasks, Tell(t)
      PROVE  Rows \subseteq Rows'
  BY <1>30 DEF Tell, SendNote, Journal, Rows
<1>31. ASSUME NEW t \in Tasks, Told(t)
      PROVE  Rows \subseteq Rows'
  BY <1>31 DEF Told, chat, store, LaneStep, Rows
<1>32. ASSUME NEW old \in SUBSET Tasks, Watch(old)
      PROVE  Rows \subseteq Rows'
  BY <1>32 DEF Watch, chat, store, LaneStep, Rows
<1>33. CASE Start
  BY <1>33 DEF Start, chat, store, LaneStep, Rows
<1>34. CASE Rearm
  BY <1>34 DEF Rearm, chat, store, LaneStep, Rows
<1>35. CASE Crash
  BY <1>35 DEF Crash, chat, store, LaneStep, Rows
<1>36. CASE UNCHANGED vars
  BY <1>36 DEF vars, store, Rows
<1> QED
  BY <1>1, <1>2, <1>3, <1>4, <1>5, <1>6, <1>7, <1>8, <1>9, <1>10, <1>11, <1>12, <1>13, <1>14, <1>15, <1>16, <1>17, <1>18, <1>19, <1>20, <1>21, <1>22, <1>23, <1>24, <1>25, <1>26, <1>27, <1>28, <1>29, <1>30, <1>31, <1>32, <1>33, <1>34, <1>35, <1>36 DEF Next, Queue, Turn, Clock, Sweep, Carry, TickStep

\* What was reported before a step is in the outbox after it.
Grown ==
    /\ LogGrows /\ Rows \subseteq Rows'
    /\ \A s \in 1 .. Len(log) : Reportable(log[s])' => Reportable(log[s])

\* Every step is such a step.
LEMMA GrownStep ==
    ASSUME GraphOK, KeysOK, [Next]_vars
    PROVE  Grown
<1>1. LogGrows /\ Rows \subseteq Rows'
  BY LogStep, RowsStay
<1>2. \A s \in 1 .. Len(log) : Reportable(log[s])' => Reportable(log[s])
  <2> SUFFICES ASSUME NEW s \in 1 .. Len(log), Reportable(log[s])'
               PROVE  Reportable(log[s])
    OBVIOUS
  <2>1. mapped[log[s].task] # "none"
    BY DEF GraphOK
  <2>2. log'[s] = log[s]
    BY <1>1 DEF LogGrows
  <2> QED
    BY <2>1, <2>2 DEF Reportable
<1> QED
  BY <1>1, <1>2 DEF Grown

\* While events are consumed: the batch lies behind the cursor, the events up
\* to pos are dealt with, and the row in hand is the one of the next event.
Batch ==
    pc = "events" =>
        /\ cursor <= pos /\ pos <= end
        /\ \A s \in 1 .. pos : Reportable(log[s]) => s \in Rows
        /\ carry[Tick].at # "idle" => carry[Tick].key = pos + 1 /\ pos + 1 <= end

\* Where the tick is in the log.
LEMMA Places ==
    ASSUME GraphOK, ControlOK
    PROVE  /\ Len(log) \in Nat /\ cursor \in 0 .. Len(log) /\ pos \in 0 .. Len(log)
           /\ end \in 0 .. Len(log) /\ seen \in 0 .. Len(log)
BY LengthNat DEF ControlOK

\* Steps that leave the batch, or the consumer, alone.
LEMMA BatchStill ==
    ASSUME GraphOK, KeysOK, ControlOK, Batch, Grown,
           pc' = "events" =>
               /\ UNCHANGED <<pc, cursor, pos, end>>
               /\ carry'[Tick].at # "idle" => carry[Tick].at # "idle" /\ carry'[Tick].key = carry[Tick].key
    PROVE  Batch'
<1> SUFFICES ASSUME pc' = "events"
             PROVE  Batch'
  BY DEF Batch
<1>1. \A s \in 1 .. pos : Reportable(log[s])' => s \in Rows'
  BY Places DEF Batch, Grown
<1> QED
  BY <1>1 DEF Batch

\* A turn that takes up a note leaves the row of the tick alone.
LEMMA TurnNote ==
    ASSUME KeysOK, NEW i \in Asks, SendNote(i)
    PROVE  carry'[Tick] = carry[Tick]
<1>1. i # Tick /\ carry' = [carry EXCEPT ![i] = [key |-> Note, at |-> "send"]]
  BY BridgeAssumption DEF SendNote, Asks, Tick
<1> QED
  BY <1>1, AgentsAre DEF KeysOK

\* An agent that gets on with its row still carries it.
LEMMA SameRow ==
    ASSUME KeysOK, NEW a \in Agents, carry[a].at # "idle", NEW x, At(a, x)
    PROVE  carry'[Tick].at # "idle" => carry[Tick].at # "idle" /\ carry'[Tick].key = carry[Tick].key
<1>1. carry' = [carry EXCEPT ![a].at = x] /\ carry \in [Agents -> [key : Int, at : {"idle", "look", "send", "done", "failed"}]]
  BY DEF At, KeysOK
<1>2. CASE a = Tick
  BY <1>1, <1>2
<1>3. CASE a # Tick
  BY <1>1, <1>3, AgentsAre
<1> QED
  BY <1>2, <1>3

\* Every step keeps the batch.
LEMMA BatchStep ==
    ASSUME GraphOK, KeysOK, ControlOK, PastIsJournalled, Batch, [Next]_vars
    PROVE  Batch'
<1>0. Grown
  BY GrownStep
<1>1. ASSUME NEW t \in Tasks, Claim(t)
      PROVE  Batch'
  BY <1>1, <1>0, BatchStill DEF Claim, store, tick, LaneStep
<1>2. ASSUME NEW t \in Tasks, Cancel(t)
      PROVE  Batch'
  BY <1>2, <1>0, BatchStill DEF Cancel, store, tick, LaneStep
<1>3. ASSUME NEW t \in Tasks, Lapse(t)
      PROVE  Batch'
  BY <1>3, <1>0, BatchStill DEF Lapse, store, tick, LaneStep
<1>4. ASSUME NEW t \in Tasks, WorkerStops(t)
      PROVE  Batch'
  BY <1>4, <1>0, BatchStill DEF WorkerStops, store, tick, LaneStep
<1>5. ASSUME NEW t \in Tasks, NEW to \in {"done", "blocked"}, Finish(t, to)
      PROVE  Batch'
  BY <1>5, <1>0, BatchStill DEF Finish, store, tick, LaneStep
<1>6. ASSUME NEW t \in Tasks, Plan(t)
      PROVE  Batch'
  BY <1>6, <1>0, BatchStill DEF Plan, store, tick, LaneStep
<1>7. ASSUME NEW i \in Asks, AskBack(i)
      PROVE  Batch'
  <2>1. SendNote(i) /\ UNCHANGED <<pc, cursor, pos, end>>
    BY <1>7 DEF AskBack, tick, SendNote
  <2> QED
    BY <2>1, <1>0, TurnNote, BatchStill
<1>8. ASSUME NEW i \in Asks, Amend(i)
      PROVE  Batch'
  BY <1>8, <1>0, BatchStill DEF Amend, store, tick, LaneStep
<1>9. ASSUME NEW i \in Asks, Applied(i)
      PROVE  Batch'
  <2>1. SendNote(i) /\ UNCHANGED <<pc, cursor, pos, end>>
    BY <1>9 DEF Applied, tick, SendNote
  <2> QED
    BY <2>1, <1>0, TurnNote, BatchStill
<1>10. ASSUME NEW i \in Asks, Noted(i)
      PROVE  Batch'
  <2>1. Free(i) /\ UNCHANGED <<pc, cursor, pos, end>> /\ i # Tick /\ i \in Agents
    BY <1>10, BridgeAssumption DEF Noted, tick, store, Asks, Agents, Tick
  <2>2. carry'[Tick] = carry[Tick]
    BY <2>1, AgentsAre DEF Free, KeysOK
  <2> QED
    BY <2>1, <2>2, <1>0, BatchStill
<1>11. ASSUME NEW i \in Asks, NEW t \in Tasks, ReadGraph(i, t)
      PROVE  Batch'
  BY <1>11, <1>0, BatchStill DEF ReadGraph, store, tick, LaneStep
<1>12. ASSUME NEW t \in Tasks, Ripen(t)
      PROVE  Batch'
  BY <1>12, <1>0, BatchStill DEF Ripen, store, tick, LaneStep
<1>13. ASSUME NEW t \in Tasks, Expire(t)
      PROVE  Batch'
  BY <1>13, <1>0, BatchStill DEF Expire, store, tick, LaneStep
<1>14. ASSUME NEW t \in Tasks, Put(t)
      PROVE  Batch'
  <2>1. (pc' = pc \/ pc' = "swept") /\ UNCHANGED <<cursor, pos, end, carry>>
    BY <1>14 DEF Put, Swept
  <2> QED
    BY <2>1, <1>0, BatchStill
<1>15. ASSUME NEW a \in Agents, Look(a)
      PROVE  Batch'
  <2>1. carry[a].at # "idle" /\ UNCHANGED <<pc, cursor, pos, end>> /\ \E x : At(a, x)
    BY <1>15 DEF Look, tick
  <2> QED
    BY <2>1, <1>0, SameRow, BatchStill
<1>16. ASSUME NEW a \in Agents, Send(a)
      PROVE  Batch'
  <2>1. carry[a].at # "idle" /\ UNCHANGED <<pc, cursor, pos, end>> /\ \E x : At(a, x)
    BY <1>16 DEF Send, tick
  <2> QED
    BY <2>1, <1>0, SameRow, BatchStill
<1>17. CASE Wake
  <2>1. pc' # "events"
    BY <1>17 DEF Wake, tick
  <2> QED
    BY <2>1 DEF Batch
<1>18. CASE Pending
  <2>1. pc' # "events"
    BY <1>18 DEF Pending, tick
  <2> QED
    BY <2>1 DEF Batch
<1>19. CASE Consume
  <2> SUFFICES ASSUME pc' = "events"
               PROVE  Batch'
    BY DEF Batch
  <2>1. pos' = cursor /\ end' = Len(log) /\ UNCHANGED <<cursor, outbox, mapped, log>> /\ Free(Tick)
    BY <1>19 DEF Consume, store, graph
  <2>2. carry'[Tick].at = "idle"
    BY <2>1, AgentsAre DEF Free, Idle, KeysOK
  <2>3. \A s \in 1 .. cursor : Reportable(log[s])' => s \in Rows'
    BY <1>0, Places DEF Grown, PastIsJournalled
  <2> QED
    BY <2>1, <2>2, <2>3, Places DEF Batch
<1>20. CASE Advance
  <2>1. pc = "events" /\ pos' = carry[Tick].key /\ carry[Tick].at = "done" /\ Free(Tick)
        /\ UNCHANGED <<pc, cursor, end>>
    BY <1>20 DEF Advance, store
  <2>2. carry'[Tick].at = "idle"
    BY <2>1, AgentsAre DEF Free, Idle, KeysOK
  <2>3. pos' = pos + 1 /\ pos + 1 <= end /\ carry[Tick].key \in Rows
    BY <2>1, AgentsAre DEF Batch, KeysOK
  <2>4. \A s \in 1 .. pos' : Reportable(log[s])' => s \in Rows'
    BY <2>1, <2>3, <1>0, Places DEF Grown, Batch
  <2> QED
    BY <2>1, <2>2, <2>3, <2>4, Places DEF Batch
<1>21. CASE Commit
  <2>1. pc' # "events"
    BY <1>21 DEF Commit
  <2> QED
    BY <2>1 DEF Batch
<1>22. CASE ReadBack
  <2>1. pc' # "events"
    BY <1>22 DEF ReadBack, tick
  <2> QED
    BY <2>1 DEF Batch
<1>23. CASE ReadFails
  <2>1. pc' # "events"
    BY <1>23 DEF ReadFails, tick
  <2> QED
    BY <2>1 DEF Batch
<1>24. CASE Judged
  <2>1. pc' # "events"
    BY <1>24 DEF Judged, tick
  <2> QED
    BY <2>1 DEF Batch
<1>25. CASE Rest
  <2>1. pc' # "events"
    BY <1>25 DEF Rest, tick
  <2> QED
    BY <2>1 DEF Batch
<1>26. ASSUME NEW s \in 1 .. Len(log), Report(s)
      PROVE  Batch'
  <2>1. /\ pc = "events" /\ carry[Tick].at = "idle" /\ s \in pos + 1 .. end
        /\ \A r \in pos + 1 .. s - 1 : ~Untold(r)
        /\ pos' = s - 1 /\ UNCHANGED <<pc, cursor, end>>
        /\ carry' = [carry EXCEPT ![Tick] = [key |-> s, at |-> "send"]]
    BY <1>26 DEF Report
  <2>2. carry'[Tick].key = s
    BY <2>1, AgentsAre DEF KeysOK
  <2>3. \A r \in 1 .. s - 1 : Reportable(log[r])' => r \in Rows'
    <3> SUFFICES ASSUME NEW r \in 1 .. s - 1, Reportable(log[r])'
                 PROVE  r \in Rows'
      OBVIOUS
    <3>1. r \in 1 .. Len(log)
      BY Places
    <3>2. Reportable(log[r])
      BY <1>0, <3>1 DEF Grown
    <3>3. CASE r <= pos
      BY <1>0, <2>1, <3>1, <3>2, <3>3, Places DEF Grown, Batch
    <3>4. CASE ~(r <= pos)
      BY <1>0, <2>1, <3>1, <3>2, <3>4, Places DEF Grown, Untold
    <3> QED
      BY <3>3, <3>4
  <2> QED
    BY <2>1, <2>2, <2>3, Places DEF Batch
<1>27. ASSUME NEW k \in queue, Resend(k)
      PROVE  Batch'
  <2>1. pc # "events" /\ pc' # "events"
    BY <1>27 DEF Resend, Abort
  <2> QED
    BY <2>1 DEF Batch
<1>28. ASSUME NEW t \in Tasks, Retry(t)
      PROVE  Batch'
  <2>1. pc # "events" /\ pc' # "events"
    BY <1>28 DEF Retry, Abort
  <2> QED
    BY <2>1 DEF Batch
<1>29. ASSUME NEW t \in Tasks, GiveUp(t)
      PROVE  Batch'
  <2>1. pc # "events" /\ pc' # "events"
    BY <1>29 DEF GiveUp, Abort
  <2> QED
    BY <2>1 DEF Batch
<1>30. ASSUME NEW t \in Tasks, Tell(t)
      PROVE  Batch'
  <2>1. pc # "events" /\ pc' # "events"
    BY <1>30 DEF Tell, Abort
  <2> QED
    BY <2>1 DEF Batch
<1>31. ASSUME NEW t \in Tasks, Told(t)
      PROVE  Batch'
  <2>1. pc # "events" /\ pc' # "events"
    BY <1>31 DEF Told, Abort
  <2> QED
    BY <2>1 DEF Batch
<1>32. ASSUME NEW old \in SUBSET Tasks, Watch(old)
      PROVE  Batch'
  <2>1. pc' # "events"
    BY <1>32 DEF Watch, tick
  <2> QED
    BY <2>1 DEF Batch
<1>33. CASE Start
  <2>1. pc' # "events"
    BY <1>33 DEF Start, tick
  <2> QED
    BY <2>1 DEF Batch
<1>34. CASE Rearm
  BY <1>34, <1>0, BatchStill DEF Rearm, store, tick, LaneStep
<1>35. CASE Crash
  <2>1. pc' # "events"
    BY <1>35 DEF Crash, tick
  <2> QED
    BY <2>1 DEF Batch
<1>36. CASE UNCHANGED vars
  BY <1>36, <1>0, BatchStill DEF vars, store, tick
<1> QED
  BY <1>1, <1>2, <1>3, <1>4, <1>5, <1>6, <1>7, <1>8, <1>9, <1>10, <1>11, <1>12, <1>13, <1>14, <1>15, <1>16, <1>17, <1>18, <1>19, <1>20, <1>21, <1>22, <1>23, <1>24, <1>25, <1>26, <1>27, <1>28, <1>29, <1>30, <1>31, <1>32, <1>33, <1>34, <1>35, <1>36 DEF Next, Queue, Turn, Clock, Sweep, Carry, TickStep

\* Only the end of a batch moves the cursor.
LEMMA Unmoved ==
    ASSUME [Next]_vars
    PROVE  UNCHANGED cursor \/ Commit
BY DEF Next, Queue, Turn, Clock, Sweep, Carry, TickStep, vars, store, LaneStep, Claim, Cancel, Lapse, WorkerStops, Finish, Plan, AskBack, Amend, Applied, Noted, ReadGraph, Ripen, Expire, Put, Look, Send, Wake, Pending, Consume, Advance, ReadBack, ReadFails, Judged, Rest, Report, Resend, Retry, GiveUp, Tell, Told, Watch, Start, Rearm, Crash

\* Every step keeps what the cursor has left behind in the outbox.
LEMMA PastStep ==
    ASSUME GraphOK, KeysOK, ControlOK, PastIsJournalled, Batch, [Next]_vars
    PROVE  PastIsJournalled'
<1>0. Grown
  BY GrownStep
<1>1. CASE UNCHANGED cursor
  BY <1>0, <1>1, Places DEF PastIsJournalled, Grown
<1>2. CASE Commit
  <2>1. CASE cursor' = pos
    BY <1>0, <1>2, <2>1, Places DEF Commit, PastIsJournalled, Grown, Batch
  <2>2. CASE cursor' = end /\ \A s \in pos + 1 .. end : ~Untold(s)
    <3> SUFFICES ASSUME NEW s \in 1 .. end, Reportable(log[s])'
                 PROVE  s \in Rows'
      BY <2>2 DEF PastIsJournalled
    <3>1. s \in 1 .. Len(log) /\ Reportable(log[s]) /\ pc = "events"
      BY <1>0, <1>2, Places DEF Grown, Commit
    <3>2. CASE s <= pos
      BY <1>0, <3>1, <3>2, Places DEF Grown, Batch
    <3>3. CASE ~(s <= pos)
      BY <1>0, <2>2, <3>1, <3>3, Places DEF Grown, Untold
    <3> QED
      BY <3>2, <3>3
  <2> QED
    BY <1>2, <2>1, <2>2 DEF Commit
<1> QED
  BY <1>1, <1>2, Unmoved

-----------------------------------------------------------------------------
(* The control of the tick and of the reconciler.                          *)

\* Trouble is counted.
LEMMA TroubleCounted ==
    ASSUME [Next]_vars
    PROVE  trouble' = trouble \/ Trouble
BY DEF Next, Queue, Turn, Clock, Sweep, Carry, TickStep, vars, store, tick, recon, LaneStep, Claim, Cancel, Lapse, WorkerStops, Finish, Plan, AskBack, Amend, Applied, Noted, ReadGraph, Ripen, Expire, Put, Look, Send, Wake, Pending, Consume, Advance, Commit, ReadBack, ReadFails, Judged, Rest, Report, Resend, Retry, GiveUp, Tell, Told, Watch, Start, Rearm, Crash

\* The flags of a tick are set or cleared, or stay.
LEMMA FlagsStep ==
    ASSUME sweeping \in BOOLEAN, rearming \in BOOLEAN, [Next]_vars
    PROVE  sweeping' \in BOOLEAN /\ rearming' \in BOOLEAN
<1>1. sweeping' \in {TRUE, FALSE, sweeping, todo' # {}}
  BY DEF Next, Queue, Turn, Clock, Sweep, Carry, TickStep, vars, store, tick, recon, LaneStep, Claim, Cancel, Lapse, WorkerStops, Finish, Plan, AskBack, Amend, Applied, Noted, ReadGraph, Ripen, Expire, Put, Look, Send, Wake, Pending, Consume, Advance, Commit, ReadBack, ReadFails, Judged, Rest, Report, Resend, Retry, GiveUp, Tell, Told, Watch, Start, Rearm, Crash, Swept
<1>2. rearming' \in {TRUE, FALSE, rearming}
  BY DEF Next, Queue, Turn, Clock, Sweep, Carry, TickStep, vars, store, tick, recon, LaneStep, Claim, Cancel, Lapse, WorkerStops, Finish, Plan, AskBack, Amend, Applied, Noted, ReadGraph, Ripen, Expire, Put, Look, Send, Wake, Pending, Consume, Advance, Commit, ReadBack, ReadFails, Judged, Rest, Report, Resend, Retry, GiveUp, Tell, Told, Watch, Start, Rearm, Crash
<1> QED
  BY <1>1, <1>2

PcOK ==
    /\ pc \in {"down", "idle", "sweep", "swept", "outbox", "events", "reconcile", "judge", "watch", "tell"}
    /\ stalled \subseteq Tasks
    /\ arm \in [Tasks -> {"off", "armed", "stopped", "ripe", "expired"}]
    /\ round \subseteq Tasks \X {"retry", "give up", "stalled", "told"}

\* Where the tick is, and what its rounds and the reconciles are.
LEMMA PcStep ==
    ASSUME PcOK, [Next]_vars
    PROVE  PcOK'
<1>1. ASSUME NEW t \in Tasks, Claim(t)
      PROVE  PcOK'
  BY <1>1 DEF Claim, PcOK, LaneStep, Swept, Disarm, Abort, SendNote, graph, chat, store, tick, recon
<1>2. ASSUME NEW t \in Tasks, Cancel(t)
      PROVE  PcOK'
  BY <1>2 DEF Cancel, PcOK, LaneStep, Swept, Disarm, Abort, SendNote, graph, chat, store, tick, recon
<1>3. ASSUME NEW t \in Tasks, Lapse(t)
      PROVE  PcOK'
  BY <1>3 DEF Lapse, PcOK, LaneStep, Swept, Disarm, Abort, SendNote, graph, chat, store, tick, recon
<1>4. ASSUME NEW t \in Tasks, WorkerStops(t)
      PROVE  PcOK'
  BY <1>4 DEF WorkerStops, PcOK, LaneStep, Swept, Disarm, Abort, SendNote, graph, chat, store, tick, recon
<1>5. ASSUME NEW t \in Tasks, NEW to \in {"done", "blocked"}, Finish(t, to)
      PROVE  PcOK'
  BY <1>5 DEF Finish, PcOK, LaneStep, Swept, Disarm, Abort, SendNote, graph, chat, store, tick, recon
<1>6. ASSUME NEW t \in Tasks, Plan(t)
      PROVE  PcOK'
  BY <1>6 DEF Plan, PcOK, LaneStep, Swept, Disarm, Abort, SendNote, graph, chat, store, tick, recon
<1>7. ASSUME NEW i \in Asks, AskBack(i)
      PROVE  PcOK'
  BY <1>7 DEF AskBack, PcOK, LaneStep, Swept, Disarm, Abort, SendNote, graph, chat, store, tick, recon
<1>8. ASSUME NEW i \in Asks, Amend(i)
      PROVE  PcOK'
  BY <1>8 DEF Amend, PcOK, LaneStep, Swept, Disarm, Abort, SendNote, graph, chat, store, tick, recon
<1>9. ASSUME NEW i \in Asks, Applied(i)
      PROVE  PcOK'
  BY <1>9 DEF Applied, PcOK, LaneStep, Swept, Disarm, Abort, SendNote, graph, chat, store, tick, recon
<1>10. ASSUME NEW i \in Asks, Noted(i)
      PROVE  PcOK'
  BY <1>10 DEF Noted, PcOK, LaneStep, Swept, Disarm, Abort, SendNote, graph, chat, store, tick, recon
<1>11. ASSUME NEW i \in Asks, NEW t \in Tasks, ReadGraph(i, t)
      PROVE  PcOK'
  BY <1>11 DEF ReadGraph, PcOK, LaneStep, Swept, Disarm, Abort, SendNote, graph, chat, store, tick, recon
<1>12. ASSUME NEW t \in Tasks, Ripen(t)
      PROVE  PcOK'
  BY <1>12 DEF Ripen, PcOK, LaneStep, Swept, Disarm, Abort, SendNote, graph, chat, store, tick, recon
<1>13. ASSUME NEW t \in Tasks, Expire(t)
      PROVE  PcOK'
  BY <1>13 DEF Expire, PcOK, LaneStep, Swept, Disarm, Abort, SendNote, graph, chat, store, tick, recon
<1>14. ASSUME NEW t \in Tasks, Put(t)
      PROVE  PcOK'
  BY <1>14 DEF Put, PcOK, LaneStep, Swept, Disarm, Abort, SendNote, graph, chat, store, tick, recon
<1>15. ASSUME NEW a \in Agents, Look(a)
      PROVE  PcOK'
  BY <1>15 DEF Look, PcOK, LaneStep, Swept, Disarm, Abort, SendNote, graph, chat, store, tick, recon
<1>16. ASSUME NEW a \in Agents, Send(a)
      PROVE  PcOK'
  BY <1>16 DEF Send, PcOK, LaneStep, Swept, Disarm, Abort, SendNote, graph, chat, store, tick, recon
<1>17. CASE Wake
  BY <1>17 DEF Wake, PcOK, LaneStep, Swept, Disarm, Abort, SendNote, graph, chat, store, tick, recon
<1>18. CASE Pending
  BY <1>18 DEF Pending, PcOK, LaneStep, Swept, Disarm, Abort, SendNote, graph, chat, store, tick, recon
<1>19. CASE Consume
  BY <1>19 DEF Consume, PcOK, LaneStep, Swept, Disarm, Abort, SendNote, graph, chat, store, tick, recon
<1>20. CASE Advance
  BY <1>20 DEF Advance, PcOK, LaneStep, Swept, Disarm, Abort, SendNote, graph, chat, store, tick, recon
<1>21. CASE Commit
  BY <1>21 DEF Commit, PcOK, LaneStep, Swept, Disarm, Abort, SendNote, graph, chat, store, tick, recon
<1>22. CASE ReadBack
  BY <1>22 DEF ReadBack, PcOK, LaneStep, Swept, Disarm, Abort, SendNote, graph, chat, store, tick, recon
<1>23. CASE ReadFails
  BY <1>23 DEF ReadFails, PcOK, LaneStep, Swept, Disarm, Abort, SendNote, graph, chat, store, tick, recon
<1>24. CASE Judged
  BY <1>24 DEF Judged, PcOK, LaneStep, Swept, Disarm, Abort, SendNote, graph, chat, store, tick, recon
<1>25. CASE Rest
  BY <1>25 DEF Rest, PcOK, LaneStep, Swept, Disarm, Abort, SendNote, graph, chat, store, tick, recon
<1>26. ASSUME NEW s \in 1 .. Len(log), Report(s)
      PROVE  PcOK'
  BY <1>26 DEF Report, PcOK, LaneStep, Swept, Disarm, Abort, SendNote, graph, chat, store, tick, recon
<1>27. ASSUME NEW k \in queue, Resend(k)
      PROVE  PcOK'
  BY <1>27 DEF Resend, PcOK, LaneStep, Swept, Disarm, Abort, SendNote, graph, chat, store, tick, recon
<1>28. ASSUME NEW t \in Tasks, Retry(t)
      PROVE  PcOK'
  BY <1>28 DEF Retry, PcOK, LaneStep, Swept, Disarm, Abort, SendNote, graph, chat, store, tick, recon
<1>29. ASSUME NEW t \in Tasks, GiveUp(t)
      PROVE  PcOK'
  BY <1>29 DEF GiveUp, PcOK, LaneStep, Swept, Disarm, Abort, SendNote, graph, chat, store, tick, recon
<1>30. ASSUME NEW t \in Tasks, Tell(t)
      PROVE  PcOK'
  <2>1. UNCHANGED <<pc, stalled, arm>>
    BY <1>30 DEF Tell, recon
  <2>2. round' = (round \ {<<t, "stalled">>}) \cup {<<t, "told">>}
    BY <1>30 DEF Tell
  <2>3. round' \subseteq Tasks \X {"retry", "give up", "stalled", "told"}
    <3>1. <<t, "told">> \in Tasks \X {"retry", "give up", "stalled", "told"}
      OBVIOUS
    <3>2. round \subseteq Tasks \X {"retry", "give up", "stalled", "told"}
      BY DEF PcOK
    <3> QED
      BY <2>2, <3>1, <3>2, Zenon
  <2> QED
    BY <2>1, <2>3 DEF PcOK
<1>31. ASSUME NEW t \in Tasks, Told(t)
      PROVE  PcOK'
  BY <1>31 DEF Told, PcOK, LaneStep, Swept, Disarm, Abort, SendNote, graph, chat, store, tick, recon
<1>32. ASSUME NEW old \in SUBSET Tasks, Watch(old)
      PROVE  PcOK'
  BY <1>32 DEF Watch, PcOK, LaneStep, Swept, Disarm, Abort, SendNote, graph, chat, store, tick, recon
<1>33. CASE Start
  BY <1>33 DEF Start, PcOK, LaneStep, Swept, Disarm, Abort, SendNote, graph, chat, store, tick, recon
<1>34. CASE Rearm
  BY <1>34 DEF Rearm, PcOK, LaneStep, Swept, Disarm, Abort, SendNote, graph, chat, store, tick, recon
<1>35. CASE Crash
  BY <1>35 DEF Crash, PcOK, LaneStep, Swept, Disarm, Abort, SendNote, graph, chat, store, tick, recon
<1>36. CASE UNCHANGED vars
  BY <1>36 DEF vars, PcOK, store, tick, recon
<1> QED
  BY <1>1, <1>2, <1>3, <1>4, <1>5, <1>6, <1>7, <1>8, <1>9, <1>10, <1>11, <1>12, <1>13, <1>14, <1>15, <1>16, <1>17, <1>18, <1>19, <1>20, <1>21, <1>22, <1>23, <1>24, <1>25, <1>26, <1>27, <1>28, <1>29, <1>30, <1>31, <1>32, <1>33, <1>34, <1>35, <1>36 DEF Next, Queue, Turn, Clock, Sweep, Carry, TickStep

\* Where the tick is in a log that has grown.
LEMMA PlacesStep ==
    ASSUME GraphOK, KeysOK, ControlOK, Batch, [Next]_vars
    PROVE  {cursor', pos', end', seen'} \subseteq 0 .. Len(log')
<1>1. LogGrows /\ Len(log') \in Nat /\ Len(log) \in Nat /\ Len(log) <= Len(log')
  BY LogStep, LengthNat DEF LogGrows
<1>2. \A x \in 0 .. Len(log) : x \in 0 .. Len(log')
  BY <1>1
<1>3. cursor' \in {cursor, pos, end} /\ end' \in {end, 0, Len(log)} /\ seen' \in {seen, 0, Len(log)}
  BY DEF Next, Queue, Turn, Clock, Sweep, Carry, TickStep, vars, store, tick, recon, LaneStep, Claim, Cancel, Lapse, WorkerStops, Finish, Plan, AskBack, Amend, Applied, Noted, ReadGraph, Ripen, Expire, Put, Look, Send, Wake, Pending, Consume, Advance, Commit, ReadBack, ReadFails, Judged, Rest, Report, Resend, Retry, GiveUp, Tell, Told, Watch, Start, Rearm, Crash
<1>4. (pos' \in {pos, 0, cursor}) \/ (\E s \in 1 .. Len(log) : Report(s)) \/ Advance
  BY DEF Next, Queue, Turn, Clock, Sweep, Carry, TickStep, vars, store, tick, recon, LaneStep, Claim, Cancel, Lapse, WorkerStops, Finish, Plan, AskBack, Amend, Applied, Noted, ReadGraph, Ripen, Expire, Put, Look, Send, Wake, Pending, Consume, Commit, ReadBack, ReadFails, Judged, Rest, Resend, Retry, GiveUp, Tell, Told, Watch, Start, Rearm, Crash
<1>5. ASSUME NEW s \in 1 .. Len(log), Report(s)
      PROVE  pos' \in 0 .. Len(log)
  BY <1>1, <1>5 DEF Report
<1>6. ASSUME Advance
      PROVE  pos' \in 0 .. Len(log)
  <2>1. pos' = pos + 1 /\ pos + 1 <= end
    BY <1>6 DEF Advance, Batch
  <2> QED
    BY <2>1, Places
<1> QED
  BY <1>1, <1>2, <1>3, <1>4, <1>5, <1>6, Places

\* Every step keeps the control.
LEMMA ControlStep ==
    ASSUME GraphOK, KeysOK, ControlOK, Batch, [Next]_vars
    PROVE  ControlOK'
<1>1. PcOK /\ trouble \in Nat /\ sweeping \in BOOLEAN /\ rearming \in BOOLEAN
  BY DEF ControlOK, PcOK
<1>2. PcOK'
  BY <1>1, PcStep
<1>3. sweeping' \in BOOLEAN /\ rearming' \in BOOLEAN
  BY <1>1, FlagsStep
<1>4. trouble' \in Nat
  BY <1>1, TroubleCounted DEF Trouble
<1>5. {cursor', pos', end', seen'} \subseteq 0 .. Len(log')
  BY PlacesStep
<1> QED
  BY <1>2, <1>3, <1>4, <1>5 DEF ControlOK, PcOK

-----------------------------------------------------------------------------
(* The theorems.                                                           *)

Inv == TypeOK /\ PastIsJournalled /\ Batch

\* The bridge starts with an empty queue and an empty chat.
LEMMA StartsSo == ASSUME Init PROVE Inv
<1>1. GraphOK
  <2>1. log \in Seq(Event) /\ Len(log) = 0
    BY DEF Init
  <2>2. card \in [Tasks -> Card] /\ \A t \in Tasks : card[t].status = "none"
    BY DEF Init, Card, NoCard, Status
  <2>3. ask \in [Asks -> [at : {"none", "amend", "amended", "refused", "note", "over"},
                         task : Tasks \cup {"none"}, saw : Card]]
        /\ \A i \in Asks : ask[i].at = "none"
    BY AskedType DEF Init
  <2> QED
    BY <2>1, <2>2, <2>3 DEF Init, GraphOK
<1>2. KeysOK
  <2>1. outbox \in [sending : SUBSET Int, uncertain : SUBSET Int, sent : SUBSET Int] /\ Rows = {}
    BY DEF Init, Rows
  <2>2. told \in Seq(Nat) /\ Len(told) = Len(log)
    BY DEF Init
  <2>3. carry \in [Agents -> [key : Int, at : {"idle", "look", "send", "done", "failed"}]]
        /\ \A a \in Agents : carry[a].at = "idle"
    BY DEF Init, Idle
  <2> QED
    BY <2>1, <2>2, <2>3 DEF Init, KeysOK
<1>3. ControlOK
  <2>1. Len(log) = 0 /\ {cursor, pos, end, seen} \subseteq 0 .. Len(log)
    BY DEF Init
  <2>2. sweeping \in BOOLEAN /\ rearming \in BOOLEAN
    BY DEF Init
  <2> QED
    BY <2>1, <2>2 DEF Init, ControlOK
<1>4. PastIsJournalled /\ Batch
  BY DEF Init, PastIsJournalled, Batch
<1> QED
  BY <1>1, <1>2, <1>3, <1>4 DEF Inv, TypeOK

\* The types, the batch and the outbox hold together.
THEOREM Invariance == Spec => []Inv
<1>1. Inv /\ [Next]_vars => Inv'
  <2> SUFFICES ASSUME Inv, [Next]_vars
               PROVE  Inv'
    OBVIOUS
  <2>1. GraphOK /\ KeysOK /\ ControlOK /\ PastIsJournalled /\ Batch
    BY DEF Inv, TypeOK
  <2>2. GraphOK'
    BY <2>1, GraphStep DEF KeysOK
  <2>3. KeysOK'
    BY <2>1, KeysStep
  <2>4. ControlOK' /\ PastIsJournalled' /\ Batch'
    BY <2>1, ControlStep, PastStep, BatchStep
  <2> QED
    BY <2>2, <2>3, <2>4 DEF Inv, TypeOK
<1> QED
  BY <1>1, StartsSo, PTL DEF Spec

\* Every variable keeps its type, whatever the queue, the chat, the gateway and
\* a crash do: rows name events that exist, and whatever is in the chat was
\* journalled before it was sent.
THEOREM TypeCorrect == Spec => []TypeOK
<1>1. Inv => TypeOK
  BY DEF Inv
<1> QED
  BY <1>1, Invariance, PTL

\* consumeQueueEvents never moves its cursor past an event the chat is to be
\* told of that is not in the outbox.
THEOREM PastIsJournalledAlways == Spec => []PastIsJournalled
<1>1. Inv => PastIsJournalled
  BY DEF Inv
<1> QED
  BY <1>1, Invariance, PTL

-----------------------------------------------------------------------------
(* What is told once.                                                      *)

\* A step that tells the chat nothing: no message lands, no row changes its state but by a
\* note that is journalled, and no agent takes up another row than that.
Silent ==
    /\ UNCHANGED <<thread, blurred>> /\ told' \in {told, Append(told, 0)}
    /\ \/ UNCHANGED outbox /\ \A a \in Agents : carry'[a] \in {carry[a], Idle}
       \/ \E a \in Agents : SendNote(a)

\* Rows and agents left alone.
LEMMA SilentStill ==
    ASSUME UNCHANGED <<thread, blurred, outbox, carry>>, told' \in {told, Append(told, 0)}
    PROVE  Silent
BY DEF Silent

\* An agent puts its row down.
LEMMA SilentFree ==
    ASSUME KeysOK, UNCHANGED <<thread, blurred, outbox>>, told' \in {told, Append(told, 0)},
           NEW a \in Agents, Free(a)
    PROVE  Silent
BY DEF Silent, Free, KeysOK

\* A new note.
LEMMA SilentNote ==
    ASSUME UNCHANGED <<thread, blurred, told>>, NEW a \in Agents, SendNote(a)
    PROVE  Silent
BY DEF Silent

\* All steps but these five are silent.
Speaks ==
    \/ \E a \in Agents : Look(a) \/ Send(a)
    \/ \E k \in queue : Resend(k)
    \/ \E s \in 1 .. Len(log) : Report(s)
    \/ Crash

\* No other step tells the chat anything.
LEMMA SilentStep ==
    ASSUME KeysOK, [Next]_vars, ~Speaks
    PROVE  Silent
<1>1. CASE Queue
  BY <1>1, SilentStill DEF Queue, Claim, Finish, Cancel, Lapse, WorkerStops, LaneStep, Move, Update,
     chat, store
<1>2. CASE Turn
  <2>1. ASSUME NEW t \in Tasks, Plan(t)
        PROVE  Silent
    BY <2>1, SilentStill DEF Plan, chat
  <2>2. ASSUME NEW i \in Asks, AskBack(i) \/ Applied(i)
        PROVE  Silent
    BY <2>2, SilentNote, AgentsAre DEF AskBack, Applied, chat
  <2>3. ASSUME NEW i \in Asks, Amend(i)
        PROVE  Silent
    BY <2>3, SilentStill DEF Amend, Amends, Update, store
  <2>4. ASSUME NEW i \in Asks, Noted(i)
        PROVE  Silent
    BY <2>4, SilentFree, AgentsAre DEF Noted, chat, store
  <2>5. ASSUME NEW i \in Asks, NEW t \in Tasks, ReadGraph(i, t)
        PROVE  Silent
    BY <2>5, SilentStill DEF ReadGraph, chat, store
  <2> QED
    BY <1>2, <2>1, <2>2, <2>3, <2>4, <2>5 DEF Turn
<1>3. CASE Clock
  BY <1>3, SilentStill DEF Clock, Ripen, Expire, chat, store
<1>4. CASE Sweep
  BY <1>4, SilentStill DEF Sweep, Put, PutLands, Update
<1>5. CASE Wake \/ Pending \/ ReadBack \/ ReadFails \/ Rest \/ \E old \in SUBSET Tasks : Watch(old)
  BY <1>5, SilentStill DEF Wake, Pending, ReadBack, ReadFails, Rest, Watch, chat, store
<1>6. CASE Consume \/ Advance \/ Commit \/ Judged \/ \E t \in Tasks : Told(t)
  BY <1>6, SilentFree, AgentsAre DEF Consume, Advance, Commit, Judged, Told, chat, store
<1>7. CASE \E t \in Tasks : GiveUp(t) \/ Tell(t)
  BY <1>7, SilentNote, AgentsAre DEF GiveUp, Tell, chat
<1>8. ASSUME NEW t \in Tasks, Retry(t)
      PROVE  Silent
  <2>1. UNCHANGED <<thread, blurred>>
    BY <1>8 DEF Retry
  <2>2. CASE SendNote(Tick) /\ UNCHANGED told
    BY <2>1, <2>2, SilentNote, AgentsAre
  <2>3. CASE Free(Tick) /\ UNCHANGED outbox /\ told' \in {told, Append(told, 0)}
    BY <2>1, <2>3, SilentFree, AgentsAre
  <2> QED
    BY <1>8, <2>2, <2>3 DEF Retry, Retries, Move, Update
<1>9. CASE Start \/ Rearm
  BY <1>9, SilentStill DEF Start, Rearm, chat, store
<1>10. CASE UNCHANGED vars
  BY <1>10, SilentStill DEF vars, chat, store
<1> QED
  BY <1>1, <1>2, <1>3, <1>4, <1>5, <1>6, <1>7, <1>8, <1>9, <1>10 DEF Next, TickStep, Carry, Speaks

\* A row of an event: its message is in the chat when it was counted, and it was counted once
\* at most, and then it is neither to be sent for the first time nor in the tick's hands to
\* be sent; unless its delivery was blurred.
Counted(s) ==
    /\ told[s] > 0 => s \in thread
    /\ s \notin blurred =>
          \/ told[s] = 0
          \/ told[s] = 1 /\ s \notin outbox.sending /\ ~(carry[Tick].at = "send" /\ carry[Tick].key = s)

\* A follow-up's turn only carries notes, and a row marked sent has its words in the chat.
Once ==
    /\ \A i \in Asks : carry[i].at # "idle" => carry[i].key < 0
    /\ \A k \in outbox.sent : \E j \in thread : SameText(j, k)
    /\ \A s \in 1 .. Len(log) : Counted(s)

\* Two rows with the same words keep them.
LEMMA SameTextStays ==
    ASSUME GraphOK, KeysOK, LogGrows, NEW j \in Rows, NEW k \in Rows, SameText(j, k)
    PROVE  SameText(j, k)'
<1>1. j \in Int /\ k \in Int /\ j <= Len(log) /\ k <= Len(log) /\ Len(log) \in Nat
  BY LengthNat DEF KeysOK
<1>2. CASE j = k
  BY <1>2 DEF SameText
<1>3. CASE j > 0 /\ k > 0
  <2>1. j \in 1 .. Len(log) /\ k \in 1 .. Len(log)
    BY <1>1, <1>3
  <2>2. log'[j] = log[j] /\ log'[k] = log[k]
    BY <2>1 DEF LogGrows
  <2> QED
    BY <2>2 DEF SameText
<1> QED
  BY <1>2, <1>3 DEF SameText

\* What was sent still has its words in the chat, when the chat does not shrink and the rows
\* newly marked sent have theirs.
LEMMA SentStays ==
    ASSUME GraphOK, KeysOK, LogGrows, thread \subseteq thread',
           \A k \in outbox.sent : \E j \in thread : SameText(j, k),
           \A k \in outbox'.sent \ outbox.sent : \E j \in thread' : SameText(j, k)'
    PROVE  \A k \in outbox'.sent : \E j \in thread' : SameText(j, k)'
<1> SUFFICES ASSUME NEW k \in outbox.sent
             PROVE  \E j \in thread' : SameText(j, k)'
  OBVIOUS
<1>1. PICK j \in thread : SameText(j, k)
  OBVIOUS
<1>2. j \in Rows /\ k \in Rows
  BY <1>1 DEF KeysOK, Rows
<1> QED
  BY <1>1, <1>2, SameTextStays

\* Silent steps count nothing, and put no event in the tick's hands.
LEMMA SilentOnce ==
    ASSUME GraphOK, KeysOK, LogGrows, Once, Silent
    PROVE  Once'
<1>0. Len(log) \in Nat /\ Len(log') = Len(told') /\ told \in Seq(Nat) /\ Len(told) = Len(log)
      /\ notes \in Nat /\ carry \in [Agents -> [key : Int, at : {"idle", "look", "send", "done", "failed"}]]
  BY LengthNat DEF KeysOK, LogGrows
<1>1. \A i \in Asks : carry'[i].at # "idle" => carry'[i].key < 0
  <2>1. CASE \A a \in Agents : carry'[a] \in {carry[a], Idle}
    BY <2>1, AgentsAre DEF Once, Idle
  <2>2. CASE \E a \in Agents : SendNote(a)
    BY <1>0, <2>2, AgentsAre DEF Once, SendNote, Note
  <2> QED
    BY <2>1, <2>2 DEF Silent
<1>2. outbox'.sent = outbox.sent /\ \A s \in Nat : s \in outbox'.sending => s \in outbox.sending \/ s = 0
  <2>1. CASE \E a \in Agents : SendNote(a)
    BY <1>0, <2>1 DEF SendNote, Journal, Note, KeysOK
  <2> QED
    BY <2>1 DEF Silent
<1>3. \A k \in outbox'.sent : \E j \in thread' : SameText(j, k)'
  <2>1. thread' = thread /\ \A k \in outbox.sent : \E j \in thread : SameText(j, k)
    BY DEF Silent, Once
  <2> QED
    BY <1>2, <2>1, SentStays
<1>4. ASSUME NEW s \in 1 .. Len(log')
      PROVE  Counted(s)'
  <2>1. CASE s \in 1 .. Len(log)
    <3>1. told'[s] = told[s] /\ Counted(s) /\ thread' = thread /\ blurred' = blurred
      BY <1>0, <2>1 DEF Silent, Once
    <3>2. carry'[Tick].at = "send" /\ carry'[Tick].key = s => carry[Tick].at = "send" /\ carry[Tick].key = s
      <4>1. CASE \A a \in Agents : carry'[a] \in {carry[a], Idle}
        BY <4>1, AgentsAre DEF Idle
      <4>2. CASE \E a \in Agents : SendNote(a)
        BY <1>0, <2>1, <4>2, AgentsAre DEF SendNote, Note
      <4> QED
        BY <4>1, <4>2 DEF Silent
    <3>3. s \in outbox'.sending => s \in outbox.sending
      BY <1>0, <1>2, <2>1
    <3> QED
      BY <3>1, <3>2, <3>3 DEF Counted
  <2>2. CASE s \notin 1 .. Len(log)
    <3>1. told'[s] = 0
      BY <1>0, <2>2 DEF Silent
    <3> QED
      BY <3>1 DEF Counted
  <2> QED
    BY <2>1, <2>2
<1> QED
  BY <1>1, <1>3, <1>4 DEF Once

\* A row is sent again after a look only when its message is not in the chat, or the look failed.
LEMMA LookOnce ==
    ASSUME GraphOK, KeysOK, LogGrows, Once, NEW a \in Agents, Look(a)
    PROVE  Once'
<1>k. PICK k \in Int : k = carry[a].key
  BY DEF KeysOK
<1>0. /\ Len(log) \in Nat /\ carry \in [Agents -> [key : Int, at : {"idle", "look", "send", "done", "failed"}]]
      /\ outbox \in [sending : SUBSET Int, uncertain : SUBSET Int, sent : SUBSET Int]
      /\ k = carry[a].key /\ k \in Rows /\ carry[a].at = "look" /\ blurred \subseteq blurred'
      /\ UNCHANGED <<log, told, thread>>
  BY <1>k, LengthNat DEF KeysOK, Look, graph, Blur
<1>1. PICK x \in {"done", "send"} : carry' = [carry EXCEPT ![a].at = x]
  BY DEF Look, At
<1>2. \A i \in Asks : carry'[i].at # "idle" => carry'[i].key < 0
  BY <1>0, <1>1, AgentsAre DEF Once
<1>3. CASE MarkSent(k) /\ (\E j \in thread : SameText(j, k)) /\ x = "done"
  <2>1. outbox'.sent = outbox.sent \cup {k} /\ outbox'.sending \subseteq outbox.sending
    BY <1>3 DEF MarkSent
  <2>2. \E j \in thread' : SameText(j, k)'
    BY <1>0, <1>3 DEF SameText
  <2>3. \A q \in outbox'.sent : \E j \in thread' : SameText(j, q)'
    BY <1>0, <2>1, <2>2, SentStays DEF Once
  <2>4. ASSUME NEW s \in 1 .. Len(log')
        PROVE  Counted(s)'
    <3>1. Counted(s)
      BY <1>0, <2>4 DEF Once
    <3>2. carry'[Tick].at = "send" /\ carry'[Tick].key = s => carry[Tick].at = "send" /\ carry[Tick].key = s
      BY <1>0, <1>1, <1>3, AgentsAre
    <3> QED
      BY <1>0, <2>1, <3>1, <3>2 DEF Counted
  <2> QED
    BY <1>2, <2>3, <2>4 DEF Once
<1>4. CASE /\ UNCHANGED outbox
           /\ (\A j \in thread : ~SameText(j, k)) \/ (k > 0 => k \in blurred')
  <2>1. \A q \in outbox'.sent : \E j \in thread' : SameText(j, q)'
    BY <1>0, <1>4, SentStays DEF Once
  <2>2. ASSUME NEW s \in 1 .. Len(log')
        PROVE  Counted(s)'
    <3>1. Counted(s) /\ s > 0
      BY <1>0, <2>2 DEF Once
    <3>2. CASE carry'[Tick].key = s /\ a = Tick
      <4>1. k = s
        BY <1>0, <1>1, <3>2, AgentsAre
      <4>2. s \in thread => SameText(s, k)
        BY <4>1 DEF SameText
      <4>3. s \in blurred' \/ s \notin thread
        BY <1>4, <3>1, <4>1, <4>2
      <4>4. told[s] \in Nat
        BY <1>0, <2>2 DEF KeysOK
      <4> QED
        BY <1>0, <3>1, <4>3, <4>4 DEF Counted
    <3>3. CASE ~(carry'[Tick].key = s /\ a = Tick)
      <4>1. carry'[Tick].at = "send" /\ carry'[Tick].key = s => carry[Tick].at = "send" /\ carry[Tick].key = s
        BY <1>0, <1>1, <3>3, AgentsAre
      <4> QED
        BY <1>0, <1>4, <3>1, <4>1 DEF Counted
    <3> QED
      BY <3>2, <3>3
  <2> QED
    BY <1>2, <2>1, <2>2 DEF Once
<1>5. \/ x = "done" /\ MarkSent(k) /\ (\E j \in thread : SameText(j, k))
      \/ (UNCHANGED outbox /\ ((\A j \in thread : ~SameText(j, k)) \/ (k > 0 => k \in blurred')))
  <2>1. carry'[a].at = x
    BY <1>0, <1>1
  <2>2. At(a, "done") => carry'[a].at = "done"
    BY <1>0 DEF At
  <2> QED
    BY <1>0, <2>1, <2>2 DEF Look, Blur
<1> QED
  BY <1>3, <1>4, <1>5

\* A message that lands is the first one of its event, unless the delivery was blurred.
LEMMA SendOnce ==
    ASSUME GraphOK, KeysOK, LogGrows, Once, NEW a \in Agents, Send(a)
    PROVE  Once'
<1>k. PICK k \in Int : k = carry[a].key
  BY DEF KeysOK
<1>0. /\ Len(log) \in Nat /\ carry \in [Agents -> [key : Int, at : {"idle", "look", "send", "done", "failed"}]]
      /\ outbox \in [sending : SUBSET Int, uncertain : SUBSET Int, sent : SUBSET Int]
      /\ k = carry[a].key /\ k \in Rows /\ k <= Len(log) /\ carry[a].at = "send" /\ UNCHANGED <<log, blurred>>
      /\ told \in Seq(Nat) /\ Len(told) = Len(log)
  BY <1>k, LengthNat DEF KeysOK, Send, graph
<1>1. PICK x \in {"done", "failed"} : carry' = [carry EXCEPT ![a].at = x]
  BY DEF Send, At
<1>2. \A i \in Asks : carry'[i].at # "idle" => carry'[i].key < 0
  BY <1>0, <1>1, AgentsAre DEF Once
<1>3. /\ outbox'.sending = outbox.sending \ {k}
      /\ \/ MarkSent(k) /\ Arrive(k)
         \/ MarkUncertain(k) /\ (Arrive(k) \/ UNCHANGED <<thread, told>>)
  BY <1>0 DEF Send, MarkSent, MarkUncertain
<1>4. thread \subseteq thread' /\ thread' \subseteq thread \cup {k}
  BY <1>3 DEF Arrive
<1>5. \A q \in outbox'.sent : \E j \in thread' : SameText(j, q)'
  <2>1. \A q \in outbox'.sent \ outbox.sent : q = k /\ k \in thread'
    BY <1>3 DEF MarkSent, MarkUncertain, Arrive
  <2>2. SameText(k, k)'
    BY DEF SameText
  <2>3. \A q \in outbox'.sent \ outbox.sent : \E j \in thread' : SameText(j, q)'
    BY <2>1, <2>2
  <2>4. \A q \in outbox.sent : \E j \in thread : SameText(j, q)
    BY DEF Once
  <2> QED
    BY <1>4, <2>3, <2>4, SentStays
<1>6. k > 0 => a = Tick
  <2>1. a \in Asks \/ a = Tick
    BY DEF Agents, Tick
  <2> QED
    BY <1>0, <2>1 DEF Once
<1>7. ASSUME NEW s \in 1 .. Len(log')
      PROVE  Counted(s)'
  <2>1. Counted(s) /\ s \in 1 .. Len(log) /\ told[s] \in Nat
    BY <1>0, <1>7 DEF Once
  <2>2. carry'[Tick].at # "send" \/ carry'[Tick] = carry[Tick]
    BY <1>0, <1>1, AgentsAre
  <2>3. CASE s = k
    <3>1. a = Tick /\ carry[Tick].at = "send" /\ carry[Tick].key = s /\ carry'[Tick].at # "send"
      BY <1>0, <1>1, <1>6, <2>1, <2>3, AgentsAre
    <3>2. s \notin blurred => told[s] = 0
      BY <2>1, <3>1 DEF Counted
    <3>3. Arrive(k) => told'[s] = told[s] + 1 /\ s \in thread'
      BY <1>0, <2>1, <2>3 DEF Arrive
    <3>4. s \notin outbox'.sending
      BY <1>3, <2>3
    <3>5. CASE Arrive(k)
      BY <1>0, <2>1, <3>1, <3>2, <3>3, <3>4, <3>5 DEF Counted
    <3>6. CASE UNCHANGED <<thread, told>>
      BY <1>0, <2>1, <3>1, <3>2, <3>4, <3>6 DEF Counted
    <3> QED
      BY <1>3, <3>5, <3>6
  <2>4. CASE s # k
    <3>1. told'[s] = told[s]
      BY <1>0, <1>3, <2>1, <2>4 DEF Arrive
    <3> QED
      BY <1>0, <1>3, <1>4, <2>1, <2>2, <2>4, <3>1 DEF Counted
  <2> QED
    BY <2>3, <2>4
<1> QED
  BY <1>2, <1>5, <1>7 DEF Once

\* A row that is taken up again is only sent without a look when nobody has sent it, or its
\* delivery is blurred.
LEMMA ResendOnce ==
    ASSUME GraphOK, KeysOK, LogGrows, Once, NEW k \in queue, Resend(k)
    PROVE  Once'
<1>0. /\ Len(log) \in Nat /\ carry \in [Agents -> [key : Int, at : {"idle", "look", "send", "done", "failed"}]]
      /\ UNCHANGED <<log, told, thread, blurred, outbox>> /\ k \in Rows
      /\ carry' = [carry EXCEPT ![Tick] = Deliver(k)]
  BY LengthNat DEF KeysOK, Resend, graph, chat, store
<1>1. \A i \in Asks : carry'[i].at # "idle" => carry'[i].key < 0
  <2>1. \A i \in Asks : i # Tick
    BY BridgeAssumption DEF Asks, Tick
  <2> QED
    BY <1>0, <2>1, AgentsAre DEF Once
<1>2. \A q \in outbox'.sent : \E j \in thread' : SameText(j, q)'
  BY <1>0, SentStays DEF Once
<1>3. ASSUME NEW s \in 1 .. Len(log')
      PROVE  Counted(s)'
  <2>1. Counted(s)
    BY <1>0, <1>3 DEF Once
  <2>2. carry'[Tick].at = "send" /\ carry'[Tick].key = s => s \in outbox.sending
    BY <1>0, AgentsAre DEF Deliver, Rows
  <2> QED
    BY <1>0, <2>1, <2>2 DEF Counted
<1> QED
  BY <1>1, <1>2, <1>3 DEF Once

\* An event that is not in the outbox was never told.
LEMMA ReportOnce ==
    ASSUME GraphOK, KeysOK, LogGrows, Once, NEW r \in 1 .. Len(log), Report(r)
    PROVE  Once'
<1>0. /\ Len(log) \in Nat /\ carry \in [Agents -> [key : Int, at : {"idle", "look", "send", "done", "failed"}]]
      /\ outbox \in [sending : SUBSET Int, uncertain : SUBSET Int, sent : SUBSET Int]
      /\ UNCHANGED <<log, told, thread, blurred>> /\ r \notin Rows
      /\ outbox' = [outbox EXCEPT !.sending = @ \cup {r}]
      /\ carry' = [carry EXCEPT ![Tick] = [key |-> r, at |-> "send"]]
      /\ told \in Seq(Nat) /\ Len(told) = Len(log)
  BY LengthNat DEF KeysOK, Report, graph, chat, Journal, Untold
<1>1. \A i \in Asks : carry'[i].at # "idle" => carry'[i].key < 0
  <2>1. \A i \in Asks : i # Tick
    BY BridgeAssumption DEF Asks, Tick
  <2> QED
    BY <1>0, <2>1, AgentsAre DEF Once
<1>2. \A q \in outbox'.sent : \E j \in thread' : SameText(j, q)'
  BY <1>0, SentStays DEF Once
<1>3. ASSUME NEW s \in 1 .. Len(log')
      PROVE  Counted(s)'
  <2>1. Counted(s) /\ told[s] \in Nat
    BY <1>0, <1>3 DEF Once
  <2>2. CASE s = r
    <3>1. s \notin thread
      BY <1>0, <2>2 DEF KeysOK
    <3>2. told[s] = 0
      BY <2>1, <3>1 DEF Counted
    <3> QED
      BY <1>0, <3>2 DEF Counted
  <2>3. CASE s # r
    <3>1. ~(carry'[Tick].at = "send" /\ carry'[Tick].key = s) /\ (s \in outbox'.sending => s \in outbox.sending)
      BY <1>0, <2>3, AgentsAre
    <3> QED
      BY <1>0, <2>1, <3>1 DEF Counted
  <2> QED
    BY <2>2, <2>3
<1> QED
  BY <1>1, <1>2, <1>3 DEF Once

\* What a crash interrupts is blurred, whether it arrives or not.
LEMMA CrashOnce ==
    ASSUME GraphOK, KeysOK, LogGrows, Once, Crash
    PROVE  Once'
<1> DEFINE sending == {carry[a].key : a \in {b \in Agents : carry[b].at = "send"}}
<1>1. PICK arrived \in SUBSET sending :
          /\ thread' = thread \cup arrived
          /\ told' = [s \in DOMAIN told |-> IF s \in arrived THEN told[s] + 1 ELSE told[s]]
  BY DEF Crash
<1>2. /\ blurred' = blurred \cup {k \in sending : k > 0} /\ UNCHANGED <<log, outbox>>
      /\ carry' = [a \in Agents |-> Idle]
  BY DEF Crash, Blur, graph, store
<1> HIDE DEF sending
<1>3. \A i \in Agents : carry'[i].at = "idle"
  BY <1>2 DEF Idle
<1>4. \A q \in outbox'.sent : \E j \in thread' : SameText(j, q)'
  BY <1>1, <1>2, SentStays DEF Once
<1>5. ASSUME NEW s \in 1 .. Len(log')
      PROVE  Counted(s)'
  <2>1. Counted(s) /\ s > 0 /\ s \in DOMAIN told
    BY <1>2, <1>5, LengthNat DEF Once, KeysOK
  <2>2. CASE s \in arrived
    <3>1. s \in blurred' /\ s \in thread'
      BY <1>1, <1>2, <2>1, <2>2
    <3> QED
      BY <3>1 DEF Counted
  <2>3. CASE s \notin arrived
    <3>1. told'[s] = told[s] /\ carry'[Tick].at # "send"
      BY <1>1, <1>3, <2>1, <2>3, AgentsAre
    <3> QED
      BY <1>1, <1>2, <2>1, <3>1 DEF Counted
  <2> QED
    BY <2>2, <2>3
<1> QED
  BY <1>3, <1>4, <1>5, AgentsAre DEF Once

\* Every step keeps the counts.
LEMMA OnceStep ==
    ASSUME GraphOK, KeysOK, Once, [Next]_vars
    PROVE  Once'
BY LogStep, SilentStep, SilentOnce, LookOnce, SendOnce, ResendOnce, ReportOnce, CrashOnce DEF Speaks

\* deliverOutboxRow marks a row sent on evidence only, and one outcome reaches the chat once at
\* most unless a crash or an unreadable history blurred its delivery: whatever the queue does,
\* however sends fail, and whoever delivers beside the tick.
THEOREM DeliveredOnceAlways == Spec => []DeliveredOnce
<1>1. Init => Once
  BY AgentsAre DEF Init, Once, Idle
<1>2. Inv /\ Once /\ [Next]_vars => Once'
  BY OnceStep DEF Inv, TypeOK
<1>3. Inv /\ Once => DeliveredOnce
  <2> SUFFICES ASSUME Inv, Once
               PROVE  DeliveredOnce
    OBVIOUS
  <2>1. \A s \in 1 .. Len(log) : told[s] > 1 => s \in blurred
    <3> SUFFICES ASSUME NEW s \in 1 .. Len(log), told[s] > 1, s \notin blurred
                 PROVE  FALSE
      OBVIOUS
    <3> QED
      BY DEF Once, Counted
  <2> QED
    BY <2>1 DEF Once, DeliveredOnce
<1> QED
  BY <1>1, <1>2, <1>3, Invariance, PTL DEF Spec

-----------------------------------------------------------------------------
(* Relaunching.                                                            *)

\* A card that waits for an operator, or was given up: only a retry takes it from here.
Halted(t) == card[t].status \in {"blocked", "interrupted", "cancelled"}

\* A follow-up that read the card while it ran.
Follows(i, t) == ask[i].task = t /\ ask[i].saw.status = "running"

\* What the reconciler may rely on.  A card it has seen stopped stays stopped until it is
\* relaunched, its worker is not fenced off any more once the wait is over, and a stop that
\* nobody has read yet is the card's last: one that was relaunched since was read then.
Fence(t) ==
    /\ arm[t] \in {"stopped", "ripe"} => Halted(t)
    /\ arm[t] = "ripe" => worker[t] # "fenced"
    /\ <<t, "retry">> \in round => Halted(t) /\ worker[t] # "fenced" /\ ~StopSeen(t)
    /\ arm[t] = "armed" /\ StopSeen(t) => Halted(t)
    /\ \A i \in Asks : Follows(i, t) /\ StopSeen(t) =>
          /\ ask[i].at = "amended" => Halted(t)
          /\ ask[i].at = "amend" => card[t].status \notin {"none", "pending"}

Fences == \A t \in Tasks : Fence(t)

\* Nothing is read and nothing appended.
LEMMA StopSame ==
    ASSUME UNCHANGED <<log, seen>>, NEW t
    PROVE  StopSeen(t)' <=> StopSeen(t)
BY DEF StopSeen

\* An event that is appended is the only one that may be a new stop.
LEMMA StopAppended ==
    ASSUME GraphOK, seen \in 0 .. Len(log), seen' = seen, NEW u \in Tasks, NEW to, NEW v,
           Update(u, to, v), NEW t \in Tasks
    PROVE  StopSeen(t)' => \/ StopSeen(t)
                           \/ t = u /\ to \in {"blocked", "interrupted"} /\ v = card[u].version
<1> DEFINE e == [task |-> u, status |-> to, version |-> v,
                 kind |-> IF card[u].status = "none" THEN "created"
                          ELSE IF v # card[u].version THEN "goal_updated" ELSE "state_changed"]
<1>1. log' = Append(log, e) /\ log \in Seq(Event) /\ Len(log) \in Nat
  BY LengthNat DEF Update, GraphOK
<1>2. e.task = u /\ e.status = to /\ (e.kind = "state_changed" => v = card[u].version)
  OBVIOUS
<1> HIDE DEF e
<1>3. Len(log') = Len(log) + 1 /\ log'[Len(log) + 1] = e /\ \A s \in 1 .. Len(log) : log'[s] = log[s]
  BY <1>1
<1> SUFFICES ASSUME StopSeen(t)', ~StopSeen(t)
             PROVE  t = u /\ to \in {"blocked", "interrupted"} /\ v = card[u].version
  OBVIOUS
<1>4. PICK s \in seen + 1 .. Len(log') :
          log'[s].task = t /\ log'[s].kind = "state_changed" /\ log'[s].status \in {"blocked", "interrupted"}
  BY DEF StopSeen
<1>5. s = Len(log) + 1
  <2> SUFFICES ASSUME s # Len(log) + 1
               PROVE  FALSE
    OBVIOUS
  <2>1. s \in seen + 1 .. Len(log) /\ s \in 1 .. Len(log)
    BY <1>1, <1>3, <1>4
  <2>2. log'[s] = log[s]
    BY <1>3, <2>1
  <2> QED
    BY <1>4, <2>1, <2>2 DEF StopSeen
<1> QED
  BY <1>2, <1>3, <1>4, <1>5

\* A step that does nothing to a task that the reconciler cares about.
Spared(t) ==
    /\ card'[t] = card[t] /\ worker'[t] \in {worker[t], "none"}
    /\ StopSeen(t)' => StopSeen(t)
    /\ arm'[t] \in {arm[t], "off", "expired"}
    /\ <<t, "retry">> \in round' => <<t, "retry">> \in round
    /\ \A i \in Asks : ask'[i].at \in {"amend", "amended"} /\ ask'[i].task = t => ask'[i] = ask[i]

\* What is spared stays as it was.
LEMMA SparedFence ==
    ASSUME NEW t \in Tasks, Fence(t), Spared(t)
    PROVE  Fence(t)'
<1>1. Halted(t)' <=> Halted(t)
  BY DEF Spared, Halted
<1>2. /\ arm'[t] \in {"stopped", "ripe"} => Halted(t)'
      /\ arm'[t] = "ripe" => worker'[t] # "fenced"
      /\ <<t, "retry">> \in round' => Halted(t)' /\ worker'[t] # "fenced" /\ ~StopSeen(t)'
      /\ arm'[t] = "armed" /\ StopSeen(t)' => Halted(t)'
  BY <1>1 DEF Fence, Spared
<1>3. ASSUME NEW i \in Asks, Follows(i, t)', StopSeen(t)', ask'[i].at \in {"amend", "amended"}
      PROVE  /\ ask'[i].at = "amended" => Halted(t)'
             /\ ask'[i].at = "amend" => card'[t].status \notin {"none", "pending"}
  <2>1. ask'[i] = ask[i] /\ Follows(i, t) /\ StopSeen(t) /\ card'[t] = card[t]
    BY <1>3 DEF Spared, Follows
  <2> QED
    BY <1>1, <2>1 DEF Fence
<1> QED
  BY <1>2, <1>3 DEF Fence

\* The card moves, and what the bridge knows of it does not.
LEMMA MovedFence ==
    ASSUME GraphOK, seen \in 0 .. Len(log), NEW t \in Tasks, Fence(t),
           UNCHANGED <<seen, arm, round>>, NEW to, NEW v, Update(t, to, v),
           Halted(t) => /\ to \in {"blocked", "interrupted", "cancelled"} /\ worker'[t] = worker[t]
                        /\ to = "cancelled" \/ v # card[t].version,
           to \in {"none", "pending"} => card[t].status \in {"none", "pending"},
           \A i \in Asks : Follows(i, t)' /\ ask'[i].at \in {"amend", "amended"} =>
               \/ ask'[i] = ask[i]
               \/ ask'[i].at = "amended" /\ Follows(i, t) /\ ask[i].at = "amend"
                  /\ (card[t].status # "pending" => to \in {"blocked", "interrupted"})
    PROVE  Fence(t)'
<1>1. card'[t].status = to
  BY DEF Update, GraphOK
<1>2. (Halted(t) => Halted(t)') /\ (to \in {"blocked", "interrupted"} => Halted(t)')
  BY <1>1 DEF Halted
<1>0. seen' = seen
  OBVIOUS
<1>3. StopSeen(t)' => StopSeen(t) \/ (to \in {"blocked", "interrupted"} /\ v = card[t].version)
  BY <1>0, StopAppended, Zenon
<1>4. /\ arm'[t] \in {"stopped", "ripe"} => Halted(t)'
      /\ arm'[t] = "ripe" => worker'[t] # "fenced"
      /\ <<t, "retry">> \in round' => Halted(t)' /\ worker'[t] # "fenced" /\ ~StopSeen(t)'
      /\ arm'[t] = "armed" /\ StopSeen(t)' => Halted(t)'
  BY <1>2, <1>3 DEF Fence
<1>5. ASSUME NEW i \in Asks, Follows(i, t)', StopSeen(t)', ask'[i].at \in {"amend", "amended"}
      PROVE  /\ ask'[i].at = "amended" => Halted(t)'
             /\ ask'[i].at = "amend" => card'[t].status \notin {"none", "pending"}
  <2>1. CASE to \in {"blocked", "interrupted"}
    BY <1>1, <1>2, <2>1
  <2>2. CASE to \notin {"blocked", "interrupted"}
    <3>1. StopSeen(t)
      BY <1>3, <1>5, <2>2
    <3>2. CASE ask'[i] = ask[i]
      <4>1. Follows(i, t)
        BY <1>5, <3>2 DEF Follows
      <4> QED
        BY <1>1, <1>2, <3>1, <3>2, <4>1 DEF Fence
    <3>3. CASE ask'[i].at = "amended" /\ Follows(i, t) /\ ask[i].at = "amend"
               /\ (card[t].status # "pending" => to \in {"blocked", "interrupted"})
      BY <2>2, <3>1, <3>3 DEF Fence
    <3> QED
      BY <1>5, <3>2, <3>3
  <2> QED
    BY <2>1, <2>2
<1> QED
  BY <1>4, <1>5 DEF Fence

\* An update of another card spares this one.
LEMMA OtherSpared ==
    ASSUME GraphOK, seen \in 0 .. Len(log), UNCHANGED seen,
           NEW u \in Tasks, NEW to, NEW v, Update(u, to, v), NEW t \in Tasks, t # u,
           worker'[t] = worker[t], arm'[t] = arm[t],
           <<t, "retry">> \in round' => <<t, "retry">> \in round,
           \A i \in Asks : ask'[i].at \in {"amend", "amended"} /\ ask'[i].task = t => ask'[i] = ask[i]
    PROVE  Spared(t)
<1>1. card'[t] = card[t]
  BY DEF Update, GraphOK
<1>2. StopSeen(t)' => StopSeen(t)
  BY StopAppended
<1> QED
  BY <1>1, <1>2 DEF Spared

\* No step of the queue, and no sweep, disturbs a reconcile.
LEMMA QueueFence ==
    ASSUME GraphOK, seen \in 0 .. Len(log), Fences, NEW u \in Tasks,
           Claim(u) \/ Cancel(u) \/ Lapse(u) \/ (\E to \in {"done", "blocked"} : Finish(u, to))
           \/ (Put(u) /\ PutLands(u))
    PROVE  Fences'
<1> SUFFICES ASSUME NEW t \in Tasks
             PROVE  Fence(t)'
  BY DEF Fences
<1>1. UNCHANGED <<seen, arm, round, ask>>
  BY DEF Claim, Cancel, Lapse, Finish, Put, LaneStep, tick, recon
<1> DEFINE Moves(to, v) ==
         /\ Update(u, to, v)
         /\ Halted(u) => to = "cancelled" /\ worker' = worker
         /\ to \notin {"none", "pending"} \/ card[u].status \in {"none", "pending"}
         /\ \A x \in Tasks : x # u => worker'[x] = worker[x]
<1>2. \E to, v : Moves(to, v)
  <2>1. CASE Claim(u)
    BY <2>1 DEF Claim, Move, Halted, GraphOK
  <2>2. CASE Cancel(u)
    <3>1. Update(u, IF card[u].status = "running" THEN "interrupted" ELSE "cancelled", card[u].version)
      BY <2>2 DEF Cancel, Move
    <3>2. Halted(u) => card[u].status # "running"
      BY DEF Halted
    <3>3. card[u].status # "running" => worker' = worker
      BY <2>2 DEF Cancel, GraphOK
    <3>4. \A x \in Tasks : x # u => worker'[x] = worker[x]
      BY <2>2 DEF Cancel, GraphOK
    <3> QED
      BY <3>1, <3>2, <3>3, <3>4
  <2>3. CASE Lapse(u)
    BY <2>3 DEF Lapse, Move, Halted, GraphOK
  <2>4. ASSUME NEW to \in {"done", "blocked"}, Finish(u, to)
        PROVE  \E x, v : Moves(x, v)
    BY <2>4 DEF Finish, Move, Halted, GraphOK
  <2>5. CASE Put(u) /\ PutLands(u)
    BY <2>5 DEF Put, PutLands, PutRefused, Halted
  <2> QED
    BY <2>1, <2>2, <2>3, <2>4, <2>5
<1>3. PICK to, v : Moves(to, v)
  BY <1>2
<1>4. CASE t = u
  BY <1>1, <1>3, <1>4, MovedFence DEF Fences
<1>5. CASE t # u
  BY <1>1, <1>3, <1>5, OtherSpared, SparedFence DEF Fences
<1> QED
  BY <1>4, <1>5

\* A step that leaves the queue's log, the reconciler and the follow-ups alone, or only ends them.
LEMMA IdleFence ==
    ASSUME Fences, UNCHANGED <<card, worker, log, seen>>,
           \A t \in Tasks : arm'[t] \in {arm[t], "off", "expired"},
           \A t \in Tasks : <<t, "retry">> \in round' => <<t, "retry">> \in round,
           \A i \in Asks : ask'[i].at \in {"amend", "amended"} => ask'[i] = ask[i]
    PROVE  Fences'
<1> SUFFICES ASSUME NEW t \in Tasks
             PROVE  Fence(t)'
  BY DEF Fences
<1>1. Spared(t)
  BY StopSame DEF Spared
<1> QED
  BY <1>1, SparedFence DEF Fences

\* An amendment of a running card stops it; of one that waits, it leaves it stopped.
LEMMA AmendFence ==
    ASSUME GraphOK, seen \in 0 .. Len(log), Fences, NEW i \in Asks, Amend(i)
    PROVE  Fences'
<1> DEFINE u == ask[i].task
           v == ask[i].saw.version
           to == IF card[u].status = "running" THEN "interrupted" ELSE card[u].status
<1>1. UNCHANGED <<seen, arm, round>> /\ u \in Tasks /\ v \in Nat /\ ask[i].at = "amend"
  BY DEF Amend, tick, recon, GraphOK, Card
<1>2. /\ \A j \in Asks : j # i => ask'[j] = ask[j]
      /\ (ask'[i].task = u /\ ask'[i].saw = ask[i].saw) \/ ask'[i].at = "over"
      /\ ask'[i].at # "amend"
  <2>1. ask \in [Asks -> [at : {"none", "amend", "amended", "refused", "note", "over"},
                          task : Tasks \cup {"none"}, saw : Card]]
    BY DEF GraphOK
  <2>2. ask' \in {[ask EXCEPT ![i].at = "amended"], [ask EXCEPT ![i].at = "refused"], [ask EXCEPT ![i] = Asked]}
    BY DEF Amend
  <2>3. Asked.at = "over"
    BY AskedType
  <2> QED
    BY <2>1, <2>2, <2>3
<1>3. CASE UNCHANGED graph /\ ask'[i].at # "amended"
  BY <1>1, <1>2, <1>3, IdleFence DEF graph
<1>4. CASE Amends(u, v)
  <2>1. /\ Update(u, to, v + 1) /\ v = card[u].version /\ card[u].status \in Open
        /\ \A x \in Tasks : x # u => worker'[x] = worker[x]
        /\ card[u].status # "running" => worker'[u] = worker[u]
    BY <1>1, <1>4 DEF Amends, GraphOK
  <2>2. /\ Halted(u) => to \in {"blocked", "interrupted", "cancelled"} /\ worker'[u] = worker[u]
        /\ to \in {"none", "pending"} => card[u].status \in {"none", "pending"}
        /\ card[u].status # "pending" => to \in {"blocked", "interrupted"}
        /\ v + 1 # card[u].version
    BY <1>1, <2>1 DEF Halted, Open
  <2> SUFFICES ASSUME NEW t \in Tasks
               PROVE  Fence(t)'
    BY DEF Fences
  <2>3. CASE t = u
    <3>1. ASSUME NEW j \in Asks, Follows(j, t)', ask'[j].at \in {"amend", "amended"}
          PROVE  \/ ask'[j] = ask[j]
                 \/ /\ ask'[j].at = "amended" /\ Follows(j, t) /\ ask[j].at = "amend"
                    /\ card[t].status # "pending" => to \in {"blocked", "interrupted"}
      BY <1>1, <1>2, <2>2, <2>3, <3>1 DEF Follows
    <3>2. Update(t, to, v + 1) /\ Fence(t)
      BY <2>1, <2>3 DEF Fences
    <3>3. /\ Halted(t) => /\ to \in {"blocked", "interrupted", "cancelled"} /\ worker'[t] = worker[t]
                          /\ to = "cancelled" \/ v + 1 # card[t].version
          /\ to \in {"none", "pending"} => card[t].status \in {"none", "pending"}
      BY <2>2, <2>3
    <3> HIDE DEF u, v, to
    <3> QED
      BY <1>1, <3>1, <3>2, <3>3, MovedFence
  <2>4. CASE t # u
    <3>1. \A j \in Asks : ask'[j].at \in {"amend", "amended"} /\ ask'[j].task = t => ask'[j] = ask[j]
      BY <1>2, <2>4
    <3>2. worker'[t] = worker[t] /\ Update(u, to, v + 1)
      BY <2>1, <2>4
    <3> HIDE DEF u, v, to
    <3>3. Spared(t)
      BY <1>1, <2>4, <3>1, <3>2, OtherSpared
    <3> QED
      BY <3>3, SparedFence DEF Fences
  <2> QED
    BY <2>3, <2>4
<1>5. (UNCHANGED graph /\ ask'[i].at # "amended") \/ Amends(u, v)
  <2>1. ask' = [ask EXCEPT ![i].at = "refused"] \/ ask' = [ask EXCEPT ![i] = Asked] => ask'[i].at # "amended"
    BY AskedType DEF GraphOK
  <2> QED
    BY <2>1 DEF Amend, graph
<1> QED
  BY <1>3, <1>4, <1>5

\* What is relaunched has no stop left that was not read, and is not watched any more.
LEMMA RetryFence ==
    ASSUME GraphOK, ControlOK, Fences, NEW u \in Tasks, Retry(u)
    PROVE  Fences'
<1>1. /\ UNCHANGED <<worker, seen, ask>> /\ arm' = [arm EXCEPT ![u] = "off"] /\ round' \subseteq round
      /\ <<u, "retry">> \notin round' /\ <<u, "retry">> \in round
  BY DEF Retry, Disarm, Abort
<1>2. /\ arm'[u] = "off" /\ \A x \in Tasks : arm'[x] \in {arm[x], "off"} /\ (x # u => arm'[x] = arm[x])
      /\ seen \in 0 .. Len(log)
  BY <1>1, Places DEF ControlOK
<1>3. CASE UNCHANGED <<card, log>>
  BY <1>1, <1>2, <1>3, IdleFence
<1>4. CASE Retries(u)
  <2>1. Update(u, "pending", card[u].version)
    BY <1>4 DEF Retries, Move
  <2> SUFFICES ASSUME NEW t \in Tasks
               PROVE  Fence(t)'
    BY DEF Fences
  <2>2. CASE t = u
    <3>1. ~StopSeen(u)
      BY <1>1 DEF Fences, Fence
    <3>2. ~StopSeen(u)'
      BY <1>1, <1>2, <2>1, <3>1, StopAppended
    <3> QED
      BY <1>1, <1>2, <2>2, <3>2 DEF Fence
  <2>3. CASE t # u
    <3>1. Spared(t)
      BY <1>1, <1>2, <2>1, <2>3, OtherSpared
    <3> QED
      BY <3>1, SparedFence DEF Fences
  <2> QED
    BY <2>2, <2>3
<1> QED
  BY <1>3, <1>4 DEF Retry

\* The log is read to its end, so every stop of it is read.
LEMMA ReadBackFence ==
    ASSUME GraphOK, ControlOK, Fences, ReadBack
    PROVE  Fences'
<1>1. /\ UNCHANGED <<card, worker, log, ask>> /\ seen' = Len(log)
      /\ arm' = [t \in Tasks |-> IF arm[t] = "armed" /\ StopSeen(t) THEN "stopped" ELSE arm[t]]
      /\ \A t \in Tasks : <<t, "retry">> \in round' => arm[t] = "ripe"
  BY DEF ReadBack, graph
<1> SUFFICES ASSUME NEW t \in Tasks
             PROVE  Fence(t)'
  BY DEF Fences
<1>2. ~StopSeen(t)'
  BY <1>1, LengthNat DEF StopSeen
<1>3. (Halted(t)' <=> Halted(t)) /\ Fence(t)
  BY <1>1 DEF Halted, Fences
<1>4. arm'[t] = IF arm[t] = "armed" /\ StopSeen(t) THEN "stopped" ELSE arm[t]
  BY <1>1
<1> QED
  BY <1>1, <1>2, <1>3, <1>4 DEF Fence

\* The wait of a reconcile ends, a reconcile is armed by the answer to a follow-up or after a
\* start, and a follow-up reads the card.
LEMMA ArmFence ==
    ASSUME GraphOK, ControlOK, Fences,
           \/ \E u \in Tasks : Ripen(u)
           \/ \E i \in Asks : Applied(i)
           \/ Rearm
           \/ \E i \in Asks, u \in Tasks : ReadGraph(i, u)
    PROVE  Fences'
<1> SUFFICES ASSUME NEW t \in Tasks
             PROVE  Fence(t)'
  BY DEF Fences
<1>1. UNCHANGED <<card, worker, log, seen, round>>
  BY DEF Ripen, Applied, Rearm, ReadGraph, graph, tick, recon
<1>2. (StopSeen(t)' <=> StopSeen(t)) /\ (Halted(t)' <=> Halted(t)) /\ Fence(t)
      /\ arm \in [Tasks -> {"off", "armed", "stopped", "ripe", "expired"}]
  BY <1>1, StopSame DEF Halted, Fences, ControlOK
<1>3. ASSUME NEW u \in Tasks, Ripen(u)
      PROVE  Fence(t)'
  <2>1. ask' = ask /\ arm[u] = "stopped" /\ worker[u] # "fenced" /\ arm' = [arm EXCEPT ![u] = "ripe"]
    BY <1>3 DEF Ripen
  <2> QED
    BY <1>1, <1>2, <2>1 DEF Fence, Follows
<1>4. ASSUME NEW i \in Asks, Applied(i)
      PROVE  Fence(t)'
  <2>1. \A j \in Asks : ask'[j].at \in {"amend", "amended"} => ask'[j] = ask[j]
    BY <1>4 DEF Applied, GraphOK, NoAsk
  <2>2. arm'[t] = arm[t] \/ (arm'[t] = "armed" /\ Follows(i, t) /\ ask[i].at = "amended")
    BY <1>2, <1>4 DEF Applied, Follows
  <2> QED
    BY <1>1, <1>2, <2>1, <2>2 DEF Fence, Follows
<1>5. CASE Rearm
  <2>1. ask' = ask
    BY <1>5 DEF Rearm
  <2>2. arm'[t] = arm[t] \/ (arm'[t] = "armed" /\ Halted(t))
    BY <1>5 DEF Rearm, Halted
  <2> QED
    BY <1>1, <1>2, <2>1, <2>2 DEF Fence, Follows
<1>6. ASSUME NEW i \in Asks, NEW u \in Tasks, ReadGraph(i, u)
      PROVE  Fence(t)'
  <2>1. arm' = arm /\ \A j \in Asks : j # i => ask'[j] = ask[j]
    BY <1>6 DEF ReadGraph, recon, GraphOK
  <2>2. ask'[i] = [at |-> "amend", task |-> u, saw |-> card[u]]
    BY <1>6 DEF ReadGraph, GraphOK
  <2>3. ASSUME NEW j \in Asks, Follows(j, t)', StopSeen(t)', ask'[j].at \in {"amend", "amended"}
        PROVE  /\ ask'[j].at = "amended" => Halted(t)'
               /\ ask'[j].at = "amend" => card'[t].status \notin {"none", "pending"}
    <3>1. CASE j = i
      BY <1>1, <2>2, <2>3, <3>1 DEF Follows
    <3>2. CASE j # i
      BY <1>1, <1>2, <2>1, <2>3, <3>2 DEF Fence, Follows
    <3> QED
      BY <3>1, <3>2
  <2> QED
    BY <1>1, <1>2, <2>1, <2>3 DEF Fence
<1> QED
  BY <1>3, <1>4, <1>5, <1>6

\* A crash forgets what was armed, and what the follow-ups had read.
LEMMA CrashFence ==
    ASSUME Fences, Crash
    PROVE  Fences'
<1>1. round' = {} /\ \A t \in Tasks : arm'[t] = "off"
  BY DEF Crash
<1>2. \A i \in Asks : ask'[i].at \in {"none", "over"}
  BY AskedType DEF Crash
<1> QED
  BY <1>1, <1>2 DEF Fences, Fence

\* The other steps leave the log alone and add nothing to what the reconciler works on.
LEMMA FencesStep ==
    ASSUME GraphOK, ControlOK, Fences, [Next]_vars
    PROVE  Fences'
<1>0. seen \in 0 .. Len(log)
  BY Places
<1>1. CASE Queue
  <2>1. ASSUME NEW t \in Tasks, WorkerStops(t)
        PROVE  Fences'
    <3> SUFFICES ASSUME NEW x \in Tasks
                 PROVE  Fence(x)'
      BY DEF Fences
    <3>1. Spared(x)
      BY <2>1, StopSame DEF WorkerStops, tick, recon, Spared, GraphOK
    <3> QED
      BY <3>1, SparedFence DEF Fences
  <2> QED
    BY <1>0, <1>1, <2>1, QueueFence DEF Queue
<1>2. CASE Turn
  <2>1. ASSUME NEW t \in Tasks, Plan(t)
        PROVE  Fences'
    BY <2>1, IdleFence DEF Plan, graph, recon
  <2>2. ASSUME NEW i \in Asks, AskBack(i)
        PROVE  Fences'
    <3>1. \A j \in Asks : ask'[j].at \in {"amend", "amended"} => ask'[j] = ask[j]
      BY <2>2 DEF AskBack, GraphOK
    <3> QED
      BY <2>2, <3>1, IdleFence DEF AskBack, graph, tick, recon
  <2>3. ASSUME NEW i \in Asks, Noted(i)
        PROVE  Fences'
    <3>1. \A j \in Asks : ask'[j].at \in {"amend", "amended"} => ask'[j] = ask[j]
      BY <2>3, AskedType DEF Noted, GraphOK
    <3> QED
      BY <2>3, <3>1, IdleFence DEF Noted, graph, tick, recon
  <2> QED
    BY <1>0, <1>2, <2>1, <2>2, <2>3, AmendFence, ArmFence DEF Turn
<1>3. CASE Clock
  <2>1. ASSUME NEW t \in Tasks, Expire(t)
        PROVE  Fences'
    <3>1. \A x \in Tasks : arm'[x] \in {arm[x], "expired"}
      BY <2>1 DEF Expire, ControlOK
    <3> QED
      BY <2>1, <3>1, IdleFence DEF Expire, graph, tick
  <2> QED
    BY <1>3, <2>1, ArmFence DEF Clock
<1>4. CASE Sweep
  <2>1. ASSUME NEW t \in Tasks, Put(t), UNCHANGED <<card, log, told>>
        PROVE  Fences'
    BY <2>1, IdleFence DEF Put, recon
  <2> QED
    BY <1>0, <1>4, <2>1, QueueFence DEF Sweep, Put
<1>5. CASE Wake \/ Pending \/ Consume \/ Advance \/ Commit \/ ReadFails \/ Judged \/ Rest
  BY <1>5, IdleFence DEF Wake, Pending, Consume, Advance, Commit, ReadFails, Judged, Rest, graph, recon
<1>6. CASE Carry \/ (\E s \in 1 .. Len(log) : Report(s)) \/ (\E k \in queue : Resend(k))
  BY <1>6, IdleFence DEF Carry, Look, Send, Report, Resend, graph, tick, recon
<1>7. ASSUME NEW t \in Tasks, GiveUp(t)
      PROVE  Fences'
  <2>1. \A x \in Tasks : arm'[x] \in {arm[x], "off"}
    BY <1>7 DEF GiveUp, Disarm, ControlOK
  <2> QED
    BY <1>7, <2>1, IdleFence DEF GiveUp, graph
<1>8. ASSUME NEW t \in Tasks, Tell(t) \/ Told(t)
      PROVE  Fences'
  <2>1. \A x \in Tasks : <<x, "retry">> \in round' => <<x, "retry">> \in round
    BY <1>8 DEF Tell, Told
  <2> QED
    BY <1>8, <2>1, IdleFence DEF Tell, Told, graph, recon
<1>9. ASSUME NEW old \in SUBSET Tasks, Watch(old)
      PROVE  Fences'
  <2>1. \A x \in Tasks : <<x, "retry">> \notin round'
    BY <1>9 DEF Watch
  <2> QED
    BY <1>9, <2>1, IdleFence DEF Watch, graph, recon
<1>10. CASE Start
  BY <1>10, IdleFence DEF Start, graph
<1>11. CASE UNCHANGED vars
  BY <1>11, IdleFence DEF vars, graph, tick, recon
<1> QED
  BY <1>1, <1>2, <1>3, <1>4, <1>5, <1>6, <1>7, <1>8, <1>9, <1>10, <1>11,
     RetryFence, ReadBackFence, ArmFence, CrashFence DEF Next, TickStep

\* Only a retry puts a card that was stopped back on the queue.
LEMMA OnlyRetries ==
    ASSUME GraphOK, [Next]_vars, NEW t \in Tasks, Relaunched(t)
    PROVE  <<t, "retry">> \in round
<1>0. card \in [Tasks -> Card]
  BY DEF GraphOK
<1>1. card' # card
  BY DEF Relaunched
<1>2. ASSUME NEW u \in Tasks, NEW to, NEW v, Update(u, to, v)
      PROVE  u = t /\ to = "pending"
  BY <1>0, <1>2 DEF Update, Relaunched
<1>3. ASSUME NEW u \in Tasks,
             Claim(u) \/ Cancel(u) \/ Lapse(u) \/ (\E to \in {"done", "blocked"} : Finish(u, to))
      PROVE  FALSE
  BY <1>2, <1>3 DEF Claim, Cancel, Lapse, Finish, Move
<1>4. ASSUME NEW i \in Asks, Amend(i)
      PROVE  FALSE
  <2>1. ask[i].task \in Tasks /\ Amends(ask[i].task, ask[i].saw.version)
    BY <1>1, <1>4 DEF Amend, graph, GraphOK
  <2>2. ask[i].task = t
    BY <1>2, <2>1 DEF Amends
  <2>3. card[t].status # "pending"
    BY DEF Relaunched
  <2> QED
    BY <1>2, <2>1, <2>2, <2>3 DEF Amends
<1>5. ASSUME NEW u \in Tasks, Put(u)
      PROVE  FALSE
  <2>1. PutLands(u)
    BY <1>1, <1>5 DEF Put
  <2>2. u = t /\ card[u].status \in {"none", "pending"}
    BY <1>2, <2>1 DEF PutLands, PutRefused
  <2> QED
    BY <2>2 DEF Relaunched
<1>6. ASSUME NEW u \in Tasks, Retry(u)
      PROVE  <<t, "retry">> \in round
  <2>1. Update(u, "pending", card[u].version) /\ <<u, "retry">> \in round
    BY <1>1, <1>6 DEF Retry, Retries, Move
  <2> QED
    BY <1>2, <2>1
<1> QED
  BY <1>1, <1>3, <1>4, <1>5, <1>6 DEF Next, Queue, Turn, Clock, Sweep, Carry, TickStep, vars, graph,
     WorkerStops, Plan, AskBack, Applied, Noted, ReadGraph, Ripen, Expire, Look, Send, Wake, Pending,
     Consume, Advance, Commit, ReadBack, ReadFails, Judged, Rest, Report, Resend, GiveUp, Tell, Told,
     Watch, Start, Rearm, Crash

\* reconcileRunningAmendments relaunches no task whose worker was fenced off and may still
\* write: however follow-ups, operators, the lane and restarts of the bridge come between the
\* stop it has read, the end of its wait and the retry.
THEOREM RelaunchesAfterFence == Spec => RelaunchAfterFence
<1>1. Init => Fences
  <2> SUFFICES ASSUME Init, NEW t \in Tasks
               PROVE  Fence(t)
    BY DEF Fences
  <2>1. arm[t] = "off" /\ round = {} /\ \A i \in Asks : ask[i].at = "none"
    BY AskedType DEF Init
  <2> QED
    BY <2>1 DEF Fence
<1>2. Inv /\ Fences /\ [Next]_vars => Fences'
  BY FencesStep DEF Inv, TypeOK
<1>3. Inv /\ Fences /\ [Next]_vars => [\A t \in Tasks : Relaunched(t) => worker[t] # "fenced"]_vars
  <2> SUFFICES ASSUME Inv, Fences, [Next]_vars, NEW t \in Tasks, Relaunched(t)
               PROVE  worker[t] # "fenced"
    OBVIOUS
  <2>1. <<t, "retry">> \in round
    BY OnlyRetries DEF Inv, TypeOK
  <2> QED
    BY <2>1 DEF Fences, Fence
<1> QED
  BY <1>1, <1>2, <1>3, Invariance, PTL DEF Spec, RelaunchAfterFence

=============================================================================
