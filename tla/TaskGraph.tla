----------------------------- MODULE TaskGraph -----------------------------
(***************************************************************************)
(* The durable task graph of the Rust agent                                *)
(* (src/agent-rs/src/graph_queue.rs): cards with dependencies in one       *)
(* SQLite database, claimed under a lease with a fence, and the runner     *)
(* that turns each claim into an agent process.                            *)
(*                                                                         *)
(* An action is one statement or transaction on the database (they are     *)
(* serialised by SQLite), or one step of a runner thread or of a worker.   *)
(* Any number of runners and manual workers share the database; a claim is *)
(* known by its card and its fence.                                        *)
(***************************************************************************)
EXTENDS Integers, FiniteSets, Sequences

CONSTANTS
    Card,          \* the ids of the tasks
    Place,         \* a project and a canonical working directory
    Limit,         \* most cards of one claim
    TTL,           \* ticks a lease lasts without a heartbeat
    MaxFence,      \* bound on the fences
    FenceCap,      \* bound on the fence of each card
    MaxVersion,    \* bound on the goal_version of a card
    ManualWorkers  \* TRUE: workers also claim through the command line

ASSUME PlaceAssumption == Place # {} /\ \A p \in Place : p.cwd \in Seq(STRING)

ASSUME GraphBoundsAssumption ==
    /\ Limit \in Nat \ {0} /\ TTL \in Nat \ {0}
    /\ MaxFence \in Nat \ {0} /\ FenceCap \in [Card -> 0..MaxFence]
    /\ MaxVersion \in Nat \ {0}
    /\ ManualWorkers \in BOOLEAN

VARIABLES
    card,   \* the rows of task_nodes with their task_edges
    work    \* what became of every claim

vars == <<card, work>>

-----------------------------------------------------------------------------
(* Rows.                                                                   *)

Status == {"none", "pending", "running", "interrupted", "blocked", "done", "cancelled"}

\* lease is the time left; worker is the claim whose process is recorded (worker_pid,
\* worker_start and worker_boot name one process for ever), 0 for NULL.
Row == [status: Status, place: Place, deps: SUBSET Card, fence: 0..MaxFence,
        version: 0..MaxVersion, lease: 0..TTL, worker: 0..MaxFence]

\* The card goes back to the queue: release, retry and the sweep of claim.
Requeued(x) == [x EXCEPT !.status = "pending", !.fence = @ + 1, !.lease = 0]

StartsWith(a, b) == Len(b) <= Len(a) /\ SubSeq(a, 1, Len(b)) = b

\* The query compares with cwd || '/': the root, <<>>, holds nothing but itself.
Within(a, b) == StartsWith(a, b) /\ (b = <<>> => a = <<>>)

\* The same project, or directories one of which is or contains the other.
Clash(p, q) == \/ p.project = q.project
               \/ Within(p.cwd, q.cwd) \/ Within(q.cwd, p.cwd)

\* A place is taken while its card runs or waits for an operator.
Occupies(x) == x.status \in {"running", "interrupted"}

-----------------------------------------------------------------------------
(* Claims.  A runner's thread has "claimed", then "spawned" a process, is  *)
(* "watched" once bound to its lease, and "halting" while the thread stops *)
(* it to give the lease back.  The process "exited" with a positive        *)
(* closure verdict or "failed", and finish() has "proven" the evidence.  A *)
(* process is "loose" when nobody acts for it any more: its thread is      *)
(* killing it, or is lost.  A "manual" worker is a process too, "vouched"  *)
(* once finish() has accepted its evidence.                                *)

Claims == Card \X (1..MaxFence)

Alive == {"spawned", "watched", "halting", "loose", "manual", "vouched"}

Work == [state: {"none", "claimed", "exited", "failed", "proven", "gone"} \union Alive,
         version: 0..MaxVersion]   \* of the goal it was given

Ended == [state |-> "gone", version |-> 0]

Over(w) == [work EXCEPT ![w] = Ended]

\* Current(w): the WHERE clause of finish, release, heartbeat and bind_worker.
Current(w) == /\ card[w[1]].status = "running" /\ card[w[1]].fence = w[2]
              /\ card[w[1]].lease > 0

-----------------------------------------------------------------------------
(* The graph.                                                              *)

\* The recursive query: c is in every set that holds its dependencies and is closed.
Cyclic(e, c) ==
    \A X \in SUBSET Card : e[c] \subseteq X /\ (\A d \in X : e[d] \subseteq X) => c \in X

Deps == [c \in Card |-> card[c].deps]

Written(x, p, D) ==
    [x EXCEPT !.status = "pending", !.place = p, !.deps = D, !.version = @ + 1]

\* put(): a new card, or an edit of a pending one.
Put(c, p, D) ==
    /\ card[c].status \in {"none", "pending"} /\ card[c].version < MaxVersion
    /\ D \subseteq {d \in Card : card[d].status # "none"} \ {c}
    /\ ~Cyclic([Deps EXCEPT ![c] = D], c)
    /\ card' = [card EXCEPT ![c] = Written(@, p, D)]
    /\ UNCHANGED work

-----------------------------------------------------------------------------
(* claim(): one transaction.                                               *)

\* worker_state(): what is known of the worker recorded on the row.
WorkerGone(c) == card[c].worker # 0 /\ work[<<c, card[c].worker>>].state \notin Alive

\* Faulty variant: an expired lease is taken for a dead worker.
SweptBlindly(c) ==
    LET x == card[c]
    IN  IF x.status = "running" /\ x.lease = 0
        THEN Requeued(x) ELSE x

\* The row after the sweep of expired leases.
Swept(c) ==
    LET x == card[c]
    IN  IF ~(x.status = "running" /\ x.lease = 0) THEN x
        ELSE IF WorkerGone(c) THEN Requeued(x)
        ELSE [x EXCEPT !.status = "interrupted"]

\* Faulty variant: an interrupted card holds nothing back.
ReadyUnlessRunning(k) ==
    {c \in Card :
        /\ k[c].status = "pending"
        /\ \A d \in k[c].deps : k[d].status = "done"
        /\ \A d \in Card : k[d].status = "running" => ~Clash(k[d].place, k[c].place)}

\* Faulty variant: a dependency that will not run again counts as done.
ReadyOnceSettled(k) ==
    {c \in Card :
        /\ k[c].status = "pending"
        /\ \A d \in k[c].deps : k[d].status \notin {"pending", "running", "interrupted"}
        /\ \A d \in Card : Occupies(k[d]) => ~Clash(k[d].place, k[c].place)}

\* The ready cards: the dependencies are done, and no card holds their place.
Ready(k) ==
    {c \in Card :
        /\ k[c].status = "pending"
        /\ \A d \in k[c].deps : k[d].status = "done"
        /\ \A d \in Card : Occupies(k[d]) => ~Clash(k[d].place, k[c].place)}

\* Between the cards of one claim the paths are compared, the root with them.
Collide(p, q) == \/ p.project = q.project
                 \/ StartsWith(p.cwd, q.cwd) \/ StartsWith(q.cwd, p.cwd)

Compatible(k, S) == \A c, d \in S : c # d => ~Collide(k[c].place, k[d].place)

\* The loop over the ready cards takes what fits in some order (priority, age) up to Limit.
Takes(k, S) ==
    /\ S \subseteq Ready(k) /\ Cardinality(S) <= Limit /\ Compatible(k, S)
    /\ \/ Cardinality(S) = Limit
       \/ \A c \in Ready(k) \ S : ~Compatible(k, S \union {c})

Leased(x) == [x EXCEPT !.status = "running", !.fence = @ + 1, !.lease = TTL]

Claim(S, how) ==
    LET k == [c \in Card |-> Swept(c)]
    IN  /\ \A c \in Card : k[c].fence <= FenceCap[c]
        /\ \A c \in S : k[c].fence < FenceCap[c]
        /\ Takes(k, S)
        /\ card' = [c \in Card |-> IF c \in S THEN Leased(k[c]) ELSE k[c]]
        /\ work' = [w \in Claims |->
                      IF w[1] \in S /\ w[2] = k[w[1]].fence + 1
                      THEN [state |-> how, version |-> k[w[1]].version]
                      ELSE work[w]]

-----------------------------------------------------------------------------
(* finish(), release(), heartbeat().                                       *)

Closed(x, s) == [x EXCEPT !.status = s, !.lease = 0]

\* The UPDATE of finish(): nothing happens to a card that moved on.
Finish(w, s) ==
    card' = IF Current(w) THEN [card EXCEPT ![w[1]] = Closed(@, s)] ELSE card

\* finish() reads the version of the goal in a statement of its own, before the UPDATE.
VersionRead(w) == work[w].version = card[w[1]].version

Release(w) ==
    card' = IF Current(w) THEN [card EXCEPT ![w[1]] = Requeued(@)] ELSE card

Lasting(x, l) == [x EXCEPT !.lease = l]

Heartbeat(w) ==
    /\ work[w].state \in {"watched", "manual", "vouched"} /\ Current(w)
    /\ card' = [card EXCEPT ![w[1]] = Lasting(@, TTL)]
    /\ UNCHANGED work

\* A second passes without a heartbeat.
LeaseTick(c) ==
    /\ card[c].status = "running" /\ card[c].lease > 0
    /\ card' = [card EXCEPT ![c] = Lasting(@, card[c].lease - 1)]
    /\ UNCHANGED work

-----------------------------------------------------------------------------
(* A thread of execute_wave().                                             *)

SpawnFails(w) ==
    /\ work[w].state = "claimed"
    /\ Finish(w, "blocked")
    /\ work' = Over(w)

Spawn(w) ==
    /\ work[w].state = "claimed"
    /\ work' = [work EXCEPT ![w].state = "spawned"]
    /\ UNCHANGED card

Bound(x, f) == [x EXCEPT !.worker = f]

\* bind_worker(); when the lease is no longer ours the process is stopped.
Bind(w) ==
    /\ work[w].state = "spawned"
    /\ work' = [work EXCEPT ![w].state = IF Current(w) THEN "watched" ELSE "loose"]
    /\ card' = IF Current(w) THEN [card EXCEPT ![w[1]] = Bound(@, w[2])] ELSE card

\* lease_current() is false, or the heartbeat is refused.
LeaseRevoked(w) ==
    /\ work[w].state = "watched" /\ ~(Current(w) /\ VersionRead(w))
    /\ work' = [work EXCEPT ![w].state = "loose"]
    /\ UNCHANGED card

LooseEnds(w) ==
    /\ work[w].state = "loose"
    /\ work' = Over(w)
    /\ UNCHANGED card

\* The runner was told to stop.
StopSeen(w) ==
    /\ work[w].state = "watched"
    /\ work' = [work EXCEPT ![w].state = "halting"]
    /\ UNCHANGED card

Halted(w) ==
    /\ work[w].state = "halting" /\ card[w[1]].fence < FenceCap[w[1]]
    /\ Release(w)
    /\ work' = Over(w)

AgentExits(w) ==
    /\ work[w].state = "watched"
    /\ \E how \in {"exited", "failed"} : work' = [work EXCEPT ![w].state = how]
    /\ UNCHANGED card

\* The checks of finish("done").
Report(w) ==
    /\ work[w].state = "exited"
    /\ work' = IF VersionRead(w) THEN [work EXCEPT ![w].state = "proven"] ELSE Over(w)
    /\ UNCHANGED card

ReportFailure(w) ==
    /\ work[w].state = "failed"
    /\ Finish(w, "blocked")
    /\ work' = Over(w)

\* The UPDATE of finish("done").
Close(w) ==
    /\ work[w].state = "proven"
    /\ Finish(w, "done")
    /\ work' = Over(w)

\* The thread fails, or its runner is killed: the process is left to itself.
ThreadLost(w) ==
    /\ work[w].state \in {"claimed", "exited", "failed", "proven", "spawned",
                          "watched", "halting"}
    /\ work' = IF work[w].state \in Alive THEN [work EXCEPT ![w].state = "loose"] ELSE Over(w)
    /\ UNCHANGED card

-----------------------------------------------------------------------------
(* A worker that uses the command line.                                    *)

ManualReports(w) ==
    /\ work[w].state = "manual" /\ VersionRead(w)
    /\ work' = [work EXCEPT ![w].state = "vouched"]
    /\ UNCHANGED card

ManualCloses(w) ==
    /\ work[w].state = "vouched"
    /\ Finish(w, "done")
    /\ work' = IF Current(w) THEN Over(w) ELSE [work EXCEPT ![w].state = "manual"]

ManualBlocks(w) ==
    /\ work[w].state = "manual"
    /\ Finish(w, "blocked")
    /\ work' = IF Current(w) THEN Over(w) ELSE work

ManualReleases(w) ==
    /\ work[w].state = "manual" /\ card[w[1]].fence < FenceCap[w[1]]
    /\ Release(w)
    /\ work' = IF Current(w) THEN Over(w) ELSE work

ManualDies(w) ==
    /\ work[w].state \in {"manual", "vouched"}
    /\ work' = Over(w)
    /\ UNCHANGED card

\* The machine restarts: no process of the old boot is left, the database is.
Reboot ==
    /\ \E w \in Claims : work[w].state \notin {"none", "gone"}
    /\ work' = [w \in Claims |-> IF work[w].state = "none" THEN work[w] ELSE Ended]
    /\ UNCHANGED card

-----------------------------------------------------------------------------
(* The operator, who says --reconciled yes once the workers have stopped.  *)

Reconciled(c) == \A f \in 1..MaxFence : work[<<c, f>>].state \notin Alive

Retry(c) ==
    /\ card[c].status \in {"blocked", "interrupted"} /\ card[c].fence < FenceCap[c]
    /\ Reconciled(c)
    /\ card' = [card EXCEPT ![c] = Requeued(@)]
    /\ UNCHANGED work

\* A goal with an addition; a running card waits until its worker is reconciled.
Amended(x) ==
    [x EXCEPT !.version = @ + 1,
              !.status = IF @ = "running" THEN "interrupted" ELSE @,
              !.fence = IF x.status = "running" THEN @ + 1 ELSE @]

\* Faulty variant: the worker of the old goal keeps its lease.
AmendKeepsLease(c) ==
    /\ card[c].status \in {"pending", "running", "blocked", "interrupted"}
    /\ card[c].version < MaxVersion /\ card[c].fence < FenceCap[c]
    /\ card' = [card EXCEPT ![c].version = @ + 1]
    /\ UNCHANGED work

Amend(c) ==
    /\ card[c].status \in {"pending", "running", "blocked", "interrupted"}
    /\ card[c].version < MaxVersion /\ card[c].fence < FenceCap[c]
    /\ card' = [card EXCEPT ![c] = Amended(@)]
    /\ UNCHANGED work

Cancelled(x) ==
    [x EXCEPT !.status = IF @ = "running" THEN "interrupted" ELSE "cancelled", !.fence = @ + 1]

Cancel(c) ==
    /\ card[c].status \in {"pending", "running", "blocked"} /\ card[c].fence < FenceCap[c]
    /\ card' = [card EXCEPT ![c] = Cancelled(@)]
    /\ UNCHANGED work

\* The worker was reconciled: what is left is to drop the lease.
Dropped(x) == [x EXCEPT !.status = "cancelled", !.fence = @ + 1, !.lease = 0]

ReconcileCancel(c) ==
    /\ card[c].status = "interrupted" /\ card[c].fence < FenceCap[c] /\ Reconciled(c)
    /\ card' = [card EXCEPT ![c] = Dropped(@)]
    /\ UNCHANGED work

-----------------------------------------------------------------------------

Init ==
    /\ card = [c \in Card |-> [status |-> "none", place |-> CHOOSE p \in Place : TRUE,
                                deps |-> {}, fence |-> 0, version |-> 0, lease |-> 0,
                                worker |-> 0]]
    /\ work = [w \in Claims |-> [state |-> "none", version |-> 0]]

Operate == \E c \in Card :
    \/ \E p \in Place, D \in SUBSET Card : Put(c, p, D)
    \/ LeaseTick(c) \/ Retry(c) \/ Amend(c) \/ Cancel(c) \/ ReconcileCancel(c)

Run == \E w \in Claims :
    \/ SpawnFails(w) \/ Spawn(w) \/ Bind(w) \/ LeaseRevoked(w) \/ LooseEnds(w)
    \/ StopSeen(w) \/ Halted(w) \/ AgentExits(w) \/ Report(w) \/ ReportFailure(w)
    \/ Close(w) \/ ThreadLost(w) \/ Heartbeat(w)

ByHand == \E w \in Claims :
    \/ ManualReports(w) \/ ManualCloses(w) \/ ManualBlocks(w)
    \/ ManualReleases(w) \/ ManualDies(w)

Next ==
    \/ Operate \/ Run \/ ByHand \/ Reboot
    \/ \E S \in SUBSET Card : Claim(S, "claimed")
    \/ ManualWorkers /\ \E S \in SUBSET Card : Claim(S, "manual")

Spec == Init /\ [][Next]_vars

-----------------------------------------------------------------------------
(* Properties.                                                             *)

\* Rows and claims have their shape, and no claim exists with a fence the row has not
\* reached: a worker can never hold a fence that is yet to be handed out.
TypeOK ==
    /\ card \in [Card -> Row]
    /\ work \in [Claims -> Work]
    /\ \A w \in Claims : w[2] > card[w[1]].fence => work[w].state = "none"

\* No two cards that run or wait for an operator share a project or nest their working
\* directories, whatever was claimed, swept, released, amended or edited in between (claim).
\* A card whose directory is the root of the file system nests in it no other (Within).
ExclusivePlaces ==
    \A c, d \in Card : c # d /\ Occupies(card[c]) /\ Occupies(card[d])
                         => ~Clash(card[c].place, card[d].place)

\* A card that was ever handed to a worker and not requeued since has all of its
\* dependencies done: put() edits no such card, and a done card stays done.
DepsDone ==
    \A c \in Card : card[c].status \in {"running", "interrupted", "blocked", "done"}
                      => \A d \in card[c].deps : card[d].status = "done"

\* The dependencies never form a cycle, however cards are edited one after the other: every
\* set of cards has one that depends on none of them, so some pending card can always move.
Acyclic ==
    \A X \in SUBSET Card : X # {} => \E c \in X : card[c].deps \intersect X = {}

\* The edges do what they are for, whatever sequence of put, claim, retry, amend and cancel
\* led here: work waits for its dependencies, and none waits for itself (put, claim).
DependenciesHold == DepsDone /\ Acyclic

\* The process recorded on c is still running.
BoundAlive(c) == card[c].worker # 0 /\ work[<<c, card[c].worker>>].state \in Alive

\* A worker bound to its lease never works beside another bound worker in the same project or
\* directory, even after the lease expired, the runner died or the goal was amended: its card
\* keeps the place until the process is gone (claim, bind_worker, execute_wave).
OneBoundWriter ==
    \A c, d \in Card : c # d /\ BoundAlive(c) /\ BoundAlive(d)
                         => ~Clash(card[c].place, card[d].place)

\* A card is only ever closed by evidence for the goal as it stands: an amendment between
\* finish()'s read of goal_version and its UPDATE makes the UPDATE fail.
DoneIsCurrent ==
    [][\A c \in Card :
          card'[c].status = "done" /\ card[c].status # "done"
            => /\ work[<<c, card[c].fence>>].state \in {"proven", "vouched"}
               /\ work[<<c, card[c].fence>>].version = card[c].version]_vars

\* claim() requeues an expired card by itself only when the process that holds the lease is
\* gone, and interrupts it otherwise.
OnlyGoneRequeued ==
    [][\A c \in Card :
          card[c].status = "running" /\ card[c].lease = 0
            /\ card'[c].status \in {"pending", "running"} /\ card'[c].fence # card[c].fence
            => work[<<c, card[c].fence>>].state \notin Alive]_vars

=============================================================================
