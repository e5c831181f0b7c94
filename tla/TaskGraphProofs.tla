-------------------------- MODULE TaskGraphProofs --------------------------
(***************************************************************************)
(* What the task graph promises, for every set of cards, every place and   *)
(* every bound.  Every step but put() and claim() is shown to have one     *)
(* form (SmallStep): one row changes, claims only move forward, and a row  *)
(* gives its place up only when its worker is gone.  The invariants are    *)
(* then proved of three kinds of steps instead of thirty actions.          *)
(***************************************************************************)
EXTENDS TaskGraph, TLAPS

-----------------------------------------------------------------------------
(* The inductive invariant.                                                *)

\* The worker recorded on a row was bound by a claim that was spawned by a runner.  While it
\* lives its card keeps the place, and a running card has no other living worker on record.
WorkerInv ==
    \A c \in Card :
        /\ card[c].worker <= card[c].fence
        /\ card[c].worker # 0 =>
             work[<<c, card[c].worker>>].state \notin {"none", "claimed", "manual", "vouched"}
        /\ BoundAlive(c) =>
             /\ Occupies(card[c])
             /\ card[c].status = "running" => card[c].worker = card[c].fence

\* The claim that holds a running card was given the goal as it stands.
RunningIsCurrent ==
    \A w \in Claims :
        card[w[1]].status = "running" /\ card[w[1]].fence = w[2]
          /\ work[w].state \notin {"none", "gone"}
          => work[w].version = card[w[1]].version

Inv == TypeOK /\ ExclusivePlaces /\ DepsDone /\ Acyclic /\ WorkerInv /\ RunningIsCurrent

-----------------------------------------------------------------------------
(* The form of a step.                                                     *)

Held(x) == x.status \in {"running", "interrupted", "blocked", "done"}

\* Claims are never revived.
Evolves(u, v) ==
    /\ v.state \in Alive => u.state \in Alive \union {"claimed"}
    /\ v.state \in {"none", "claimed"} => v = u
    /\ v.state \in {"manual", "vouched"} => u.state \in {"manual", "vouched"}
    /\ v.state # "gone" => v.version = u.version /\ u.state # "gone"
    /\ u.state = "none" => v = u

\* Neither the row's definition nor its progress is undone.
Kept(x, y) ==
    /\ y.place = x.place /\ y.deps = x.deps /\ y.fence >= x.fence
    /\ Occupies(y) => Occupies(x)
    /\ Held(y) => Held(x)
    /\ x.status = "done" => y.status = "done"
    /\ y.status = "running" =>
         x.status = "running" /\ y.fence = x.fence /\ y.version = x.version

\* The row of c becomes y.
SmallStep(c, y) ==
    /\ c \in Card /\ y \in Row
    /\ card' = [card EXCEPT ![c] = y]
    /\ Kept(card[c], y)
    /\ work' \in [Claims -> Work] /\ \A w \in Claims : Evolves(work[w], work'[w])
    /\ y.worker # card[c].worker =>
         /\ y.worker = y.fence /\ y.status = "running" /\ <<c, y.fence>> \in Claims
         /\ work'[<<c, y.fence>>].state = "watched"
    /\ Occupies(card[c]) /\ ~Occupies(y) =>
         \/ Reconciled(c) /\ work' = work
         \/ card[c].status = "running" /\ work'[<<c, card[c].fence>>].state \notin Alive
    /\ y.status = "done" /\ card[c].status # "done" =>
         /\ card[c].status = "running" /\ <<c, card[c].fence>> \in Claims
         /\ work[<<c, card[c].fence>>].state \in {"proven", "vouched"}

-----------------------------------------------------------------------------

\* Two places clash in either order.
LEMMA ClashSymmetric == \A p, q : Clash(p, q) <=> Clash(q, p)
BY DEF Clash

\* What claim() keeps apart within a batch is apart for its query too.
LEMMA CollideClash == \A p, q : Clash(p, q) => Collide(p, q)
BY DEF Clash, Collide, Within

\* A claim names its card and its fence.
LEMMA ClaimParts ==
    /\ \A w \in Claims : w[1] \in Card /\ w[2] \in 1..MaxFence /\ w = <<w[1], w[2]>>
    /\ \A c \in Card, f \in 1..MaxFence :
         <<c, f>> \in Claims /\ <<c, f>>[1] = c /\ <<c, f>>[2] = f
BY DEF Claims

\* What TypeOK says of one row and of one claim.
LEMMA RowTyped ==
    ASSUME TypeOK, NEW c \in Card
    PROVE  /\ card[c] \in Row /\ card[c].status \in Status /\ card[c].place \in Place
           /\ card[c].deps \in SUBSET Card /\ card[c].fence \in 0..MaxFence
           /\ card[c].version \in 0..MaxVersion /\ card[c].lease \in 0..TTL
           /\ card[c].worker \in 0..MaxFence
  <1>1. card[c] \in Row BY DEF TypeOK
  <1> QED BY <1>1 DEF Row

\* What every update of a row leaves alone and sets.
LEMMA RequeuedRow ==
    ASSUME NEW x \in Row, x.fence < MaxFence
    PROVE  /\ Requeued(x) \in Row
           /\ Requeued(x).status = "pending"
           /\ Requeued(x).place = x.place
           /\ Requeued(x).deps = x.deps
           /\ Requeued(x).fence = x.fence + 1
           /\ Requeued(x).version = x.version
           /\ Requeued(x).lease = 0
           /\ Requeued(x).worker = x.worker
  <1>1. x.fence + 1 \in 0..MaxFence /\ 0 \in 0..TTL /\ "pending" \in Status
    BY GraphBoundsAssumption DEF Row, Status
  <1> QED BY <1>1 DEF Requeued, Row

\* The same for finish().
LEMMA ClosedRow ==
    ASSUME NEW x \in Row, NEW s \in Status
    PROVE  /\ Closed(x, s) \in Row
           /\ Closed(x, s).status = s
           /\ Closed(x, s).place = x.place
           /\ Closed(x, s).deps = x.deps
           /\ Closed(x, s).fence = x.fence
           /\ Closed(x, s).version = x.version
           /\ Closed(x, s).lease = 0
           /\ Closed(x, s).worker = x.worker
  <1>1. 0 \in 0..TTL BY GraphBoundsAssumption
  <1> QED BY <1>1 DEF Closed, Row

\* The same for amend().
LEMMA AmendedRow ==
    ASSUME NEW x \in Row, x.fence < MaxFence, x.version < MaxVersion
    PROVE  /\ Amended(x) \in Row
           /\ Amended(x).status = (IF x.status = "running" THEN "interrupted" ELSE x.status)
           /\ Amended(x).place = x.place
           /\ Amended(x).deps = x.deps
           /\ Amended(x).fence = (IF x.status = "running" THEN x.fence + 1 ELSE x.fence)
           /\ Amended(x).version = x.version + 1
           /\ Amended(x).lease = x.lease
           /\ Amended(x).worker = x.worker
  <1>1. x.fence + 1 \in 0..MaxFence /\ x.version + 1 \in 0..MaxVersion
    BY GraphBoundsAssumption DEF Row
  <1>2. "interrupted" \in Status BY DEF Status
  <1> QED BY <1>1, <1>2 DEF Amended, Row

\* The same for cancel().
LEMMA CancelledRow ==
    ASSUME NEW x \in Row, x.fence < MaxFence
    PROVE  /\ Cancelled(x) \in Row
           /\ Cancelled(x).status = (IF x.status = "running" THEN "interrupted" ELSE "cancelled")
           /\ Cancelled(x).place = x.place
           /\ Cancelled(x).deps = x.deps
           /\ Cancelled(x).fence = x.fence + 1
           /\ Cancelled(x).version = x.version
           /\ Cancelled(x).lease = x.lease
           /\ Cancelled(x).worker = x.worker
  <1>1. x.fence + 1 \in 0..MaxFence BY GraphBoundsAssumption DEF Row
  <1>2. "interrupted" \in Status /\ "cancelled" \in Status BY DEF Status
  <1> QED BY <1>1, <1>2 DEF Cancelled, Row

\* The same for reconcile_cancel().
LEMMA DroppedRow ==
    ASSUME NEW x \in Row, x.fence < MaxFence
    PROVE  /\ Dropped(x) \in Row
           /\ Dropped(x).status = "cancelled"
           /\ Dropped(x).place = x.place
           /\ Dropped(x).deps = x.deps
           /\ Dropped(x).fence = x.fence + 1
           /\ Dropped(x).version = x.version
           /\ Dropped(x).lease = 0
           /\ Dropped(x).worker = x.worker
  <1>1. x.fence + 1 \in 0..MaxFence /\ 0 \in 0..TTL BY GraphBoundsAssumption DEF Row
  <1>2. "cancelled" \in Status BY DEF Status
  <1> QED BY <1>1, <1>2 DEF Dropped, Row

\* The same for heartbeat().
LEMMA LastingRow ==
    ASSUME NEW x \in Row, NEW l \in 0..TTL
    PROVE  /\ Lasting(x, l) \in Row
           /\ Lasting(x, l).status = x.status
           /\ Lasting(x, l).place = x.place
           /\ Lasting(x, l).deps = x.deps
           /\ Lasting(x, l).fence = x.fence
           /\ Lasting(x, l).version = x.version
           /\ Lasting(x, l).lease = l
           /\ Lasting(x, l).worker = x.worker
BY DEF Lasting, Row

\* The same for bind_worker().
LEMMA BoundRow ==
    ASSUME NEW x \in Row, NEW f \in 0..MaxFence
    PROVE  /\ Bound(x, f) \in Row
           /\ Bound(x, f).status = x.status
           /\ Bound(x, f).place = x.place
           /\ Bound(x, f).deps = x.deps
           /\ Bound(x, f).fence = x.fence
           /\ Bound(x, f).version = x.version
           /\ Bound(x, f).lease = x.lease
           /\ Bound(x, f).worker = f
BY DEF Bound, Row

\* The same for claim().
LEMMA LeasedRow ==
    ASSUME NEW x \in Row, x.fence < MaxFence
    PROVE  /\ Leased(x) \in Row
           /\ Leased(x).status = "running"
           /\ Leased(x).place = x.place
           /\ Leased(x).deps = x.deps
           /\ Leased(x).fence = x.fence + 1
           /\ Leased(x).version = x.version
           /\ Leased(x).lease = TTL
           /\ Leased(x).worker = x.worker
  <1>1. x.fence + 1 \in 0..MaxFence /\ TTL \in 0..TTL BY GraphBoundsAssumption DEF Row
  <1>2. "running" \in Status BY DEF Status
  <1> QED BY <1>1, <1>2 DEF Leased, Row

\* The same for put().
LEMMA WrittenRow ==
    ASSUME NEW x \in Row, NEW p \in Place, NEW D \in SUBSET Card, x.version < MaxVersion
    PROVE  /\ Written(x, p, D) \in Row
           /\ Written(x, p, D).status = "pending"
           /\ Written(x, p, D).place = p
           /\ Written(x, p, D).deps = D
           /\ Written(x, p, D).fence = x.fence
           /\ Written(x, p, D).version = x.version + 1
           /\ Written(x, p, D).lease = x.lease
           /\ Written(x, p, D).worker = x.worker
  <1>1. x.version + 1 \in 0..MaxVersion BY GraphBoundsAssumption DEF Row
  <1>2. "pending" \in Status BY DEF Status
  <1> QED BY <1>1, <1>2 DEF Written, Row

\* One claim moves.
LEMMA Moves ==
    ASSUME TypeOK, NEW w \in Claims, NEW v \in Work, Evolves(work[w], v),
           work' = [work EXCEPT ![w] = v]
    PROVE  /\ work' \in [Claims -> Work] /\ work'[w] = v
           /\ \A u \in Claims : Evolves(work[u], work'[u])
  <1>1. work \in [Claims -> Work] BY DEF TypeOK
  <1>2. \A u \in Claims : work[u].state \in Alive => work[u].state \in Alive \union {"claimed"}
    OBVIOUS
  <1>3. \A u \in Claims : work[u].state # "gone" => work[u].version = work[u].version
    OBVIOUS
  <1>4. \A u \in Claims : Evolves(work[u], work[u]) BY <1>2, <1>3 DEF Evolves
  <1> QED BY <1>1, <1>4

\* A claim changes its state.
LEMMA MovesTo ==
    ASSUME TypeOK, NEW w \in Claims, NEW s, [state |-> s, version |-> work[w].version] \in Work,
           Evolves(work[w], [state |-> s, version |-> work[w].version]),
           work' = [work EXCEPT ![w].state = s]
    PROVE  /\ work' \in [Claims -> Work] /\ work'[w].state = s
           /\ \A u \in Claims : Evolves(work[u], work'[u])
  <1>1. work[w] \in Work BY DEF TypeOK
  <1> DEFINE v == [state |-> s, version |-> work[w].version]
  <1>2. [work[w] EXCEPT !.state = s] = v BY <1>1 DEF Work
  <1>3. work' = [work EXCEPT ![w] = v] BY <1>2
  <1>4. v \in Work /\ Evolves(work[w], v) /\ v.state = s OBVIOUS
  <1> HIDE DEF v
  <1> QED BY <1>3, <1>4, Moves

\* A claim ends.
LEMMA Ends ==
    ASSUME TypeOK, NEW w \in Claims, work[w].state # "none", work' = Over(w)
    PROVE  /\ work' \in [Claims -> Work] /\ work'[w].state = "gone"
           /\ \A u \in Claims : Evolves(work[u], work'[u])
  <1>1. Ended \in Work /\ Ended.state = "gone"
    BY GraphBoundsAssumption DEF Ended, Work
  <1>2. Evolves(work[w], Ended) BY <1>1 DEF Evolves, Alive
  <1>3. work' = [work EXCEPT ![w] = Ended] BY DEF Over
  <1> QED BY <1>1, <1>2, <1>3, Moves

\* No claim changes.
LEMMA NoMove ==
    ASSUME TypeOK, work' = work
    PROVE  work' \in [Claims -> Work] /\ \A u \in Claims : Evolves(work[u], work'[u])
BY DEF TypeOK, Evolves

\* A step that leaves the rows alone.
LEMMA NoRowForm ==
    ASSUME TypeOK, NEW c \in Card, card' = card, work' \in [Claims -> Work],
           \A u \in Claims : Evolves(work[u], work'[u])
    PROVE  \E d \in Card, y \in Row : SmallStep(d, y)
  <1>1. card[c] \in Row BY RowTyped
  <1>2. card' = [card EXCEPT ![c] = card[c]] BY DEF TypeOK
  <1>3. Kept(card[c], card[c]) BY RowTyped DEF Kept
  <1>4. SmallStep(c, card[c]) BY <1>1, <1>2, <1>3 DEF SmallStep
  <1> QED BY <1>1, <1>4

\* A step that leaves the claims alone.
LEMMA RowForm ==
    ASSUME TypeOK, NEW c \in Card, NEW y \in Row, card' = [card EXCEPT ![c] = y], work' = work,
           Kept(card[c], y), y.worker = card[c].worker,
           Occupies(card[c]) /\ ~Occupies(y) => Reconciled(c),
           y.status = "done" => card[c].status = "done"
    PROVE  \E d \in Card, z \in Row : SmallStep(d, z)
  <1>1. SmallStep(c, y) BY NoMove DEF SmallStep
  <1> QED BY <1>1

\* A step that settles a card with the claim that holds it.
LEMMA FinishForm ==
    ASSUME TypeOK, NEW w \in Claims, NEW s \in {"blocked", "done"}, Finish(w, s),
           work' \in [Claims -> Work], \A u \in Claims : Evolves(work[u], work'[u]),
           Current(w) => work'[w].state \notin Alive,
           s = "done" => work[w].state \in {"proven", "vouched"}
    PROVE  \E d \in Card, y \in Row : SmallStep(d, y)
  <1>1. w[1] \in Card /\ w = <<w[1], w[2]>> BY ClaimParts
  <1>2. CASE ~Current(w) BY <1>1, <1>2, NoRowForm DEF Finish
  <1>3. CASE Current(w)
    <2>1. card[w[1]].status = "running" /\ card[w[1]].fence = w[2] BY <1>3 DEF Current
    <2>2. card[w[1]] \in Row /\ s \in Status BY <1>1, RowTyped DEF Status
    <2>3. Kept(card[w[1]], Closed(card[w[1]], s))
      BY <1>1, <2>1, <2>2, ClosedRow, RowTyped DEF Kept, Occupies, Held
    <2>4. card' = [card EXCEPT ![w[1]] = Closed(card[w[1]], s)] BY <1>3 DEF Finish
    <2>5. SmallStep(w[1], Closed(card[w[1]], s))
      BY <1>1, <1>3, <2>1, <2>2, <2>3, <2>4, ClosedRow DEF SmallStep
    <2> QED BY <1>1, <2>2, <2>5, ClosedRow
  <1> QED BY <1>2, <1>3

\* A step that gives a lease back.
LEMMA ReleaseForm ==
    ASSUME TypeOK, NEW w \in Claims, Release(w), card[w[1]].fence < FenceCap[w[1]],
           work' \in [Claims -> Work], \A u \in Claims : Evolves(work[u], work'[u]),
           Current(w) => work'[w].state \notin Alive
    PROVE  \E d \in Card, y \in Row : SmallStep(d, y)
  <1>1. w[1] \in Card /\ w = <<w[1], w[2]>> BY ClaimParts
  <1>2. CASE ~Current(w) BY <1>1, <1>2, NoRowForm DEF Release
  <1>3. CASE Current(w)
    <2>1. card[w[1]].status = "running" /\ card[w[1]].fence = w[2] BY <1>3 DEF Current
    <2>2. card[w[1]] \in Row /\ card[w[1]].fence < MaxFence
      BY <1>1, RowTyped, GraphBoundsAssumption
    <2>3. Kept(card[w[1]], Requeued(card[w[1]]))
      BY <1>1, <2>1, <2>2, RequeuedRow, RowTyped DEF Kept, Occupies, Held
    <2>4. card' = [card EXCEPT ![w[1]] = Requeued(card[w[1]])] BY <1>3 DEF Release
    <2>5. SmallStep(w[1], Requeued(card[w[1]]))
      BY <1>1, <1>3, <2>1, <2>2, <2>3, <2>4, RequeuedRow DEF SmallStep
    <2> QED BY <1>1, <2>2, <2>5, RequeuedRow
  <1> QED BY <1>2, <1>3

-----------------------------------------------------------------------------
(* Every action but Put and Claim has this form.                           *)

\* The state of a claim after a step is a state of claims.
LEMMA StateTyped ==
    ASSUME TypeOK, NEW w \in Claims,
           NEW s \in {"spawned", "watched", "loose", "halting", "exited", "failed", "proven",
                      "manual", "vouched"}
    PROVE  [state |-> s, version |-> work[w].version] \in Work
  <1>1. work[w].version \in 0..MaxVersion BY DEF TypeOK, Work
  <1> QED BY <1>1 DEF Work, Alive

\* A claim that works for a runner goes on, without a change of the row.
LEMMA ThreadForm ==
    ASSUME TypeOK, NEW w \in Claims, work[w].state \notin {"none", "gone"}, UNCHANGED card,
           NEW s \in {"spawned", "watched", "loose", "halting", "exited", "failed", "proven"},
           s \in Alive => work[w].state \in Alive \union {"claimed"},
           work' = [work EXCEPT ![w].state = s]
    PROVE  \E d \in Card, y \in Row : SmallStep(d, y)
  <1>1. Evolves(work[w], [state |-> s, version |-> work[w].version]) BY DEF Evolves
  <1>2. work' \in [Claims -> Work] /\ \A u \in Claims : Evolves(work[u], work'[u])
    BY <1>1, StateTyped, MovesTo
  <1> QED BY <1>2, ClaimParts, NoRowForm

\* A claim ends without a change of the row.
LEMMA EndForm ==
    ASSUME TypeOK, NEW w \in Claims, work[w].state # "none", UNCHANGED card, work' = Over(w)
    PROVE  \E d \in Card, y \in Row : SmallStep(d, y)
BY ClaimParts, Ends, NoRowForm

\* The step in which a runner records its process.
LEMMA BindForm ==
    ASSUME TypeOK, NEW w \in Claims, Bind(w)
    PROVE  \E d \in Card, y \in Row : SmallStep(d, y)
  <1>1. w[1] \in Card /\ w[2] \in 0..MaxFence /\ w = <<w[1], w[2]>>
    BY ClaimParts, GraphBoundsAssumption
  <1>2. work[w].state = "spawned" BY DEF Bind
  <1>3. CASE ~Current(w)
    <2>1. work' = [work EXCEPT ![w].state = "loose"] /\ card' = card BY <1>3 DEF Bind
    <2> QED BY <1>2, <2>1, ThreadForm DEF Alive
  <1>4. CASE Current(w)
    <2>1. work' = [work EXCEPT ![w].state = "watched"] BY <1>4 DEF Bind
    <2>2. Evolves(work[w], [state |-> "watched", version |-> work[w].version])
      BY <1>2 DEF Evolves, Alive
    <2>3. /\ work' \in [Claims -> Work] /\ work'[w].state = "watched"
          /\ \A u \in Claims : Evolves(work[u], work'[u])
      BY <2>1, <2>2, StateTyped, MovesTo
    <2>4. card[w[1]].status = "running" /\ card[w[1]].fence = w[2] BY <1>4 DEF Current
    <2>5. card[w[1]] \in Row BY <1>1, RowTyped
    <2>6. Kept(card[w[1]], Bound(card[w[1]], w[2]))
      BY <1>1, <2>5, BoundRow, RowTyped DEF Kept, Occupies, Held
    <2>7. card' = [card EXCEPT ![w[1]] = Bound(card[w[1]], w[2])] BY <1>4 DEF Bind
    <2>8. SmallStep(w[1], Bound(card[w[1]], w[2]))
      BY <1>1, <2>3, <2>4, <2>5, <2>6, <2>7, BoundRow DEF SmallStep, Occupies
    <2> QED BY <1>1, <2>5, <2>8, BoundRow
  <1> QED BY <1>3, <1>4

\* The steps of a runner.
LEMMA RunForm ==
    ASSUME TypeOK, Run
    PROVE  \E d \in Card, y \in Row : SmallStep(d, y)
  <1> PICK w \in Claims :
        \/ SpawnFails(w) \/ Spawn(w) \/ Bind(w) \/ LeaseRevoked(w) \/ LooseEnds(w)
        \/ StopSeen(w) \/ Halted(w) \/ AgentExits(w) \/ Report(w) \/ ReportFailure(w)
        \/ Close(w) \/ ThreadLost(w) \/ Heartbeat(w)
    BY DEF Run
  <1>1. CASE SpawnFails(w)
    <2>1. work[w].state # "none" /\ work' = Over(w) /\ Finish(w, "blocked") BY <1>1 DEF SpawnFails
    <2> QED BY <2>1, Ends, FinishForm DEF Alive
  <1>2. CASE Spawn(w) BY <1>2, ThreadForm DEF Spawn
  <1>3. CASE Bind(w) BY <1>3, BindForm
  <1>4. CASE LeaseRevoked(w) BY <1>4, ThreadForm DEF LeaseRevoked, Alive
  <1>5. CASE LooseEnds(w) BY <1>5, EndForm DEF LooseEnds
  <1>6. CASE StopSeen(w) BY <1>6, ThreadForm DEF StopSeen, Alive
  <1>7. CASE Halted(w)
    <2>1. /\ work[w].state # "none" /\ work' = Over(w) /\ Release(w)
          /\ card[w[1]].fence < FenceCap[w[1]]
      BY <1>7 DEF Halted
    <2> QED BY <2>1, Ends, ReleaseForm DEF Alive
  <1>8. CASE AgentExits(w)
    <2>1. PICK how \in {"exited", "failed"} : work' = [work EXCEPT ![w].state = how]
      BY <1>8 DEF AgentExits
    <2> QED BY <1>8, <2>1, ThreadForm DEF AgentExits, Alive
  <1>9. CASE Report(w)
    <2>1. work[w].state = "exited" /\ UNCHANGED card BY <1>9 DEF Report
    <2>2. work' = Over(w) \/ work' = [work EXCEPT ![w].state = "proven"] BY <1>9 DEF Report
    <2> QED BY <2>1, <2>2, ThreadForm, EndForm DEF Alive
  <1>10. CASE ReportFailure(w)
    <2>1. work[w].state # "none" /\ work' = Over(w) /\ Finish(w, "blocked")
      BY <1>10 DEF ReportFailure
    <2> QED BY <2>1, Ends, FinishForm DEF Alive
  <1>11. CASE Close(w)
    <2>1. work[w].state = "proven" /\ work' = Over(w) /\ Finish(w, "done") BY <1>11 DEF Close
    <2> QED BY <2>1, Ends, FinishForm DEF Alive
  <1>12. CASE ThreadLost(w)
    <2>1. work[w].state \notin {"none", "gone"} /\ UNCHANGED card BY <1>12 DEF ThreadLost
    <2>2. \/ work' = Over(w)
          \/ work[w].state \in Alive /\ work' = [work EXCEPT ![w].state = "loose"]
      BY <1>12 DEF ThreadLost
    <2> QED BY <2>1, <2>2, ThreadForm, EndForm
  <1>13. CASE Heartbeat(w)
    <2>1. w[1] \in Card /\ card[w[1]] \in Row /\ TTL \in 0..TTL
      BY ClaimParts, RowTyped, GraphBoundsAssumption
    <2>2. Kept(card[w[1]], Lasting(card[w[1]], TTL))
      BY <2>1, LastingRow, RowTyped DEF Kept, Occupies, Held
    <2>3. card' = [card EXCEPT ![w[1]] = Lasting(card[w[1]], TTL)] /\ work' = work
      BY <1>13 DEF Heartbeat
    <2>4. /\ Lasting(card[w[1]], TTL) \in Row
          /\ Lasting(card[w[1]], TTL).worker = card[w[1]].worker
          /\ Lasting(card[w[1]], TTL).status = card[w[1]].status
      BY <2>1, LastingRow
    <2> QED BY <2>1, <2>2, <2>3, <2>4, RowForm DEF Occupies
  <1> QED BY <1>1, <1>2, <1>3, <1>4, <1>5, <1>6, <1>7, <1>8, <1>9, <1>10, <1>11, <1>12, <1>13

\* The steps of a manual worker.
LEMMA ByHandForm ==
    ASSUME TypeOK, ByHand
    PROVE  \E d \in Card, y \in Row : SmallStep(d, y)
  <1> PICK w \in Claims : \/ ManualReports(w) \/ ManualCloses(w) \/ ManualBlocks(w)
                          \/ ManualReleases(w) \/ ManualDies(w)
    BY DEF ByHand
  <1>1. \A s \in {"manual", "vouched"} :
           work[w].state \in {"manual", "vouched"} /\ work' = [work EXCEPT ![w].state = s]
             => /\ work' \in [Claims -> Work] /\ \A u \in Claims : Evolves(work[u], work'[u])
    <2> SUFFICES ASSUME NEW s \in {"manual", "vouched"}, work[w].state \in {"manual", "vouched"},
                        work' = [work EXCEPT ![w].state = s]
                 PROVE  /\ work' \in [Claims -> Work]
                        /\ \A u \in Claims : Evolves(work[u], work'[u])
      OBVIOUS
    <2>1. Evolves(work[w], [state |-> s, version |-> work[w].version]) BY DEF Evolves, Alive
    <2> QED BY <2>1, StateTyped, MovesTo
  <1>2. CASE ManualReports(w)
    BY <1>1, <1>2, ClaimParts, NoRowForm DEF ManualReports
  <1>3. CASE ManualCloses(w)
    <2>1. work[w].state = "vouched" /\ Finish(w, "done") BY <1>3 DEF ManualCloses
    <2>2. CASE Current(w)
      <3>1. work' = Over(w) BY <1>3, <2>2 DEF ManualCloses
      <3> QED BY <2>1, <3>1, Ends, FinishForm DEF Alive
    <2>3. CASE ~Current(w)
      <3>1. work' = [work EXCEPT ![w].state = "manual"] BY <1>3, <2>3 DEF ManualCloses
      <3>2. /\ work' \in [Claims -> Work]
            /\ \A u \in Claims : Evolves(work[u], work'[u])
        BY <1>1, <2>1, <3>1
      <3> QED BY <2>1, <2>3, <3>2, FinishForm
    <2> QED BY <2>2, <2>3
  <1>4. CASE ManualBlocks(w)
    <2>1. work[w].state # "none" /\ Finish(w, "blocked") BY <1>4 DEF ManualBlocks
    <2>2. CASE Current(w)
      <3>1. work' = Over(w) BY <1>4, <2>2 DEF ManualBlocks
      <3> QED BY <2>1, <3>1, Ends, FinishForm DEF Alive
    <2>3. CASE ~Current(w)
      <3>1. work' = work BY <1>4, <2>3 DEF ManualBlocks
      <3> QED BY <2>1, <2>3, <3>1, NoMove, FinishForm
    <2> QED BY <2>2, <2>3
  <1>5. CASE ManualReleases(w)
    <2>1. work[w].state # "none" /\ Release(w) /\ card[w[1]].fence < FenceCap[w[1]]
      BY <1>5 DEF ManualReleases
    <2>2. CASE Current(w)
      <3>1. work' = Over(w) BY <1>5, <2>2 DEF ManualReleases
      <3> QED BY <2>1, <3>1, Ends, ReleaseForm DEF Alive
    <2>3. CASE ~Current(w)
      <3>1. work' = work BY <1>5, <2>3 DEF ManualReleases
      <3> QED BY <2>1, <2>3, <3>1, NoMove, ReleaseForm
    <2> QED BY <2>2, <2>3
  <1>6. CASE ManualDies(w) BY <1>6, EndForm DEF ManualDies
  <1> QED BY <1>2, <1>3, <1>4, <1>5, <1>6

\* The steps of the operator and of the clock on an existing card.
LEMMA OperateForm ==
    ASSUME TypeOK, NEW c \in Card,
           LeaseTick(c) \/ Retry(c) \/ Amend(c) \/ Cancel(c) \/ ReconcileCancel(c)
    PROVE  \E d \in Card, y \in Row : SmallStep(d, y)
  <1>1. card[c] \in Row BY RowTyped
  <1>2. FenceCap[c] <= MaxFence /\ FenceCap[c] \in Nat BY GraphBoundsAssumption
  <1>3. CASE LeaseTick(c)
    <2>1. card[c].lease - 1 \in 0..TTL BY <1>3, RowTyped, GraphBoundsAssumption DEF LeaseTick
    <2>2. Kept(card[c], Lasting(card[c], card[c].lease - 1))
      BY <1>1, <2>1, LastingRow, RowTyped DEF Kept, Occupies, Held
    <2> QED BY <1>1, <1>3, <2>1, <2>2, LastingRow, RowForm DEF LeaseTick, Occupies
  <1>4. CASE Retry(c)
    <2>1. card[c].fence < MaxFence BY <1>2, <1>4, RowTyped, GraphBoundsAssumption DEF Retry
    <2>2. Kept(card[c], Requeued(card[c]))
      BY <1>1, <1>4, <2>1, RequeuedRow, RowTyped DEF Retry, Kept, Occupies, Held
    <2> QED BY <1>1, <1>4, <2>1, <2>2, RequeuedRow, RowForm DEF Retry, Occupies
  <1>5. CASE Amend(c)
    <2>1. card[c].fence < MaxFence /\ card[c].version < MaxVersion
      BY <1>2, <1>5, RowTyped, GraphBoundsAssumption DEF Amend
    <2>2. Kept(card[c], Amended(card[c]))
      BY <1>1, <1>5, <2>1, AmendedRow, RowTyped DEF Amend, Kept, Occupies, Held
    <2> QED BY <1>1, <1>5, <2>1, <2>2, AmendedRow, RowForm DEF Amend, Occupies
  <1>6. CASE Cancel(c)
    <2>1. card[c].fence < MaxFence BY <1>2, <1>6, RowTyped, GraphBoundsAssumption DEF Cancel
    <2>2. Kept(card[c], Cancelled(card[c]))
      BY <1>1, <1>6, <2>1, CancelledRow, RowTyped DEF Cancel, Kept, Occupies, Held
    <2> QED BY <1>1, <1>6, <2>1, <2>2, CancelledRow, RowForm DEF Cancel, Occupies
  <1>7. CASE ReconcileCancel(c)
    <2>1. card[c].fence < MaxFence
      BY <1>2, <1>7, RowTyped, GraphBoundsAssumption DEF ReconcileCancel
    <2>2. Kept(card[c], Dropped(card[c]))
      BY <1>1, <1>7, <2>1, DroppedRow, RowTyped DEF ReconcileCancel, Kept, Occupies, Held
    <2> QED BY <1>1, <1>7, <2>1, <2>2, DroppedRow, RowForm DEF ReconcileCancel, Occupies
  <1> QED BY <1>3, <1>4, <1>5, <1>6, <1>7

\* A restart of the machine.
LEMMA RebootForm ==
    ASSUME TypeOK, Reboot
    PROVE  \E d \in Card, y \in Row : SmallStep(d, y)
  <1>1. PICK w \in Claims : work[w].state \notin {"none", "gone"} BY DEF Reboot
  <1>2. Ended \in Work /\ Ended.state = "gone"
    BY GraphBoundsAssumption DEF Ended, Work
  <1>3. work \in [Claims -> Work] BY DEF TypeOK
  <1>4. /\ card' = card
        /\ work' = [v \in Claims |-> IF work[v].state = "none" THEN work[v] ELSE Ended]
    BY DEF Reboot
  <1>5. \A v \in Claims : work[v].state # "none" => Evolves(work[v], Ended)
    BY <1>2 DEF Evolves, Alive
  <1>6. \A v \in Claims : Evolves(work[v], work[v]) BY DEF Evolves
  <1>7. work' \in [Claims -> Work] /\ \A v \in Claims : Evolves(work[v], work'[v])
    BY <1>2, <1>3, <1>4, <1>5, <1>6
  <1> QED BY <1>1, <1>4, <1>7, ClaimParts, NoRowForm

\* Every step is a put, a claim, or has the form of a small step.
LEMMA StepForm ==
    ASSUME TypeOK, Next
    PROVE  \/ \E c \in Card, p \in Place, D \in SUBSET Card : Put(c, p, D)
           \/ \E S \in SUBSET Card, how \in {"claimed", "manual"} : Claim(S, how)
           \/ \E d \in Card, y \in Row : SmallStep(d, y)
  <1>1. CASE Operate BY <1>1, OperateForm DEF Operate
  <1>2. CASE Run BY <1>2, RunForm
  <1>3. CASE ByHand BY <1>3, ByHandForm
  <1>4. CASE Reboot BY <1>4, RebootForm
  <1> QED BY <1>1, <1>2, <1>3, <1>4 DEF Next

-----------------------------------------------------------------------------
(* The invariant is inductive.                                             *)

\* Every action but put() and claim() preserves the invariant.
LEMMA SmallStepInv ==
    ASSUME Inv, NEW c \in Card, NEW y \in Row, SmallStep(c, y)
    PROVE  Inv'
  <1>1. /\ TypeOK /\ card \in [Card -> Row] /\ work \in [Claims -> Work]
    BY DEF Inv, TypeOK
  <1>2. /\ card' = [card EXCEPT ![c] = y] /\ Kept(card[c], y) /\ work' \in [Claims -> Work]
        /\ \A w \in Claims : Evolves(work[w], work'[w])
    BY DEF SmallStep
  <1>3. /\ card' \in [Card -> Row] /\ card'[c] = y
        /\ \A d \in Card : d # c => card'[d] = card[d]
    BY <1>1, <1>2
  <1>4. \A d \in Card : Kept(card[d], card'[d])
    <2>1. \A d \in Card : Kept(card[d], card[d]) BY <1>1, RowTyped DEF Kept
    <2> QED BY <1>2, <1>3, <2>1
  <1>5. TypeOK'
    <2>1. ASSUME NEW w \in Claims, w[2] > card'[w[1]].fence
          PROVE  work'[w].state = "none"
      <3>1. /\ w[1] \in Card /\ w[2] \in Nat /\ card[w[1]].fence \in Nat
            /\ card'[w[1]].fence \in Nat
        BY <1>1, <1>3, ClaimParts, RowTyped, GraphBoundsAssumption DEF Row
      <3>2. card'[w[1]].fence >= card[w[1]].fence BY <1>4, <3>1 DEF Kept
      <3>3. w[2] > card[w[1]].fence BY <2>1, <3>1, <3>2
      <3>4. work[w].state = "none" BY <1>1, <3>3 DEF TypeOK
      <3>5. work'[w] = work[w] BY <1>2, <3>4 DEF Evolves
      <3> QED BY <3>4, <3>5
    <2> QED BY <1>2, <1>3, <2>1 DEF TypeOK
  <1>6. ExclusivePlaces'
    BY <1>4 DEF Inv, ExclusivePlaces, Kept
  <1>7. DepsDone'
    <2>1. ASSUME NEW d \in Card, Held(card'[d]), NEW e \in card'[d].deps
          PROVE  card'[e].status = "done"
      <3>1. Held(card[d]) /\ e \in card[d].deps BY <1>4, <2>1 DEF Kept
      <3>2. card[e].status = "done" BY <3>1 DEF Inv, DepsDone, Held
      <3>3. e \in Card BY <1>1, <3>1, RowTyped
      <3> QED BY <1>4, <3>2, <3>3 DEF Kept
    <2> QED BY <2>1 DEF DepsDone, Held
  <1>8. Acyclic'
    <2>1. \A d \in Card : card'[d].deps = card[d].deps BY <1>4 DEF Kept
    <2> QED BY <2>1 DEF Inv, Acyclic
  <1>9. WorkerInv'
    <2> SUFFICES ASSUME NEW d \in Card
                 PROVE  /\ card'[d].worker <= card'[d].fence
                        /\ card'[d].worker # 0 =>
                             work'[<<d, card'[d].worker>>].state
                               \notin {"none", "claimed", "manual", "vouched"}
                        /\ BoundAlive(d)' =>
                             /\ Occupies(card'[d])
                             /\ card'[d].status = "running" => card'[d].worker = card'[d].fence
      BY DEF WorkerInv, Occupies
    <2>1. /\ card[d].worker \in 0..MaxFence /\ card[d].fence \in 0..MaxFence
          /\ card'[d].worker \in 0..MaxFence /\ card'[d].fence \in 0..MaxFence
      BY <1>1, <1>3, RowTyped DEF Row
    <2>2. /\ card[d].worker <= card[d].fence
          /\ card[d].worker # 0 =>
               work[<<d, card[d].worker>>].state \notin {"none", "claimed", "manual", "vouched"}
          /\ BoundAlive(d) =>
               /\ Occupies(card[d])
               /\ card[d].status = "running" => card[d].worker = card[d].fence
      BY DEF Inv, WorkerInv
    <2>3. card'[d].fence >= card[d].fence BY <1>4 DEF Kept
    <2>4. CASE card'[d].worker # card[d].worker
      <3>1. /\ d = c /\ card'[d].worker = card'[d].fence /\ card'[d].status = "running"
            /\ work'[<<d, card'[d].worker>>].state = "watched"
        BY <1>3, <2>4 DEF SmallStep
      <3> QED BY <2>1, <3>1 DEF Occupies
    <2>5. CASE card'[d].worker = card[d].worker
      <3>1. card'[d].worker <= card'[d].fence BY <2>1, <2>2, <2>3, <2>5
      <3>2. ASSUME card'[d].worker # 0
            PROVE  /\ <<d, card[d].worker>> \in Claims
                   /\ Evolves(work[<<d, card[d].worker>>], work'[<<d, card[d].worker>>])
        BY <1>2, <2>1, <2>5, <3>2, ClaimParts, GraphBoundsAssumption
      <3>3. card'[d].worker # 0 =>
              work'[<<d, card'[d].worker>>].state
                \notin {"none", "claimed", "manual", "vouched"}
        BY <2>2, <2>5, <3>2 DEF Evolves
      <3>4. ASSUME BoundAlive(d)'
            PROVE  /\ Occupies(card'[d])
                   /\ card'[d].status = "running" => card'[d].worker = card'[d].fence
        <4>1. card'[d].worker # 0 /\ work'[<<d, card[d].worker>>].state \in Alive
          BY <2>5, <3>4 DEF BoundAlive
        <4>2. BoundAlive(d) BY <2>2, <2>5, <3>2, <4>1 DEF BoundAlive, Evolves
        <4>3. Occupies(card'[d])
          <5>1. SUFFICES ASSUME ~Occupies(card'[d]) PROVE FALSE OBVIOUS
          <5>2. d = c BY <1>3, <2>2, <4>2, <5>1
          <5>3. \/ Reconciled(c) /\ work' = work
                \/ card[c].status = "running" /\ work'[<<c, card[c].fence>>].state \notin Alive
            BY <1>3, <2>2, <4>2, <5>1, <5>2 DEF SmallStep
          <5>4. card[d].worker \in 1..MaxFence
            BY <2>1, <2>5, <4>1, GraphBoundsAssumption
          <5>5. ~Reconciled(c) \/ work' # work BY <4>1, <5>2, <5>4 DEF Reconciled
          <5> QED BY <2>2, <4>1, <4>2, <5>2, <5>3, <5>5
        <4>4. card'[d].status = "running" => card'[d].worker = card'[d].fence
          BY <1>4, <2>2, <2>5, <4>2 DEF Kept
        <4> QED BY <4>3, <4>4
      <3> QED BY <3>1, <3>3, <3>4
    <2> QED BY <2>4, <2>5
  <1>10. RunningIsCurrent'
    <2>1. ASSUME NEW w \in Claims, card'[w[1]].status = "running", card'[w[1]].fence = w[2],
                 work'[w].state \notin {"none", "gone"}
          PROVE  work'[w].version = card'[w[1]].version
      <3>1. w[1] \in Card BY ClaimParts
      <3>2. /\ card[w[1]].status = "running" /\ card[w[1]].fence = w[2]
            /\ card'[w[1]].version = card[w[1]].version
        BY <1>4, <2>1, <3>1 DEF Kept
      <3>3. /\ work[w].state \notin {"none", "gone"} /\ work'[w].version = work[w].version
        BY <1>2, <2>1 DEF Evolves
      <3> QED BY <3>2, <3>3 DEF Inv, RunningIsCurrent
    <2> QED BY <2>1 DEF RunningIsCurrent
  <1> QED BY <1>5, <1>6, <1>7, <1>8, <1>9, <1>10 DEF Inv

\* The check of put() is enough: a graph without cycles stays without when c gets the
\* dependencies D and c cannot be reached from them.
LEMMA PutAcyclic ==
    ASSUME TypeOK, Acyclic, NEW c \in Card, NEW D \in SUBSET Card,
           ~Cyclic([Deps EXCEPT ![c] = D], c),
           card'[c].deps = D, \A d \in Card : d # c => card'[d].deps = card[d].deps
    PROVE  Acyclic'
  <1> DEFINE e == [Deps EXCEPT ![c] = D]
  <1>1. /\ e[c] = D /\ \A d \in Card : d # c => e[d] = card[d].deps
    BY DEF Deps
  <1>2. PICK Z \in SUBSET Card : e[c] \subseteq Z /\ (\A d \in Z : e[d] \subseteq Z) /\ c \notin Z
    BY DEF Cyclic
  <1>3. D \subseteq Z /\ \A d \in Z : card'[d].deps \subseteq Z
    BY <1>1, <1>2
  <1> HIDE DEF e
  <1> SUFFICES ASSUME NEW X \in SUBSET Card, X # {}
               PROVE  \E d \in X : card'[d].deps \intersect X = {}
    BY DEF Acyclic
  <1>4. CASE c \notin X
    <2>1. PICK d \in X : card[d].deps \intersect X = {} BY DEF Acyclic
    <2> QED BY <1>4, <2>1
  <1>5. CASE c \in X /\ X \intersect Z = {}
    BY <1>3, <1>5
  <1>6. CASE c \in X /\ X \intersect Z # {}
    <2>1. X \intersect Z \in SUBSET Card OBVIOUS
    <2>2. PICK d \in X \intersect Z : card[d].deps \intersect (X \intersect Z) = {}
      BY <1>6, <2>1 DEF Acyclic
    <2>3. card'[d].deps = card[d].deps /\ card'[d].deps \subseteq Z BY <1>2, <1>3, <2>2
    <2> QED BY <2>2, <2>3
  <1> QED BY <1>4, <1>5, <1>6

\* put() preserves the invariant.
LEMMA PutInv ==
    ASSUME Inv, NEW c \in Card, NEW p \in Place, NEW D \in SUBSET Card, Put(c, p, D)
    PROVE  Inv'
  <1> DEFINE y == Written(card[c], p, D)
  <1>1. TypeOK /\ card \in [Card -> Row] /\ work \in [Claims -> Work]
    BY DEF Inv, TypeOK
  <1>2. /\ card[c].status \in {"none", "pending"} /\ card[c].version < MaxVersion
        /\ card' = [card EXCEPT ![c] = y] /\ work' = work
    BY DEF Put
  <1>3. card[c] \in Row BY <1>1
  <1>4. /\ y \in Row /\ y.status = "pending" /\ y.place = p /\ y.deps = D
        /\ y.fence = card[c].fence /\ y.worker = card[c].worker
    BY <1>2, <1>3, WrittenRow
  <1> HIDE DEF y
  <1>5. /\ card' \in [Card -> Row] /\ card'[c] = y
        /\ \A d \in Card : d # c => card'[d] = card[d]
    BY <1>1, <1>2, <1>4
  <1>6. TypeOK'
    BY <1>1, <1>2, <1>4, <1>5, ClaimParts DEF TypeOK
  <1>7. ExclusivePlaces'
    BY <1>4, <1>5 DEF Inv, ExclusivePlaces, Occupies
  <1>8. DepsDone'
    <2>1. ASSUME NEW d \in Card, Held(card'[d]), NEW e \in card'[d].deps
          PROVE  card'[e].status = "done"
      <3>1. d # c /\ Held(card[d]) /\ e \in card[d].deps BY <1>4, <1>5, <2>1 DEF Held
      <3>2. card[e].status = "done" BY <3>1 DEF Inv, DepsDone, Held
      <3>3. e \in Card BY <1>1, <3>1, RowTyped
      <3> QED BY <1>2, <1>5, <3>2, <3>3
    <2> QED BY <2>1 DEF DepsDone, Held
  <1>9. Acyclic'
    BY <1>1, <1>4, <1>5, PutAcyclic DEF Put, Inv
  <1>10. WorkerInv'
    <2>1. \A d \in Card : BoundAlive(d)' <=> BoundAlive(d)
      BY <1>2, <1>4, <1>5 DEF BoundAlive
    <2>2. \A d \in Card : BoundAlive(d) => d # c BY <1>2 DEF Inv, WorkerInv, Occupies
    <2>3. \A d \in Card : /\ card'[d].worker = card[d].worker /\ card'[d].fence = card[d].fence
      BY <1>4, <1>5
    <2> QED BY <1>2, <1>5, <2>1, <2>2, <2>3 DEF Inv, WorkerInv
  <1>11. RunningIsCurrent'
    BY <1>2, <1>4, <1>5, ClaimParts DEF Inv, RunningIsCurrent
  <1> QED BY <1>6, <1>7, <1>8, <1>9, <1>10, <1>11 DEF Inv

\* What the sweep of claim() leaves alone, and what it proves before it requeues.
LEMMA SweptRow ==
    ASSUME TypeOK, NEW c \in Card, Swept(c).fence <= FenceCap[c]
    PROVE  /\ Swept(c) \in Row /\ Swept(c).place = card[c].place /\ Swept(c).deps = card[c].deps
           /\ Swept(c).version = card[c].version /\ Swept(c).worker = card[c].worker
           /\ Swept(c).fence >= card[c].fence
           /\ \/ Swept(c) = card[c] /\ (card[c].status = "running" => card[c].lease > 0)
              \/ card[c].status = "running" /\ Swept(c).status = "interrupted"
              \/ card[c].status = "running" /\ Swept(c).status = "pending" /\ WorkerGone(c)
  <1>1. /\ card[c] \in Row /\ card[c].fence \in 0..MaxFence /\ card[c].lease \in 0..TTL
        /\ FenceCap[c] \in 0..MaxFence
    BY RowTyped, GraphBoundsAssumption
  <1>2. CASE ~(card[c].status = "running" /\ card[c].lease = 0)
    <2>1. Swept(c) = card[c] BY <1>2 DEF Swept
    <2> QED BY <1>1, <1>2, <2>1, GraphBoundsAssumption
  <1>3. CASE card[c].status = "running" /\ card[c].lease = 0 /\ WorkerGone(c)
    <2>1. Swept(c) = Requeued(card[c]) BY <1>3 DEF Swept
    <2>2. Requeued(card[c]).fence = card[c].fence + 1 BY <1>1 DEF Requeued, Row
    <2>3. card[c].fence < MaxFence BY <1>1, <2>1, <2>2, GraphBoundsAssumption
    <2> QED BY <1>1, <1>3, <2>1, <2>3, RequeuedRow
  <1>4. CASE card[c].status = "running" /\ card[c].lease = 0 /\ ~WorkerGone(c)
    <2>1. Swept(c) = [card[c] EXCEPT !.status = "interrupted"] BY <1>4 DEF Swept
    <2>2. "interrupted" \in Status BY DEF Status
    <2> QED BY <1>1, <1>4, <2>1, <2>2 DEF Row
  <1> QED BY <1>2, <1>3, <1>4

\* claim() preserves the invariant.
LEMMA ClaimInv ==
    ASSUME Inv, NEW S \in SUBSET Card, NEW how \in {"claimed", "manual"}, Claim(S, how)
    PROVE  Inv'
  <1> DEFINE k == [c \in Card |-> Swept(c)]
  <1>1. TypeOK /\ card \in [Card -> Row] /\ work \in [Claims -> Work]
    BY DEF Inv, TypeOK
  <1>2. /\ \A c \in Card : k[c].fence <= FenceCap[c]
        /\ \A c \in S : k[c].fence < FenceCap[c]
        /\ Takes(k, S)
        /\ card' = [c \in Card |-> IF c \in S THEN Leased(k[c]) ELSE k[c]]
        /\ work' = [w \in Claims |->
                      IF w[1] \in S /\ w[2] = k[w[1]].fence + 1
                      THEN [state |-> how, version |-> k[w[1]].version] ELSE work[w]]
    BY DEF Claim
  <1>3. \A c \in Card :
          /\ k[c] \in Row /\ k[c].place = card[c].place /\ k[c].deps = card[c].deps
          /\ k[c].version = card[c].version /\ k[c].worker = card[c].worker
          /\ k[c].fence >= card[c].fence
          /\ \/ k[c] = card[c]
             \/ card[c].status = "running" /\ k[c].status = "interrupted"
             \/ card[c].status = "running" /\ k[c].status = "pending" /\ WorkerGone(c)
    BY <1>1, <1>2, SweptRow
  <1>4. /\ S \subseteq Ready(k) /\ Compatible(k, S) BY <1>2 DEF Takes
  <1> HIDE DEF k
  <1>5. \A c \in S :
          /\ k[c].status = "pending" /\ \A d \in k[c].deps : k[d].status = "done"
          /\ \A d \in Card : Occupies(k[d]) => ~Clash(k[d].place, k[c].place)
    BY <1>4 DEF Ready
  <1>6. \A c \in Card :
          /\ card[c].fence \in 0..MaxFence /\ k[c].fence \in 0..MaxFence
          /\ card[c].worker \in 0..MaxFence /\ FenceCap[c] \in 0..MaxFence
    BY <1>1, <1>3, RowTyped, GraphBoundsAssumption DEF Row
  <1>7. \A c \in S : k[c].fence < MaxFence BY <1>2, <1>6, GraphBoundsAssumption
  <1>8. \A c \in S :
          /\ card'[c] \in Row /\ card'[c].status = "running" /\ card'[c].fence = k[c].fence + 1
          /\ card'[c].place = card[c].place /\ card'[c].deps = card[c].deps
          /\ card'[c].version = card[c].version /\ card'[c].worker = card[c].worker
    <2> SUFFICES ASSUME NEW c \in S
                 PROVE  /\ Leased(k[c]) \in Row /\ Leased(k[c]).status = "running"
                        /\ Leased(k[c]).fence = k[c].fence + 1
                        /\ Leased(k[c]).place = card[c].place /\ Leased(k[c]).deps = card[c].deps
                        /\ Leased(k[c]).version = card[c].version
                        /\ Leased(k[c]).worker = card[c].worker
      BY <1>2
    <2>1. k[c] \in Row /\ k[c].fence < MaxFence BY <1>3, <1>7
    <2> QED BY <1>3, <2>1, LeasedRow
  <1>9. \A c \in Card : c \notin S => card'[c] = k[c] BY <1>2
  <1>10. card' \in [Card -> Row] BY <1>2, <1>3, <1>8
  <1>11. \A c \in Card : card'[c].fence \in Nat /\ card'[c].fence >= card[c].fence
    BY <1>3, <1>6, <1>8, <1>9, GraphBoundsAssumption
  <1>12. TypeOK'
    <2>1. \A c \in Card : k[c].version \in 0..MaxVersion BY <1>3 DEF Row
    <2>2. \A w \in Claims : [state |-> how, version |-> k[w[1]].version] \in Work
      BY <2>1, ClaimParts DEF Work, Alive
    <2>3. work' \in [Claims -> Work] BY <1>1, <1>2, <2>2
    <2>4. ASSUME NEW w \in Claims, w[2] > card'[w[1]].fence
          PROVE  work'[w].state = "none"
      <3>1. w[1] \in Card /\ w[2] \in Nat BY ClaimParts, GraphBoundsAssumption
      <3>2. w[2] > card[w[1]].fence BY <1>6, <1>11, <2>4, <3>1, GraphBoundsAssumption
      <3>3. ~(w[1] \in S /\ w[2] = k[w[1]].fence + 1) BY <1>8, <1>11, <2>4, <3>1
      <3>4. work'[w] = work[w] BY <1>2, <3>3
      <3> QED BY <1>1, <3>2, <3>4 DEF TypeOK
    <2> QED BY <1>10, <2>3, <2>4 DEF TypeOK
  <1>13. ExclusivePlaces'
    <2>1. ASSUME NEW c \in Card, NEW d \in Card, c # d, Occupies(card'[c]), Occupies(card'[d])
          PROVE  ~Clash(card'[c].place, card'[d].place)
      <3>1. card'[c].place = k[c].place /\ card'[d].place = k[d].place
        BY <1>3, <1>8, <1>9
      <3>2. CASE c \notin S /\ d \notin S
        BY <1>3, <1>9, <2>1, <3>2 DEF Inv, ExclusivePlaces, Occupies
      <3>3. CASE c \in S /\ d \in S
        BY <1>4, <2>1, <3>1, <3>3, CollideClash DEF Compatible
      <3>4. CASE c \in S /\ d \notin S
        BY <1>5, <1>9, <2>1, <3>1, <3>4, ClashSymmetric
      <3>5. CASE c \notin S /\ d \in S
        BY <1>5, <1>9, <2>1, <3>1, <3>5
      <3> QED BY <3>2, <3>3, <3>4, <3>5
    <2> QED BY <2>1 DEF ExclusivePlaces, Occupies
  <1>14. \A d \in Card : k[d].status = "done" => card'[d].status = "done"
    BY <1>5, <1>9
  <1>15. DepsDone'
    <2>1. ASSUME NEW c \in Card, Held(card'[c]), NEW d \in card'[c].deps
          PROVE  card'[d].status = "done"
      <3>1. d \in card[c].deps /\ d \in k[c].deps BY <1>3, <1>8, <1>9, <2>1
      <3>2. d \in Card BY <1>1, <3>1, RowTyped
      <3>3. CASE c \in S BY <1>5, <1>14, <3>1, <3>2, <3>3
      <3>4. CASE c \notin S
        <4>1. Held(card[c]) BY <1>3, <1>9, <2>1, <3>4 DEF Held
        <4>2. card[d].status = "done" BY <3>1, <4>1 DEF Inv, DepsDone, Held
        <4>3. k[d].status = "done" BY <1>3, <3>2, <4>2
        <4> QED BY <1>14, <3>2, <4>3
      <3> QED BY <3>3, <3>4
    <2> QED BY <2>1 DEF DepsDone, Held
  <1>16. Acyclic'
    <2>1. \A d \in Card : card'[d].deps = card[d].deps BY <1>3, <1>8, <1>9
    <2> QED BY <2>1 DEF Inv, Acyclic
  <1>17. WorkerInv'
    <2> SUFFICES ASSUME NEW c \in Card
                 PROVE  /\ card'[c].worker <= card'[c].fence
                        /\ card'[c].worker # 0 =>
                             work'[<<c, card'[c].worker>>].state
                               \notin {"none", "claimed", "manual", "vouched"}
                        /\ BoundAlive(c)' =>
                             /\ Occupies(card'[c])
                             /\ card'[c].status = "running" => card'[c].worker = card'[c].fence
      BY DEF WorkerInv, Occupies
    <2>1. /\ card[c].worker <= card[c].fence
          /\ card[c].worker # 0 =>
               work[<<c, card[c].worker>>].state \notin {"none", "claimed", "manual", "vouched"}
          /\ BoundAlive(c) =>
               /\ Occupies(card[c])
               /\ card[c].status = "running" => card[c].worker = card[c].fence
      BY DEF Inv, WorkerInv
    <2>2. card'[c].worker = card[c].worker BY <1>3, <1>8, <1>9
    <2>3. card'[c].worker <= card'[c].fence
      BY <1>6, <1>11, <2>1, <2>2, GraphBoundsAssumption
    <2>4. ASSUME card[c].worker # 0
          PROVE  work'[<<c, card[c].worker>>] = work[<<c, card[c].worker>>]
      <3>1. <<c, card[c].worker>> \in Claims /\ <<c, card[c].worker>>[1] = c
              /\ <<c, card[c].worker>>[2] = card[c].worker
        BY <1>6, <2>4, ClaimParts, GraphBoundsAssumption
      <3>2. card[c].worker # k[c].fence + 1 BY <1>3, <1>6, <2>1, GraphBoundsAssumption
      <3> QED BY <1>2, <3>1, <3>2
    <2>5. BoundAlive(c)' <=> BoundAlive(c) BY <2>2, <2>4 DEF BoundAlive
    <2>6. ASSUME BoundAlive(c)
          PROVE  /\ Occupies(card'[c])
                 /\ card'[c].status = "running" => card'[c].worker = card'[c].fence
      <3>1. ~WorkerGone(c) BY <2>6 DEF WorkerGone, BoundAlive
      <3>2. k[c] = card[c] \/ k[c].status = "interrupted" BY <1>3, <3>1
      <3>3. c \notin S BY <1>5, <2>1, <2>6, <3>2 DEF Occupies
      <3> QED BY <1>9, <2>1, <2>6, <3>2, <3>3 DEF Occupies
    <2> QED BY <2>1, <2>2, <2>3, <2>4, <2>5, <2>6
  <1>18. RunningIsCurrent'
    <2>1. ASSUME NEW w \in Claims, card'[w[1]].status = "running", card'[w[1]].fence = w[2],
                 work'[w].state \notin {"none", "gone"}
          PROVE  work'[w].version = card'[w[1]].version
      <3>1. w[1] \in Card BY ClaimParts
      <3>2. CASE w[1] \in S
        <4>1. work'[w] = [state |-> how, version |-> k[w[1]].version]
          BY <1>2, <1>8, <2>1, <3>2
        <4> QED BY <1>3, <1>8, <3>1, <3>2, <4>1
      <3>3. CASE w[1] \notin S
        <4>1. work'[w] = work[w] BY <1>2, <3>3
        <4>2. card'[w[1]] = card[w[1]] BY <1>3, <1>9, <2>1, <3>1, <3>3
        <4> QED BY <2>1, <4>1, <4>2 DEF Inv, RunningIsCurrent
      <3> QED BY <3>2, <3>3
    <2> QED BY <2>1 DEF RunningIsCurrent
  <1> QED BY <1>12, <1>13, <1>15, <1>16, <1>17, <1>18 DEF Inv

\* The invariant holds of an empty database.
LEMMA InitInv ==
    ASSUME Init
    PROVE  Inv
  <1>1. (CHOOSE p \in Place : TRUE) \in Place BY PlaceAssumption
  <1>2. 0 \in 0..MaxFence /\ 0 \in 0..MaxVersion /\ 0 \in 0..TTL BY GraphBoundsAssumption
  <1>3. \A c \in Card : card[c].status = "none" /\ card[c].deps = {} /\ card[c].worker = 0
                          /\ card[c].fence = 0
    BY DEF Init
  <1>4. card \in [Card -> Row] BY <1>1, <1>2 DEF Init, Row, Status
  <1>5. work \in [Claims -> Work] /\ \A w \in Claims : work[w].state = "none"
    BY <1>2 DEF Init, Work
  <1>6. TypeOK BY <1>4, <1>5 DEF TypeOK
  <1>7. ExclusivePlaces /\ DepsDone BY <1>3 DEF ExclusivePlaces, DepsDone, Occupies
  <1>8. Acyclic BY <1>3 DEF Acyclic
  <1>9. WorkerInv BY <1>3 DEF WorkerInv, BoundAlive
  <1>10. RunningIsCurrent BY <1>3, ClaimParts DEF RunningIsCurrent
  <1> QED BY <1>6, <1>7, <1>8, <1>9, <1>10 DEF Inv

\* The invariant is preserved by every step.
LEMMA NextInv ==
    ASSUME Inv, [Next]_vars
    PROVE  Inv'
  <1>1. CASE Next
    <2>1. \/ \E c \in Card, p \in Place, D \in SUBSET Card : Put(c, p, D)
          \/ \E S \in SUBSET Card, how \in {"claimed", "manual"} : Claim(S, how)
          \/ \E d \in Card, y \in Row : SmallStep(d, y)
      BY <1>1, StepForm DEF Inv
    <2> QED BY <2>1, PutInv, ClaimInv, SmallStepInv
  <1>2. CASE UNCHANGED vars
    <2>1. card' = card /\ work' = work BY <1>2 DEF vars
    <2> QED BY <2>1 DEF Inv, TypeOK, ExclusivePlaces, Occupies, DepsDone, Acyclic, WorkerInv,
                 BoundAlive, RunningIsCurrent
  <1> QED BY <1>1, <1>2

-----------------------------------------------------------------------------

\* The inductive invariant holds in every reachable state.
THEOREM GraphInvariant == Spec => []Inv
  <1>1. Init => Inv BY InitInv
  <1>2. Inv /\ [Next]_vars => Inv' BY NextInv
  <1> QED BY <1>1, <1>2, PTL DEF Spec

\* Rows and claims keep their types, and no worker ever holds a fence that claim() has yet to
\* hand out.
THEOREM GraphTyped == Spec => []TypeOK
  <1>1. Inv => TypeOK BY DEF Inv
  <1> QED BY <1>1, GraphInvariant, PTL

\* Whatever is claimed, swept, released, amended and edited, two cards that run or wait for an
\* operator never share a project or nest their directories.
THEOREM PlacesExclusive == Spec => []ExclusivePlaces
  <1>1. Inv => ExclusivePlaces BY DEF Inv
  <1> QED BY <1>1, GraphInvariant, PTL

\* No card is worked on before its dependencies are done, they stay done, and the edits of
\* put() never close a cycle.
THEOREM DependenciesFirst == Spec => []DependenciesHold
  <1>1. Inv => DependenciesHold BY DEF Inv, DependenciesHold
  <1> QED BY <1>1, GraphInvariant, PTL

\* Two workers bound to their leases never write in one place at a time.
THEOREM WritersApart == Spec => []OneBoundWriter
  <1>1. Inv => OneBoundWriter
    BY DEF Inv, WorkerInv, ExclusivePlaces, OneBoundWriter
  <1> QED BY <1>1, GraphInvariant, PTL

\* A card is only closed by evidence for its goal as it stands.
THEOREM ClosedByCurrentEvidence == Spec => DoneIsCurrent
  <1> DEFINE Closes(c) == card'[c].status = "done" /\ card[c].status # "done"
             Backed(c) == /\ work[<<c, card[c].fence>>].state \in {"proven", "vouched"}
                          /\ work[<<c, card[c].fence>>].version = card[c].version
  <1>1. ASSUME Inv, [Next]_vars
        PROVE  [\A c \in Card : Closes(c) => Backed(c)]_vars
    <2>1. SUFFICES ASSUME Next, NEW c \in Card, Closes(c) PROVE Backed(c)
      BY <1>1
    <2>2. \/ \E e \in Card, p \in Place, D \in SUBSET Card : Put(e, p, D)
          \/ \E S \in SUBSET Card, how \in {"claimed", "manual"} : Claim(S, how)
          \/ \E d \in Card, y \in Row : SmallStep(d, y)
      BY <1>1, <2>1, StepForm DEF Inv
    <2>3. card \in [Card -> Row] /\ TypeOK BY <1>1 DEF Inv, TypeOK
    <2>4. ASSUME NEW e \in Card, NEW p \in Place, NEW D \in SUBSET Card, Put(e, p, D)
          PROVE  FALSE
      <3>1. card' = [card EXCEPT ![e] = Written(card[e], p, D)] /\ card[e].version < MaxVersion
        BY <2>4 DEF Put
      <3>2. card[e] \in Row BY <2>3
      <3>3. Written(card[e], p, D).status = "pending" BY <3>1, <3>2, WrittenRow
      <3> QED BY <2>1, <2>3, <3>1, <3>3
    <2>5. ASSUME NEW S \in SUBSET Card, NEW how \in {"claimed", "manual"}, Claim(S, how)
          PROVE  FALSE
      <3>1. /\ \A d \in Card : Swept(d).fence <= FenceCap[d]
            /\ \A d \in S : Swept(d).fence < FenceCap[d]
            /\ card' = [d \in Card |-> IF d \in S THEN Leased(Swept(d)) ELSE Swept(d)]
        BY <2>5 DEF Claim
      <3>2. /\ Swept(c) \in Row
            /\ Swept(c) = card[c] \/ Swept(c).status \in {"interrupted", "pending"}
        BY <2>3, <3>1, SweptRow
      <3>3. c \in S => Swept(c).fence < MaxFence
        BY <3>1, <3>2, GraphBoundsAssumption DEF Row
      <3>4. c \in S => Leased(Swept(c)).status = "running" BY <3>2, <3>3, LeasedRow
      <3> QED BY <2>1, <3>1, <3>2, <3>4
    <2>6. ASSUME NEW d \in Card, NEW y \in Row, SmallStep(d, y)
          PROVE  Backed(c)
      <3>1. card' = [card EXCEPT ![d] = y] BY <2>6 DEF SmallStep
      <3>2. d = c /\ y.status = "done" BY <2>1, <2>3, <3>1
      <3>3. /\ card[c].status = "running" /\ <<c, card[c].fence>> \in Claims
            /\ work[<<c, card[c].fence>>].state \in {"proven", "vouched"}
        BY <2>1, <2>6, <3>2 DEF SmallStep
      <3>4. work[<<c, card[c].fence>>].version = card[c].version
        BY <1>1, <3>3 DEF Inv, RunningIsCurrent
      <3> QED BY <3>3, <3>4
    <2> QED BY <2>2, <2>4, <2>5, <2>6
  <1> QED BY <1>1, GraphInvariant, PTL DEF Spec, DoneIsCurrent

=============================================================================
