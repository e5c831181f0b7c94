----------------------------- MODULE PumpPolicy -----------------------------
(***************************************************************************)
(* pump() of the work queue (src/src/web/workQueue.ts): which queued tasks *)
(* start, given the rows, and the folder rule it applies.                  *)
(***************************************************************************)
EXTENDS Integers, FiniteSets, Sequences

CONSTANTS
    MaxTasks,   \* tasks are numbered by seq: 1..MaxTasks
    Broad       \* directories that serialise nothing: "/", the home, "/tmp"

ASSUME TasksAssumption == MaxTasks \in Nat \ {0}

Task == 1..MaxTasks

-----------------------------------------------------------------------------
(* Folders are paths: sequences of segments.                               *)

Within(a, b) == Len(b) <= Len(a) /\ SubSeq(a, 1, Len(b)) = b

\* overlaps(): one directory is, or contains, the other; broad ones overlap nothing.
Overlaps(a, b) == /\ a \notin Broad /\ b \notin Broad
                  /\ Within(a, b) \/ Within(b, a)

With(r, st) == {t \in Task : r[t].status = st}
Running(r) == With(r, "running")

-----------------------------------------------------------------------------
(* pump(): walks the queued rows in seq order and starts each one that     *)
(* still finds a slot and whose folder is free, counting the ones it has   *)
(* just started.  Stated without the loop: S is what it starts.            *)

Before(S, t) == {u \in S : u < t}

\* Faulty variant: one slot too many.
FreeSlotsPlusOne(r, n) == n + 1 - Cardinality(Running(r))

FreeSlots(r, n) == n - Cardinality(Running(r))

\* Faulty variant: the folders of the tasks just started are not marked busy.
FitsRunningOnly(r, n, S, t) ==
    /\ Cardinality(Before(S, t)) < FreeSlots(r, n)
    /\ \A u \in Running(r) : ~Overlaps(r[u].cwd, r[t].cwd)

Fits(r, n, S, t) ==
    /\ Cardinality(Before(S, t)) < FreeSlots(r, n)
    /\ \A u \in Running(r) \union Before(S, t) : ~Overlaps(r[u].cwd, r[t].cwd)

Picks(r, n, S) ==
    /\ S \subseteq With(r, "queued")
    /\ \A t \in With(r, "queued") : t \in S <=> Fits(r, n, S, t)

=============================================================================
