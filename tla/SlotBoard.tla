----------------------------- MODULE SlotBoard -----------------------------
(***************************************************************************)
(* What the work queue promises about its board, without workers,          *)
(* sessions, messages or restarts: rows change status along the arrows     *)
(* below, and whatever happens, tasks start only in a grant that respects  *)
(* the setting, the folders and the order of the queue.                    *)
(***************************************************************************)
EXTENDS PumpPolicy

CONSTANTS Dir, MaxCap

VARIABLES
    row,   \* status and folder of every task
    cap    \* the concurrency setting

Resting == {"done", "error", "cancelled"}

Arrow ==
    {<<"none", "queued">>, <<"queued", "cancelled">>, <<"running", "queued">>}
    \union ({"running"} \X Resting) \union (Resting \X {"queued"})

\* What may become of one row before anything starts; a folder is for life.
Moves(x, y) ==
    \/ y = x
    \/ /\ <<x.status, y.status>> \in Arrow
       /\ x.status # "none" => y.cwd = x.cwd

\* The tasks in S may start on board m: within the setting, in folders of their own, and
\* ahead of an older task only when a task that runs or starts before it has its folder.
Grant(m, n, S) ==
    /\ S # {} => Cardinality(Running(m) \union S) <= n
    /\ \A t \in S : \A u \in (Running(m) \union S) \ {t} : ~Overlaps(m[u].cwd, m[t].cwd)
    /\ \A u \in S : \A t \in With(m, "queued") \ S :
          t < u => \E v \in Running(m) \union {w \in S : w < t} : Overlaps(m[v].cwd, m[t].cwd)

\* Board m after the tasks in S were taken off the running ones.
Asked(m, S) == [t \in Task |-> IF t \in S THEN [m[t] EXCEPT !.status = "queued"] ELSE m[t]]

Init == /\ row \in [Task -> [status: {"none"}, cwd: Dir]]
        /\ cap \in 1..MaxCap

Next == /\ cap' \in 1..MaxCap
        /\ \E S \in SUBSET Running(row') :
              /\ \A t \in Task : Moves(row[t], Asked(row', S)[t])
              /\ Grant(Asked(row', S), cap', S)

Spec == Init /\ [][Next]_<<row, cap>>

=============================================================================
