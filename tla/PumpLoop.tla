------------------------------ MODULE PumpLoop ------------------------------
(***************************************************************************)
(* pump() of the work queue as the code writes it, a loop over the rows,   *)
(* on a table that is pumped again whenever a task of it settles; and what *)
(* it has to do with the declarative Picks of PumpPolicy, which the other  *)
(* models and their proofs use.                                            *)
(***************************************************************************)
EXTENDS PumpPolicy

CONSTANTS
    Folders,  \* the working directories of the tasks
    MaxSlots  \* bound: the setting

ASSUME SlotsAssumption == MaxSlots \in Nat

VARIABLES
    board,    \* the rows
    slots     \* the setting

\* One turn of the for loop: acc is what has been started, and put in `busy`, so far.
LoopTurn(r, n, acc, t) ==
    IF \/ FreeSlots(r, n) - Cardinality(acc) <= 0
       \/ r[t].status # "queued"
       \/ \E u \in Running(r) \union acc : Overlaps(r[u].cwd, r[t].cwd)
    THEN acc ELSE acc \union {t}

\* The do-while body: nothing when there is no slot, else the rows in seq order.
StartedUpTo(r, n) ==
    LET upTo[t \in 0..MaxTasks] == IF t = 0 THEN {} ELSE LoopTurn(r, n, upTo[t - 1], t)
    IN upTo

Loop(r, n) == StartedUpTo(r, n)[MaxTasks]

Pumped(r, n) ==
    [t \in Task |-> IF t \in Loop(r, n) THEN [r[t] EXCEPT !.status = "running"] ELSE r[t]]

PumpInit ==
    /\ board \in [Task -> [status: {"queued", "running", "done"}, cwd: Folders]]
    /\ slots \in 0..MaxSlots

\* The table after a pump, and a running task that settles.
PumpNext ==
    /\ \/ board' = Pumped(board, slots)
       \/ \E t \in Running(board) : board' = [board EXCEPT ![t].status = "done"]
    /\ UNCHANGED slots

PumpSpec == PumpInit /\ [][PumpNext]_<<board, slots>>

-----------------------------------------------------------------------------
(* The loop of pump() starts one set of tasks, the only one that Picks      *)
(* accepts.                                                                 *)
LoopIsPicks == {S \in SUBSET With(board, "queued") : Picks(board, slots, S)} = {Loop(board, slots)}

(* One pump is enough: run again on what it leaves behind it starts nothing *)
(* (the #again flag of a nested pump has nothing to add).                   *)
PumpIsIdempotent == Loop(Pumped(board, slots), slots) = {}

PumpIsPicks == LoopIsPicks /\ PumpIsIdempotent
=============================================================================
