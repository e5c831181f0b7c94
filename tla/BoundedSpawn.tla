---------------------------- MODULE BoundedSpawn ----------------------------
(***************************************************************************)
(* One child process run under bounds (src/proc/spawnBounded.ts): its two  *)
(* output streams are read into one byte budget while a deadline and an    *)
(* abort signal may stop it.  The child may ignore SIGTERM, and a          *)
(* grandchild may keep the pipes open after the child is gone.  Output is  *)
(* counted in chunks of one unit.                                          *)
(***************************************************************************)
EXTENDS Naturals

CONSTANTS
  MaxBytes,   \* the byte budget of both streams together
  MaxOutput   \* bound: what the child writes to one stream

Streams == {"stdout", "stderr"}

VARIABLES
  phase,      \* "launching", "running", "returned"
  child,      \* "alive", "termed" (it has been sent SIGTERM) or "gone"
  stubborn,   \* it ignores SIGTERM
  grandchild, \* a grandchild holds the write ends
  deadline,   \* "none", "armed", "passed"
  signal,     \* the caller's abort signal fired
  grace,      \* the kill timer after a stop: "none", "armed", "over"
  outlet,       \* written and not read, per stream
  written,    \* written in all, per stream
  loop,       \* each read loop: "reading" or "over"
  cancelled,  \* the readers have been cancelled
  bytes, oversize,
  kept,       \* what the loops pushed, per stream
  reason      \* how the run was reported

vars == <<phase, child, stubborn, grandchild, deadline, signal, grace, outlet, written,
          loop, cancelled, bytes, oversize, kept, reason>>
io == <<outlet, written, loop, bytes, oversize, kept>>

Init ==
  /\ phase = "launching" /\ child = "gone" /\ stubborn \in BOOLEAN
  /\ grandchild = FALSE /\ deadline \in {"none", "armed"} /\ signal \in BOOLEAN
  /\ grace = "none" /\ cancelled = FALSE /\ bytes = 0 /\ oversize = FALSE
  /\ outlet = [s \in Streams |-> 0] /\ written = [s \in Streams |-> 0]
  /\ loop = [s \in Streams |-> "reading"] /\ kept = [s \in Streams |-> 0]
  /\ reason = "none"

----------------------------------------------------------------------------
(* Stop the child, and arm the timer that stops waiting on its pipes. *)
Stop ==
  /\ child' = IF child = "alive" THEN "termed" ELSE child
  /\ grace' = "armed"

SpawnFails ==
  /\ phase = "launching"
  /\ phase' = "returned" /\ reason' = "spawn-failed"
  /\ UNCHANGED <<child, stubborn, grandchild, deadline, signal, grace, cancelled, io>>

(* A signal that has already fired stops the child as it is launched. *)
Launch ==
  /\ phase = "launching"
  /\ phase' = "running"
  /\ child' = IF signal THEN "termed" ELSE "alive"
  /\ grace' = IF signal THEN "armed" ELSE "none"
  /\ UNCHANGED <<stubborn, grandchild, deadline, signal, cancelled, reason, io>>

DeadlinePasses ==
  /\ phase = "running" /\ deadline = "armed"
  /\ deadline' = "passed" /\ Stop
  /\ UNCHANGED <<phase, stubborn, grandchild, signal, cancelled, reason, io>>

Abort ==
  /\ phase = "running" /\ ~signal
  /\ signal' = TRUE /\ Stop
  /\ UNCHANGED <<phase, stubborn, grandchild, deadline, cancelled, reason, io>>

(* Faulty variant: the child is killed, and its pipes are waited for. *)
GraceOverKillsOnly ==
  /\ grace = "armed"
  /\ grace' = "over" /\ child' = "gone"
  /\ UNCHANGED <<phase, stubborn, grandchild, deadline, signal, cancelled, reason, io>>

GraceOver ==
  /\ grace = "armed"
  /\ grace' = "over" /\ child' = "gone" /\ cancelled' = TRUE
  /\ UNCHANGED <<phase, stubborn, grandchild, deadline, signal, reason, io>>

----------------------------------------------------------------------------
(* The child and what it leaves behind *)

Writes(s) ==
  /\ phase = "running" /\ (child # "gone" \/ grandchild)
  /\ written[s] < MaxOutput
  /\ written' = [written EXCEPT ![s] = @ + 1]
  /\ outlet' = [outlet EXCEPT ![s] = @ + 1]
  /\ UNCHANGED <<phase, child, stubborn, grandchild, deadline, signal, grace, cancelled,
                 loop, bytes, oversize, kept, reason>>

Forks ==
  /\ phase = "running" /\ child # "gone" /\ ~grandchild
  /\ grandchild' = TRUE
  /\ UNCHANGED <<phase, child, stubborn, deadline, signal, grace, cancelled, reason, io>>

Exits ==
  /\ phase = "running"
  /\ \/ child # "gone" /\ child' = "gone" /\ UNCHANGED grandchild
     \/ grandchild /\ grandchild' = FALSE /\ UNCHANGED child
  /\ UNCHANGED <<phase, stubborn, deadline, signal, grace, cancelled, reason, io>>

TermKills ==
  /\ child = "termed" /\ ~stubborn
  /\ child' = "gone"
  /\ UNCHANGED <<phase, stubborn, grandchild, deadline, signal, grace, cancelled, reason, io>>

----------------------------------------------------------------------------
(* Faulty variant: the budget may be passed by one. *)
OverBudgetByMore(n) == n > MaxBytes + 1

(* The read loops share the budget: the one that goes over it kills the    *)
(* child and cancels both.                                                 *)
OverBudget(n) == n > MaxBytes

Reads(s) ==
  /\ phase = "running" /\ loop[s] = "reading" /\ outlet[s] > 0 /\ ~cancelled
  /\ outlet' = [outlet EXCEPT ![s] = @ - 1] /\ bytes' = bytes + 1
  /\ \/ /\ OverBudget(bytes + 1)
        /\ oversize' = TRUE /\ child' = "gone" /\ cancelled' = TRUE
        /\ loop' = [loop EXCEPT ![s] = "over"]
        /\ UNCHANGED kept
     \/ /\ ~OverBudget(bytes + 1)
        /\ kept' = [kept EXCEPT ![s] = @ + 1]
        /\ UNCHANGED <<oversize, child, cancelled, loop>>
  /\ UNCHANGED <<phase, stubborn, grandchild, deadline, signal, grace, written, reason>>

Closed(s) == outlet[s] = 0 /\ child = "gone" /\ ~grandchild

Ends(s) ==
  /\ phase = "running" /\ loop[s] = "reading" /\ (cancelled \/ Closed(s))
  /\ loop' = [loop EXCEPT ![s] = "over"]
  /\ UNCHANGED <<phase, child, stubborn, grandchild, deadline, signal, grace, cancelled,
                 outlet, written, bytes, oversize, kept, reason>>

Finished == child = "gone" /\ \A s \in Streams : loop[s] = "over"

Return ==
  /\ phase = "running" /\ Finished
  /\ phase' = "returned"
  /\ reason' = CASE oversize -> "too-large"
                 [] ~oversize /\ deadline = "passed" -> "timeout"
                 [] ~oversize /\ deadline # "passed" /\ signal -> "aborted"
                 [] ~oversize /\ deadline # "passed" /\ ~signal -> "exited"
  /\ kept' = IF oversize THEN [s \in Streams |-> 0] ELSE kept
  /\ deadline' = IF deadline = "armed" THEN "none" ELSE deadline
  /\ UNCHANGED <<child, stubborn, grandchild, signal, grace, cancelled, outlet, written,
                 loop, bytes, oversize>>

----------------------------------------------------------------------------
Next ==
  \/ SpawnFails \/ Launch \/ DeadlinePasses \/ Abort \/ GraceOver
  \/ (\E s \in Streams : Writes(s)) \/ Forks \/ Exits \/ TermKills
  \/ (\E s \in Streams : Reads(s)) \/ (\E s \in Streams : Ends(s)) \/ Return

Spec == Init /\ [][Next]_vars

(* Timers fire, a signal a process does not ignore kills it, and the event *)
(* loop runs the read loops.  The child owes nothing.                      *)
Fairness ==
  /\ WF_vars(Launch \/ SpawnFails) /\ WF_vars(DeadlinePasses) /\ WF_vars(GraceOver)
  /\ WF_vars(TermKills) /\ WF_vars(Return)
  /\ \A s \in Streams : WF_vars(Reads(s)) /\ WF_vars(Ends(s))

----------------------------------------------------------------------------
TypeOK ==
  /\ phase \in {"launching", "running", "returned"} /\ child \in {"alive", "termed", "gone"}
  /\ deadline \in {"none", "armed", "passed"} /\ grace \in {"none", "armed", "over"}
  /\ {stubborn, grandchild, signal, cancelled, oversize} \subseteq BOOLEAN
  /\ \A s \in Streams : {outlet[s], written[s], kept[s]} \subseteq 0..MaxOutput
  /\ reason \in {"none", "spawn-failed", "too-large", "timeout", "aborted", "exited"}

(* What a run returns is never more than the budget, and a run reported as *)
(* having exited on its own carries everything its process wrote: a bound  *)
(* that cut the read short is always named.                                *)
ReadsAreWhole ==
  phase = "returned" =>
    /\ kept["stdout"] + kept["stderr"] <= MaxBytes
    /\ reason = "exited" => kept = written

(* A run with a deadline, or one that was stopped, comes back with its      *)
(* child dead, whatever the child ignores and whoever else holds its pipes. *)
Awaited ==
  \/ phase = "running" /\ (deadline # "none" \/ signal)
  \/ phase = "returned" /\ child # "gone"
DeadlineEnds == []<>~Awaited
=============================================================================
