----------------------------- MODULE WorkerRace -----------------------------
(***************************************************************************)
(* The calls of the workers of `orchestrate` (agent-rs/src/coord.rs): the  *)
(* units of a wave race calls for their answer over the slots of one       *)
(* provider (agent-rs/src/shard.rs), beside the call that warms its cache. *)
(* A unit asks for a first call and for the replacement of a call that     *)
(* failed or was rejected by the check, and waits for a slot; the twin of  *)
(* a call that stalls starts on a spare slot only.  The first valid answer *)
(* wins, and the calls still running are cancelled.                        *)
(***************************************************************************)
EXTENDS Naturals, FiniteSets

CONSTANTS
  Units,       \* the units of work, a run of files each
  MaxInflight, \* the slots
  MaxCalls     \* of one unit

Calls == 1..MaxCalls
Answers == {"valid", "invalid", "failed"}

VARIABLES
  free,    \* slots nobody holds
  warm,    \* the warming call: "asks", "queued", "running", "over"
  racer,   \* per unit: where its loop is, and what it returned
  fork     \* per unit and call: "none", "running" or its answer

vars == <<free, warm, racer, fork>>

(* at: "asks" (it is about to announce that it waits), "queued", "loop", "spare" *)
(* (nobody waited for a slot: it is about to try for one) or "back"; heard: the  *)
(* answers its loop has taken.                                                   *)
Racer == [at: {"asks", "queued", "loop", "spare", "back"}, heard: SUBSET Calls,
          result: {"none"} \cup Answers]

Init ==
  /\ free = MaxInflight /\ warm \in {"asks", "over"}
  /\ racer = [u \in Units |-> [at |-> "asks", heard |-> {}, result |-> "none"]]
  /\ fork = [u \in Units |-> [k \in Calls |-> "none"]]

----------------------------------------------------------------------------
Started(u) == {k \in Calls : fork[u][k] # "none"}
Unheard(u) == Started(u) \ racer[u].heard
Running(u) == {k \in Calls : fork[u][k] = "running"}
CanStart(u) == Started(u) # Calls
NobodyWaits == warm # "queued" /\ \A u \in Units : racer[u].at # "queued"

(* A slot is taken and the unit's next call is started on it. *)
Start(u) ==
  /\ free > 0 /\ free' = free - 1
  /\ fork' = [fork EXCEPT ![u][Cardinality(Started(u)) + 1] = "running"]
  /\ racer' = [racer EXCEPT ![u].at = "loop"]

(* Slots::acquire: announce, then wait for a slot. *)
Announce(u) ==
  /\ racer[u].at = "asks"
  /\ racer' = [racer EXCEPT ![u].at = "queued"]
  /\ UNCHANGED <<free, warm, fork>>

Acquire(u) ==
  /\ racer[u].at = "queued" /\ Start(u)
  /\ UNCHANGED warm

(* try_acquire_spare: the look at who waits, and the attempt that follows it. *)
Stall(u) ==
  /\ racer[u].at = "loop" /\ CanStart(u)
  /\ Unheard(u) # {} /\ Unheard(u) \subseteq Running(u)
  /\ NobodyWaits
  /\ racer' = [racer EXCEPT ![u].at = "spare"]
  /\ UNCHANGED <<free, warm, fork>>

TrySpare(u) ==
  /\ racer[u].at = "spare"
  /\ IF free > 0 THEN Start(u)
     ELSE racer' = [racer EXCEPT ![u].at = "loop"] /\ UNCHANGED <<free, fork>>
  /\ UNCHANGED warm

----------------------------------------------------------------------------
(* Faulty variant: a call that was cancelled keeps its slot. *)
FreedUnlessCancelled(u) == IF racer[u].at = "back" THEN free ELSE free + 1

Freed(u) == free + 1

(* A call ends: by its answer, checked in its own thread; a cancelled one   *)
(* ends as its stream is closed.                                            *)
CallEnds(u, k, a) ==
  /\ fork[u][k] = "running"
  /\ racer[u].at = "back" => a = "failed"
  /\ fork' = [fork EXCEPT ![u][k] = a] /\ free' = Freed(u)
  /\ UNCHANGED <<warm, racer>>

(* Faulty variant: the first answer back wins. *)
WinsFirst(a) == a # "failed"

Wins(a) == a = "valid"

(* What a unit returns when its calls are used up: a rejected answer if     *)
(* there was one, for the gate and the review to see.                       *)
Leftover(u, H) == IF \E k \in H : fork[u][k] = "invalid" THEN "invalid" ELSE "failed"

Hear(u, k) ==
  /\ racer[u].at = "loop" /\ k \in Unheard(u) \ Running(u)
  /\ LET H == racer[u].heard \cup {k}
         stays(at) == [at |-> at, heard |-> H, result |-> "none"]
         next ==
           CASE Wins(fork[u][k]) ->
                  [at |-> "back", heard |-> H, result |-> fork[u][k]]
             [] ~Wins(fork[u][k]) /\ CanStart(u) -> stays("asks")
             [] ~Wins(fork[u][k]) /\ ~CanStart(u) /\ H = Calls ->
                  [at |-> "back", heard |-> H, result |-> Leftover(u, H)]
             [] OTHER -> stays("loop")
     IN racer' = [racer EXCEPT ![u] = next]
  /\ UNCHANGED <<free, warm, fork>>

----------------------------------------------------------------------------
WarmAsks ==
  /\ warm = "asks" /\ warm' = "queued"
  /\ UNCHANGED <<free, racer, fork>>
WarmAcquires ==
  /\ warm = "queued" /\ free > 0
  /\ warm' = "running" /\ free' = free - 1
  /\ UNCHANGED <<racer, fork>>
WarmEnds ==
  /\ warm = "running" /\ warm' = "over" /\ free' = free + 1
  /\ UNCHANGED <<racer, fork>>

WarmGoes == WarmAsks \/ WarmAcquires \/ WarmEnds

CallReturns(u, k) == \E a \in Answers : CallEnds(u, k, a)
LoopGoes(u) == Announce(u) \/ Acquire(u) \/ TrySpare(u) \/ \E k \in Calls : Hear(u, k)

Next ==
  \/ \E u \in Units : Stall(u) \/ LoopGoes(u) \/ \E k \in Calls : CallReturns(u, k)
  \/ WarmGoes

Spec == Init /\ [][Next]_vars

(* Threads run, a lock is given to one that waits for it, and a call ends:  *)
(* it has a read timeout, and its retries a budget.                         *)
Fairness ==
  /\ WF_vars(WarmGoes)
  /\ \A u \in Units :
       WF_vars(LoopGoes(u)) /\ \A k \in Calls : WF_vars(CallReturns(u, k))

----------------------------------------------------------------------------
TypeOK ==
  /\ free \in 0..MaxInflight
  /\ warm \in {"asks", "queued", "running", "over"}
  /\ racer \in [Units -> Racer]
  /\ fork \in [Units -> [Calls -> {"none", "running"} \cup Answers]]

(* Every slot is free or held by a call in flight, whichever way the calls  *)
(* of a race ended: cancelled, replaced or unheard.                         *)
SlotsAreKept ==
  LET held == {h \in Units \X Calls : fork[h[1]][h[2]] = "running"}
  IN free + Cardinality(held) + (IF warm = "running" THEN 1 ELSE 0) = MaxInflight

(* The first valid answer wins, not the first one back: a unit returns an    *)
(* answer the check rejected, or none, only when all its calls came back and *)
(* none was better.                                                          *)
BestAnswerWins ==
  \A u \in Units : LET r == racer[u] IN
    r.at = "back" =>
      /\ \E k \in r.heard : fork[u][k] = r.result
      /\ r.result # "valid" => r.heard = Calls
      /\ \A k \in r.heard : fork[u][k] = "valid" => r.result = "valid"
      /\ \A k \in r.heard : fork[u][k] = "invalid" => r.result # "failed"

(* Every unit gets its answer, though its loop waits for slots that the      *)
(* other units, the warming call and its own twins hold.                     *)
AllBack == \A u \in DOMAIN racer : racer[u].at = "back"
EveryUnitReturns == <>AllBack
=============================================================================
