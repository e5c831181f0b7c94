---------------------------- MODULE HumanHandoff ----------------------------
(***************************************************************************)
(* A worker asks the human to act in its browser tab and waits on the call *)
(* (src/web/workQueue.ts: askHuman, humanDone, resolveHuman; the browser   *)
(* and browser-done routes of serve.ts), on one task.  A worker that was   *)
(* stopped and continued may ask again while its first call still waits:   *)
(* the server is not told that nobody listens any more.  Asks are numbered *)
(* in their order; tab and words are left out.                             *)
(***************************************************************************)
EXTENDS Naturals, Sequences

CONSTANTS
  MaxAsks,    \* bound: how often a worker asks
  MaxRestarts \* bound: restarts of the server

VARIABLES
  ask,       \* each call: how long it may wait, and what it was answered
  card,      \* the ask the task's card shows (saved), or 0
  waiter,    \* the ask whose promise `#waiting` holds (in memory), or 0
  noted,     \* asks whose end is noted on the card as unanswered
  shown,      \* the ask the human's panel shows, or 0
  pressed,    \* the asks on which the human pressed Done (history)
  restarts

vars == <<ask, card, waiter, noted, shown, pressed, restarts>>

Call == [timer : BOOLEAN, answer : {"none", "timeout", "done", "not-waited", "cut off"}]

Init ==
  /\ ask = <<>> /\ card = 0 /\ waiter = 0 /\ noted = {} /\ shown = 0 /\ pressed = {} /\ restarts = 0

----------------------------------------------------------------------------
(* Faulty variant: whoever waits is finished. *)
MineWhoeverWaits(i) == waiter # 0

(* `finish` of one ask does nothing unless it is still the one waited for. *)
Mine(i) == waiter = i

Finish(i, how, asks) ==
  \/ /\ Mine(i)
     /\ waiter' = 0
     /\ ask' = [asks EXCEPT ![i] = [timer |-> FALSE, answer |-> how]]
     /\ card' = 0
     /\ noted' = IF card # 0 /\ how # "done" THEN noted \union {card} ELSE noted
  \/ /\ ~Mine(i)
     /\ ask' = [asks EXCEPT ![i].timer = FALSE]
     /\ UNCHANGED <<waiter, card, noted>>

(* The route notes the request, tells the chat and waits, in one go.  A    *)
(* call that does not wait is finished at once.                            *)
Ask ==
  /\ Len(ask) < MaxAsks
  /\ LET i == Len(ask) + 1 IN
     \/ /\ ask' = Append(ask, [timer |-> TRUE, answer |-> "none"])
        /\ card' = i /\ waiter' = i
        /\ UNCHANGED noted
     \/ /\ ask' = Append(ask, [timer |-> FALSE, answer |-> "not-waited"])
        /\ card' = 0 /\ waiter' = 0
        /\ noted' = noted \union {i}
  /\ UNCHANGED <<shown, pressed, restarts>>

TimeOut(i) ==
  /\ i \in DOMAIN ask /\ ask[i].timer
  /\ Finish(i, "timeout", ask)
  /\ UNCHANGED <<shown, pressed, restarts>>

Refresh ==
  /\ shown # card /\ shown' = card
  /\ UNCHANGED <<ask, card, waiter, noted, pressed, restarts>>

(* The human presses Done on the request the panel shows.  The call names  *)
(* the task alone: by then another request may be on the card, or none.    *)
Done ==
  /\ shown # 0 /\ shown' = 0
  /\ pressed' = pressed \union {shown}
  /\ \/ waiter # 0 /\ Finish(waiter, "done", ask)
     \/ /\ waiter = 0
        /\ card' = 0
        /\ UNCHANGED <<ask, waiter, noted>>
  /\ UNCHANGED restarts

(* A restart ends the calls; the card is a row of the database. *)
Restart ==
  /\ restarts < MaxRestarts /\ restarts' = restarts + 1
  /\ waiter' = 0
  /\ ask' = [i \in DOMAIN ask |->
               [timer |-> FALSE,
                answer |-> IF ask[i].answer = "none" THEN "cut off" ELSE ask[i].answer]]
  /\ UNCHANGED <<card, noted, shown, pressed>>

Next == Ask \/ (\E i \in DOMAIN ask : TimeOut(i)) \/ Refresh \/ Done \/ Restart

Spec == Init /\ [][Next]_vars

(* Timers fire; the human owes nothing. *)
Fairness == \A i \in 1..MaxAsks : WF_vars(TimeOut(i))

----------------------------------------------------------------------------
TypeOK ==
  /\ ask \in Seq(Call)
  /\ {card, waiter, shown} \subseteq 0..Len(ask) /\ noted \union pressed \subseteq 1..Len(ask)
  /\ restarts \in 0..MaxRestarts

(* The card shows the request somebody waits for, and while somebody waits *)
(* the card shows the request: no late timer of an earlier ask takes it    *)
(* down.  Only a request that outlived a restart is shown for nobody.      *)
CardIsWaitedFor ==
  /\ waiter # 0 => card = waiter
  /\ card # 0 /\ restarts = 0 => waiter = card

(* A call says "done" only if the human pressed Done on its request or on  *)
(* one it replaced, and a request is noted as unanswered only if its own   *)
(* call ended without the human.                                           *)
AnswersAreTrue ==
  \A i \in DOMAIN ask :
    /\ ask[i].answer = "done" => \E j \in pressed : j <= i
    /\ i \in noted => ask[i].answer \in {"timeout", "not-waited"}

(* A call that waits comes back, unless a later ask took its place.        *)
Returned(i) == Len(ask) > i \/ ask[i].answer # "none"
AllReturned == \A i \in DOMAIN ask : Returned(i)
AskReturns == []<>AllReturned
=============================================================================
