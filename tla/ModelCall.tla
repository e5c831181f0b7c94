------------------------------ MODULE ModelCall ------------------------------
(***************************************************************************)
(* The model calls of a run: what a step of the agent does to get its      *)
(* answer (agent-rs/src/agent.rs, query_model) over the requests it is     *)
(* made of (agent-rs/src/models/http.rs).  A request that is silent is     *)
(* sent again beside the first one; an attempt that failed is tried again  *)
(* after a wait, within a number of attempts and a total of waiting; a     *)
(* conversation that is too long is compacted once; and the models of a    *)
(* chain take over from each other.  A stop ends what is awaited.          *)
(***************************************************************************)
EXTENDS Integers

CONSTANTS
  MaxModels, \* of the chain, in its order; 0 is a model outside of it
  Attempts,  \* MSWEA_MODEL_RETRY_STOP_AFTER_ATTEMPT
  Budget,    \* of waiting, MINI_AGENT_RETRY_BUDGET_S; 0 is none
  MaxHedges, \* duplicates of a request: two, or none if MINI_AGENT_HEDGE_S is 0
  MaxHint,   \* what a server may ask to wait, SERVER_HINT_CAP
  MaxSteps   \* bound: calls of the run

Chain == 1..MaxModels
Models == 0..MaxModels

VARIABLES
  at,      \* "idle", "send", "await", "sleep", "fell" (a call came back with an error), "over"
  attempt, \* of the call
  waited,  \* in its sleeps
  flight,  \* of the attempt: requests out, duplicates sent, the last error of one
  error,   \* what the call came back with
  model,   \* that is asked
  control, \* the switch last applied, -1 if none
  tried,   \* models the chain is not to come back to
  part,    \* the step's: "first", "squeezed" (compacted) or "chain"
  stop,    \* the signal was seen
  steps,
  falls,   \* history: how often each model was taken from the chain
  broken   \* history: the switches whose model could not be made

vars == <<at, attempt, waited, flight, error, model, control, tried, part, stop, steps,
          falls, broken>>

call == <<attempt, waited, flight>>
choice == <<model, control, tried, falls, broken>>

(* "streamed" is an overflow told in the stream, without a status.           *)
Errors == {"refusal", "overflow", "streamed", "connect", "hinted", "failure"}
Aborts(e) == e \in {"refusal", "overflow", "stopped"}
Overflow(e) == e \in {"overflow", "streamed"}

None == [out |-> 0, sent |-> 0, last |-> "none"]

Init ==
  /\ at = "idle" /\ attempt = 0 /\ waited = 0 /\ flight = None /\ error = "none"
  /\ model \in Models /\ control = -1 /\ tried = {} /\ part = "first"
  /\ stop = FALSE /\ steps = 0
  /\ falls = [m \in Chain |-> 0] /\ broken = {}

----------------------------------------------------------------------------
(* A call: with_retry over attempts, an attempt over requests *)

(* A call asked anew, with its attempts and its waiting.                     *)
Fresh == attempt' = 0 /\ waited' = 0 /\ flight' = None
Call == at' = "send" /\ Fresh

Send ==
  /\ at = "send" /\ at' = "await"
  /\ attempt' = attempt + 1 /\ flight' = [None EXCEPT !.out = 1]
  /\ UNCHANGED <<waited, error, choice, part, stop, steps>>

(* No answer for as long as MINI_AGENT_HEDGE_S: the request is sent again.   *)
Hedge ==
  /\ at = "await" /\ flight.sent < MaxHedges
  /\ flight' = [flight EXCEPT !.out = @ + 1, !.sent = @ + 1]
  /\ UNCHANGED <<at, attempt, waited, error, choice, part, stop, steps>>

(* The wait before the next attempt: a refused connect is tried again at     *)
(* once and then soon, and the server's own word goes before the curve.      *)
Waits(e) ==
  CASE e = "connect" -> IF attempt = 1 THEN {0} ELSE {1}
    [] e = "hinted" -> 0..MaxHint
    [] OTHER -> {1, 2}

(* Faulty variant: the budget is looked at before the wait is added.          *)
AffordsLate(w) == Budget > 0 => waited <= Budget

Affords(w) == Budget > 0 => waited + w <= Budget

(* The attempt failed, and the call does too, or waits.                       *)
Fails(e) ==
  \/ /\ \/ Aborts(e) \/ attempt >= Attempts
        \/ \E w \in Waits(e) : ~Affords(w)
     /\ at' = "fell" /\ error' = e /\ UNCHANGED <<attempt, waited>>
  \/ /\ ~Aborts(e) /\ attempt < Attempts
     /\ \E w \in Waits(e) : Affords(w) /\ waited' = waited + w
     /\ at' = "sleep" /\ UNCHANGED <<attempt, error>>

(* A request comes back.  An answer, well formed or not, is the step's; an    *)
(* error is the attempt's when no other request is out.                       *)
Answered ==
  /\ at = "await" /\ flight.out > 0
  /\ at' = "idle" /\ error' = "none" /\ part' = "first" /\ Fresh
  /\ UNCHANGED <<choice, stop, steps>>

Errs(e) ==
  /\ at = "await" /\ flight.out > 0
  /\ flight' = [flight EXCEPT !.out = @ - 1, !.last = e]
  /\ IF flight.out = 1 THEN Fails(e) ELSE UNCHANGED <<at, error, attempt, waited>>
  /\ UNCHANGED <<choice, part, stop, steps>>

(* With every duplicate sent, the attempt has its own timeout.                *)
TimesOut ==
  /\ at = "await" /\ MaxHedges > 0 /\ flight.sent = MaxHedges
  /\ Fails(IF flight.last = "none" THEN "failure" ELSE flight.last)
  /\ UNCHANGED <<flight, choice, part, stop, steps>>

Wakes ==
  /\ at = "sleep" /\ ~stop /\ at' = "send"
  /\ UNCHANGED <<call, error, choice, part, stop, steps>>

(* A wait for an answer, or before an attempt, sees the stop.                 *)
SeesStop ==
  /\ stop /\ at \in {"await", "sleep"}
  /\ at' = "fell" /\ error' = "stopped"
  /\ UNCHANGED <<call, choice, part, stop, steps>>

----------------------------------------------------------------------------
(* A step of the agent: query_model *)

Step ==
  /\ at = "idle" /\ ~stop /\ steps < MaxSteps
  /\ steps' = steps + 1
  /\ Call /\ UNCHANGED <<error, choice, part, stop>>

Fatal == at' = "over" /\ UNCHANGED <<call, error, choice, part, stop, steps>>

(* Too long: compacted and asked again, in the step's first call only.         *)
Squeeze(compacts) ==
  /\ at = "fell" /\ part = "first" /\ Overflow(error)
  /\ \/ compacts /\ part' = "squeezed" /\ Call /\ UNCHANGED <<error, choice, stop, steps>>
     \/ ~compacts /\ Fatal

GivesUp ==
  /\ at = "fell"
  /\ part = "squeezed" \/ (part = "chain" /\ Overflow(error))
  /\ Fatal

(* The models after the current one: all of them if it is not in the chain.    *)
Left == {m \in Chain : m > model /\ m \notin tried \cup {model}}

(* Faulty variants: only a model that could be used is remembered as tried;    *)
(* and the switch that a fallback overrules is remembered as applied.          *)
TriesMade(m, made) == tried \cup {model} \cup IF made THEN {m} ELSE {}
AppliedByUser(m) == control

Tries(m, made) == tried \cup {model, m}
Applied(m) == m

(* next_fallback_model, and the model made from its name: if it cannot be,     *)
(* the next one is looked for.                                                 *)
Fallback(m, made) ==
  /\ at = "fell" /\ part # "squeezed" /\ ~Overflow(error)
  /\ m \in Left /\ \A o \in Left : m <= o
  /\ tried' = Tries(m, made) /\ falls' = [falls EXCEPT ![m] = @ + 1]
  /\ \/ /\ made /\ model' = m /\ control' = Applied(m) /\ part' = "chain"
        /\ Call /\ UNCHANGED <<error, broken>>
     \/ /\ ~made
        /\ UNCHANGED <<at, call, error, model, control, part, broken>>
  /\ UNCHANGED <<stop, steps>>

Exhausted ==
  /\ at = "fell" /\ part # "squeezed" /\ ~Overflow(error) /\ Left = {}
  /\ at' = "over" /\ tried' = tried \cup {model}
  /\ UNCHANGED <<call, error, model, control, part, stop, steps, falls, broken>>

----------------------------------------------------------------------------
(* Between two steps, apply_model_switch: what was last applied is not applied *)
(* again, whether or not its model could be made.                              *)
Switch(m, made) ==
  /\ at = "idle" /\ ~stop /\ steps \in 1..MaxSteps - 1 /\ m # control
  /\ control' = m
  /\ \/ made /\ model' = m /\ broken' = broken \ {m}
     \/ ~made /\ broken' = broken \cup {m} /\ UNCHANGED model
  /\ UNCHANGED <<at, call, error, tried, part, stop, steps, falls>>

Stops ==
  /\ ~stop /\ stop' = TRUE
  /\ UNCHANGED <<at, call, error, choice, part, steps>>

(* A stop between two steps ends the run.                                      *)
Leaves ==
  /\ at = "idle" /\ stop /\ at' = "over"
  /\ UNCHANGED <<call, error, choice, part, stop, steps>>

Next ==
  \/ Send \/ Hedge \/ Answered \/ TimesOut \/ Wakes \/ SeesStop
  \/ \E e \in Errors : Errs(e)
  \/ Step \/ GivesUp \/ Exhausted \/ Stops \/ Leaves
  \/ \E b \in BOOLEAN : Squeeze(b) \/ \E m \in Models : Fallback(m, b) \/ Switch(m, b)

Spec == Init /\ [][Next]_vars

(* A request has a timeout; the rest is the agent's own thread.                *)
Comes == Answered \/ (\E e \in Errors : Errs(e)) \/ TimesOut \/ SeesStop
Goes ==
  \/ Send \/ Wakes \/ GivesUp \/ Exhausted \/ Leaves
  \/ \E b \in BOOLEAN : Squeeze(b) \/ \E m \in Models : Fallback(m, b)
Fairness == WF_vars(Comes) /\ WF_vars(Goes)

----------------------------------------------------------------------------
TypeOK ==
  /\ at \in {"idle", "send", "await", "sleep", "fell", "over"}
  /\ attempt \in 0..Attempts /\ waited \in Nat
  /\ flight \in [out : 0..MaxHedges + 1, sent : 0..MaxHedges, last : Errors \cup {"none"}]
  /\ error \in Errors \cup {"none", "stopped"}
  /\ model \in Models /\ control \in Models \cup {-1} /\ tried \subseteq Models
  /\ part \in {"first", "squeezed", "chain"} /\ stop \in BOOLEAN /\ steps \in 0..MaxSteps
  /\ falls \in [Chain -> Nat] /\ broken \subseteq Models

(* A call waits no longer than its budget, and fails only for an error that    *)
(* is not tried again, for its last attempt or for the budget; with another    *)
(* request still out, only when all were sent and timed out.                   *)
CallsFailHonestly ==
  /\ Budget > 0 => waited <= Budget
  /\ at = "fell" /\ error # "stopped" =>
       /\ \/ Aborts(error) \/ attempt = Attempts
          \/ Budget > 0 /\ \E w \in Waits(error) : waited + w > Budget
       /\ flight.out = 0 \/ flight.sent = MaxHedges

(* The run's failure is the last resort: nothing of the chain was left, or the *)
(* conversation is too long; and no model is taken from the chain twice.       *)
ChainIsWalkedOnce ==
  /\ \A m \in Chain : falls[m] <= 1
  /\ at = "over" /\ part = "chain" /\ error \notin {"none", "stopped"} =>
       Overflow(error) \/ \A m \in Chain : m > model => m \in tried

(* The model the user last chose is the one that is asked, until the chain     *)
(* takes over: so a switch back is heard after a fallback.                     *)
SwitchesAreHeard == control \in {-1, model} \cup broken

(* A stop ends the run, and every step comes back.                             *)
Rests == at = "over" \/ (at = "idle" /\ ~stop)
CallsEnd == []<>Rests
=============================================================================
