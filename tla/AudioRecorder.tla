---------------------------- MODULE AudioRecorder ----------------------------
(***************************************************************************)
(* The voice recorder of the prompt bar: the controller                    *)
(* (control-ui/audio-recorder-controller.ts), the bar's buttons            *)
(* (recorderBar.ts, AudioRecorder.svelte) and the panel that opens and     *)
(* closes it (Composer.svelte).  Takes are numbered by the request for the *)
(* microphone they came from.  Levels, durations and object URLs are left  *)
(* out; the browser's MediaRecorder stops in two steps, `inactive` at once *)
(* and its stop event later.                                               *)
(***************************************************************************)
EXTENDS Naturals, FiniteSets

CONSTANTS
  MaxRequests, \* bound: how often the microphone is asked for
  MaxTroubles  \* bound: refusals, recorders that do not start, failed uploads

VARIABLES
  c,         \* the controller's variables, see Fresh
  asking,    \* requests for the microphone the browser has not answered
  mics,      \* microphones that are open, by request
  engine,    \* requests whose MediaRecorder is recording
  ended,     \* MediaRecorders that stopped, their stop event to come
  sending,   \* takes being uploaded
  disabled,  \* the bar is disabled
  troubles,
  discarded, \* takes the user threw away (history)
  refused,   \* microphones whose recorder could not be made (history)
  late       \* a request was refused after a newer one had been made (history)

facts == <<discarded, refused, late>>
vars == <<c, asking, mics, engine, ended, sending, disabled, troubles, facts>>

(* ui: the snapshot's state; stream, rec, chunks: the request they belong  *)
(* to, or 0; take: the recording at hand; discard: discardOnStop;          *)
(* stopping: somebody waits for the stop; submit: it was `submit`.         *)
Fresh == [ui |-> "idle", req |-> 0, stream |-> 0, rec |-> 0, chunks |-> 0, take |-> 0,
          discard |-> FALSE, stopping |-> FALSE, submit |-> FALSE, destroyed |-> FALSE]

Init ==
  /\ c = Fresh
  /\ asking = {} /\ mics = {} /\ engine = {} /\ ended = {} /\ sending = {}
  /\ disabled = FALSE /\ troubles = 0
  /\ discarded = {} /\ refused = {} /\ late = FALSE

----------------------------------------------------------------------------
(* Closing the microphone ends the recorder that listens to it. *)
CloseMics(closed) ==
  /\ mics' = mics \ closed
  /\ engine' = engine \ closed
  /\ ended' = ended \union (engine \cap closed)

Released(k) == [k EXCEPT !.rec = 0, !.chunks = 0]

Idle(k) == [k EXCEPT !.ui = "idle", !.take = 0]

(* cancelInternal: a running recorder is stopped and what it has thrown    *)
(* away when its stop event comes; otherwise everything is let go of now.  *)
Cancelled(k) ==
  LET next == [k EXCEPT !.req = @ + 1, !.take = 0, !.stream = 0] IN
  IF k.rec \in engine THEN [next EXCEPT !.discard = TRUE, !.stopping = TRUE]
  ELSE Idle(Released(next))

Destroyed(k) == [k EXCEPT !.destroyed = TRUE]

Trouble == troubles < MaxTroubles /\ troubles' = troubles + 1

----------------------------------------------------------------------------
(* The user *)

(* Timing: a stop event comes before the bar can be disabled, enabled and  *)
(* pressed again.                                                          *)
Start ==
  /\ ended = {}
  /\ ~c.destroyed /\ ~disabled /\ c.ui \in {"idle", "error"} /\ c.req < MaxRequests
  /\ c' = [c EXCEPT !.ui = "requesting", !.req = @ + 1, !.take = 0]
  /\ asking' = asking \union {c.req + 1}
  /\ UNCHANGED <<mics, engine, ended, sending, disabled, troubles, facts>>

(* `stop`: nothing, if the recorder stopped already. *)
Stops(bySubmit) ==
  /\ c.rec \in engine
  /\ c' = [c EXCEPT !.discard = FALSE, !.stopping = TRUE, !.submit = bySubmit]
  /\ engine' = engine \ {c.rec} /\ ended' = ended \union {c.rec}
  /\ UNCHANGED <<asking, mics, sending, disabled, troubles, facts>>

SubmitLive == ~c.destroyed /\ c.ui = "recording" /\ Stops(TRUE)

TooLong == c.ui = "recording" /\ Stops(FALSE)

Handed(k) == [k EXCEPT !.ui = "submitting"]

SubmitTake ==
  /\ ~c.destroyed /\ c.ui = "recorded" /\ c.take # 0
  /\ c' = Handed(c)
  /\ sending' = sending \union {c.take}
  /\ UNCHANGED <<asking, mics, engine, ended, disabled, troubles, facts>>

(* The take the bar shows: at hand, being recorded, or about to stop. *)
InHand == IF c.take # 0 THEN {c.take} ELSE {c.chunks} \ {0}

(* The cross, or Escape: the panel closes on it, which destroys the        *)
(* controller.  The outer microphone button closes the panel too.          *)
Discard ==
  /\ ~c.destroyed /\ c.ui \in {"requesting", "recording", "recorded"}
  /\ c' = Destroyed(Idle(Released(Cancelled(c))))
  /\ CloseMics({c.stream})
  /\ discarded' = discarded \union InHand
  /\ UNCHANGED <<asking, sending, disabled, troubles, refused, late>>

ClosePanel ==
  /\ ~c.destroyed
  /\ c' = Destroyed(Cancelled(c))
  /\ CloseMics({c.stream})
  /\ discarded' = discarded \union (InHand \ sending)
  /\ UNCHANGED <<asking, sending, disabled, troubles, refused, late>>

(* Faulty variant: a take that is finished is dropped too. *)
DisableAnyTake ==
  /\ ~c.destroyed /\ ~disabled /\ disabled' = TRUE
  /\ IF c.ui \in {"requesting", "recording", "recorded"}
     THEN c' = Cancelled(c) /\ CloseMics({c.stream}) ELSE UNCHANGED <<c, mics, engine, ended>>
  /\ UNCHANGED <<asking, sending, troubles, facts>>

(* The bar is disabled while a message goes out: a live take is dropped. *)
Disable ==
  /\ ~c.destroyed /\ ~disabled /\ disabled' = TRUE
  /\ IF c.ui \in {"requesting", "recording"}
     THEN c' = Cancelled(c) /\ CloseMics({c.stream}) ELSE UNCHANGED <<c, mics, engine, ended>>
  /\ UNCHANGED <<asking, sending, troubles, facts>>

Enable ==
  /\ disabled /\ disabled' = FALSE
  /\ UNCHANGED <<c, asking, mics, engine, ended, sending, troubles, facts>>

----------------------------------------------------------------------------
(* The browser *)

(* What `start` does when anything in it throws. *)
Fails(k) == [Released(k) EXCEPT !.ui = "error", !.stream = 0, !.take = 0]

(* Faulty variant: the number of the request is not looked at. *)
StaleIfDestroyed(n) == c.destroyed

Stale(n) == c.destroyed \/ n # c.req

Granted(n) ==
  /\ n \in asking /\ asking' = asking \ {n}
  /\ \/ /\ Stale(n)
        /\ UNCHANGED <<c, mics, engine, ended, refused, troubles>>
     \/ /\ ~Stale(n)
        /\ mics' = mics \union {n} /\ engine' = engine \union {n}
        /\ c' = [c EXCEPT !.ui = "recording", !.stream = n, !.rec = n, !.chunks = n]
        /\ UNCHANGED <<ended, refused, troubles>>
     \/ /\ ~Stale(n) /\ Trouble
        /\ mics' = mics \union {n} /\ refused' = refused \union {n}
        /\ c' = Fails(c)
        /\ UNCHANGED <<engine, ended>>
  /\ UNCHANGED <<sending, disabled, discarded, late>>

Denied(n) ==
  /\ n \in asking /\ asking' = asking \ {n} /\ Trouble
  /\ c' = Fails(c) /\ CloseMics({c.stream})
  /\ late' = (late \/ n # c.req)
  /\ UNCHANGED <<sending, disabled, discarded, refused>>

(* The microphone is unplugged. *)
Unplugged ==
  /\ c.stream # 0 /\ c.stream \in engine /\ Trouble
  /\ CloseMics({c.stream})
  /\ UNCHANGED <<c, asking, sending, disabled, facts>>

Stopped(k) ==
  [Released(k) EXCEPT !.stream = 0, !.discard = FALSE, !.stopping = FALSE, !.submit = FALSE]

(* finalizeRecording: whichever recorder stopped, it is the controller's   *)
(* variables that say what becomes of it.                                  *)
OnStop(n) ==
  LET k == Stopped(c) IN
  /\ n \in ended
  /\ mics' = mics \ {c.stream} /\ engine' = engine \ {c.stream}
  /\ ended' = (ended \ {n}) \union (engine \cap {c.stream})
  /\ \/ /\ c.discard
        /\ c' = Idle(k)
        /\ UNCHANGED sending
     \/ /\ ~c.discard
        /\ \/ /\ c.submit
              /\ c' = Handed([k EXCEPT !.take = n])
              /\ sending' = sending \union {n}
           \/ /\ ~c.submit
              /\ c' = [k EXCEPT !.ui = "recorded", !.take = n]
              /\ UNCHANGED sending
  /\ UNCHANGED <<asking, disabled, troubles, facts>>

(* The upload of a take: the panel closes on success, a failure keeps it.  *)
Uploads(n) ==
  /\ n \in sending /\ sending' = sending \ {n}
  /\ \/ /\ c' = Destroyed(Idle(c)) /\ CloseMics({c.stream})
        /\ UNCHANGED troubles
     \/ /\ Trouble
        /\ c' = [c EXCEPT !.ui = "recorded", !.take = n]
        /\ UNCHANGED <<mics, engine, ended>>
  /\ UNCHANGED <<asking, disabled, facts>>

----------------------------------------------------------------------------
Requests == 1..MaxRequests

Next ==
  \/ Start \/ SubmitLive \/ SubmitTake \/ TooLong \/ Discard \/ ClosePanel \/ Disable \/ Enable
  \/ Unplugged
  \/ \E n \in Requests : Granted(n) \/ Denied(n) \/ OnStop(n) \/ Uploads(n)

Spec == Init /\ [][Next]_vars

(* The browser fires its stop events. *)
Fairness == \A n \in Requests : WF_vars(OnStop(n))

----------------------------------------------------------------------------
States == {"idle", "requesting", "recording", "recorded", "submitting", "error"}
Takes == Requests \union {0}

Controller ==
  [ui : States, req : Nat, stream : Takes, rec : Takes, chunks : Takes, take : Takes,
   discard : BOOLEAN, stopping : BOOLEAN, submit : BOOLEAN, destroyed : BOOLEAN]

TypeOK ==
  /\ c \in Controller
  /\ UNION {asking, mics, engine, ended, sending, discarded, refused} \subseteq Requests
  /\ disabled \in BOOLEAN /\ late \in BOOLEAN /\ troubles \in 0..MaxTroubles

(* "The microphone is never left open" (recorder.svelte.ts): it is open    *)
(* only while the bar says it records, whenever permission comes and       *)
(* whenever the panel closes.  Two exceptions: the browser gives a         *)
(* microphone and then refuses to make a recorder for it; and the late     *)
(* refusal of an older request frees the bar while a take is uploaded, a   *)
(* new take is begun, and the failed upload puts the old one in its place. *)
MicIsShown ==
  \A n \in mics :
    \/ n \in refused
    \/ /\ n = c.stream /\ ~c.destroyed
       /\ c.ui = "recording" \/ (late /\ c.ui \in {"recorded", "submitting"})

(* A finished take leaves the bar by the user's hand or while it is being  *)
(* uploaded, never by itself.  (The refusal of a request made before the   *)
(* present one drops it.)                                                  *)
NoTakeLost ==
  [][late' \/ c.take = 0 \/ c'.take = c.take \/ c.take \in discarded' \/
     c.take \in sending]_vars

(* Nobody waits for a stop for ever. *)
StopEnds == c.stopping ~> ~c.stopping
=============================================================================
