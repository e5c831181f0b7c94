----------------------------- MODULE AgentLoop -----------------------------
(***************************************************************************)
(* One run of the agent process (Agent::run in agent-rs/src/agent.rs): the *)
(* loop of model calls and actions, the control file through which a       *)
(* session is talked to, the two gates a proposed success has to pass (the *)
(* checker of the task and the goal oracle), and the hold at the exit.     *)
(* The server, the user and the subagents act at any time: they append to  *)
(* the control file, signal the process and report.  A line of the control *)
(* file is a message or a STEPS command.  The conversation is the set of   *)
(* the messages it has taken up, with the exit message at its end if any;  *)
(* `left' stands for the tightest of the step, cost and time limits.       *)
(***************************************************************************)
EXTENDS Naturals, FiniteSets

CONSTANTS Message,       \* messages the session may be sent
          Extend,        \* STEPS commands it may be sent
          Confs,         \* the settings and tasks a run may be started with
          Budget,        \* model calls a run, or a STEPS command, allows
          FormatLimit,   \* max_consecutive_format_errors
          RepeatCap,     \* identical steps before the loop is cut (12)
          FailureCap,    \* checker rejections before the run fails (3)
          RejectionCap,  \* judge rejections before a stalemate (2)
          ErrorCap       \* judge outages before the run fails (3)

Line == Message \cup Extend

\* control: there is a control file; confirm: hold at the exit (no --exit-immediately);
\* worker: the task verifier is on; oracle: MINI_AGENT_GOAL_ORACLE; workspace: the work
\* directory has a checker; chat: the task is conversational; child: a hub's subagent;
\* dispatcher: the tools are those of the queue's dispatcher.
Conf == [control : BOOLEAN, confirm : BOOLEAN, worker : BOOLEAN,
         oracle : {"off", "model", "always"}, workspace : BOOLEAN, chat : BOOLEAN,
         child : BOOLEAN, dispatcher : BOOLEAN]

ASSUME LinesApart == Message \cap Extend = {}
ASSUME ConfsOK == Confs \subseteq Conf
ASSUME BoundsOK == {Budget, FormatLimit, RepeatCap, FailureCap, RejectionCap, ErrorCap}
                       \subseteq Nat \ {0}

VARIABLES
    conf,    \* the settings of this run
    pc,      \* where run() is
    from,    \* who drains the control file: "step", "quick" or "loop"; or "fast"
    result,  \* "run" while the process lives, then how it ended
    exit,    \* exit status of the exit message at the end of the conversation
    stop,    \* STOP: a SIGINT has arrived
    ctl,     \* lines in the control file
    hand,    \* lines drain_control has read
    sent,    \* lines appended so far
    lost,    \* lines truncated away unread, or read and not saved by a process that was killed
    conv,    \* messages in the conversation
    seen,    \* messages that were in the conversation at the last model call
    disk,    \* messages in the journal and the trajectory: what save() last wrote
    left,    \* what is left of the limits
    fmt,     \* format_errors
    same,    \* repeat_streak
    check,   \* the task's checker: task_verifier, its file, the work, the counters
    judge,   \* oracle_rejections and oracle_errors
    kids,    \* the subagents: any live, any note
    seal     \* what has been established about the proposed success (history)

mail == <<ctl, hand, sent, lost>>
talk == <<conv, seen, disk>>
vars == <<conf, pc, from, result, exit, stop, mail, talk, left, fmt, same, check, judge,
          kids, seal>>

Exit == {"none", "Submitted", "LimitsExceeded", "RepeatedFormatError", "RepeatedActionLoop",
         "TaskVerifierFailed", "GoalOracleUnavailable", "Error"}

\* Where a step ended: Ok(()), or one of the three flows.
Flow == {"ok", "format", "interrupt", "fatal"}

Pc == {"start", "top", "drain", "truncate", "apply", "limits", "acting", "acted", "gate", "judge",
       "save", "hold", "loop", "headless", "over"} \cup Flow

Check == [file : {"none", "hashed", "unhashed"}, present : BOOLEAN, intact : BOOLEAN,
          passes : BOOLEAN, closed : BOOLEAN, failures : 0..FailureCap]
Verdict == [rejections : 0..RejectionCap, errors : 0..ErrorCap]
Kids == [live : BOOLEAN, notes : BOOLEAN]
Seal == [proved : BOOLEAN, judged : BOOLEAN, handed : BOOLEAN, reopened : BOOLEAN]

NoCheck(present) == [file |-> "none", present |-> present, intact |-> TRUE, passes |-> FALSE,
                     closed |-> FALSE, failures |-> 0]
NoVerdict == [rejections |-> 0, errors |-> 0]
NoKids == [live |-> FALSE, notes |-> FALSE]
NoSeal == [proved |-> FALSE, judged |-> FALSE, handed |-> FALSE, reopened |-> FALSE]

Init ==
    /\ conf \in Confs
    /\ pc = "start" /\ from = "step" /\ result = "run" /\ exit = "none" /\ stop = FALSE
    /\ ctl = {} /\ hand = {} /\ sent = {} /\ lost = {}
    /\ conv = {} /\ seen = {} /\ disk = {}
    /\ left = Budget /\ fmt = 0 /\ same = 0
    /\ check = NoCheck(conf.workspace) /\ judge = NoVerdict /\ kids = NoKids /\ seal = NoSeal

-----------------------------------------------------------------------------
(* Pieces.                                                                 *)

At(p) == result = "run" /\ pc = p

\* Counters are compared with a cap only: past it they stay there.
UpTo(n, cap) == IF n < cap THEN n ELSE cap

Ends(how) == pc' = "over" /\ result' = how

\* The messages and limits after the lines of hand are taken up.
ConvWith == conv \cup (hand \cap Message)
LeftWith == IF hand \cap Extend # {} THEN Budget ELSE left

\* A follow-up or a note wakes a run that holds at its exit: the popped exit is dropped.
Woken == exit' = "none" /\ pc' = "top" /\ from' = "step"

\* With a fault: the proposed exit is not taken back.
RejectedNotTakenBack ==
    /\ check' = [check EXCEPT !.failures = UpTo(@ + 1, FailureCap)]
    /\ exit' = IF check.failures + 1 >= FailureCap THEN "TaskVerifierFailed" ELSE exit

\* reject_task_verifier: the proposed exit is taken back, or the run fails for good.
Rejected ==
    /\ check' = [check EXCEPT !.failures = UpTo(@ + 1, FailureCap)]
    /\ exit' = IF check.failures + 1 >= FailureCap THEN "TaskVerifierFailed" ELSE "none"

\* The run returns what its last message says; main() turns one status into an error.
Finish == Ends(IF exit = "TaskVerifierFailed" THEN "error" ELSE "ok")

-----------------------------------------------------------------------------
(* Start of the run: the checker is captured before the agent can change   *)
(* it.  The hash may be missing, and the capture itself may fail.          *)

capture_task_verifier ==
    \E f \in {"none", "hashed", "unhashed"} :
        /\ f # "none" => conf.worker /\ conf.workspace /\ ~conf.chat
        /\ check' = [check EXCEPT !.file = f]

Start ==
    /\ At("start") /\ capture_task_verifier
    /\ pc' = "top"
    /\ disk' = conv
    /\ UNCHANGED <<conf, from, result, exit, stop, mail, conv, seen, left, fmt, same, judge,
                   kids, seal>>

\* try_fast_path: a conversational task is answered in one call, without the loop.
FastPath ==
    /\ At("start") /\ conf.chat /\ ~conf.dispatcher
    /\ exit' = "Submitted" /\ pc' = "save" /\ from' = "fast"
    /\ left' \in 0..(left - 1)
    /\ UNCHANGED <<conf, result, stop, mail, talk, fmt, same, check, judge, kids, seal>>

\* --compact-only: the saved conversation is compacted and the run holds at once.
CompactOnly ==
    /\ At("start")
    /\ pc' = "hold" /\ disk' = conv
    /\ UNCHANGED <<conf, from, result, exit, stop, mail, conv, seen, left, fmt, same, check, judge,
                   kids, seal>>

-----------------------------------------------------------------------------
(* The head of the loop, and drain_control: read, truncate, take up.       *)

TopStopped ==
    /\ At("top") /\ stop
    /\ Ends("interrupted") /\ disk' = conv
    /\ UNCHANGED <<conf, from, exit, stop, mail, conv, seen, left, fmt, same, check, judge,
                   kids, seal>>

Step ==
    /\ At("top") /\ ~stop
    /\ pc' = "drain" /\ from' = "step"
    /\ seal' = [NoSeal EXCEPT !.reopened = seal.reopened \/ check.closed]
    /\ UNCHANGED <<conf, result, exit, stop, mail, talk, left, fmt, same, check, judge, kids>>

ReadControl ==
    /\ At("drain")
    /\ hand' = IF conf.control THEN ctl ELSE {}
    /\ pc' = IF hand' = {} THEN "apply" ELSE "truncate"
    /\ UNCHANGED <<conf, from, result, exit, stop, ctl, sent, lost, talk, left, fmt, same,
                   check, judge, kids, seal>>

Truncate ==
    /\ At("truncate")
    /\ ctl' = {} /\ lost' = lost \cup (ctl \ hand)
    /\ pc' = "apply"
    /\ UNCHANGED <<conf, from, result, exit, stop, hand, sent, talk, left, fmt, same, check,
                   judge, kids, seal>>

\* apply_control_commands, at the start of query().
ApplyInStep ==
    /\ At("apply") /\ from = "step"
    /\ conv' = ConvWith /\ left' = LeftWith /\ hand' = {}
    /\ disk' = IF hand \cap Message # {} \/ kids.notes THEN ConvWith ELSE disk
    /\ kids' = [kids EXCEPT !.notes = FALSE]
    /\ pc' = "limits"
    /\ UNCHANGED <<conf, from, result, exit, stop, ctl, sent, lost, seen, fmt, same, check,
                   judge, seal>>

-----------------------------------------------------------------------------
(* The model call and what the model answers.                              *)

LimitsExceeded ==
    /\ At("limits") /\ left = 0
    /\ exit' = "LimitsExceeded" /\ pc' = "interrupt"
    /\ UNCHANGED <<conf, from, result, stop, mail, talk, left, fmt, same, check, judge, kids,
                   seal>>

\* query_model: fallbacks and compaction are inside the call.
Called ==
    /\ At("limits") /\ left > 0
    /\ left' \in 0..(left - 1)
    /\ seen' = conv

CallFails ==
    /\ Called
    /\ pc' = "fatal"
    /\ UNCHANGED <<conf, from, result, exit, stop, mail, conv, disk, fmt, same, check, judge,
                   kids, seal>>

FormatError ==
    /\ Called
    /\ pc' = "format"
    /\ UNCHANGED <<conf, from, result, exit, stop, mail, conv, disk, fmt, same, check, judge,
                   kids, seal>>

\* A reply without a tool call ends the turn with its text.
TextReply ==
    /\ Called
    /\ exit' = "Submitted" /\ pc' = "interrupt"
    /\ seal' = [seal EXCEPT !.judged = FALSE, !.handed = FALSE]
    /\ UNCHANGED <<conf, from, result, stop, mail, conv, disk, fmt, same, check, judge, kids>>

\* The same actions as before, RepeatCap times in a row: the run is cut, or with a judge
\* told to change its approach.
ActionReply(repeats) ==
    /\ Called
    /\ LET streak == IF repeats THEN UpTo(same + 1, RepeatCap) ELSE 0
           cut    == streak = RepeatCap
           judged == conf.oracle # "off"
       IN  /\ same' = IF cut /\ judged THEN 0 ELSE streak
           /\ exit' = IF cut /\ ~judged THEN "RepeatedActionLoop" ELSE exit
           /\ pc' = IF ~cut THEN "acting" ELSE IF judged THEN "ok" ELSE "interrupt"
    /\ UNCHANGED <<conf, from, result, stop, mail, conv, disk, fmt, check, judge, kids, seal>>

\* The commands run: they leave the work passing the checker or not (p), the checker as it
\* was captured or not (i), a checker in the workspace or not (w), each followed where a gate
\* looks at it; and they may start subagents.
ExecuteActions(p, i, w, spawns) ==
    /\ At("acting")
    /\ p => check.file # "none"
    /\ ~i => check.file = "hashed"
    /\ w # check.present => conf.oracle = "model"
    /\ spawns => ~conf.worker /\ ~conf.dispatcher
    /\ check' = [check EXCEPT !.passes = p, !.intact = i, !.present = w]
    /\ kids' = [kids EXCEPT !.live = @ \/ spawns]
    /\ seal' = [seal EXCEPT !.proved = FALSE]
    /\ pc' = "acted"
    /\ UNCHANGED <<conf, from, result, exit, stop, mail, talk, left, fmt, same, judge>>

ActionsStopped ==
    /\ At("acting") /\ stop
    /\ pc' = "interrupt"
    /\ UNCHANGED <<conf, from, result, exit, stop, mail, talk, left, fmt, same, check, judge,
                   kids, seal>>

\* Only the observations go back to the model.
Observe ==
    /\ At("acted")
    /\ pc' = "ok"
    /\ UNCHANGED <<conf, from, result, exit, stop, mail, talk, left, fmt, same, check, judge,
                   kids, seal>>

\* A command submitted, or the dispatcher's tasks are queued (dispatcher_closing_text).  With a
\* joined wave the hub has waited for the subagents and taken their notes (join_wave).
Submit(joined) ==
    /\ At("acted")
    /\ exit' = "Submitted" /\ pc' = "interrupt"
    /\ seal' = [seal EXCEPT !.judged = FALSE, !.handed = FALSE]
    /\ kids' = IF joined THEN NoKids ELSE kids
    /\ UNCHANGED <<conf, from, result, stop, mail, talk, left, fmt, same, check, judge>>

\* The checker was the last command and passed, or passes now: the turn ends with that.
fast_verifier_closure ==
    /\ At("acted")
    /\ check.file # "none" /\ ~check.closed
    /\ check.file = "hashed" => check.intact
    /\ check.passes
    /\ check' = [check EXCEPT !.closed = TRUE]
    /\ exit' = "Submitted" /\ pc' = "interrupt"
    /\ seal' = [seal EXCEPT !.proved = check.file = "hashed", !.judged = FALSE,
                            !.handed = FALSE]
    /\ UNCHANGED <<conf, from, result, stop, mail, talk, left, fmt, same, judge, kids>>

-----------------------------------------------------------------------------
(* After the step: STOP first, then the flow.                              *)

StepStopped ==
    /\ result = "run" /\ pc \in Flow /\ stop
    /\ Ends("interrupted") /\ disk' = conv
    /\ UNCHANGED <<conf, from, exit, stop, mail, conv, seen, left, fmt, same, check, judge,
                   kids, seal>>

StepOk ==
    /\ At("ok") /\ ~stop
    /\ fmt' = 0 /\ pc' = "gate"
    /\ UNCHANGED <<conf, from, result, exit, stop, mail, talk, left, same, check, judge, kids,
                   seal>>

StepFormat ==
    /\ At("format") /\ ~stop
    /\ fmt' = UpTo(fmt + 1, FormatLimit)
    /\ exit' = IF fmt' = FormatLimit THEN "RepeatedFormatError" ELSE exit
    /\ pc' = "gate"
    /\ UNCHANGED <<conf, from, result, stop, mail, talk, left, same, check, judge, kids, seal>>

StepInterrupt ==
    /\ At("interrupt") /\ ~stop
    /\ pc' = "gate"
    /\ UNCHANGED <<conf, from, result, exit, stop, mail, talk, left, fmt, same, check, judge,
                   kids, seal>>

StepFatal ==
    /\ At("fatal") /\ ~stop
    /\ exit' = "Error" /\ disk' = conv
    /\ Ends("error")
    /\ UNCHANGED <<conf, from, stop, mail, conv, seen, left, fmt, same, check, judge, kids,
                   seal>>

-----------------------------------------------------------------------------
(* The gates: check_task_verifier, then check_goal_closure.                *)

Checked == exit = "Submitted" /\ ~conf.chat /\ check.file # "none" /\ ~check.closed

NotChecked ==
    /\ At("gate") /\ ~Checked
    /\ pc' = "judge"
    /\ UNCHANGED <<conf, from, result, exit, stop, mail, talk, left, fmt, same, check, judge,
                   kids, seal>>

CheckerPasses ==
    /\ At("gate") /\ Checked
    /\ check.file = "hashed" /\ check.intact /\ check.passes
    /\ pc' = "judge" /\ seal' = [seal EXCEPT !.proved = TRUE]
    /\ UNCHANGED <<conf, from, result, exit, stop, mail, talk, left, fmt, same, check, judge,
                   kids>>

\* No hash, another hash (a stopped command has none), no passing verdict.
CheckerRejects ==
    /\ At("gate") /\ Checked
    /\ stop \/ ~(check.file = "hashed" /\ check.intact /\ check.passes)
    /\ Rejected /\ pc' = "judge"
    /\ UNCHANGED <<conf, from, result, stop, mail, talk, left, fmt, same, judge, kids, seal>>

\* Outcome::Stopped: the exit goes back as it was.
CheckerStopped ==
    /\ At("gate") /\ Checked /\ stop
    /\ check.file = "hashed" /\ check.intact
    /\ pc' = "judge"
    /\ UNCHANGED <<conf, from, result, exit, stop, mail, talk, left, fmt, same, check, judge,
                   kids, seal>>

\* A turn that leaves live subagents behind is a handoff, not a claim.
Handoff == conf.control /\ kids.live

Judged == exit = "Submitted" /\ conf.oracle # "off" /\ ~conf.chat /\ ~Handoff

NotJudged ==
    /\ At("judge") /\ ~Judged
    /\ pc' = "save" /\ seal' = [seal EXCEPT !.handed = Handoff]
    /\ UNCHANGED <<conf, from, result, exit, stop, mail, talk, left, fmt, same, check, judge,
                   kids>>

\* A workspace with a checker needs no judge; a signal ends the judging.
JudgeSkipped ==
    /\ At("judge") /\ Judged
    /\ stop \/ (check.present /\ conf.oracle # "always")
    /\ pc' = "save"
    /\ UNCHANGED <<conf, from, result, exit, stop, mail, talk, left, fmt, same, check, judge,
                   kids, seal>>

Asked ==
    /\ At("judge") /\ Judged /\ ~stop
    /\ conf.oracle = "always" \/ ~check.present
    /\ left' \in 0..left
    /\ UNCHANGED <<conf, from, result, stop, mail, conv, seen, fmt, same, check, kids>>

JudgeAccepts ==
    /\ Asked
    /\ judge' = [judge EXCEPT !.errors = 0]
    /\ seal' = [seal EXCEPT !.judged = TRUE]
    /\ pc' = "save"
    /\ UNCHANGED <<exit, disk>>

\* A rejection reopens the work, unless it is the last one allowed or a repetition.
JudgeRejects(repeats) ==
    /\ Asked
    /\ LET n == judge.rejections + 1
           stalemate == n >= RejectionCap \/ (repeats /\ n >= 2)
       IN  /\ judge' = [rejections |-> UpTo(n, RejectionCap), errors |-> 0]
           /\ exit' = IF stalemate THEN exit ELSE "none"
           /\ seal' = [seal EXCEPT !.judged = stalemate]
    /\ pc' = "save"
    /\ UNCHANGED disk

\* With a fault: an outage that lasts is taken for consent.
JudgeUnavailableAccepts ==
    /\ Asked
    /\ judge' = [judge EXCEPT !.errors = UpTo(@ + 1, ErrorCap)]
    /\ disk' = conv
    /\ pc' = IF judge'.errors = ErrorCap THEN "save" ELSE pc
    /\ UNCHANGED <<exit, seal>>

\* An outage says nothing about the work: the same evidence is tried again.
JudgeUnavailable ==
    /\ Asked
    /\ judge' = [judge EXCEPT !.errors = UpTo(@ + 1, ErrorCap)]
    /\ disk' = conv
    /\ IF judge'.errors = ErrorCap
         THEN exit' = "GoalOracleUnavailable" /\ pc' = "save"
         ELSE UNCHANGED <<exit, pc>>
    /\ UNCHANGED seal

-----------------------------------------------------------------------------
(* The end of an iteration, and wait_for_followup.                         *)

Save ==
    /\ At("save")
    /\ disk' = conv
    /\ IF from = "fast" THEN Finish
                        ELSE pc' = (IF exit = "none" THEN "top" ELSE "hold") /\ UNCHANGED result
    /\ UNCHANGED <<conf, from, exit, stop, mail, conv, seen, left, fmt, same, check, judge,
                   kids, seal>>

\* With a fault: the notes of subagents that have ended are forgotten.
HoldsNotForNotes == ~conf.confirm /\ ~(conf.control /\ kids.live)

\* With --exit-immediately and no subagents the control file is read once more.
HoldsNot == ~conf.confirm /\ ~(conf.control /\ (kids.live \/ kids.notes))

Hold ==
    /\ At("hold")
    /\ \/ HoldsNot /\ conf.control /\ pc' = "drain" /\ from' = "quick" /\ UNCHANGED result
       \/ HoldsNot /\ ~conf.control /\ Finish /\ UNCHANGED from
       \/ ~HoldsNot /\ pc' = (IF conf.control THEN "loop" ELSE "headless")
                    /\ UNCHANGED <<from, result>>
    /\ UNCHANGED <<conf, exit, stop, mail, talk, left, fmt, same, check, judge, kids, seal>>

\* With a fault: the message is taken up without a save.
ApplyQuickUnsaved ==
    /\ At("apply") /\ from = "quick"
    /\ conv' = ConvWith /\ left' = LeftWith /\ hand' = {}
    /\ IF hand \cap Message # {} THEN Woken /\ UNCHANGED result
                               ELSE Finish /\ UNCHANGED <<exit, from>>
    /\ UNCHANGED <<conf, stop, ctl, sent, lost, seen, disk, fmt, same, check, judge, kids, seal>>

\* With a fault: the message is taken up and the run ends all the same.
ApplyQuickEnds ==
    /\ At("apply") /\ from = "quick"
    /\ conv' = ConvWith /\ left' = LeftWith /\ hand' = {} /\ disk' = ConvWith
    /\ Finish
    /\ UNCHANGED <<conf, from, exit, stop, ctl, sent, lost, seen, fmt, same, check, judge, kids,
                   seal>>

\* Nobody to wait for: a message that arrived during the last step is one more turn.
ApplyQuick ==
    /\ At("apply") /\ from = "quick"
    /\ conv' = ConvWith /\ left' = LeftWith /\ hand' = {}
    /\ IF hand \cap Message # {}
         THEN Woken /\ disk' = ConvWith /\ UNCHANGED result
         ELSE Finish /\ UNCHANGED <<exit, from, disk>>
    /\ UNCHANGED <<conf, stop, ctl, sent, lost, seen, fmt, same, check, judge, kids, seal>>

\* STOP, or the hub is gone, while the run holds: it ends without another save.
IdleEnds ==
    /\ result = "run" /\ (pc = "loop" \/ (pc = "headless" /\ kids.live))
    /\ stop \/ conf.child
    /\ Ends("idle")
    /\ UNCHANGED <<conf, from, exit, stop, mail, talk, left, fmt, same, check, judge, kids,
                   seal>>

\* With a fault: the idle loop does not look at STOP first.
LoopTickDeaf ==
    /\ At("loop")
    /\ pc' = "drain" /\ from' = "loop"
    /\ UNCHANGED <<conf, result, exit, stop, mail, talk, left, fmt, same, check, judge, kids,
                   seal>>

LoopTick ==
    /\ At("loop") /\ ~stop
    /\ pc' = "drain" /\ from' = "loop"
    /\ UNCHANGED <<conf, result, exit, stop, mail, talk, left, fmt, same, check, judge, kids,
                   seal>>

ApplyInLoop ==
    /\ At("apply") /\ from = "loop"
    /\ conv' = ConvWith /\ left' = LeftWith /\ hand' = {}
    /\ IF hand \cap Message # {} \/ kids.notes
         THEN /\ Woken /\ disk' = ConvWith /\ UNCHANGED result
              /\ kids' = [kids EXCEPT !.notes = FALSE]
         ELSE /\ IF ~conf.confirm /\ ~kids.live THEN Finish ELSE pc' = "loop" /\ UNCHANGED result
              /\ UNCHANGED <<exit, from, disk, kids>>
    /\ UNCHANGED <<conf, stop, ctl, sent, lost, seen, fmt, same, check, judge, seal>>

\* No control file: hold for the subagents only.
HeadlessTick ==
    /\ At("headless") /\ (kids.live => kids.notes /\ ~stop)
    /\ IF kids.notes
         THEN /\ Woken /\ kids' = [kids EXCEPT !.notes = FALSE] /\ UNCHANGED result
              /\ disk' = IF kids.live THEN conv ELSE disk
         ELSE Finish /\ UNCHANGED <<exit, from, disk, kids>>
    /\ UNCHANGED <<conf, stop, mail, conv, seen, left, fmt, same, check, judge, seal>>

-----------------------------------------------------------------------------
(* The others: the server or the user, and the subagents.                  *)

Send(l) ==
    /\ result = "run" /\ conf.control /\ l \notin sent
    /\ ctl' = ctl \cup {l} /\ sent' = sent \cup {l}
    /\ UNCHANGED <<conf, pc, from, result, exit, stop, hand, lost, talk, left, fmt, same,
                   check, judge, kids, seal>>

\* SIGINT sets STOP.
Interrupt ==
    /\ result = "run" /\ ~stop
    /\ stop' = TRUE
    /\ UNCHANGED <<conf, pc, from, result, exit, mail, talk, left, fmt, same, check, judge,
                   kids, seal>>

\* SIGTERM (and any crash) ends the process where it is, without a save: what it held in
\* memory is gone.
Kill ==
    /\ result = "run"
    /\ Ends("killed")
    /\ lost' = lost \cup (hand \ ctl) /\ hand' = {} /\ conv' = {} /\ seen' = {}
    /\ from' = "step" /\ exit' = "none" /\ left' = Budget /\ fmt' = 0 /\ same' = 0
    /\ check' = NoCheck(conf.workspace) /\ judge' = NoVerdict /\ kids' = NoKids /\ seal' = NoSeal
    /\ UNCHANGED <<conf, stop, ctl, sent, disk>>

\* A subagent finishes, with a note unless it was stopped; or reports while it works.
ChildReports(ends, noted) ==
    /\ result = "run" /\ kids.live /\ (ends \/ noted)
    /\ kids' = [live |-> ~ends, notes |-> kids.notes \/ noted]
    /\ UNCHANGED <<conf, pc, from, result, exit, stop, mail, talk, left, fmt, same, check,
                   judge, seal>>

-----------------------------------------------------------------------------
Replies == CallFails \/ FormatError \/ TextReply \/ \E r \in BOOLEAN : ActionReply(r)

Acts == \/ \E p, i, w, spawns \in BOOLEAN : ExecuteActions(p, i, w, spawns)
        \/ ActionsStopped \/ Observe \/ fast_verifier_closure
        \/ \E joined \in BOOLEAN : Submit(joined)

Gates == \/ NotChecked \/ CheckerPasses \/ CheckerRejects \/ CheckerStopped
         \/ NotJudged \/ JudgeSkipped \/ JudgeAccepts \/ JudgeUnavailable
         \/ \E r \in BOOLEAN : JudgeRejects(r)

Starts == Start \/ FastPath \/ CompactOnly

Drains == TopStopped \/ Step \/ ReadControl \/ Truncate \/ ApplyInStep \/ LimitsExceeded

StepEnds == StepStopped \/ StepOk \/ StepFormat \/ StepInterrupt \/ StepFatal

Holds == Save \/ Hold \/ ApplyQuick \/ IdleEnds \/ LoopTick \/ ApplyInLoop \/ HeadlessTick

AgentStep == Starts \/ Drains \/ Replies \/ Acts \/ StepEnds \/ Gates \/ Holds

Others ==
    \/ \E l \in Line : Send(l)
    \/ Interrupt \/ Kill
    \/ \E ends, noted \in BOOLEAN : ChildReports(ends, noted)

Next == AgentStep \/ Others

Spec == Init /\ [][Next]_vars

(***************************************************************************)
(* Fairness.  The process is scheduled: a model call, a command and the    *)
(* judge return (each has a timeout), and an idle run ticks.  Subagents    *)
(* end (their own limits).  Nobody is assumed to write or to signal.       *)
(***************************************************************************)
ChildEnds == \E noted \in BOOLEAN : ChildReports(TRUE, noted)

FairSpec == Spec /\ WF_vars(AgentStep) /\ WF_vars(ChildEnds)

-----------------------------------------------------------------------------
(* Properties.                                                             *)

\* The variables have their types.
TypeOK ==
    /\ conf \in Confs /\ pc \in Pc /\ from \in {"step", "quick", "loop", "fast"}
    /\ result \in {"run", "ok", "interrupted", "idle", "error", "killed"}
    /\ exit \in Exit /\ stop \in BOOLEAN
    /\ ctl \subseteq Line /\ hand \subseteq Line /\ sent \subseteq Line /\ lost \subseteq Line
    /\ conv \subseteq Message /\ seen \subseteq Message
    /\ disk \subseteq Message
    /\ left \in 0..Budget /\ fmt \in 0..FormatLimit /\ same \in 0..RepeatCap
    /\ check \in Check /\ judge \in Verdict /\ kids \in Kids /\ seal \in Seal

\* check_task_verifier: "A queue worker may not claim success while the task's own checker
\* fails or has never run."  A run that ends with success has seen the unchanged checker
\* pass after its last command, with three exceptions: it was interrupted; it went on after a
\* fast closure (which is never taken back); or the checker's hash could not be taken.
ClosureProven ==
    result = "ok" /\ exit = "Submitted" /\ check.file # "none" =>
        \/ seal.proved
        \/ stop
        \/ seal.reopened
        \/ check.file = "unhashed" /\ check.closed

\* check_goal_closure gates every success that is work: where a judge is due, a run that ends
\* with success was judged complete (or a stalemate) on that very proposal, with two
\* exceptions: it was interrupted, or it left the work to live subagents (a handoff).
GoalJudged ==
    result = "ok" /\ exit = "Submitted" /\ ~conf.chat /\ conf.oracle # "off" =>
        \/ seal.judged
        \/ check.present /\ conf.oracle # "always"
        \/ stop
        \/ seal.handed

\* wait_for_followup: a message appended to the control file is in it, or in the
\* conversation on disk, except while the process holds it between the truncation and the
\* save; and the only ones lost arrived between the read and the truncation.
MessagesSurvive ==
    \A m \in sent \cap Message : m \in ctl \/ m \in hand \/ m \in disk \/ m \in lost

\* No answer is final while a message is unanswered: a run that ends with success called the
\* model with every message it took, also with the ones taken at its exit.
AnsweredBeforeSuccess == result = "ok" /\ exit = "Submitted" => conv \subseteq seen

\* wait_for_followup: "ending a turn never kills the children it started": a run that can be
\* talked to, or holds at its exit, ends by itself only when no subagent works and none has
\* a note to be read.
ChildrenOutlived ==
    result = "ok" /\ (conf.control \/ conf.confirm) =>
        ~kids.live /\ ~kids.notes

\* Every run ends that was interrupted, or was started with --exit-immediately: no loop of the
\* run, not even the hold at the exit, goes on without looking at STOP, and rejections,
\* format errors, repeated actions, follow-ups and reports cannot keep it going past its
\* limits.
RunEnds == stop \/ ~conf.confirm ~> result # "run"

=============================================================================
