------------------------------ MODULE WorkQueue ------------------------------
(***************************************************************************)
(* The work queue behind the web app's chat (src/src/web/workQueue.ts)     *)
(* together with the part of the session manager (src/src/web/sessions.ts) *)
(* and of the glue (src/src/web/queueHost.ts, src/src/web/serve.ts) that   *)
(* starts, feeds, stops and settles the worker agents of its tasks.        *)
(*                                                                         *)
(* The server is one event loop.  An action is one callback of that loop   *)
(* (an HTTP request, a timer, a process-exit event) up to the point where  *)
(* it yields, or one step of an agent process, which runs beside it.  The  *)
(* continuation of #start after its await is an action of its own: `calls` *)
(* holds the ones that are pending.                                        *)
(***************************************************************************)
EXTENDS PumpPolicy

CONSTANTS
    MaxWave,       \* most tasks in one task_create call
    Dir,           \* the working directories tasks are created in
    MaxCap,        \* largest concurrency setting tried
    MaxRedirects,  \* most redirects of one task
    MaxRestarts,   \* most times the server goes down
    RoutedStart,   \* TRUE: tasks have no model and the router picks it (a network call)
    DiskFaults,    \* TRUE: writing a resume file may fail
    NoSession      \* the empty session id

ASSUME BoundsAssumption ==
    /\ MaxWave \in Nat \ {0} /\ MaxCap \in Nat \ {0}
    /\ MaxRedirects \in Nat /\ MaxRestarts \in Nat
    /\ RoutedStart \in BOOLEAN /\ DiskFaults \in BOOLEAN

ASSUME DirAssumption == Dir \subseteq Seq(STRING) /\ Dir # {}

Cap == 1..MaxCap

\* Every start of a worker is the first one, the answer to a redirect, or a recovery.
MaxAttempts == 1 + MaxRedirects + MaxRestarts

\* A session id is unique to the start that created it: the task and its attempt.
Session == Task \X (1..MaxAttempts)

ASSUME SessionAssumption == NoSession \notin Session

\* What an agent can be told: 0 is the task's brief, i > 0 its i-th redirect.
Msg == 0..MaxRedirects

VARIABLES
    phase,     \* "down", "booting" (open sessions are being restored) or "up"
    cap,       \* the concurrency setting
    task,      \* the rows of queue_tasks
    calls,     \* #start calls that have not come back from the worker host
    sess,      \* the worker sessions: their agent process, entry and saved row
    restarts   \* how many times the server went down

vars == <<phase, cap, task, calls, sess, restarts>>

-----------------------------------------------------------------------------
(* Rows and folders.                                                       *)

Active == {"queued", "running"}
Settled == {"done", "error", "cancelled"}
Status == {"none"} \union Active \union Settled

Row == [status: Status, cwd: Dir, sid: Session \union {NoSession},
        redirects: 0..MaxRedirects, seen: 0..MaxRedirects, atStart: 0..MaxRedirects,
        attempts: 0..MaxAttempts]

\* The rows whose session is s (the code reads at most one: session ids are unique).
BySession(r, s) == {t \in Task : r[t].sid = s}

-----------------------------------------------------------------------------
\* The synchronous part of #start: the row is saved as running, its redirects as given.
StartedRow(x) == [x EXCEPT !.status = "running", !.attempts = @ + 1,
                           !.seen = x.redirects, !.atStart = x.redirects]

Started(r, S) == [t \in Task |-> IF t \in S THEN StartedRow(r[t]) ELSE r[t]]

\* The call #start then makes: continueWorker with the redirects not given yet, or
\* startWorker with the brief and every redirect.
CallOf(x, t) ==
    LET continues == x.sid # NoSession /\ x.attempts > 0
    IN  [task |-> t,
         mode |-> IF continues THEN "continue" ELSE "start",
         sid  |-> IF continues THEN x.sid ELSE <<t, x.attempts + 1>>,
         msgs |-> IF continues THEN (x.seen + 1)..x.redirects ELSE 0..x.redirects]

Call == [task: Task, mode: {"start", "continue"}, sid: Session, msgs: SUBSET Msg]

\* pump() on rows r with n slots, while the calls in c stay pending.
Pump(r, n, c) ==
    \E S \in SUBSET With(r, "queued") :
        /\ Picks(r, n, S)
        /\ task' = Started(r, S)
        /\ calls' = c \union {CallOf(r[t], t) : t \in S}

\* #start comes back in the same turn of the event loop (only microtasks run in
\* between) unless the router has to be asked for a model first.
Slow(c) == RoutedStart /\ c.mode = "start"
Quiet == \A c \in calls : Slow(c)

-----------------------------------------------------------------------------
(* Worker sessions.  agent is the process: "alive"; "stopping" once it was *)
(* signalled; how it ended ("submitted" and "quit" are exit code 0) until  *)
(* the server has handled its exit; "none".  run is what the held entry    *)
(* follows: its "own" process, one it "attached" to, or "none".  When an   *)
(* entry is closed its process's exit handler lives on: orphan says which  *)
(* outcome that entry recorded.                                            *)

Live == {"alive", "stopping"}
Ended == {"submitted", "quit", "crashed"}

SessionRecord ==
    [agent: {"none"} \union Live \union Ended,
     resumed: BOOLEAN,                         \* the process continues a saved conversation
     held: {"no", "listed", "yes"},            \* listed: in the open list, not restored yet
     run: {"none", "own", "attached"},
     orphan: {"none", "interrupted", "plain"},
     deleted: BOOLEAN,                         \* its history row is gone
     interrupted: BOOLEAN,                     \* the run's session.status is "interrupted"
     ok: BOOLEAN,                              \* the last exit in its transcript is a submission
     releasing: BOOLEAN,                       \* a #release timer is pending
     prompt: SUBSET Msg,                       \* on its command line, not read yet
     inbox: SUBSET Msg,                        \* in its control file, not read yet
     conv: SUBSET Msg,                         \* in the conversation it journals
     row: SUBSET Msg]                          \* in the conversation saved in the database

Unused == [agent |-> "none", resumed |-> FALSE, held |-> "no", run |-> "none",
           orphan |-> "none", deleted |-> FALSE, interrupted |-> FALSE, ok |-> FALSE,
           releasing |-> FALSE, prompt |-> {}, inbox |-> {}, conv |-> {}, row |-> {}]

\* A closed entry's process has ended and its exit handler has not run.  That event is
\* handled before the next request, timer or other event, and the process does not end
\* while a #start is on its way or while another such event waits (these windows are a few
\* milliseconds wide).
ExitPending(x) == x.orphan # "none" /\ x.agent \in Ended
NoExitPending == \A s \in Session : ~ExitPending(sess[s])

Serving == phase # "down" /\ Quiet /\ NoExitPending

\* agentRunning(): the held entry follows a process whose exit it has not handled.
AgentRunning(x) == x.held = "yes" /\ x.run # "none"

\* #createLocal: a new session with its agent, which is given msgs on its command line.
Spawned(msgs) == [Unused EXCEPT !.agent = "alive", !.held = "yes", !.run = "own", !.prompt = msgs]

Signalled(a) == IF a = "alive" THEN "stopping" ELSE a

\* Faulty variant: the status changes and the process is not signalled.
InterruptedUnsignalled(x) == IF AgentRunning(x) THEN [x EXCEPT !.interrupted = TRUE] ELSE x

\* interrupt(): only the agent of a held session is stopped.
Interrupted(x) ==
    IF AgentRunning(x) THEN [x EXCEPT !.interrupted = TRUE, !.agent = Signalled(@)] ELSE x

\* messageAgent(): appended to the control file of whatever process the entry follows.
Messaged(x, msgs) == IF AgentRunning(x) THEN [x EXCEPT !.inbox = @ \union msgs] ELSE x

\* #persist: never over a conversation that an attached agent's owner saves.
Persisted(x) == IF x.run = "attached" \/ x.conv = {} THEN x ELSE [x EXCEPT !.row = x.conv]

\* close(): kill() stops an own process and only lets go of an attached one.  ingested:
\* the watcher had already read the agent's exit, so the status was no longer "running".
Closed(x, ingested) ==
    IF x.held # "yes" THEN x
    ELSE [Persisted(x) EXCEPT
            !.held = "no", !.run = "none",
            !.agent = IF x.run = "own" THEN Signalled(@) ELSE @,
            !.interrupted = FALSE,
            !.orphan = IF x.run # "own" THEN @
                       ELSE IF x.interrupted \/ ~ingested THEN "interrupted" ELSE "plain"]

\* deleteHistory(): as close(), but the status is left as it is and the row goes.
Deleted(x) ==
    [x EXCEPT !.held = "no", !.run = "none", !.deleted = TRUE, !.row = {},
              !.agent = IF x.run = "own" THEN Signalled(@) ELSE @,
              !.interrupted = FALSE,
              !.orphan = IF x.run # "own" THEN @
                         ELSE IF x.interrupted THEN "interrupted" ELSE "plain"]

\* openHistory() of a session that is not held: follow its agent when it is alive,
\* else start from the saved row, or from the journal when the row is empty.
Opened(x) ==
    LET attaches == x.agent \in Live
    IN  [x EXCEPT !.held = "yes",
                  !.run = IF attaches THEN "attached" ELSE "none",
                  !.conv = IF attaches \/ x.row = {} THEN @ ELSE x.row]

\* #resumeLocal: a new process, with a control file of its own, on the saved conversation.
Resumed(x, msgs) == [x EXCEPT !.agent = "alive", !.resumed = TRUE, !.prompt = msgs, !.inbox = {}]

\* send(): to the running agent's control file, else to a new process.
Sent(x, msgs) ==
    LET y == [x EXCEPT !.interrupted = FALSE]
    IN  IF AgentRunning(x) THEN Messaged(y, msgs) ELSE [Resumed(y, msgs) EXCEPT !.run = "own"]

\* What continueWorker finds: the entry it holds, or the one it restores.
Entry(x) == IF x.held = "yes" THEN x ELSE Opened(x)

\* It throws for a deleted session and for one with nothing saved to continue from.
CannotContinue(x) ==
    \/ x.deleted
    \/ ~AgentRunning(Entry(x)) /\ Entry(x).conv = {}

-----------------------------------------------------------------------------
(* What the rows become.                                                   *)

Cancelled(r, T) == [t \in Task |-> IF t \in T THEN [r[t] EXCEPT !.status = "cancelled"] ELSE r[t]]

\* Faulty variant: the status of the task is not looked at.
GoneTasksAnyStatus(s) == BySession(task, s)

\* sessionGone(): the active task of a closed or deleted session is cancelled.
GoneTasks(s) == {t \in BySession(task, s) : task[t].status \in Active}

\* Faulty variant: the end of a worker that was interrupted or failed goes unreported.
SettledIfDone(r, s, done) ==
    [t \in Task |-> IF r[t].sid = s /\ r[t].status = "running" /\ done
                    THEN [r[t] EXCEPT !.status = "done"] ELSE r[t]]

\* workerExited(): only a running task settles; done needs a clean, submitted run.
SettledTasks(r, s, done) ==
    [t \in Task |-> IF r[t].sid = s /\ r[t].status = "running"
                    THEN [r[t] EXCEPT !.status = IF done THEN "done" ELSE "error"] ELSE r[t]]

-----------------------------------------------------------------------------
(* Requests.                                                               *)

\* create(): a wave of new rows, then one pump.
Create(W, d) ==
    LET made == [t \in Task |->
                   IF t \in W
                   THEN [status |-> "queued", cwd |-> d[t], sid |-> NoSession, redirects |-> 0,
                         seen |-> 0, atStart |-> 0, attempts |-> 0]
                   ELSE task[t]]
    IN  /\ Serving
        /\ W # {} /\ W \subseteq With(task, "none") /\ Cardinality(W) <= MaxWave
        /\ \A t \in W : Before(With(task, "none"), t) \subseteq W
        /\ Pump(made, cap, calls)
        /\ UNCHANGED <<phase, cap, sess, restarts>>

\* redirect() of a task that waits: its brief grows.
RedirectQueued(t) ==
    /\ Serving
    /\ task[t].status = "queued" /\ task[t].redirects < MaxRedirects
    /\ task' = [task EXCEPT ![t].redirects = @ + 1]
    /\ UNCHANGED <<phase, cap, calls, sess, restarts>>

Reachable(t) == /\ task[t].status = "running" /\ task[t].sid # NoSession
                /\ AgentRunning(sess[task[t].sid])

\* redirect() of a task whose agent runs: a line in its control file.
RedirectRunning(t) ==
    /\ Serving
    /\ Reachable(t) /\ task[t].redirects < MaxRedirects
    /\ task' = [task EXCEPT ![t].redirects = @ + 1, ![t].seen = task[t].redirects + 1]
    /\ sess' = [sess EXCEPT ![task[t].sid] = Messaged(@, {task[t].redirects + 1})]
    /\ UNCHANGED <<phase, cap, calls, restarts>>

\* redirect() of any other task: it is queued again.
RedirectReopen(t) ==
    /\ Serving
    /\ task[t].status \notin {"none", "queued"} /\ ~Reachable(t)
    /\ task[t].redirects < MaxRedirects
    /\ Pump([task EXCEPT ![t].status = "queued", ![t].redirects = @ + 1], cap, calls)
    /\ UNCHANGED <<phase, cap, sess, restarts>>

\* Faulty variant: the freed slot is not handed on.
CancelWithoutPump(t) ==
    /\ Serving
    /\ task[t].status \in Active
    /\ sess' = IF task[t].status = "running" /\ task[t].sid # NoSession
               THEN [sess EXCEPT ![task[t].sid] = Interrupted(@)] ELSE sess
    /\ task' = Cancelled(task, {t})
    /\ UNCHANGED <<phase, cap, calls, restarts>>

\* cancel(): the slot is free at once; a running worker is told to stop.
Cancel(t) ==
    /\ Serving
    /\ task[t].status \in Active
    /\ sess' = IF task[t].status = "running" /\ task[t].sid # NoSession
               THEN [sess EXCEPT ![task[t].sid] = Interrupted(@)] ELSE sess
    /\ Pump(Cancelled(task, {t}), cap, calls)
    /\ UNCHANGED <<phase, cap, restarts>>

\* dropSession(): a worker's session is closed by hand.
CloseSession(s, ingested) ==
    /\ Serving
    /\ sess[s].held = "yes"
    /\ ingested => sess[s].agent = "submitted"
    /\ sess' = [sess EXCEPT ![s] = Closed(@, ingested)]
    /\ Pump(Cancelled(task, GoneTasks(s)), cap, calls)
    /\ UNCHANGED <<phase, cap, restarts>>

\* DELETE of a saved session, open or not.
DeleteSession(s) ==
    /\ Serving
    /\ sess[s] # Unused /\ ~sess[s].deleted
    /\ sess' = [sess EXCEPT ![s] = Deleted(@)]
    /\ Pump(Cancelled(task, GoneTasks(s)), cap, calls)
    /\ UNCHANGED <<phase, cap, restarts>>

\* The stop button of an opened worker session.
InterruptSession(s) ==
    /\ Serving
    /\ AgentRunning(sess[s])
    /\ sess' = [sess EXCEPT ![s] = Interrupted(@)]
    /\ UNCHANGED <<phase, cap, task, calls, restarts>>

\* A new concurrency setting, then resize().
Resize(n) ==
    /\ Serving
    /\ n # cap
    /\ cap' = n
    /\ Pump(task, n, calls)
    /\ UNCHANGED <<phase, sess, restarts>>

-----------------------------------------------------------------------------
(* The rest of #start, once the worker host has answered.  It reads the    *)
(* row again: the task may have moved on while a slow call was away.       *)

Answers(c) == phase # "down" /\ c \in calls /\ (Slow(c) => Quiet /\ NoExitPending)

\* Faulty variant: a failed start is tried again instead of reported.
StartRetries(c) ==
    /\ Answers(c)
    /\ c.mode = "continue" => CannotContinue(sess[c.sid])
    /\ Pump([task EXCEPT ![c.task].status = "queued"], cap, calls \ {c})
    /\ UNCHANGED <<phase, cap, sess, restarts>>

\* The worker could not be started (its folder is missing) or continued.
StartFails(c) ==
    /\ Answers(c)
    /\ c.mode = "continue" => CannotContinue(sess[c.sid])
    /\ sess' = IF c.mode = "continue" /\ ~sess[c.sid].deleted
               THEN [sess EXCEPT ![c.sid] = Entry(@)] ELSE sess
    /\ IF task[c.task].status = "running"
       THEN Pump([task EXCEPT ![c.task].status = "error"], cap, calls \ {c})
       ELSE task' = task /\ calls' = calls \ {c}
    /\ UNCHANGED <<phase, cap, restarts>>

\* Faulty variant: the row is not read again after the await.
NeverStopped(t, x) == x

\* A task cancelled while its worker was starting stops that worker.
StopIfCancelled(t, x) == IF task[t].status = "cancelled" THEN Interrupted(x) ELSE x

\* startWorker: the agent is spawned and the row learns its session id.
WorkerStarted(c) ==
    /\ Answers(c)
    /\ c.mode = "start"
    /\ sess' = [sess EXCEPT ![c.sid] = StopIfCancelled(c.task, Spawned(c.msgs))]
    /\ task' = [task EXCEPT ![c.task].sid = c.sid]
    /\ calls' = calls \ {c}
    /\ UNCHANGED <<phase, cap, restarts>>

\* continueWorker: the message goes to the agent that runs, or to a new one.
WorkerContinued(c) ==
    /\ Answers(c)
    /\ c.mode = "continue"
    /\ ~CannotContinue(sess[c.sid])
    /\ sess' = [sess EXCEPT ![c.sid] = StopIfCancelled(c.task, Sent(Entry(@), c.msgs))]
    /\ task' = task
    /\ calls' = calls \ {c}
    /\ UNCHANGED <<phase, cap, restarts>>

\* continueWorker when the resume file cannot be written: no agent runs, nothing is
\* thrown, and #start settles the task by the exit status the session had before.
WorkerNotResumed(c) ==
    LET x == Entry(sess[c.sid])
    IN  /\ DiskFaults
        /\ Answers(c)
        /\ c.mode = "continue"
        /\ ~CannotContinue(sess[c.sid]) /\ ~AgentRunning(x)
        /\ sess' = [sess EXCEPT ![c.sid] = StopIfCancelled(c.task, [x EXCEPT !.interrupted = FALSE])]
        /\ IF task[c.task].status = "running"
           THEN Pump(SettledTasks(task, c.sid, x.ok), cap, calls \ {c})
           ELSE task' = task /\ calls' = calls \ {c}
        /\ UNCHANGED <<phase, cap, restarts>>

-----------------------------------------------------------------------------
(* Agent processes and their exit events.                                  *)

\* Before each step an agent reads its prompt and its control file, and journals them.
AgentReads(s) ==
    /\ sess[s].agent = "alive"
    /\ sess[s].prompt \union sess[s].inbox # {}
    /\ sess' = [sess EXCEPT ![s].conv = @ \union sess[s].prompt \union sess[s].inbox,
                            ![s].prompt = {}, ![s].inbox = {}]
    /\ UNCHANGED <<phase, cap, task, calls, restarts>>

\* The process ends.  What is still in its control file came after its last read.
AgentExits(s, how) ==
    /\ sess[s].agent \in Live
    /\ how = "submitted" => sess[s].prompt = {} /\ sess[s].conv # {}
    /\ sess[s].orphan # "none" => Quiet /\ NoExitPending
    /\ LET seen == sess[s].run # "none" \/ sess[s].orphan # "none"
       IN  sess' = [sess EXCEPT ![s].agent = IF seen THEN how ELSE "none"]
    /\ UNCHANGED <<phase, cap, task, calls, restarts>>

\* The exit handlers of a process this server spawned.
HasExitHandler(x) == x.agent \in Ended /\ (x.run = "own" \/ x.orphan # "none")

\* The loop is about to run it.
Handles(s) == /\ phase # "down" /\ Quiet /\ HasExitHandler(sess[s])
              /\ NoExitPending \/ ExitPending(sess[s])

WasInterrupted(x) == IF x.run = "own" THEN x.interrupted ELSE x.orphan = "interrupted"

\* Faulty variant: the control file is not looked at after the exit.
UnreadIgnored(x) == FALSE

\* #createLocal's handler only: messages the agent left unread are a turn of their own.
Unread(x) == /\ ~WasInterrupted(x) /\ x.agent # "crashed" /\ ~x.resumed
             /\ x.inbox # {} /\ x.conv # {}

\* What is left of the session when its process is over: argv and control file go with it.
AfterExit(x) ==
    [x EXCEPT !.agent = "none", !.resumed = FALSE, !.prompt = {}, !.inbox = {},
              !.interrupted = FALSE,
              !.orphan = IF x.run = "own" THEN @ ELSE "none",
              !.run = IF x.run = "own" THEN "none" ELSE @]

ExitResumes(s) ==
    /\ Handles(s) /\ Unread(sess[s])
    /\ sess' = [sess EXCEPT ![s] = Resumed(@, sess[s].inbox)]
    /\ UNCHANGED <<phase, cap, task, calls, restarts>>

\* The same, when the resume file cannot be written: the session fails, nobody is told.
ExitNotResumed(s) ==
    /\ DiskFaults
    /\ Handles(s) /\ Unread(sess[s])
    /\ sess' = [sess EXCEPT ![s] = AfterExit(@)]
    /\ UNCHANGED <<phase, cap, task, calls, restarts>>

\* #finish saves the conversation; runExited settles the task and arms its release timer.
ExitSettles(s) ==
    LET x == sess[s]
        ok == x.agent = "submitted" \/ (x.agent = "crashed" /\ x.ok)
        done == ~WasInterrupted(x) /\ x.agent = "submitted" /\ x.held = "yes"
        waits == \E t \in BySession(task, s) : task[t].status = "queued"
        y == [AfterExit(x) EXCEPT !.ok = ok, !.row = IF x.conv = {} \/ x.deleted THEN @ ELSE x.conv,
                                  !.releasing = @ \/ (BySession(task, s) # {} /\ ~waits)]
    IN  /\ Handles(s) /\ ~Unread(x)
        /\ sess' = [sess EXCEPT ![s] = y]
        /\ IF \E t \in BySession(task, s) : task[t].status = "running"
           THEN Pump(SettledTasks(task, s, done), cap, calls)
           ELSE UNCHANGED <<task, calls>>
        /\ UNCHANGED <<phase, cap, restarts>>

\* The handler of an attached run: it records the outcome and tells the queue nothing.
AttachedExits(s) ==
    LET x == sess[s]
    IN  /\ Serving
        /\ x.run = "attached" /\ x.agent \notin Live
        /\ sess' = [sess EXCEPT ![s].run = "none",
                                ![s].ok = x.agent = "submitted" \/ (x.agent # "quit" /\ x.ok),
                                ![s].agent = IF x.orphan = "none" THEN "none" ELSE @]
        /\ UNCHANGED <<phase, cap, task, calls, restarts>>

\* #release's timer: a settled task's session is closed, unless a tab watches it.
Release(s) ==
    /\ Serving
    /\ sess[s].releasing
    /\ \/ /\ \A t \in BySession(task, s) : task[t].status \notin Active
          /\ sess' = [sess EXCEPT ![s] = [Closed(@, FALSE) EXCEPT !.releasing = FALSE]]
       \/ sess' = [sess EXCEPT ![s].releasing = FALSE]
    /\ UNCHANGED <<phase, cap, task, calls, restarts>>

\* #persistDirty: a running worker's conversation is saved every few seconds.  Only a crash
\* to come tells the difference: close() and #finish save it anyway.
PersistDirty(s) ==
    /\ Serving
    /\ restarts < MaxRestarts
    /\ sess[s].held = "yes" /\ sess[s].run = "own" /\ sess[s].row # sess[s].conv
    /\ sess' = [sess EXCEPT ![s] = Persisted(@)]
    /\ UNCHANGED <<phase, cap, task, calls, restarts>>

-----------------------------------------------------------------------------
(* The server going down and coming back.                                  *)

\* What a session is without its server: its row, its journal, the open list, its process.
Alone(x) ==
    [x EXCEPT !.held = IF @ = "yes" THEN "listed" ELSE @,
              !.run = "none", !.orphan = "none", !.releasing = FALSE, !.interrupted = FALSE,
              !.agent = IF @ \in Ended THEN "none" ELSE @]

\* SIGTERM: every held session is saved and every spawned agent is signalled.
StopServer ==
    /\ phase # "down" /\ restarts < MaxRestarts
    /\ phase' = "down" /\ restarts' = restarts + 1 /\ calls' = {}
    /\ sess' = [s \in Session |->
                  LET x == IF sess[s].held = "yes" THEN Persisted(sess[s]) ELSE sess[s]
                      spawned == x.run = "own" \/ x.orphan # "none"
                  IN  Alone([x EXCEPT !.agent = IF spawned THEN Signalled(@) ELSE @])]
    /\ UNCHANGED <<cap, task>>

\* The server process dies: nothing is saved and the agents go on.
CrashServer ==
    /\ phase # "down" /\ restarts < MaxRestarts
    /\ phase' = "down" /\ restarts' = restarts + 1 /\ calls' = {}
    /\ sess' = [s \in Session |-> Alone(sess[s])]
    /\ UNCHANGED <<cap, task>>

\* The server listens again and starts to restore the open sessions.
Boot ==
    /\ phase = "down"
    /\ phase' = "booting"
    /\ UNCHANGED <<cap, task, calls, sess, restarts>>

\* rehydrate(), one session of the open list.
Rehydrate(s) ==
    /\ phase = "booting" /\ Quiet
    /\ sess[s].held = "listed"
    /\ sess' = [sess EXCEPT ![s] = Opened(@)]
    /\ UNCHANGED <<phase, cap, task, calls, restarts>>

Recovered(x) ==
    IF x.status # "running" THEN x
    ELSE [x EXCEPT !.status = "queued", !.seen = IF x.seen < x.atStart THEN x.seen ELSE x.atStart]

\* releaseSettled() and recover(), once the open sessions are back.
Recover ==
    /\ phase = "booting" /\ Quiet
    /\ \A s \in Session : sess[s].held # "listed"
    /\ phase' = "up"
    /\ sess' = [s \in Session |->
                  IF /\ BySession(task, s) # {} /\ ~AgentRunning(sess[s])
                     /\ \A t \in BySession(task, s) : task[t].status \in Settled
                  THEN Closed(sess[s], FALSE) ELSE sess[s]]
    /\ Pump([t \in Task |-> Recovered(task[t])], cap, calls)
    /\ UNCHANGED <<cap, restarts>>

-----------------------------------------------------------------------------

NoRow == [status |-> "none", cwd |-> CHOOSE d \in Dir : TRUE, sid |-> NoSession,
          redirects |-> 0, seen |-> 0, atStart |-> 0, attempts |-> 0]

Init ==
    /\ phase = "up"
    /\ cap \in Cap
    /\ task = [t \in Task |-> NoRow]
    /\ calls = {}
    /\ sess = [s \in Session |-> Unused]
    /\ restarts = 0

Requests ==
    \/ \E W \in SUBSET Task : \E d \in [W -> Dir] : Create(W, d)
    \/ \E t \in Task : RedirectQueued(t) \/ RedirectRunning(t) \/ RedirectReopen(t) \/ Cancel(t)
    \/ \E s \in Session : \/ \E ingested \in BOOLEAN : CloseSession(s, ingested)
                          \/ DeleteSession(s) \/ InterruptSession(s)
    \/ \E n \in Cap : Resize(n)

Starts == \E c \in calls :
    StartFails(c) \/ WorkerStarted(c) \/ WorkerContinued(c) \/ WorkerNotResumed(c)

AgentSteps(s) == AgentReads(s) \/ \E how \in Ended : AgentExits(s, how)

ExitEvents(s) == ExitResumes(s) \/ ExitNotResumed(s) \/ ExitSettles(s) \/ AttachedExits(s)

Restarting == \/ StopServer \/ CrashServer \/ Boot \/ Recover
              \/ \E s \in Session : Rehydrate(s)

Next ==
    \/ Requests
    \/ Starts
    \/ \E s \in Session : AgentSteps(s) \/ ExitEvents(s) \/ Release(s) \/ PersistDirty(s)
    \/ Restarting

Spec == Init /\ [][Next]_vars

(***************************************************************************)
(* Fairness.  The event loop gets to every pending continuation and exit   *)
(* event, and a booting server finishes booting.  A process that was       *)
(* signalled ends (SIGTERM or SIGKILL follow within seconds); that an      *)
(* agent left alone ends too is the agent's own step, time and cost limit, *)
(* a separate assumption.  Requests, timers of #release and saves are not  *)
(* assumed to happen.                                                      *)
(***************************************************************************)
Exits(s) == \E how \in Ended : AgentExits(s, how)

LoopFairness ==
    /\ WF_vars(Starts)
    /\ \A s \in Session : WF_vars(ExitEvents(s)) /\ WF_vars(sess[s].agent = "stopping" /\ Exits(s))
    /\ WF_vars(Boot) /\ WF_vars(Recover) /\ \A s \in Session : WF_vars(Rehydrate(s))

\* Agents may work for ever unless they are told to stop.
LoopSpec == Spec /\ LoopFairness

\* Every agent ends by itself.
FairSpec == LoopSpec /\ \A s \in Session : WF_vars(Exits(s))

-----------------------------------------------------------------------------
(* The board that the rows show, and the promise they implement.           *)

BoardOf(r) == [t \in Task |-> [status |-> r[t].status, cwd |-> r[t].cwd]]

Board == INSTANCE SlotBoard WITH row <- BoardOf(task)

-----------------------------------------------------------------------------
(* Properties.                                                             *)

\* The queue implements the abstract board: rows move only along its arrows, and every
\* start of every path (a new wave, a re-open, a freed slot, a new setting, a recovery) is
\* a grant within the setting, with a free folder, and in the order of the queue.
ImplementsBoard == Board!Spec

\* The variables have their types: rows, pending calls and sessions.
TypeOK ==
    /\ phase \in {"down", "booting", "up"}
    /\ cap \in Cap
    /\ task \in [Task -> Row]
    /\ calls \subseteq Call
    /\ sess \in [Session -> SessionRecord]
    /\ restarts \in 0..MaxRestarts

\* The corruption guard of pump(): two running tasks never have overlapping folders,
\* through cancels, re-opens, closed sessions, failed starts and recoveries.
RunningDisjoint ==
    \A t, u \in Running(task) : t # u => ~Overlaps(task[t].cwd, task[u].cwd)

\* pump() is never owed: while the server is up, a task that waits has no free slot or
\* shares its folder with a running one.  Every path that frees a slot must pump.
NoIdleSlot ==
    phase = "up" =>
        \A t \in With(task, "queued") :
            \/ FreeSlots(task, cap) <= 0
            \/ \E u \in Running(task) : Overlaps(task[u].cwd, task[t].cwd)

\* Attempts are accounted for: one for the task, one per redirect, one per restart, with one
\* to spare for a task that waits and one while a recovery is to come.  No path starts a
\* worker that nobody asked for.
AttemptsAccounted ==
    \A t \in Task :
        task[t].attempts + (IF task[t].status \in {"none", "queued"} THEN 1 ELSE 0)
                         + (IF phase = "up" THEN 0 ELSE 1)
            <= 1 + task[t].redirects + restarts

\* A settled task leaves its status only by a redirect: no late exit event, late start or
\* recovery brings it back or changes its outcome.
SettledOnlyReopens ==
    [][\A t \in Task : task[t].status \in Settled /\ task'[t].status # task[t].status
          => task'[t].redirects = task[t].redirects + 1]_vars

\* While the server runs, an agent of a session it holds that was not told to stop is the
\* worker of a running task, and the one its row names (or its #start is about to say so).
HeldAgentWorks ==
    phase = "up" =>
        \A s \in Session :
            sess[s].held = "yes" /\ sess[s].agent = "alive" =>
                task[s[1]].sid = s /\ task[s[1]].status = "running"

\* A task that is done and was redirected once has an agent that read the redirect, be it
\* in its brief, in its control file, after its last step, or in a run that followed.
OnlyRedirectHeard ==
    \A t \in Task :
        task[t].status = "done" /\ task[t].redirects = 1 => 1 \in sess[task[t].sid].conv

\* Every task that is queued or runs settles: no exit event, failed start, re-open or
\* freed slot leaves it behind.
TasksSettle == \A t \in Task : task[t].status \in Active ~> task[t].status \in Settled

\* The same where nothing more is assumed than that agents end by themselves: with the event
\* loop's own fairness, their ends are enough for every task to settle.
WorkedTasksSettle == (\A s \in Session : WF_vars(Exits(s))) => TasksSettle

\* A cancelled task's agents stop, even those that were still being started when it was
\* cancelled, or the task is re-opened.
CancelStopsAgents ==
    \A t \in Task :
        task[t].status = "cancelled" ~>
            \/ task[t].status # "cancelled"
            \/ \A s \in Session : s[1] = t => sess[s].agent \notin Live

-----------------------------------------------------------------------------
(* What the documentation or a comment says and the code does not keep.    *)

\* workQueue.ts: "a burst of pumps never starts one twice": a task has one agent at a time.
OneAgentPerTask ==
    \A s, z \in Session :
        s[1] = z[1] /\ sess[s].agent = "alive" /\ sess[z].agent = "alive" => s = z

=============================================================================
