------------------------------ MODULE TuiSession ------------------------------
(* The session of a terminal, App.tsx: the agent it follows, the transcript it *)
(* shows and saves, `/resume`, `/new`, `/compact`, Esc Esc and quitting; the   *)
(* handles of spawn.ts on an agent of its own and on one of another UI; and    *)
(* the table live_runs (sessions.ts) in which every UI announces its agents.   *)
(* Another UI, the web app, starts agents for the same sessions.               *)
(*                                                                            *)
(* Sessions are numbers: 1 .. MaxSaved are in the database at the start, an    *)
(* agent r that begins a new one gives it the number MaxSaved + r; 0 is none.  *)
(* A transcript is known by the session whose conversation it is.              *)
EXTENDS Naturals

CONSTANTS
    MaxSaved,    \* sessions in the database at the start
    MaxRuns,     \* bound: agents started, by this terminal or the web app
    MaxOpens     \* bound: sessions opened and /new, together

VARIABLES
    up,        \* the terminal runs
    session,   \* sessionIdRef
    run,       \* live.current.run: the agent it follows, 0 none
    attached,  \* that handle is attachMini's
    exited,    \* exitedRef
    watch,     \* live.current.watch: the trajectory it polls, 0 none
    view,      \* the conversation in events and messagesRef, 0 none
    saved,     \* sessions: the conversation stored under each id
    agents,    \* the agent processes
    rows,      \* live_runs: the agent announced for each session, 0 none
    attaching, \* calls of attachToLiveRun that wait for foreignRunAlive
    opens      \* how much of MaxOpens is used

terminal == <<up, session, run, attached, exited, watch, view>>
vars == <<terminal, saved, agents, rows, attaching, opens>>

Runs == 1 .. MaxRuns
Sessions == 1 .. (MaxSaved + MaxRuns)
\* "gone": the process ended, its exit was not handled; "over": it was.
Agent == [at : {"none", "live", "dying", "gone", "over"}, own : BOOLEAN,
          session : {0} \cup Sessions, talk : {0} \cup Sessions]
NoAgent == [at |-> "none", own |-> FALSE, session |-> 0, talk |-> 0]

Alive(r) == r # 0 /\ agents[r].at \in {"live", "dying"}
Follows == run # 0 /\ ~exited

Init ==
    /\ up = TRUE /\ session = 0 /\ run = 0 /\ attached = FALSE /\ exited = TRUE
    /\ watch = 0 /\ view = 0
    /\ saved = [s \in Sessions |-> s] /\ rows = [s \in Sessions |-> 0]
    /\ agents = [r \in Runs |-> NoAgent]
    /\ attaching = {} /\ opens = 0

-----------------------------------------------------------------------------
(* Agents, and the web app.                                                    *)

Spawn(r, own, s, talk) ==
    /\ agents[r].at = "none" /\ \A q \in 1 .. (r - 1) : agents[q].at # "none"
    /\ agents' = [agents EXCEPT ![r] = [at |-> "live", own |-> own, session |-> s, talk |-> talk]]

\* registerLiveRun: INSERT OR REPLACE.
Announce(s, r) == rows' = [rows EXCEPT ![s] = r]

\* Mutant of Withdraw: whoever is announced by now.
WithdrawSession(r) ==
    rows' = [s \in Sessions |-> IF s = agents[r].session THEN 0 ELSE rows[s]]

\* clearLiveRun: only if the row is still of this run.
Withdraw(r) ==
    rows' = [s \in Sessions |-> IF s = agents[r].session /\ rows[s] = r THEN 0 ELSE rows[s]]

\* The web app follows an announced agent that lives, and starts one otherwise.
WebStarts(s, r) ==
    /\ s <= MaxSaved /\ ~Alive(rows[s])
    /\ Spawn(r, FALSE, s, s) /\ Announce(s, r)
    /\ UNCHANGED <<terminal, saved, attaching, opens>>

AgentEnds(r) ==
    /\ Alive(r) /\ agents' = [agents EXCEPT ![r].at = "gone"]
    /\ UNCHANGED <<terminal, saved, rows, attaching, opens>>

\* The web app handles the exit of its agent.
WebExit(r) ==
    /\ agents[r].at = "gone" /\ ~agents[r].own
    /\ agents' = [agents EXCEPT ![r].at = "over"] /\ Withdraw(r)
    /\ UNCHANGED <<terminal, saved, attaching, opens>>

\* The agents after SIGTERM to those of a set.
Signalled(rs) == [r \in Runs |-> IF r \in rs /\ agents[r].at = "live"
                                 THEN [agents[r] EXCEPT !.at = "dying"] ELSE agents[r]]

\* kill() of the handle in live.current: TERM for an own agent, an attached one is let go.
Own == IF run = 0 \/ attached THEN {} ELSE {run}

-----------------------------------------------------------------------------
(* The transcript.                                                             *)

\* applySnapshot: what is not a continuation of the view replaces it.
Snapshot ==
    /\ up /\ watch # 0
    /\ view # agents[watch].talk /\ view' = agents[watch].talk
    /\ UNCHANGED <<up, session, run, attached, exited, watch, saved, agents, rows, attaching,
                   opens>>

\* latestSave: not while the agent of another UI is followed.
Kept == IF session # 0 /\ view # 0 /\ ~(Follows /\ attached)
        THEN [saved EXCEPT ![session] = view] ELSE saved

Save ==
    /\ up /\ Kept # saved /\ saved' = Kept
    /\ UNCHANGED <<terminal, agents, rows, attaching, opens>>

-----------------------------------------------------------------------------
(* Running.                                                                    *)

\* startRun: the conversation goes on with what messagesRef holds.
Start(r) ==
    LET s == IF session = 0 THEN MaxSaved + r ELSE session
        talk == IF view = 0 THEN s ELSE view IN
    /\ Spawn(r, TRUE, s, talk) /\ Announce(s, r)
    /\ session' = s /\ run' = r /\ attached' = FALSE /\ exited' = FALSE /\ watch' = r
    /\ view' = talk

\* send, without an agent to talk to; with one it is a line in its control file.
PromptStarts(r) ==
    /\ up /\ ~Follows /\ Start(r)
    /\ UNCHANGED <<up, saved, attaching, opens>>

\* compactNow between runs; a live agent just gets a line.
Compact(r) ==
    /\ up /\ ~Follows /\ session # 0 /\ view # 0
    /\ Start(r)
    /\ UNCHANGED <<up, saved, attaching, opens>>

\* The exit handler of an agent started here; a superseded one only withdraws its row.
OwnExit(r) ==
    /\ up /\ agents[r].at = "gone" /\ agents[r].own
    /\ agents' = [agents EXCEPT ![r].at = "over"] /\ Withdraw(r)
    /\ \/ /\ run = r /\ ~attached
          /\ exited' = TRUE /\ watch' = 0 /\ view' = agents[r].talk
       \/ /\ run # r \/ attached
          /\ UNCHANGED <<exited, watch, view>>
    /\ UNCHANGED <<up, session, run, attached, saved, attaching, opens>>

\* attachMini's poll finds that the agent it follows is gone.
AttachedExit ==
    /\ up /\ Follows /\ attached /\ ~Alive(run)
    /\ exited' = TRUE /\ watch' = 0 /\ view' = agents[run].talk
    /\ UNCHANGED <<up, session, run, attached, saved, agents, rows, attaching, opens>>

\* Esc Esc: SIGINT, and SIGTERM two seconds later, to an attached agent as well.
Interrupt ==
    /\ up /\ Follows
    /\ agents' = Signalled({run})
    /\ UNCHANGED <<terminal, saved, rows, attaching, opens>>

-----------------------------------------------------------------------------
(* Sessions.                                                                   *)

\* openSession: the restored transcript; what runs goes on and is still watched.
Open(s) ==
    /\ up /\ opens < MaxOpens /\ opens' = opens + 1
    /\ session' = s /\ view' = saved[s]
    /\ attaching' = IF rows[s] = 0 THEN attaching ELSE attaching \cup {rows[s]}
    /\ UNCHANGED <<up, run, attached, exited, watch, saved, agents, rows>>

\* attachToLiveRun after its await.  An agent that has written nothing yet leaves the view.
Attach(r) ==
    /\ up /\ r \in attaching /\ attaching' = attaching \ {r}
    /\ \/ /\ Alive(r)
          /\ agents' = Signalled(Own)
          /\ run' = r /\ attached' = TRUE /\ exited' = FALSE /\ watch' = r
          /\ view' \in {view, agents[r].talk}
       \/ /\ ~Alive(r)
          /\ UNCHANGED <<run, attached, exited, watch, view, agents>>
    /\ UNCHANGED <<up, session, saved, rows, opens>>

New ==
    /\ up /\ opens < MaxOpens /\ opens' = opens + 1
    /\ saved' = Kept /\ agents' = Signalled(Own)
    /\ session' = 0 /\ run' = 0 /\ attached' = FALSE /\ exited' = TRUE /\ watch' = 0 /\ view' = 0
    /\ UNCHANGED <<up, rows, attaching>>

\* Quit and the exit hooks of spawnMini: TERM to every agent of its own.
Quit ==
    /\ up /\ up' = FALSE
    /\ saved' = Kept /\ agents' = Signalled({r \in Runs : agents[r].own})
    /\ watch' = 0 /\ attaching' = {}
    /\ UNCHANGED <<session, run, attached, exited, view, rows, opens>>

Next ==
    \/ \E r \in Runs :
         \/ AgentEnds(r) \/ WebExit(r) \/ PromptStarts(r) \/ Compact(r) \/ OwnExit(r) \/ Attach(r)
         \/ \E s \in Sessions : WebStarts(s, r)
    \/ \E s \in Sessions : (s <= MaxSaved \/ \E r \in Runs : agents[r].session = s) /\ Open(s)
    \/ Snapshot \/ Save \/ AttachedExit \/ Interrupt \/ New \/ Quit

Spec == Init /\ [][Next]_vars

-----------------------------------------------------------------------------
TypeOK ==
    /\ up \in BOOLEAN /\ attached \in BOOLEAN /\ exited \in BOOLEAN
    /\ session \in {0} \cup Sessions /\ view \in {0} \cup Sessions
    /\ run \in {0} \cup Runs /\ watch \in {0} \cup Runs /\ attaching \subseteq Runs
    /\ saved \in [Sessions -> Sessions] /\ rows \in [Sessions -> {0} \cup Runs]
    /\ agents \in [Runs -> Agent] /\ opens \in 0 .. MaxOpens

(* An agent that this terminal started and has not told to end is the one it   *)
(* follows, and other UIs find it in live_runs: none is left behind by /new,   *)
(* /resume, an attach that was overtaken, or the late exit of an older agent.  *)
NoAgentLeftBehind ==
    \A r \in Runs : agents[r].own /\ agents[r].at = "live" =>
        /\ up /\ run = r /\ ~exited
        /\ rows[agents[r].session] = r
=============================================================================
