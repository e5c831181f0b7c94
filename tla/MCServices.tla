----------------------------- MODULE MCServices -----------------------------
(***************************************************************************)
(* Small instances of parts of the server that are looked at on their own: *)
(* the pump of the work queue, bounded child processes, the hand-off to    *)
(* the human, the dispatcher's chat, the logins to MCP servers and the     *)
(* trajectory a session follows; of the agent, the hub of a run's          *)
(* subagents, the calls of its model, a run of `orchestrate` and the race  *)
(* of its workers' calls; and of the session of the terminal UI.  Since    *)
(* they do not interact, one is picked at the start, `turn`, and it alone  *)
(* takes steps: checking their interleavings would show nothing more.  The *)
(* modules about which something is proved are extended, so that it is     *)
(* checked under its own name; the others are instances.                   *)
(***************************************************************************)
EXTENDS TuiSession, Humans, Calls, McpLogin, PumpLoop

VARIABLES
  turn,
  mode, mem, journaled, todo, exit, ending, journal, export, offset, tail, seen,
  live, consumed, pending, events, msgs, said, started, failed, deltas, base, cut,
  kid, agent, lines, notes, held, parent, told, hidden, looked, crossed, sends, deaths

(* A project, a folder inside it, another project, and the home directory. *)
Proj == <<"p">>
Home == <<"home">>
Dirs == {Proj, <<"p", "q">>, <<"o">>, Home}
BroadDirs == {Home}

(* Two agents whose writes succeed; and two with a write that fails and a   *)
(* fragment streamed by each.                                               *)
Journal == INSTANCE TrajectoryJournal WITH
  MaxMessages <- 3, MaxAgents <- 2, MaxFailures <- 0, MaxDeltas <- 0
Spoilt == INSTANCE TrajectoryJournal WITH
  MaxMessages <- 2, MaxAgents <- 2, MaxFailures <- 1, MaxDeltas <- 1

(* A child that dies and is sent a message; one with children of its own;   *)
(* and two launched together.                                               *)
Single == INSTANCE SubagentHub WITH
  Kids <- {1}, Wave <- {}, Delegating <- {},
  MaxTurns <- 2, MaxSends <- 1, MaxDeaths <- 1, MaxLines <- 2
Tree == INSTANCE SubagentHub WITH
  Kids <- {1}, Wave <- {}, Delegating <- {1},
  MaxTurns <- 2, MaxSends <- 0, MaxDeaths <- 1, MaxLines <- 2
Crew == INSTANCE SubagentHub WITH
  Kids <- {1, 2}, Wave <- {1, 2}, Delegating <- {},
  MaxTurns <- 1, MaxSends <- 0, MaxDeaths <- 0, MaxLines <- 2

(* The web server comes back to its origin; the terminal to its own port or *)
(* to whichever is free.                                                    *)
RedirectsOf == [p \in Procs |-> IF p = "web" THEN {"origin"} ELSE {"port", "free"}]

(* Two logins that overlap, with a failure, a server switched off aside;    *)
(* two refreshers by themselves; and a login beside one refresher, with a   *)
(* failure.                                                                 *)
LoginParts == {"overlap", "rivals", "faults"}
LoginPart(p) ==
  CASE p = "overlap" -> refreshers' = refreshers /\ Len(issued') <= 2 /\ ~record'.off
    [] p = "rivals" -> logins' = logins /\ troubles' = troubles
    [] OTHER -> logins'[2] = NoLogin /\ refreshers'["web"] = Idle

(* Requests are sent twice in the first step of a run only; a run begins    *)
(* outside of its chain or at the end of it.                                *)
FirstStepOnly == steps' > 1 => flight'.sent = 0

(* In a run of `orchestrate` the tools write one file in all, or the write  *)
(* of an answer fails.                                                      *)
OneTidied ==
  LET F == {p \in Paths : tidied'[p] > 0} IN Cardinality(F) <= 1 /\ (F = {} \/ lost' = {})

Hubs == {"single", "tree", "crew"}
Journals == {"journal", "spoilt"}
Services ==
  {"pump", "spawn", "handoff", "chat", "tui", "race", "waves", "calls"}
    \cup LoginParts \cup Journals \cup Hubs

pumpVars == <<board, slots>>
journalVars == <<mode, mem, journaled, todo, exit, ending, journal, export, offset, tail, seen,
                 live, consumed, pending, events, msgs, said, started, failed, deltas, base, cut>>
hubVars == <<kid, agent, lines, notes, held, parent, told, hidden, looked, crossed, sends, deaths>>
servicesVars ==
  <<turn, pumpVars, spawnVars, handoffVars, chatVars, vars, loginVars, journalVars, hubVars,
    raceVars, wavesVars, callVars>>

ServicesInit ==
  /\ turn \in Services
  /\ CallsInit /\ HumansInit /\ Init /\ LoginInit /\ Journal!Init
  /\ IF turn = "crew" THEN Crew!Init ELSE Single!Init
  /\ IF turn = "pump" THEN PumpInit
     ELSE board = [t \in Task |-> [status |-> "done", cwd |-> Proj]] /\ slots = 0
  /\ turn # "spawn" => ~stubborn /\ deadline = "none" /\ ~signal
  /\ turn \notin LoginParts => record.client = "none"
  /\ turn # "race" => warm = "over"
  /\ IF turn = "calls" THEN model \in {0, MaxModels} ELSE model = 0

(* The turn is p's: what is not p's stays as it is. *)
Only(p) ==
  /\ turn = p /\ UNCHANGED turn
  /\ IF p = "pump" THEN TRUE ELSE UNCHANGED pumpVars
  /\ IF p = "spawn" THEN TRUE ELSE UNCHANGED spawnVars
  /\ IF p = "handoff" THEN TRUE ELSE UNCHANGED handoffVars
  /\ IF p = "chat" THEN TRUE ELSE UNCHANGED chatVars
  /\ IF p = "tui" THEN TRUE ELSE UNCHANGED vars
  /\ IF p \in LoginParts THEN TRUE ELSE UNCHANGED loginVars
  /\ IF p \in Journals THEN TRUE ELSE UNCHANGED journalVars
  /\ IF p \in Hubs THEN TRUE ELSE UNCHANGED hubVars
  /\ IF p = "race" THEN TRUE ELSE UNCHANGED raceVars
  /\ IF p = "waves" THEN TRUE ELSE UNCHANGED wavesVars
  /\ IF p = "calls" THEN TRUE ELSE UNCHANGED callVars

ServicesNext ==
  \/ turn = "pump" /\ PumpNext /\ Only("pump")
  \/ turn = "spawn" /\ Child!Next /\ Only("spawn")
  \/ turn = "handoff" /\ Handoff!Next /\ Only("handoff")
  \/ turn = "chat" /\ Chat!Next /\ Only("chat")
  \/ turn = "tui" /\ Next /\ Only("tui")
  \/ turn \in LoginParts /\ LoginNext /\ LoginPart(turn) /\ Only(turn)
  \/ turn = "journal" /\ Journal!Next /\ Only("journal")
  \/ turn = "spoilt" /\ Spoilt!Next /\ Only("spoilt")
  \/ turn = "single" /\ Single!Next /\ Only("single")
  \/ turn = "tree" /\ Tree!Next /\ Only("tree")
  \/ turn = "crew" /\ Crew!Next /\ Only("crew")
  \/ turn = "race" /\ Race!Next /\ Only("race")
  \/ turn = "waves" /\ Waves!Next /\ OneTidied /\ Only("waves")
  \/ turn = "calls" /\ Model!Next /\ FirstStepOnly /\ Only("calls")

(* The fairness each module states, while it is the component's turn.  The  *)
(* subscripts are what the actions change.                                  *)
Fairness ==
  /\ WF_deadline(turn = "spawn" /\ Child!DeadlinePasses)
  /\ WF_grace(turn = "spawn" /\ Child!GraceOver)
  /\ WF_child(turn = "spawn" /\ Child!TermKills)
  /\ WF_phase(turn = "spawn" /\ Child!Return)
  /\ WF_phase(turn = "spawn" /\ (Child!Launch \/ Child!SpawnFails))
  /\ \A s \in Child!Streams :
       WF_outlet(turn = "spawn" /\ Child!Reads(s)) /\ WF_loop(turn = "spawn" /\ Child!Ends(s))
  /\ \A i \in 1..MaxAsks : WF_ask(turn = "handoff" /\ Handoff!TimeOut(i))
  /\ \A k \in 1..MaxJobs : WF_job(turn = "chat" /\ Chat!Goes(k))
  /\ \A u \in Units :
       /\ WF_racer(turn = "race" /\ Race!LoopGoes(u))
       /\ \A k \in Race!Calls : WF_fork(turn = "race" /\ Race!CallReturns(u, k))
  /\ WF_warm(turn = "race" /\ Race!WarmGoes)
  /\ \A s \in Waves!Streams : WF_stream(turn = "waves" /\ Waves!StreamEnds(s))
  /\ WF_<<step, units>>(turn = "waves" /\ Waves!RunGoes)
  /\ WF_<<at, flight>>(turn = "calls" /\ Model!Comes)
  /\ WF_<<at, tried>>(turn = "calls" /\ Model!Goes)

ServicesSpec == ServicesInit /\ [][ServicesNext]_servicesVars /\ Fairness

----------------------------------------------------------------------------
(* TrajectoryJournal: the journal holds what the agent said, a reader of   *)
(* pieces reads it whole, nothing is shown twice, and the next agent is    *)
(* started on all that the last one saved.                                 *)
JournalIsTrue ==
  /\ turn = "journal" => Journal!TypeOK /\ Journal!JournalIsMemory /\ Journal!BitsAreWhole
                         /\ Journal!ShownOnce /\ Journal!ConversationKept
  /\ turn = "spoilt" => Spoilt!TypeOK /\ Spoilt!JournalIsMemory /\ Spoilt!BitsAreWhole
                        /\ Spoilt!ShownOnce /\ Spoilt!ConversationKept

(* SubagentHub: a run ends by itself when none of its children works, and  *)
(* knows what each did in its last turn.                                    *)
HelpersAreTrue ==
  /\ turn = "single" => Single!TypeOK /\ Single!NoneLeftWorking /\ Single!EndsInformed
  /\ turn = "tree" => Tree!TypeOK /\ Tree!NoneLeftWorking /\ Tree!EndsInformed
  /\ turn = "crew" => Crew!TypeOK /\ Crew!NoneLeftWorking /\ Crew!EndsInformed

(* A deadline or an abort ends a child's run; a request to the human that  *)
(* nobody replaced comes back; no job holds up the chain behind it; every  *)
(* unit, every run of orchestrate and every step's call comes back, and a  *)
(* stop ends the last.  The turn does not change: this is what each part   *)
(* says of itself (DeadlineEnds, AskReturns, EveryJobEnds, ..., CallsEnd).  *)
NothingIsAwaited ==
  /\ turn = "spawn" => ~Child!Awaited
  /\ turn = "handoff" => Handoff!AllReturned
  /\ turn = "chat" => Chat!AllDone
  /\ turn = "race" => Race!AllBack
  /\ turn = "waves" => step = "back"
  /\ turn = "calls" => Model!Rests

NothingHangs == []<>NothingIsAwaited
=============================================================================
