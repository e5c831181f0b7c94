----------------------------- MODULE SubagentHub -----------------------------
(***************************************************************************)
(* The hub of a run that has subagents (subagents.rs): the children it     *)
(* started, what its monitor makes of the lines of their journals and of   *)
(* their deaths, the notes it keeps for the run, the commands the run      *)
(* gives it, and how a run to which nobody else writes holds at its exit   *)
(* until its children are done (agent.rs, wait_for_followup without a      *)
(* control file, or with one after --exit-immediately).                    *)
(*                                                                         *)
(* Every command takes the hub's lock and monitors before it acts: Monitor *)
(* leaves `looked`, which a command needs and uses up.  A child is known   *)
(* by the hub's record of it, `kid`, and is really as `agent` says.  Of a  *)
(* journal there are the lines the hub has not read.  Left out: budgets,   *)
(* models, memory, stalls, plans, peers that answer each other, names used *)
(* twice and the texts of notes.                                           *)
(***************************************************************************)
EXTENDS Integers, Sequences, FiniteSets, SequencesExt

CONSTANTS
  Kids,       \* the children, numbers: the hub goes through them in order
  Wave,       \* those launched together by one batch
  Delegating, \* those that start children of their own
  MaxTurns,   \* bound: turns a child ends
  MaxSends,   \* bound: messages the run sends
  MaxDeaths,  \* bound: children that fail or are killed
  MaxLines    \* bound: lines of a journal that the hub has not read

VARIABLES
  kid,    \* the hub's record of each child
  agent,  \* its process
  lines,  \* what it wrote since the hub read its journal
  notes,  \* the hub's notes for the run
  held,   \* reports of the wave, until its last member ends
  parent, \* the run: work, hold, over
  told,   \* history: the turns reported to the run
  hidden, \* history: other turns in a note of the wave that was dropped
  looked, \* the hub has monitored for the command that comes next
  crossed, \* history: children whose turn's end crossed a message, a stop or the end of a child
  sends, deaths

vars == <<kid, agent, lines, notes, held, parent, told, hidden, looked, crossed, sends, deaths>>

(* A report: turn t of child c ended, or (t = 0) c stopped unexpectedly.  A *)
(* note has several, and is filed under one, or under nobody.              *)
Nobody == <<>>
NoNote == [key |-> Nobody, reports |-> {}]

Init ==
  /\ kid = [c \in Kids |-> [state |-> "none", proc |-> FALSE, stop |-> FALSE, turns |-> 0, seen |-> 0,
                            replaying |-> FALSE, deferred |-> FALSE]]
  /\ agent = [c \in Kids |-> [at |-> "none", dying |-> FALSE, inbox |-> 0, nested |-> FALSE,
                              saved |-> FALSE, ended |-> 0, owed |-> 0]]
  /\ lines = [c \in Kids |-> <<>>]
  /\ notes = {} /\ held = NoNote /\ parent = "work" /\ told = {} /\ hidden = {}
  /\ looked = FALSE /\ crossed = {} /\ sends = 0 /\ deaths = 0

RunningOnceSeen(k) == k.state = "running" \* mutant: a child just launched does not count
Running(k) == k.state \in {"running", "starting"}
Live == {c \in Kids : kid[c].proc /\ Running(kid[c])}

----------------------------------------------------------------------------
(* The monitor *)

(* One line; a turn that ended while children of the child work is put off. *)
Line(k, l, nested) ==
  CASE k.replaying ->
         IF l = "task" THEN [k EXCEPT !.replaying = FALSE, !.state = "running"] ELSE k
    [] ~k.replaying /\ l = "step" ->
         [k EXCEPT !.deferred = FALSE, !.state = IF @ = "stopped" THEN @ ELSE "running"]
    [] ~k.replaying /\ l = "task" -> [k EXCEPT !.deferred = FALSE, !.state = "running"]
    [] ~k.replaying /\ l = "exit" ->
         [k EXCEPT !.turns = @ + 1, !.stop = FALSE, !.deferred = nested /\ ~k.stop,
                   !.state = IF k.stop THEN "stopped" ELSE IF nested THEN "running" ELSE "waiting"]

Read(k, ls, nested) == FoldLeft(LAMBDA a, l : Line(a, l, nested), k, ls)

(* The turns among the lines that are reported: all but those stopped or put off. *)
Ended(k, ls, nested) ==
  {Read(k, SubSeq(ls, 1, i), nested).turns :
     i \in {j \in DOMAIN ls : LET before == Read(k, SubSeq(ls, 1, j - 1), nested)
                              IN ls[j] = "exit" /\ ~before.replaying /\ ~before.stop /\ ~nested}}

Wakes(k, nested) == k.deferred /\ k.state # "stopped" /\ ~k.stop /\ ~nested
Woken(k, nested) == IF Wakes(k, nested) THEN [k EXCEPT !.deferred = FALSE, !.state = "running"] ELSE k

Crashed(k) == ~k.stop /\ k.state \notin {"waiting", "stopped"}
Gone(k) == [k EXCEPT !.proc = FALSE, !.stop = FALSE,
                     !.state = IF k.stop \/ @ = "stopped" THEN "stopped" ELSE "exited"]

(* A pass: the lines are read, then the processes looked at; of a child     *)
(* that ends in between (`late`) the last line is read by the next pass.    *)
(* `shakes`: a member of the wave that ended left a handshake, or a claim   *)
(* that does not hold; its note has turn 0 and comes last.                  *)
Monitor ==
  \E late \in SUBSET {c \in Kids : kid[c].proc /\ agent[c].at = "dead" /\ lines[c] # <<>>},
     shakes \in SUBSET Wave :
    LET now == [c \in Kids |-> IF c \in late THEN Front(lines[c]) ELSE lines[c]]
        read == [c \in Kids |-> Read(kid[c], now[c], agent[c].nested)]
        ended == {<<c, t>> \in Kids \X (1 .. MaxTurns) : t \in Ended(kid[c], now[c], agent[c].nested)}
        woken == [c \in Kids |-> Woken(read[c], agent[c].nested)]
        gone == {c \in Kids : kid[c].proc /\ agent[c].at = "dead"}
        crashed == {<<c, 0>> : c \in {d \in gone : Crashed(woken[d])}}
        ofWave == {e \in ended : e[1] \in Wave}
        last == IF shakes # {} THEN <<Max(shakes), 0>>
                ELSE CHOOSE e \in ofWave : \A f \in ofWave : f[1] < e[1] \/ (f[1] = e[1] /\ f[2] <= e[2])
        kept == IF ofWave = {} THEN held
                ELSE [key |-> last, reports |-> held.reports \cup ofWave]
        over == \A c \in Wave : ~Running(kid'[c])
    IN /\ shakes \subseteq {e[1] : e \in ofWave}
       /\ kid' = [c \in Kids |-> IF c \in gone THEN Gone(woken[c]) ELSE woken[c]]
       /\ lines' = [c \in Kids |-> IF c \in late THEN <<Last(lines[c])>> ELSE <<>>]
       /\ agent' = [c \in Kids |-> IF Wakes(read[c], agent[c].nested)
                                   THEN [agent[c] EXCEPT !.inbox = @ + 1] ELSE agent[c]]
       /\ held' = IF over THEN NoNote ELSE kept
       /\ notes' = notes \cup {[key |-> Nobody, reports |-> {e}] : e \in crashed}
                         \cup {[key |-> e, reports |-> {e}] : e \in ended \ ofWave}
                         \cup (IF over /\ kept # NoNote THEN {kept} ELSE {})
       /\ looked' = TRUE
       /\ UNCHANGED <<parent, told, hidden, crossed, sends, deaths>>

----------------------------------------------------------------------------
(* The children *)

Writes(c, l) == Len(lines[c]) < MaxLines /\ lines' = [lines EXCEPT ![c] = Append(@, l)]
Free(c) == ~agent[c].dying
Hub == <<kid, notes, held, parent, told, hidden, looked, sends>>

(* It ended a turn that the hub has not read.                               *)
Crosses(c) == crossed' = IF "exit" \in Range(lines[c]) THEN crossed \cup {c} ELSE crossed

(* It starts: its task, after the conversation it continues, is saved.      *)
Boot(c) ==
  /\ agent[c].at = "boot" /\ Free(c)
  /\ agent' = [agent EXCEPT ![c].at = "work", ![c].saved = TRUE]
  /\ Writes(c, "task")
  /\ UNCHANGED <<deaths, crossed, Hub>>

Step(c) ==
  /\ agent[c].at = "work" /\ Free(c)
  /\ IF lines[c] = <<>> THEN TRUE ELSE Last(lines[c]) # "step"
  /\ Writes(c, "step")
  /\ UNCHANGED <<agent, deaths, crossed, Hub>>

(* It reads its control file before a step, and while it holds at its exit. *)
Drain(c) ==
  /\ agent[c].at \in {"work", "hold"} /\ Free(c) /\ agent[c].inbox > 0
  /\ agent' = [agent EXCEPT ![c].inbox = 0, ![c].at = "work"]
  /\ Writes(c, "task")
  /\ UNCHANGED <<deaths, crossed, Hub>>

EndTurn(c) ==
  /\ agent[c].at = "work" /\ Free(c) /\ agent[c].ended < MaxTurns
  /\ agent' = [agent EXCEPT ![c].at = "hold", ![c].ended = @ + 1,
                           ![c].owed = IF agent[c].nested THEN @ ELSE agent[c].ended + 1]
  /\ Writes(c, "exit")
  /\ crossed' = IF agent[c].inbox > 0 THEN crossed \cup {c} ELSE crossed
  /\ UNCHANGED <<deaths, Hub>>

Delegate(c) ==
  /\ c \in Delegating /\ agent[c].at = "work" /\ Free(c) /\ ~agent[c].nested
  /\ agent' = [agent EXCEPT ![c].nested = TRUE]
  /\ UNCHANGED <<lines, deaths, crossed, Hub>>

(* Its own children are done, and their report wakes it. *)
Settle(c) ==
  /\ agent[c].nested /\ agent[c].at \in {"work", "hold"}
  /\ agent' = [agent EXCEPT ![c].nested = FALSE, ![c].at = "work"]
  /\ Crosses(c)
  /\ UNCHANGED <<lines, deaths, Hub>>

(* A turn that fails ends the process too, whose own children it stops. *)
Fail(c) ==
  /\ agent[c].at = "work" /\ Free(c) /\ agent[c].ended < MaxTurns
  /\ deaths < MaxDeaths /\ deaths' = deaths + 1
  /\ agent' = [agent EXCEPT ![c].at = "dead", ![c].nested = FALSE, ![c].ended = @ + 1,
                           ![c].owed = agent[c].ended + 1]
  /\ Writes(c, "exit")
  /\ UNCHANGED <<crossed, Hub>>

Die(c) ==
  /\ agent[c].at \in {"boot", "work", "hold"}
  /\ deaths < MaxDeaths /\ deaths' = deaths + 1
  /\ agent' = [agent EXCEPT ![c].at = "dead"]
  /\ UNCHANGED <<lines, crossed, Hub>>

(* SIGINT: what the step added, its exit too, is saved. *)
Obey(c) ==
  /\ agent[c].dying /\ agent[c].at \in {"boot", "work", "hold"}
  /\ \E left \in {"nothing", "step", "exit"} :
       /\ left # "nothing" => agent[c].at = "work"
       /\ left = "exit" => agent[c].ended < MaxTurns
       /\ agent' = [agent EXCEPT ![c].at = "dead", ![c].dying = FALSE, ![c].nested = FALSE,
                                ![c].ended = IF left = "exit" THEN @ + 1 ELSE @]
       /\ IF left = "nothing" THEN UNCHANGED lines ELSE Writes(c, left)
  /\ UNCHANGED <<deaths, crossed, Hub>>

----------------------------------------------------------------------------
(* The run and its commands *)

Command == looked /\ looked' = FALSE
Commands == parent = "work" /\ Command
Children == <<lines, crossed, deaths>>

(* A child is listed as soon as its process is started. *)
Launch(S) ==
  /\ kid' = [c \in Kids |-> IF c \in S THEN [kid[c] EXCEPT !.state = "starting", !.proc = TRUE]
                            ELSE kid[c]]
  /\ agent' = [c \in Kids |-> IF c \in S THEN [agent[c] EXCEPT !.at = "boot"] ELSE agent[c]]

(* spawn, or a batch, which a launch that is refused cuts short. *)
Spawn ==
  /\ Commands
  /\ \E new \in {{c} : c \in Kids \ Wave} \cup {{c \in Wave : c <= d} : d \in Wave} :
       /\ \A c \in new : kid[c].state = "none"
       /\ new \cap Wave # {} => \A c \in Wave : kid[c].state = "none"
       /\ Launch(new)
  /\ UNCHANGED <<notes, held, parent, told, hidden, sends, Children>>

Seen(S) == kid' = [c \in Kids |-> IF c \in S THEN [kid[c] EXCEPT !.seen = kid[c].turns] ELSE kid[c]]

(* wait, until some of them are done or its time is up. *)
Wait ==
  /\ Commands
  /\ \E S \in SUBSET {c \in Kids : kid[c].state # "none"} : Seen({c \in S : ~Running(kid[c])})
  /\ UNCHANGED <<agent, notes, held, parent, told, hidden, sends, Children>>

Result(c) ==
  /\ Commands /\ kid[c].turns > 0 /\ ~Running(kid[c])
  /\ Seen({c})
  /\ UNCHANGED <<agent, notes, held, parent, told, hidden, sends, Children>>

(* A message; a child whose process is gone starts anew on what it saved. *)
Send(c) ==
  /\ Commands /\ kid[c].state # "none" /\ sends < MaxSends /\ sends' = sends + 1
  /\ \/ /\ kid[c].proc
        /\ kid' = [kid EXCEPT ![c].state = "running"]
        /\ agent' = [agent EXCEPT ![c].inbox = @ + 1]
        /\ Crosses(c)
        /\ UNCHANGED lines
     \/ /\ ~kid[c].proc /\ agent[c].saved
        /\ kid' = [kid EXCEPT ![c].state = "running", ![c].proc = TRUE, ![c].replaying = TRUE]
        /\ agent' = [agent EXCEPT ![c].at = "boot", ![c].saved = FALSE, ![c].inbox = 0,
                                   ![c].nested = FALSE, ![c].dying = FALSE, ![c].ended = kid[c].turns,
                                   ![c].owed = IF @ > kid[c].turns THEN 0 ELSE @]
        /\ lines' = [lines EXCEPT ![c] = <<>>]
        /\ UNCHANGED crossed
  /\ UNCHANGED <<notes, held, parent, told, hidden, deaths>>

Stop(c) ==
  /\ Commands /\ kid[c].proc
  /\ kid' = [kid EXCEPT ![c].stop = TRUE]
  /\ agent' = [agent EXCEPT ![c].dying = TRUE]
  /\ Crosses(c)
  /\ UNCHANGED <<lines, notes, held, parent, told, hidden, sends, deaths>>

(* Notes worth delivering: not those of a turn the run already saw. *)
LiveNotes == {n \in notes : n.key # Nobody => kid[n.key[1]].seen < n.key[2]}

Turns(n) == {r \in n.reports : r[2] > 0}

(* take_notes: the run reads them before its next call. *)
Take ==
  /\ told' = told \cup UNION {Turns(n) : n \in LiveNotes}
  /\ hidden' = hidden \cup UNION {Turns(n) \ {n.key} : n \in notes \ LiveNotes}
  /\ notes' = {}

ReadNotes ==
  /\ Commands /\ notes # {} /\ Take
  /\ UNCHANGED <<kid, agent, held, parent, sends, Children>>

Rest ==
  /\ parent = "work" /\ parent' = "hold" /\ looked' = FALSE
  /\ UNCHANGED <<kid, agent, notes, held, told, hidden, sends, Children>>

(* The hold: notes wake the run; it ends when no child works and none came. *)
Hold ==
  /\ parent = "hold" /\ Command /\ Take
  /\ \/ LiveNotes # {} /\ parent' = "work"
     \/ LiveNotes = {} /\ Live = {} /\ parent' = "over"
     \/ LiveNotes = {} /\ notes # {} /\ Live # {} /\ UNCHANGED parent
  /\ UNCHANGED <<kid, agent, held, sends, Children>>

Next ==
  /\ parent # "over"
  /\ \/ Monitor
     \/ Spawn \/ Wait \/ ReadNotes \/ Rest \/ Hold
     \/ \E c \in Kids : \/ Boot(c) \/ Step(c) \/ Drain(c) \/ EndTurn(c) \/ Delegate(c) \/ Settle(c)
                        \/ Fail(c) \/ Die(c) \/ Obey(c)
                        \/ Result(c) \/ Send(c) \/ Stop(c)

Spec == Init /\ [][Next]_vars

----------------------------------------------------------------------------
States == {"none", "starting", "running", "waiting", "stopped", "exited"}
Reports == Kids \X (0 .. MaxTurns)

TypeOK ==
  /\ kid \in [Kids -> [state : States, proc : BOOLEAN, stop : BOOLEAN, turns : 0 .. MaxTurns,
                       seen : 0 .. MaxTurns, replaying : BOOLEAN, deferred : BOOLEAN]]
  /\ agent \in [Kids -> [at : {"none", "boot", "work", "hold", "dead"}, dying : BOOLEAN, inbox : Nat,
                         nested : BOOLEAN, saved : BOOLEAN, ended : 0 .. MaxTurns,
                         owed : 0 .. MaxTurns]]
  /\ \A c \in Kids : lines[c] \in Seq({"step", "task", "exit"})
  /\ \A n \in notes \cup {held} : n.key \in Reports \cup {Nobody} /\ n.reports \subseteq Reports
  /\ crossed \subseteq Kids /\ told \subseteq Reports /\ hidden \subseteq Reports
  /\ looked \in BOOLEAN /\ parent \in {"work", "hold", "over"} /\ sends <= MaxSends /\ deaths <= MaxDeaths

(* A child the hub holds to be at work has a process. *)
WorkHasProcess == \A c \in Kids : Running(kid[c]) => kid[c].proc

(* A run ends by itself only when none of its children works. *)
NoneLeftWorking == parent = "over" => \A c \in Kids \ crossed : agent[c].at \notin {"boot", "work"}

(* And only when it was told the last turn of each: or the report is in a   *)
(* note that another member of the wave made void, or holds up.             *)
Ghost(c) == Running(kid[c]) /\ ~kid[c].proc
EndsInformed ==
  parent = "over" => \A c \in Kids \ crossed :
    LET last == <<c, agent[c].owed>>
    IN \/ kid[c].seen >= last[2] \/ last \in told \cup hidden
       \/ last \in held.reports /\ \E d \in Wave \ {c} : Ghost(d)

=============================================================================
