--------------------------- MODULE TrajectoryJournal ---------------------------
(***************************************************************************)
(* What an agent said, on its way to the conversation its session keeps:   *)
(* the agent's messages and the journal and export it writes of them       *)
(* (agent.rs), the readers of both (traj/watch.ts), and the session of the *)
(* web server that follows the journal, saves what it read and starts the  *)
(* next agent on it (sessions.ts).  Each agent has a trajectory of its own.*)
(*                                                                         *)
(* A file is a sequence of cells, two for each line: its text and its line *)
(* break.  So a write may be cut in a line or between two, and the place a *)
(* reader had reached may be anywhere in a file that was written anew.     *)
(* Left out: the lines that hold no message, `meta` at the start and       *)
(* `info` after each write; the text of fragments; and compaction, which   *)
(* adds one more message.  A step's reply and the results of its tools are *)
(* one message.  Prompts all differ, and an agent that was sent one reads  *)
(* it at once (AgentLoop has the control file between them).               *)
(***************************************************************************)
EXTENDS Naturals, Sequences, FiniteSets, SequencesExt

CONSTANTS
  MaxMessages, \* bound: messages said, prompts included, but not exits
  MaxAgents,   \* bound: agents started for the session
  MaxFailures, \* bound: writes that fail (a full disk)
  MaxDeltas    \* bound: fragments streamed into each journal

VARIABLES
  \* the agent
  mode,      \* none, work, stream, open, write, export, hold, over
  mem,       \* messages
  journaled, \* how many of them the journal has
  todo,      \* cells append_journal has yet to write
  exit,      \* the exit taken off while the run holds
  ending,    \* what the save is for: go on, end the run, die of a signal
  \* its files
  journal,   \* <traj>.jsonl
  export,    \* <traj>.json, the messages in it
  \* the reader of the journal, JournalState
  offset, tail, seen,
  \* the session
  live,      \* it has a run whose exit it did not handle
  consumed, pending, events, msgs,
  \* counters and history
  said, started, failed, deltas,
  base,      \* the conversation the agent was started on
  cut        \* it was killed while it wrote the journal for the first time

agent == <<mode, mem, journaled, todo, exit, ending>>
files == <<journal, export>>
reader == <<offset, tail, seen>>
entry == <<live, consumed, pending, events, msgs>>
history == <<said, started, failed, deltas, base, cut>>
vars == <<agent, files, reader, entry, history>>

Message == [id : 1 .. MaxMessages, kind : {"task", "step", "exit", "notice"}]
Text(kind, n) == [id |-> n, kind |-> kind]

Init ==
  /\ mode = "none" /\ mem = <<>> /\ journaled = 0 /\ todo = <<>> /\ exit = <<>> /\ ending = "no"
  /\ journal = <<>> /\ export = <<>>
  /\ offset = 0 /\ tail = <<>> /\ seen = <<>>
  /\ live = FALSE /\ consumed = 0 /\ pending = {} /\ events = <<>> /\ msgs = <<>>
  /\ said = 0 /\ started = 0 /\ failed = 0 /\ deltas = 0 /\ base = <<>> /\ cut = FALSE

WithoutExits(s) == SelectSeq(s, LAMBDA m : m.kind # "exit")

----------------------------------------------------------------------------
(* The lines of a journal *)

Break == <<"break">>
Delta == <<"delta">>
Msg(m) == <<"msg", m>>

Cells(lines) == FlattenSeq([i \in DOMAIN lines |-> <<lines[i], Break>>])

(* A line that parses: a whole text, alone between two line breaks. *)
IsLine(cells, i) ==
  /\ cells[i] # Break
  /\ i < Len(cells) /\ cells[i + 1] = Break
  /\ i > 1 => cells[i - 1] = Break

LinesOf(cells) ==
  LET at == SelectSeq([i \in DOMAIN cells |-> i], LAMBDA i : IsLine(cells, i))
  IN [k \in DOMAIN at |-> cells[at[k]]]

MessagesOf(cells) ==
  LET lines == SelectSeq(LinesOf(cells), LAMBDA l : l[1] = "msg")
  IN [k \in DOMAIN lines |-> lines[k][2]]

(* There is more than the first line to tell of. *)
Tells(cells) == \E i \in DOMAIN cells : IsLine(cells, i)

(* What append_journal writes: all of it again, when it starts or after a  *)
(* write that failed; else the messages not written yet.                   *)
Entries ==
  [i \in 1 .. Len(mem) - journaled |-> Msg(mem[journaled + i])]

----------------------------------------------------------------------------
(* The agent *)

Add(new) ==
  /\ mem' = mem \o new
  /\ said' = Max({said} \cup {m.id : m \in Range(new)}) /\ said' <= MaxMessages

Save(why) == mode' = "open" /\ ending' = why /\ UNCHANGED <<journaled, todo, exit>>

(* A fragment of the reply: `writeln!` writes the text, then the break. *)
Stream ==
  /\ mode = "work" /\ deltas < MaxDeltas
  /\ journal' = Append(journal, Delta) /\ mode' = "stream" /\ deltas' = deltas + 1
  /\ UNCHANGED <<mem, journaled, todo, exit, ending, export, reader, entry, said, started, failed, base,
                 cut>>

StreamBreak ==
  /\ mode = "stream"
  /\ journal' = Append(journal, Break) /\ mode' = "work"
  /\ UNCHANGED <<mem, journaled, todo, exit, ending, export, reader, entry, history>>

(* A step and its save; the turn may end with it, or at a limit without.   *)
Step ==
  /\ mode = "work"
  /\ \E new \in {<<Text("step", said + 1)>>, <<Text("exit", said)>>,
                 <<Text("step", said + 1), Text("exit", said + 1)>>} : Add(new)
  /\ Save("no")
  /\ UNCHANGED <<files, reader, entry, started, failed, deltas, base, cut>>

(* append_journal opens the file, and empties it when it starts anew. *)
Open ==
  /\ mode = "open"
  /\ journal' = IF journaled = 0 THEN <<>> ELSE journal
  /\ todo' = Cells(Entries) /\ mode' = "write"
  /\ UNCHANGED <<mem, journaled, exit, ending, export, reader, entry, history>>

Write ==
  /\ mode = "write"
  /\ \E n \in Min({1, Len(todo)}) .. Len(todo) :
       /\ journal' = journal \o SubSeq(todo, 1, n)
       /\ todo' = SubSeq(todo, n + 1, Len(todo))
  /\ IF todo' = <<>> THEN journaled' = Len(mem) /\ mode' = "export"
     ELSE UNCHANGED <<journaled, mode>>
  /\ UNCHANGED <<mem, exit, ending, export, reader, entry, history>>

(* It may fail to open the file, or to write all of it. *)
WriteFails ==
  /\ mode \in {"open", "write"} /\ failed < MaxFailures
  /\ failed' = failed + 1
  /\ journaled' = 0 /\ todo' = <<>> /\ mode' = "export"
  /\ UNCHANGED <<mem, exit, ending, files, reader, entry, said, started, deltas, base, cut>>

AtExit == mem # <<>> /\ Last(mem).kind = "exit"

(* The rest of `save`: the export, when one is due, at an exit or at the   *)
(* end, unless its write fails; and what the run does next.                *)
Export ==
  /\ mode = "export"
  /\ \/ export' = mem /\ UNCHANGED failed
     \/ ~AtExit /\ ending # "end" /\ UNCHANGED <<export, failed>>
     \/ failed < MaxFailures /\ failed' = failed + 1 /\ UNCHANGED export
  /\ IF ending = "no" /\ AtExit
     THEN /\ exit' = <<Last(mem)>> /\ mem' = Front(mem)
          /\ journaled' = Min({journaled, Len(mem) - 1}) /\ mode' = "hold"
     ELSE mode' = (IF ending = "no" THEN "work" ELSE "over") /\ UNCHANGED <<mem, journaled, exit>>
  /\ UNCHANGED <<todo, ending, journal, reader, entry, said, started, deltas, base, cut>>

(* The run ends: the exit is put back, and the verification phase may have *)
(* something to add.                                                       *)
End ==
  /\ mode = "hold"
  /\ \/ mem' = mem \o exit /\ mode' = "over" /\ UNCHANGED <<journaled, todo, exit, ending, said>>
     \/ Add(exit \o <<Text("notice", said + 1)>>) /\ Save("end")
  /\ UNCHANGED <<files, reader, entry, started, failed, deltas, base, cut>>

(* SIGINT: during a step what it added stays and is saved; at the exit     *)
(* nothing is.                                                             *)
Interrupt ==
  /\ \/ mode = "hold" /\ mode' = "over" /\ UNCHANGED <<mem, journaled, todo, exit, ending, said>>
     \/ /\ mode = "work" /\ Save("die")
        /\ (Add(<<>>) \/ Add(<<Text("step", said + 1)>>))
  /\ UNCHANGED <<files, reader, entry, started, failed, deltas, base, cut>>

Killed ==
  /\ mode \notin {"none", "over"}
  /\ mode' = "over" /\ todo' = <<>>
  /\ cut' = (cut \/ (mode = "write" /\ journaled = 0))
  /\ UNCHANGED <<mem, journaled, exit, ending, files, reader, entry, said, started, failed, deltas, base>>

----------------------------------------------------------------------------
(* The session *)

(* #ingest: a shorter trajectory is read again from its start, one of the  *)
(* length already read changes nothing, else what is new is shown, less    *)
(* the prompts that were shown when they were sent.                        *)
Ingest(m) ==
  LET again == Len(m) < consumed
      from == IF again THEN 0 ELSE consumed
      expected == IF again THEN {} ELSE pending
      new == SubSeq(m, from + 1, Len(m))
  IN /\ consumed' = Len(m)
     /\ events' = (IF again THEN <<>> ELSE events) \o SelectSeq(new, LAMBDA x : x \notin expected)
     /\ pending' = expected \ Range(new)
     /\ msgs' = IF new = <<>> THEN msgs ELSE m

CompleteOrNot(data) == data \* mutant: a line is consumed before it is all there

(* Only complete lines are consumed; the rest waits for the next append. *)
Complete(data) ==
  LET breaks == {i \in DOMAIN data : data[i] = Break}
  IN IF breaks = {} THEN <<>> ELSE SubSeq(data, 1, Max(breaks))

(* consumeJournal, and the callback when it found something. *)
Poll ==
  /\ live /\ Len(journal) # offset
  /\ LET anew == Len(journal) < offset
         from == IF anew THEN 0 ELSE offset
         data == (IF anew THEN <<>> ELSE tail) \o SubSeq(journal, from + 1, Len(journal))
         whole == Complete(data)
     IN /\ offset' = Len(journal)
        /\ tail' = SubSeq(data, Len(whole) + 1, Len(data))
        /\ seen' = (IF anew THEN <<>> ELSE seen) \o MessagesOf(whole)
        /\ IF Tells(whole) THEN Ingest(seen') ELSE UNCHANGED <<consumed, pending, events, msgs>>
  /\ UNCHANGED <<agent, files, live, history>>

(* readTrajectory: the journal if it has a message, else the export. *)
ReadOnce == IF MessagesOf(journal) # <<>> THEN MessagesOf(journal) ELSE export

(* The exit handler: a last read of everything. *)
Exited ==
  /\ live /\ mode = "over"
  /\ live' = FALSE
  /\ IF ReadOnce # <<>> THEN Ingest(ReadOnce) ELSE UNCHANGED <<consumed, pending, events, msgs>>
  /\ UNCHANGED <<agent, files, reader, history>>

(* A prompt for an agent that runs: it is one more message, and saved. *)
Send ==
  /\ live /\ mode \in {"work", "hold"}
  /\ LET task == Text("task", said + 1)
     IN Add(<<task>>) /\ events' = Append(events, task) /\ pending' = pending \cup {task}
  /\ Save("no")
  /\ UNCHANGED <<files, reader, live, consumed, msgs, started, failed, deltas, base, cut>>

(* A new agent: the first one on a prompt, shown when the journal has it;  *)
(* each later one on the conversation the session keeps.  It leaves out    *)
(* the exits, adds the prompt and saves.                                   *)
Start ==
  /\ ~live /\ started < MaxAgents /\ started' = started + 1
  /\ started > 0 => msgs # <<>>
  /\ said < MaxMessages /\ said' = said + 1
  /\ LET task == Text("task", said + 1)
     IN /\ mem' = Append(WithoutExits(msgs), task)
        /\ IF started = 0 THEN UNCHANGED <<events, pending>>
           ELSE events' = Append(events, task) /\ pending' = pending \cup {task}
  /\ mode' = "open" /\ journaled' = 0 /\ todo' = <<>> /\ exit' = <<>> /\ ending' = "no"
  /\ journal' = <<>> /\ export' = <<>> /\ deltas' = 0
  /\ offset' = 0 /\ tail' = <<>> /\ seen' = <<>>
  /\ live' = TRUE /\ consumed' = Len(msgs) /\ base' = msgs
  /\ UNCHANGED <<msgs, failed, cut>>

Next ==
  \/ Stream \/ StreamBreak \/ Step \/ Open \/ Write \/ WriteFails \/ Export \/ End
  \/ Interrupt \/ Killed
  \/ Poll \/ Exited \/ Send \/ Start

Spec == Init /\ [][Next]_vars

----------------------------------------------------------------------------
TypeOK ==
  /\ mode \in {"none", "work", "stream", "open", "write", "export", "hold", "over"}
  /\ {mem, export, seen, events, msgs, base} \subseteq Seq(Message)
  /\ journaled \in 0 .. Len(mem) /\ ending \in {"no", "end", "die"}
  /\ offset \in Nat /\ consumed \in Nat
  /\ live \in BOOLEAN /\ cut \in BOOLEAN /\ pending \subseteq Message
  /\ said <= MaxMessages /\ started <= MaxAgents /\ failed <= MaxFailures /\ deltas <= MaxDeltas

(* Between two saves the journal says what the agent's cursor claims: what *)
(* a reader makes of it, with its torn lines, is the conversation so far.  *)
JournalIsMemory ==
  journaled > 0 /\ mode \notin {"open", "write", "over"}
    => WithoutExits(MessagesOf(journal)) = WithoutExits(SubSeq(mem, 1, journaled))

(* As long as no write failed, reading the journal bit by bit gives what   *)
(* reading it at once would have given.                                    *)
BitsAreWhole == failed = 0 => seen = MessagesOf(SubSeq(journal, 1, offset))

(* As long as no write failed, nothing but an exit is shown twice. *)
ShownOnce ==
  failed = 0 => \A i, j \in DOMAIN events : i # j /\ events[i] = events[j] => events[i].kind = "exit"

(* When an agent is gone, the conversation the session keeps for the next  *)
(* one is all that this one saved.  Excepted: writes that failed, a first  *)
(* write cut short, and a trajectory as long as the conversation the agent *)
(* was started on, which #ingest takes for nothing new.                    *)
ConversationKept ==
  ~live /\ failed = 0 /\ ~cut
    => \/ IsPrefix(WithoutExits(SubSeq(mem, 1, journaled)), WithoutExits(msgs))
       \/ Len(MessagesOf(journal)) = Len(base)

=============================================================================
