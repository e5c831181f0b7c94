---------------------------- MODULE ServiceProofs ----------------------------
(***************************************************************************)
(* What is proved of parts that MCServices puts side by side, for any      *)
(* values of their constants.  Of TuiSession: its types, and that no agent *)
(* of the terminal is left behind.  Of Humans: what the human is told is   *)
(* true.  Of Calls: what is asked of a child process, a model or a worker  *)
(* comes back honestly.                                                    *)
(***************************************************************************)
EXTENDS TuiSession, Humans, Calls, TLAPS, FiniteSetTheorems, SequenceTheorems

Bounds == MaxSaved \in Nat /\ MaxRuns \in Nat /\ MaxOpens \in Nat

Mine(r) == agents[r].own /\ agents[r].at = "live"

\* The handle of attachMini never holds an agent of this terminal that works: it would be
\* let go of, where kill() has to end it.
AttachedIsForeign == attached /\ run # 0 => ~Mine(run)

\* An agent that works belongs to a session, so its row in live_runs is one of the table.
MineHasSession == \A r \in Runs : Mine(r) => agents[r].session \in Sessions

Held == NoAgentLeftBehind /\ AttachedIsForeign /\ MineHasSession

Inv == TypeOK /\ Held

-----------------------------------------------------------------------------
\* Signalling changes no agent but from live to dying.
LEMMA SignalledAgents ==
    ASSUME TypeOK, NEW rs
    PROVE  /\ Signalled(rs) \in [Runs -> Agent]
           /\ \A r \in Runs : Signalled(rs)[r].own = agents[r].own
           /\ \A r \in Runs : Signalled(rs)[r].at = "live" => agents[r].at = "live" /\ r \notin rs
  <1>1. agents \in [Runs -> Agent] BY DEF TypeOK
  <1>2. ASSUME NEW r \in Runs
        PROVE  /\ Signalled(rs)[r] \in Agent
               /\ Signalled(rs)[r].own = agents[r].own
               /\ Signalled(rs)[r].at = "live" => agents[r].at = "live" /\ r \notin rs
    BY <1>1 DEF Signalled, Agent
  <1>3. Signalled(rs) \in [Runs -> Agent] BY <1>2 DEF Signalled
  <1> QED BY <1>2, <1>3

\* What a save stores is a conversation under a session.
LEMMA KeptTyped ==
    ASSUME TypeOK
    PROVE  Kept \in [Sessions -> Sessions]
  BY DEF TypeOK, Kept

\* A new agent takes an unused record and leaves the others as they are.
LEMMA SpawnedAgents ==
    ASSUME TypeOK, NEW r \in Runs, NEW own \in BOOLEAN, NEW s \in Sessions, NEW talk \in Sessions,
           Spawn(r, own, s, talk)
    PROVE  /\ agents' \in [Runs -> Agent]
           /\ agents[r].at = "none"
           /\ agents'[r] = [at |-> "live", own |-> own, session |-> s, talk |-> talk]
           /\ \A q \in Runs \ {r} : agents'[q] = agents[q]
  BY DEF TypeOK, Spawn, Agent

\* At the start there is no agent.
LEMMA InitInv == ASSUME Bounds PROVE Init => Inv
  <1> SUFFICES ASSUME Init PROVE Inv OBVIOUS
  <1>1. \A r \in Runs : agents[r] = NoAgent BY DEF Init
  <1>2. NoAgent \in Agent BY DEF NoAgent, Agent
  <1>3. TypeOK
    <2>1. agents \in [Runs -> Agent] BY <1>2 DEF Init
    <2>2. saved \in [Sessions -> Sessions] /\ rows \in [Sessions -> {0} \cup Runs] BY DEF Init
    <2>3. up \in BOOLEAN /\ attached \in BOOLEAN /\ exited \in BOOLEAN BY Zenon DEF Init
    <2>4. /\ session = 0 /\ view = 0 /\ run = 0 /\ watch = 0 /\ attaching = {} /\ opens = 0
          /\ 0 \in 0 .. MaxOpens
      BY DEF Init, Bounds
    <2> QED BY <2>1, <2>2, <2>3, <2>4 DEF TypeOK
  <1>4. NoAgentLeftBehind BY <1>1 DEF NoAgentLeftBehind, NoAgent
  <1>5. AttachedIsForeign BY DEF Init, AttachedIsForeign
  <1>6. MineHasSession BY <1>1 DEF MineHasSession, Mine, NoAgent
  <1> QED BY <1>3, <1>4, <1>5, <1>6 DEF Inv, Held

-----------------------------------------------------------------------------
(* Types, one lemma per action.                                                *)

\* The actions that start an agent here.
LEMMA StartTyped ==
    ASSUME Bounds, TypeOK, NEW r \in Runs, Start(r)
    PROVE  /\ agents' \in [Runs -> Agent] /\ rows' \in [Sessions -> {0} \cup Runs]
           /\ session' \in Sessions /\ view' \in Sessions /\ run' = r /\ watch' = r
           /\ attached' = FALSE /\ exited' = FALSE
           /\ \E s, talk \in Sessions : Spawn(r, TRUE, s, talk) /\ Announce(s, r)
  <1> DEFINE s == IF session = 0 THEN MaxSaved + r ELSE session
             talk == IF view = 0 THEN s ELSE view
  <1>1. s \in Sessions /\ talk \in Sessions BY DEF Bounds, TypeOK, Runs, Sessions
  <1>2. /\ Spawn(r, TRUE, s, talk) /\ Announce(s, r) /\ session' = s /\ view' = talk
        /\ run' = r /\ watch' = r /\ attached' = FALSE /\ exited' = FALSE
    BY DEF Start
  <1>3. agents' \in [Runs -> Agent] BY <1>1, <1>2, SpawnedAgents
  <1>4. rows' \in [Sessions -> {0} \cup Runs] BY <1>2 DEF Announce, TypeOK
  <1> QED BY <1>1, <1>2, <1>3, <1>4

\* The variables keep their types.
LEMMA TypeStep == ASSUME Bounds, TypeOK, [Next]_vars PROVE TypeOK'
  <1> USE DEF Agent
  <1>1. ASSUME NEW r \in Runs, AgentEnds(r) PROVE TypeOK'
    BY <1>1 DEF AgentEnds, TypeOK, terminal
  <1>2. ASSUME NEW r \in Runs, WebExit(r) PROVE TypeOK'
    BY <1>2 DEF WebExit, Withdraw, TypeOK, terminal
  <1>3. ASSUME NEW r \in Runs, PromptStarts(r) \/ Compact(r) PROVE TypeOK'
    <2>1. Start(r) BY <1>3 DEF PromptStarts, Compact
    <2> QED BY <1>3, <2>1, StartTyped DEF PromptStarts, Compact, TypeOK
  <1>4. ASSUME NEW r \in Runs, OwnExit(r) PROVE TypeOK'
    BY <1>4 DEF OwnExit, Withdraw, TypeOK
  <1>5. ASSUME NEW r \in Runs, Attach(r) PROVE TypeOK'
    <2>1. attached' \in BOOLEAN /\ exited' \in BOOLEAN BY <1>5, Zenon DEF Attach, TypeOK
    <2>2. run' \in {0} \cup Runs /\ watch' \in {0} \cup Runs /\ view' \in {0} \cup Sessions
      BY <1>5 DEF Attach, TypeOK
    <2>3. agents' \in [Runs -> Agent] BY <1>5, SignalledAgents DEF Attach, TypeOK
    <2>4. attaching' \subseteq Runs /\ UNCHANGED <<up, session, saved, rows, opens>>
      BY <1>5 DEF Attach, TypeOK
    <2> QED BY <2>1, <2>2, <2>3, <2>4 DEF TypeOK
  <1>6. ASSUME NEW r \in Runs, NEW s \in Sessions, WebStarts(s, r) PROVE TypeOK'
    <2>1. Spawn(r, FALSE, s, s) /\ Announce(s, r) BY <1>6 DEF WebStarts
    <2>2. agents' \in [Runs -> Agent] BY <2>1, SpawnedAgents
    <2> QED BY <1>6, <2>1, <2>2 DEF WebStarts, Announce, TypeOK, terminal
  <1>7. ASSUME NEW s \in Sessions, Open(s) PROVE TypeOK'
    BY <1>7 DEF Open, TypeOK, Bounds
  <1>8. ASSUME Snapshot \/ AttachedExit PROVE TypeOK'
    <2>1. exited' \in BOOLEAN BY <1>8, Zenon DEF Snapshot, AttachedExit, TypeOK
    <2>2. watch' \in {0} \cup Runs /\ view' \in {0} \cup Sessions
      BY <1>8 DEF Snapshot, AttachedExit, Follows, TypeOK
    <2>3. UNCHANGED <<up, session, run, attached, saved, agents, rows, attaching, opens>>
      BY <1>8 DEF Snapshot, AttachedExit
    <2> QED BY <2>1, <2>2, <2>3 DEF TypeOK
  <1>9. ASSUME Save PROVE TypeOK' BY <1>9, KeptTyped DEF Save, TypeOK, terminal
  <1>10. ASSUME Interrupt PROVE TypeOK'
    BY <1>10, SignalledAgents DEF Interrupt, TypeOK, terminal
  <1>11. ASSUME New PROVE TypeOK'
    <2>1. attached' \in BOOLEAN /\ exited' \in BOOLEAN BY <1>11, Zenon DEF New
    <2>2. saved' \in [Sessions -> Sessions] /\ agents' \in [Runs -> Agent]
      BY <1>11, KeptTyped, SignalledAgents DEF New
    <2>3. /\ session' = 0 /\ run' = 0 /\ watch' = 0 /\ view' = 0 /\ opens' \in 0 .. MaxOpens
          /\ UNCHANGED <<up, rows, attaching>>
      BY <1>11 DEF New, TypeOK, Bounds
    <2> QED BY <2>1, <2>2, <2>3 DEF TypeOK
  <1>12. ASSUME Quit PROVE TypeOK'
    BY <1>12, KeptTyped, SignalledAgents DEF Quit, TypeOK
  <1>13. ASSUME UNCHANGED vars PROVE TypeOK' BY <1>13 DEF vars, terminal, TypeOK
  <1> QED BY <1>1, <1>2, <1>3, <1>4, <1>5, <1>6, <1>7, <1>8, <1>9, <1>10, <1>11, <1>12, <1>13
          DEF Next

-----------------------------------------------------------------------------
(* Nobody is left behind.                                                      *)

\* An agent of the terminal that works is the one it follows.
LEMMA MineIsFollowed ==
    ASSUME Inv, NEW q \in Runs, Mine(q)
    PROVE  /\ up /\ run = q /\ ~exited /\ rows[agents[q].session] = q /\ ~attached
           /\ q # 0 /\ Follows /\ Alive(q) /\ q \in Own /\ agents[q].session \in Sessions
  <1>1. up /\ run = q /\ ~exited /\ rows[agents[q].session] = q
    BY DEF Inv, Held, NoAgentLeftBehind, Mine
  <1>2. q # 0 BY DEF Runs
  <1>3. ~attached BY <1>1, <1>2 DEF Inv, Held, AttachedIsForeign
  <1>4. agents[q].session \in Sessions BY DEF Inv, Held, MineHasSession
  <1> QED BY <1>1, <1>2, <1>3, <1>4 DEF Follows, Alive, Mine, Own

\* A step after which nobody works who did not, and what is followed and announced for those
\* who do is as before.
LEMMA QuietStep ==
    ASSUME Inv, TypeOK', attached' => attached,
           \A q \in Runs : Mine(q)' => /\ Mine(q) /\ agents'[q].session = agents[q].session
                                       /\ rows'[agents[q].session] = rows[agents[q].session]
                                       /\ up' /\ run' = run /\ ~exited'
    PROVE  Held'
  <1>1. ASSUME NEW q \in Runs, Mine(q)'
        PROVE  /\ up' /\ run' = q /\ ~exited' /\ rows'[agents'[q].session] = q /\ ~attached'
               /\ agents'[q].session \in Sessions
    BY <1>1, MineIsFollowed
  <1>2. NoAgentLeftBehind' BY <1>1 DEF NoAgentLeftBehind, Mine
  <1>3. AttachedIsForeign' BY <1>1 DEF AttachedIsForeign, TypeOK
  <1>4. MineHasSession' BY <1>1 DEF MineHasSession, Sessions
  <1> QED BY <1>2, <1>3, <1>4 DEF Held

\* The exit of another agent takes no row from one that works.
LEMMA WithdrawKeeps ==
    ASSUME Inv, NEW r \in Runs, Withdraw(r), NEW q \in Runs, q # r, Mine(q)
    PROVE  rows'[agents[q].session] = rows[agents[q].session]
  <1>1. rows[agents[q].session] = q /\ agents[q].session \in Sessions BY MineIsFollowed
  <1> QED BY <1>1 DEF Withdraw

\* A prompt or /compact: nothing is followed, so nobody works, until the new agent does.
LEMMA StartKeeps ==
    ASSUME Bounds, Inv, TypeOK', NEW r \in Runs, PromptStarts(r) \/ Compact(r)
    PROVE  Held'
  <1>1. Start(r) /\ ~Follows /\ up' = TRUE
    BY DEF PromptStarts, Compact, Inv, TypeOK
  <1>2. TypeOK BY DEF Inv
  <1>3. PICK s, talk \in Sessions : Spawn(r, TRUE, s, talk) /\ Announce(s, r)
    BY <1>1, <1>2, StartTyped
  <1>4. /\ agents'[r] = [at |-> "live", own |-> TRUE, session |-> s, talk |-> talk]
        /\ \A q \in Runs \ {r} : agents'[q] = agents[q]
    BY <1>2, <1>3, SpawnedAgents
  <1>5. run' = r /\ attached' = FALSE /\ exited' = FALSE BY <1>1, <1>2, StartTyped
  <1>6. rows'[s] = r BY <1>2, <1>3 DEF Announce, TypeOK
  <1>7. \A q \in Runs : Mine(q)' => q = r BY <1>1, <1>4, MineIsFollowed DEF Mine
  <1>8. NoAgentLeftBehind' BY <1>1, <1>4, <1>5, <1>6, <1>7 DEF NoAgentLeftBehind, Mine
  <1>9. MineHasSession' BY <1>4, <1>7 DEF MineHasSession, Mine, Sessions
  <1> QED BY <1>5, <1>8, <1>9 DEF AttachedIsForeign, Held

\* The web app starts an agent only where no announced one lives.
LEMMA WebStartKeeps ==
    ASSUME Inv, TypeOK', NEW r \in Runs, NEW s \in Sessions, WebStarts(s, r)
    PROVE  Held'
  <1>1. Spawn(r, FALSE, s, s) /\ Announce(s, r) /\ ~Alive(rows[s]) /\ UNCHANGED terminal
    BY DEF WebStarts
  <1>2. TypeOK BY DEF Inv
  <1>3. ~agents'[r].own /\ \A q \in Runs \ {r} : agents'[q] = agents[q]
    <2>1. FALSE \in BOOLEAN /\ s \in Sessions OBVIOUS
    <2>2. /\ agents'[r] = [at |-> "live", own |-> FALSE, session |-> s, talk |-> s]
          /\ \A q \in Runs \ {r} : agents'[q] = agents[q]
      BY <1>1, <1>2, <2>1, SpawnedAgents
    <2> QED BY <2>2
  <1>4. ASSUME NEW q \in Runs, Mine(q)'
        PROVE  /\ Mine(q) /\ agents'[q].session = agents[q].session
               /\ rows'[agents[q].session] = rows[agents[q].session]
               /\ up' /\ run' = run /\ ~exited'
    <2>1. Mine(q) /\ agents'[q] = agents[q] BY <1>3, <1>4 DEF Mine
    <2>2. /\ up /\ ~exited /\ rows[agents[q].session] = q /\ Alive(q)
          /\ agents[q].session \in Sessions
      BY <2>1, MineIsFollowed
    <2>3. agents[q].session # s BY <1>1, <2>2
    <2>4. rows'[agents[q].session] = rows[agents[q].session]
      BY <1>1, <1>2, <2>2, <2>3 DEF Announce, TypeOK
    <2> QED BY <1>1, <2>1, <2>2, <2>4 DEF terminal
  <1> QED BY <1>1, <1>4, QuietStep DEF terminal

\* Attaching ends what was followed, if it was an agent of the terminal.
LEMMA AttachKeeps ==
    ASSUME Inv, TypeOK', NEW r \in Runs, Attach(r)
    PROVE  Held'
  <1>1. TypeOK BY DEF Inv
  <1>2. CASE Alive(r)
    <2>1. agents' = Signalled(Own) BY <1>2 DEF Attach
    <2>2. ASSUME NEW q \in Runs, Mine(q)' PROVE FALSE
      <3>1. Mine(q) /\ q \notin Own BY <1>1, <2>1, <2>2, SignalledAgents DEF Mine
      <3> QED BY <3>1, MineIsFollowed
    <2> QED BY <2>2 DEF Held, NoAgentLeftBehind, AttachedIsForeign, MineHasSession, Mine, TypeOK
  <1>3. CASE ~Alive(r)
    <2>1. UNCHANGED <<up, run, attached, exited, agents, rows>> BY <1>3 DEF Attach
    <2> QED BY <2>1 DEF Inv, Held, NoAgentLeftBehind, AttachedIsForeign, MineHasSession, Mine, Sessions
  <1> QED BY <1>2, <1>3

\* /new and quitting end every agent of the terminal that works.
LEMMA EndKeeps ==
    ASSUME Inv, TypeOK', New \/ Quit
    PROVE  Held'
  <1>1. TypeOK BY DEF Inv
  <1>2. ASSUME NEW q \in Runs, Mine(q)' PROVE FALSE
    <2>1. CASE New
      <3>1. agents' = Signalled(Own) BY <2>1 DEF New
      <3>2. Mine(q) /\ q \notin Own BY <1>1, <1>2, <3>1, SignalledAgents DEF Mine
      <3> QED BY <3>2, MineIsFollowed
    <2>2. CASE Quit
      <3> DEFINE mine == {r \in Runs : agents[r].own}
      <3>1. agents' = Signalled(mine) BY <2>2 DEF Quit
      <3>2. Mine(q) /\ q \notin mine
        <4> HIDE DEF mine
        <4> QED BY <1>1, <1>2, <3>1, SignalledAgents DEF Mine
      <3> QED BY <3>2 DEF Mine
    <2> QED BY <2>1, <2>2
  <1> QED BY <1>2 DEF Held, NoAgentLeftBehind, AttachedIsForeign, MineHasSession, Mine, TypeOK

-----------------------------------------------------------------------------
\* Every action of the terminal, its agents and the web app keeps the invariant.
LEMMA NextInv == ASSUME Bounds, Inv, [Next]_vars PROVE Inv'
  <1>1. TypeOK BY DEF Inv
  <1>2. TypeOK' BY <1>1, TypeStep
  <1>3. ASSUME NEW r \in Runs, AgentEnds(r) PROVE Held'
    <2>1. UNCHANGED <<terminal, rows>> /\ agents' = [agents EXCEPT ![r].at = "gone"]
      BY <1>3 DEF AgentEnds
    <2>2. \A q \in Runs : Mine(q)' => Mine(q) /\ agents'[q].session = agents[q].session
      BY <1>1, <2>1 DEF Mine, TypeOK, Agent
    <2> QED BY <1>2, <2>1, <2>2, MineIsFollowed, QuietStep DEF terminal
  <1>4. ASSUME NEW r \in Runs, WebExit(r) PROVE Held'
    <2>1. UNCHANGED terminal /\ agents' = [agents EXCEPT ![r].at = "over"] /\ Withdraw(r)
      BY <1>4 DEF WebExit
    <2>2. \A q \in Runs : Mine(q)' =>
             q # r /\ Mine(q) /\ agents'[q].session = agents[q].session
      BY <1>1, <2>1 DEF Mine, TypeOK, Agent
    <2> QED BY <1>2, <2>1, <2>2, MineIsFollowed, WithdrawKeeps, QuietStep DEF terminal
  <1>5. ASSUME NEW r \in Runs, OwnExit(r) PROVE Held'
    <2>1. /\ agents[r].at = "gone" /\ agents' = [agents EXCEPT ![r].at = "over"] /\ Withdraw(r)
          /\ up' = up /\ run' = run /\ attached' = attached
          /\ (run # r => exited' = exited)
      BY <1>5 DEF OwnExit
    <2>2. \A q \in Runs : Mine(q)' =>
             q # r /\ Mine(q) /\ agents'[q].session = agents[q].session
      BY <1>1, <2>1 DEF Mine, TypeOK, Agent
    <2> QED BY <1>2, <2>1, <2>2, MineIsFollowed, WithdrawKeeps, QuietStep
  <1>6. ASSUME AttachedExit PROVE Held'
    <2>1. attached /\ attached' = attached /\ UNCHANGED agents BY <1>6 DEF AttachedExit
    <2>2. \A q \in Runs : ~Mine(q)' BY <2>1, MineIsFollowed DEF Mine
    <2> QED BY <1>2, <2>1, <2>2, QuietStep
  <1>7. ASSUME Interrupt PROVE Held'
    <2>1. UNCHANGED <<terminal, rows>> /\ agents' = Signalled({run}) BY <1>7 DEF Interrupt
    <2>2. \A q \in Runs : ~Mine(q)'
      BY <1>1, <2>1, SignalledAgents, MineIsFollowed DEF Mine
    <2> QED BY <1>2, <2>1, <2>2, QuietStep DEF terminal
  <1>8. ASSUME UNCHANGED <<up, run, attached, exited, agents, rows>> PROVE Held'
    BY <1>8 DEF Inv, Held, NoAgentLeftBehind, AttachedIsForeign, MineHasSession, Mine, Sessions
  <1>9. CASE Snapshot \/ Save \/ UNCHANGED vars \/ \E s \in Sessions : Open(s)
    <2>1. UNCHANGED <<up, run, attached, exited, agents, rows>>
      BY <1>9 DEF Snapshot, Save, Open, vars, terminal
    <2> QED BY <1>2, <1>8, <2>1 DEF Inv
  <1>10. Held'
    BY <1>2, <1>3, <1>4, <1>5, <1>6, <1>7, <1>9, StartKeeps, WebStartKeeps, AttachKeeps, EndKeeps
    DEF Next, Inv
  <1> QED BY <1>2, <1>10 DEF Inv

\* The strengthened invariant holds throughout.
LEMMA TuiInvariant == ASSUME Bounds PROVE Spec => []Inv
  <1>1. Init => Inv BY InitInv
  <1>2. Inv /\ [Next]_vars => Inv' BY NextInv
  <1> QED BY <1>1, <1>2, PTL DEF Spec

\* Every variable of the terminal, its agents and the tables keeps its type.
THEOREM TypeCorrect == ASSUME Bounds PROVE Spec => []TypeOK
  <1>1. Inv => TypeOK BY DEF Inv
  <1> QED BY <1>1, TuiInvariant, PTL

\* Whatever is opened, attached to, begun anew, interrupted or quit, in whatever order the exits
\* of older agents come in: an agent of the terminal that was not told to end is the one it
\* follows, and the other UIs find it.
THEOREM NobodyIsLeftBehind == ASSUME Bounds PROVE Spec => []NoAgentLeftBehind
  <1>1. Inv => NoAgentLeftBehind BY DEF Inv, Held
  <1> QED BY <1>1, TuiInvariant, PTL

-----------------------------------------------------------------------------
(* What is proved of Humans.                                                     *)

HandoffBounds == MaxAsks \in Nat /\ MaxRestarts \in Nat

(* Somebody waits for the newest request only, which has no answer yet. *)
NewestWaits == waiter # 0 => waiter = Len(ask) /\ ask[waiter].answer = "none"

HandoffInv ==
  /\ Handoff!TypeOK /\ Handoff!CardIsWaitedFor /\ Handoff!AnswersAreTrue
  /\ NewestWaits


LEMMA HandoffAsk ==
  ASSUME HandoffBounds, HandoffInv, Handoff!Ask
  PROVE HandoffInv'
  <1> DEFINE i == Len(ask) + 1
  <1>a. ask \in Seq(Handoff!Call) /\ Len(ask) \in Nat /\ DOMAIN ask = 1..Len(ask) BY DEF HandoffInv, Handoff!TypeOK
  <1>1. i \in 1..i /\ 0..Len(ask) \subseteq 0..i /\ 1..Len(ask) \subseteq 1..i BY <1>a
  <1>2. PICK r : /\ ask' = Append(ask, r)
                 /\ \/ /\ r = [timer |-> TRUE, answer |-> "none"]
                       /\ card' = i /\ waiter' = i /\ noted' = noted
                    \/ /\ r = [timer |-> FALSE, answer |-> "not-waited"]
                       /\ card' = 0 /\ waiter' = 0 /\ noted' = noted \union {i}
    BY DEF Handoff!Ask
  <1>3. r \in Handoff!Call
    <2>1. CASE r = [timer |-> TRUE, answer |-> "none"] BY <2>1 DEF Handoff!Call
    <2>2. CASE r = [timer |-> FALSE, answer |-> "not-waited"] BY <2>2 DEF Handoff!Call
    <2> QED BY <1>2, <2>1, <2>2
  <1>4. /\ ask' \in Seq(Handoff!Call) /\ Len(ask') = i /\ ask'[i] = r
        /\ \A j \in 1..Len(ask) : ask'[j] = ask[j]
        /\ DOMAIN ask' = 1..i
    BY <1>a, <1>2, <1>3
  <1>5. shown' = shown /\ pressed' = pressed /\ restarts' = restarts BY DEF Handoff!Ask
  <1>6. Handoff!TypeOK' BY <1>1, <1>2, <1>4, <1>5 DEF HandoffInv, Handoff!TypeOK
  <1>7. Handoff!CardIsWaitedFor' BY <1>1, <1>2, <1>4, <1>5 DEF HandoffInv, Handoff!TypeOK, Handoff!CardIsWaitedFor
  <1>8. Handoff!AnswersAreTrue' BY <1>1, <1>2, <1>4, <1>5, <1>a DEF HandoffInv, Handoff!TypeOK, Handoff!AnswersAreTrue
  <1>9. NewestWaits' BY <1>1, <1>2, <1>4, <1>5 DEF HandoffInv, Handoff!TypeOK, NewestWaits
  <1> QED BY <1>6, <1>7, <1>8, <1>9 DEF HandoffInv

(* A call that ends is the one somebody waits for, or it ended before. *)
LEMMA HandoffTimeOut ==
  ASSUME HandoffBounds, HandoffInv, NEW i \in DOMAIN ask, Handoff!TimeOut(i)
  PROVE HandoffInv'
  <1>a. ask \in Seq(Handoff!Call) /\ Len(ask) \in Nat /\ DOMAIN ask = 1..Len(ask) BY DEF HandoffInv, Handoff!TypeOK
  <1>5. shown' = shown /\ pressed' = pressed /\ restarts' = restarts BY DEF Handoff!TimeOut
  <1>1. CASE Handoff!Mine(i)
    <2>1. /\ waiter = i /\ waiter' = 0 /\ card' = 0 /\ card = i
          /\ ask' = [ask EXCEPT ![i] = [timer |-> FALSE, answer |-> "timeout"]]
          /\ noted' = noted \union {i}
      BY <1>1, <1>a DEF Handoff!TimeOut, Handoff!Finish, Handoff!Mine, HandoffInv, Handoff!CardIsWaitedFor
    <2>3. [timer |-> FALSE, answer |-> "timeout"] \in Handoff!Call BY DEF Handoff!Call
    <2>4. ask' \in Seq(Handoff!Call) /\ Len(ask') = Len(ask) /\ DOMAIN ask' = DOMAIN ask
          /\ ask'[i].answer = "timeout" /\ \A j \in DOMAIN ask \ {i} : ask'[j] = ask[j]
      BY <1>a, <2>1, <2>3
    <2>6. Handoff!TypeOK' BY <1>a, <2>1, <2>4, <1>5 DEF HandoffInv, Handoff!TypeOK
    <2>7. Handoff!CardIsWaitedFor' BY <2>1 DEF Handoff!CardIsWaitedFor
    <2>8. Handoff!AnswersAreTrue' BY <2>1, <2>4, <1>5 DEF HandoffInv, Handoff!AnswersAreTrue
    <2>9. NewestWaits' BY <2>1 DEF NewestWaits
    <2> QED BY <2>6, <2>7, <2>8, <2>9 DEF HandoffInv
  <1>2. CASE ~Handoff!Mine(i)
    <2>1. /\ ask' = [ask EXCEPT ![i].timer = FALSE]
          /\ waiter' = waiter /\ card' = card /\ noted' = noted
      BY <1>2 DEF Handoff!TimeOut, Handoff!Finish, Handoff!Mine
    <2>2. ask[i] \in Handoff!Call BY <1>a
    <2>3. [ask[i] EXCEPT !.timer = FALSE] \in Handoff!Call
          /\ [ask[i] EXCEPT !.timer = FALSE].answer = ask[i].answer
      BY <2>2 DEF Handoff!Call
    <2>4. ask' \in Seq(Handoff!Call) /\ Len(ask') = Len(ask) /\ DOMAIN ask' = DOMAIN ask
          /\ \A j \in DOMAIN ask : ask'[j].answer = ask[j].answer
      BY <1>a, <2>1, <2>3
    <2> QED BY <1>a, <2>1, <2>4, <1>5
          DEF HandoffInv, Handoff!TypeOK, Handoff!CardIsWaitedFor, Handoff!AnswersAreTrue, NewestWaits
  <1> QED BY <1>1, <1>2

(* "Done" is said to whoever waits, by the request shown at the time or one that replaced it. *)
LEMMA HandoffDone ==
  ASSUME HandoffBounds, HandoffInv, Handoff!Done
  PROVE HandoffInv'
  <1>a. ask \in Seq(Handoff!Call) /\ Len(ask) \in Nat /\ DOMAIN ask = 1..Len(ask)
        /\ shown \in 1..Len(ask) /\ waiter \in 0..Len(ask)
    BY DEF HandoffInv, Handoff!TypeOK, Handoff!Done
  <1>5. shown' = 0 /\ pressed' = pressed \union {shown} /\ restarts' = restarts BY DEF Handoff!Done
  <1>1. CASE waiter # 0
    <2>1. /\ waiter' = 0 /\ card' = 0 /\ noted' = noted
          /\ ask' = [ask EXCEPT ![waiter] = [timer |-> FALSE, answer |-> "done"]]
      BY <1>1 DEF Handoff!Done, Handoff!Finish, Handoff!Mine
    <2>3. [timer |-> FALSE, answer |-> "done"] \in Handoff!Call BY DEF Handoff!Call
    <2>4. ask' \in Seq(Handoff!Call) /\ Len(ask') = Len(ask) /\ DOMAIN ask' = DOMAIN ask
          /\ \A j \in DOMAIN ask \ {waiter} : ask'[j] = ask[j]
      BY <1>a, <1>1, <2>1, <2>3
    <2>5. waiter = Len(ask) /\ waiter \notin noted
      BY <1>1, <1>a DEF HandoffInv, NewestWaits, Handoff!AnswersAreTrue
    <2>6. Handoff!TypeOK' BY <1>a, <2>1, <2>4, <1>5 DEF HandoffInv, Handoff!TypeOK
    <2>7. Handoff!CardIsWaitedFor' BY <2>1 DEF Handoff!CardIsWaitedFor
    <2>8. Handoff!AnswersAreTrue' BY <1>a, <2>1, <2>4, <2>5, <1>5 DEF HandoffInv, Handoff!AnswersAreTrue
    <2>9. NewestWaits' BY <2>1 DEF NewestWaits
    <2> QED BY <2>6, <2>7, <2>8, <2>9 DEF HandoffInv
  <1>2. CASE waiter = 0
    <2>1. ask' = ask /\ waiter' = 0 /\ card' = 0 /\ noted' = noted
      BY <1>2 DEF Handoff!Done
    <2>2. Handoff!TypeOK' BY <1>a, <2>1, <1>5 DEF HandoffInv, Handoff!TypeOK
    <2>3. Handoff!AnswersAreTrue' BY <2>1, <1>5 DEF HandoffInv, Handoff!AnswersAreTrue
    <2> QED BY <2>1, <2>2, <2>3 DEF HandoffInv, Handoff!CardIsWaitedFor, NewestWaits
  <1> QED BY <1>1, <1>2

(* A restart ends the calls that had no answer yet and leaves the others'. *)
LEMMA HandoffRestart ==
  ASSUME HandoffBounds, HandoffInv, Handoff!Restart
  PROVE HandoffInv'
  <1>a. ask \in Seq(Handoff!Call) /\ Len(ask) \in Nat /\ DOMAIN ask = 1..Len(ask) BY DEF HandoffInv, Handoff!TypeOK
  <1> DEFINE Ended(i) == [timer |-> FALSE,
                          answer |-> IF ask[i].answer = "none" THEN "cut off" ELSE ask[i].answer]
  <1>1. \A i \in DOMAIN ask : ask[i] \in Handoff!Call BY <1>a
  <1>2. \A i \in DOMAIN ask : Ended(i) \in Handoff!Call BY <1>1 DEF Handoff!Call
  <1>3. ask' = [i \in DOMAIN ask |-> Ended(i)] BY DEF Handoff!Restart
  <1>b. ask' \in [1..Len(ask) -> Handoff!Call] BY <1>a, <1>2, <1>3
  <1>4. ask' \in Seq(Handoff!Call) /\ Len(ask') = Len(ask) /\ DOMAIN ask' = DOMAIN ask
    BY <1>a, <1>b
  <1>5. \A i \in DOMAIN ask : ask[i].answer # "none" => ask'[i].answer = ask[i].answer BY <1>3
  <1>6. \A i \in DOMAIN ask : ask'[i].answer = "done" => ask[i].answer = "done" BY <1>3
  <1>7. waiter' = 0 /\ card' = card /\ noted' = noted /\ shown' = shown /\ pressed' = pressed
        /\ restarts < MaxRestarts /\ restarts' = restarts + 1
    BY DEF Handoff!Restart
  <1>8. Handoff!TypeOK' BY <1>a, <1>4, <1>7 DEF HandoffInv, Handoff!TypeOK, HandoffBounds
  <1>9. Handoff!CardIsWaitedFor' BY <1>7 DEF HandoffInv, Handoff!TypeOK, HandoffBounds, Handoff!CardIsWaitedFor
  <1>10. Handoff!AnswersAreTrue'
    BY <1>4, <1>5, <1>6, <1>7 DEF HandoffInv, Handoff!AnswersAreTrue
  <1> QED BY <1>7, <1>8, <1>9, <1>10 DEF HandoffInv, NewestWaits

LEMMA HandoffInit == ASSUME HandoffBounds, Handoff!Init PROVE HandoffInv
  <1>1. ask = <<>> /\ Len(ask) = 0 /\ DOMAIN ask = {} /\ ask \in Seq(Handoff!Call) BY DEF Handoff!Init
  <1> QED BY <1>1 DEF Handoff!Init, HandoffInv, HandoffBounds, Handoff!TypeOK,
            Handoff!CardIsWaitedFor, Handoff!AnswersAreTrue, NewestWaits

LEMMA HandoffStep ==
  ASSUME HandoffBounds, HandoffInv, [Handoff!Next]_handoffVars
  PROVE HandoffInv'
  <1>1. CASE Handoff!Ask BY <1>1, HandoffAsk
  <1>2. ASSUME NEW i \in DOMAIN ask, Handoff!TimeOut(i) PROVE HandoffInv' BY <1>2, HandoffTimeOut
  <1>3. CASE Handoff!Refresh
    BY <1>3 DEF Handoff!Refresh, HandoffInv, Handoff!TypeOK, Handoff!CardIsWaitedFor,
          Handoff!AnswersAreTrue, NewestWaits
  <1>4. CASE Handoff!Done BY <1>4, HandoffDone
  <1>5. CASE Handoff!Restart BY <1>5, HandoffRestart
  <1>6. CASE UNCHANGED handoffVars
    BY <1>6 DEF handoffVars, HandoffInv, Handoff!TypeOK, Handoff!CardIsWaitedFor,
          Handoff!AnswersAreTrue, NewestWaits
  <1> QED BY <1>1, <1>2, <1>3, <1>4, <1>5, <1>6 DEF Handoff!Next

-----------------------------------------------------------------------------
ChatBounds == MaxJobs \in Nat /\ MaxChanges \in Nat

(* The jobs are under way one at a time, in the order of the chain. *)
InTurn == \A k \in DOMAIN job : job[k].at # "waiting" => Chat!Turn(k)

NoneHeld == \A c \in Chat!Chats : ~chat[c].held

(* A job that looked up a chat finds it held and is the queue's, unless the chat was lost  *)
(* since; and one that creates a chat has seen to it that there is no other.               *)
JobOK(j) ==
  /\ j.at = "waiting" => j.id = 0
  /\ j.at # "done" => j.answer = "none"
  /\ j.at \in {"opened", "sending"} => j.id # 0 /\ main \in {0, j.id} /\ (j.cut \/ chat[j.id].held)
  /\ j.at = "creating" => NoneHeld
  /\ j.answer = "dropped" => j.cut \/ j.id = 0
  /\ j.answer = "error" => j.cut \/ j.into = 0

ChatInv ==
  /\ Chat!TypeOK /\ Chat!OneChat /\ InTurn
  /\ \A k \in DOMAIN job : JobOK(job[k])

LEMMA ChatTypes ==
  ASSUME ChatInv
  PROVE /\ Len(chat) \in Nat /\ DOMAIN chat = 1..Len(chat) /\ Chat!Chats = 1..Len(chat)
        /\ Len(job) \in Nat /\ DOMAIN job = 1..Len(job)
        /\ \A c \in 1..Len(chat) : chat[c] \in Chat!Entry
        /\ \A k \in DOMAIN job : job[k] \in Chat!Job
        /\ main \in 0..Len(chat)
  BY DEF ChatInv, Chat!TypeOK, Chat!Chats

(* While a job is under way no other is. *)
LEMMA OthersIdle ==
  ASSUME ChatInv, NEW k \in DOMAIN job, job[k].at # "done", Chat!Turn(k)
  PROVE \A j \in DOMAIN job \ {k} : job[j].at \in {"waiting", "done"}
  BY ChatTypes DEF ChatInv, InTurn, Chat!Turn

(* What a step of the chain has to keep: the queue's chat, and the job it goes on with. *)
LEMMA JobGoes ==
  ASSUME ChatInv, NEW k \in DOMAIN job, job[k].at # "done", Chat!Turn(k),
         Chat!TypeOK', Chat!OneChat', DOMAIN job' = DOMAIN job,
         \A j \in DOMAIN job \ {k} : job'[j] = job[j],
         JobOK(job[k])'
  PROVE ChatInv'
  <1>1. \A j \in DOMAIN job \ {k} : job[j].at \in {"waiting", "done"} BY OthersIdle
  <1>2. ASSUME NEW j \in DOMAIN job' PROVE JobOK(job[j])'
    <2>1. CASE j = k BY <2>1
    <2>2. CASE j # k
      <3>1. job'[j] = job[j] /\ job[j].at \in {"waiting", "done"} /\ JobOK(job[j])
        BY <1>1, <2>2 DEF ChatInv
      <3> QED BY <3>1 DEF JobOK
    <2> QED BY <2>1, <2>2
  <1>3. InTurn'
    <2> SUFFICES ASSUME NEW j \in DOMAIN job, job'[j].at # "waiting", NEW i \in 1..(j - 1)
                 PROVE job'[i].at = "done"
      BY DEF InTurn, Chat!Turn
    <2>0. i \in DOMAIN job BY ChatTypes
    <2>1. CASE j = k BY <2>0, <2>1, ChatTypes DEF Chat!Turn
    <2>2. CASE j # k
      <3>1. job[j].at # "waiting" /\ job[i].at = "done" BY <2>2 DEF ChatInv, InTurn, Chat!Turn
      <3> QED BY <3>1, <2>0
    <2> QED BY <2>1, <2>2
  <1> QED BY <1>2, <1>3 DEF ChatInv

LEMMA ChainGoes ==
  ASSUME ChatInv, NEW k \in DOMAIN job, job[k].at # "done", Chat!Turn(k),
         chat' \in Seq(Chat!Entry), Len(chat') >= Len(chat),
         main' \in 0..Len(chat'), changes' \in 0..MaxChanges, Chat!OneChat',
         job' = [job EXCEPT ![k] = job'[k]], job'[k] \in Chat!Job', JobOK(job[k])'
  PROVE ChatInv'
  <1>1. Len(chat') \in Nat OBVIOUS
  <1>2. \A j \in DOMAIN job : job[j] \in Chat!Job'
    BY <1>1, ChatTypes DEF Chat!Job
  <1>3. job \in Seq(Chat!Job') BY <1>2, ChatTypes DEF ChatInv, Chat!TypeOK
  <1>4. job' \in Seq(Chat!Job') /\ DOMAIN job' = DOMAIN job
        /\ \A j \in DOMAIN job \ {k} : job'[j] = job[j]
    BY <1>3
  <1>5. Chat!TypeOK' BY <1>4 DEF Chat!TypeOK
  <1> QED BY <1>4, <1>5, JobGoes

(* What the two ways to write a job leave of it. *)
LEMMA JobFinish ==
  ASSUME NEW j \in Chat!Job, NEW i, NEW a
  PROVE LET r == [j EXCEPT !.at = "done", !.into = i, !.answer = a] IN
        r.at = "done" /\ r.into = i /\ r.answer = a /\ r.id = j.id /\ r.cut = j.cut /\ r.t = j.t
  BY DEF Chat!Job

LEMMA JobPass ==
  ASSUME NEW j \in Chat!Job, NEW a, NEW id
  PROVE LET r == [j EXCEPT !.at = a, !.id = id] IN
        r.at = a /\ r.id = id /\ r.into = j.into /\ r.answer = j.answer /\ r.cut = j.cut /\ r.t = j.t
  BY DEF Chat!Job

(* Closing a chat lets go of that one and keeps the rest. *)
LEMMA ClosedChats ==
  ASSUME ChatInv, NEW c \in Chat!Chats
  PROVE /\ Chat!Closed(c) \in Seq(Chat!Entry) /\ Len(Chat!Closed(c)) = Len(chat)
        /\ ~Chat!Closed(c)[c].held
        /\ \A d \in Chat!Chats \ {c} : Chat!Closed(c)[d] = chat[d]
  <1>1. chat \in Seq(Chat!Entry) /\ c \in DOMAIN chat /\ chat[c] \in Chat!Entry
    BY ChatTypes DEF ChatInv, Chat!TypeOK
  <1>2. [chat[c] EXCEPT !.held = FALSE, !.agent = FALSE] \in Chat!Entry
        /\ ~[chat[c] EXCEPT !.held = FALSE, !.agent = FALSE].held
    BY <1>1 DEF Chat!Entry
  <1> DEFINE e == [chat[c] EXCEPT !.held = FALSE, !.agent = FALSE]
  <1>3. Chat!Closed(c) = [chat EXCEPT ![c] = e] BY DEF Chat!Closed
  <1> HIDE DEF e
  <1>4. e \in Chat!Entry /\ ~e.held BY <1>2 DEF e
  <1>5. /\ [chat EXCEPT ![c] = e] \in Seq(Chat!Entry) /\ Len([chat EXCEPT ![c] = e]) = Len(chat)
        /\ [chat EXCEPT ![c] = e][c] = e
        /\ \A d \in DOMAIN chat \ {c} : [chat EXCEPT ![c] = e][d] = chat[d]
    BY <1>1, <1>4
  <1> QED BY <1>3, <1>4, <1>5, ChatTypes

(* A job goes on with a chat that is the queue's, or lets go of all of them. *)
LEMMA JobGoesOn ==
  ASSUME ChatInv, NEW k \in DOMAIN job, job[k].at \in {"waiting", "opened"}, Chat!Turn(k),
         NEW STATE c, c \in 0..Len(chat), main \in {0, c} \/ ~Chat!Held(main),
         job[k].cut \/ job[k].id = 0 \/ Chat!Held(c),
         Chat!GoOn(k, c), UNCHANGED <<main, changes>>
  PROVE ChatInv'
  <1> DEFINE j == job[k]
  <1>1. /\ j \in Chat!Job /\ JobOK(j) /\ j.answer = "none"
        /\ k \in DOMAIN job /\ Len(chat) \in Nat /\ main' = main /\ main \in 0..Len(chat)
        /\ chat \in Seq(Chat!Entry) /\ changes' \in 0..MaxChanges
        /\ Chat!Chats = 1..Len(chat) /\ DOMAIN job = 1..Len(job)
    BY ChatTypes DEF ChatInv, Chat!TypeOK, JobOK
  <1>2. \A d \in Chat!Chats : chat[d].held => d = main BY DEF ChatInv, Chat!OneChat
  <1>3. ASSUME Chat!Held(c), Chat!Pass(k, "sending", c), UNCHANGED chat PROVE ChatInv'
    <2>1. job' = [job EXCEPT ![k] = [j EXCEPT !.at = "sending", !.id = c]] BY <1>3 DEF Chat!Pass
    <2>2. job'[k] = [j EXCEPT !.at = "sending", !.id = c] BY <1>1, <2>1
    <2>3. c \in Chat!Chats /\ chat[c].held /\ c = main BY <1>2, <1>3 DEF Chat!Held
    <2>4. job'[k].at = "sending" /\ job'[k].id = c /\ job'[k].answer = "none" /\ job'[k].cut = j.cut
      BY <1>1, <2>2, JobPass
    <2>5. JobOK(job[k])' BY <1>1, <1>3, <2>3, <2>4 DEF JobOK
    <2>6. job'[k] \in Chat!Job' BY <1>1, <1>3, <2>2 DEF Chat!Job
    <2>7. Chat!OneChat' BY <1>1, <1>3 DEF ChatInv, Chat!OneChat, Chat!Chats
    <2>8. job' = [job EXCEPT ![k] = job'[k]] BY <2>1, <2>2
    <2>9. main' \in 0..Len(chat') /\ Len(chat') >= Len(chat) /\ job[k].at # "done" BY <1>1, <1>3
    <2> QED BY <1>1, <1>3, <2>5, <2>6, <2>7, <2>8, <2>9, ChainGoes
  <1>4. ASSUME chat' = IF Chat!Held(c) THEN Chat!Closed(c) ELSE chat,
               Chat!Pass(k, "creating", c)
        PROVE ChatInv'
    <2>1. job' = [job EXCEPT ![k] = [j EXCEPT !.at = "creating", !.id = c]] BY <1>4 DEF Chat!Pass
    <2>2. job'[k] = [j EXCEPT !.at = "creating", !.id = c] BY <1>1, <2>1
    <2>3. /\ chat' \in Seq(Chat!Entry) /\ Len(chat') = Len(chat)
          /\ \A d \in 1..Len(chat) : ~chat'[d].held
      <3>1. CASE Chat!Held(c)
        <4>1. c \in Chat!Chats /\ c = main BY <1>2, <3>1 DEF Chat!Held
        <4> QED BY <1>1, <1>2, <1>4, <3>1, <4>1, ClosedChats
      <3>2. CASE ~Chat!Held(c) BY <1>1, <1>2, <1>4, <3>2 DEF Chat!Held
      <3> QED BY <3>1, <3>2
    <2>4. NoneHeld' /\ Chat!OneChat' BY <2>3 DEF NoneHeld, Chat!OneChat, Chat!Chats
    <2>5. job'[k].at = "creating" /\ job'[k].answer = "none" BY <1>1, <2>2, JobPass
    <2>6. JobOK(job[k])' BY <2>4, <2>5 DEF JobOK
    <2>7. job'[k] \in Chat!Job' BY <1>1, <2>2, <2>3 DEF Chat!Job
    <2>8. job' = [job EXCEPT ![k] = job'[k]] BY <2>1, <2>2
    <2>9. main' \in 0..Len(chat') /\ Len(chat') >= Len(chat) /\ job[k].at # "done" BY <1>1, <2>3
    <2> QED BY <1>1, <2>3, <2>4, <2>6, <2>7, <2>8, <2>9, ChainGoes
  <1>5. ASSUME ~Chat!Held(c), Chat!Notice(k), UNCHANGED chat PROVE ChatInv'
    <2>1. PICK i \in 0..Len(chat), a \in {"notice", "dropped"} : Chat!Finish(k, i, a)
      BY <1>1, <1>5 DEF Chat!Notice
    <2>2. job' = [job EXCEPT ![k] = [j EXCEPT !.at = "done", !.into = i, !.answer = a]]
      BY <2>1 DEF Chat!Finish
    <2>3. job'[k] = [j EXCEPT !.at = "done", !.into = i, !.answer = a] BY <1>1, <2>2
    <2>4. job'[k].at = "done" /\ job'[k].answer = a /\ job'[k].cut = j.cut /\ job'[k].id = j.id
      BY <1>1, <2>3, JobFinish
    <2>5. JobOK(job[k])' BY <1>5, <2>1, <2>4 DEF JobOK
    <2>6. job'[k] \in Chat!Job' BY <1>1, <1>5, <2>1, <2>3 DEF Chat!Job
    <2>7. Chat!OneChat' BY <1>1, <1>5 DEF ChatInv, Chat!OneChat, Chat!Chats
    <2>8. job' = [job EXCEPT ![k] = job'[k]] BY <2>2, <2>3
    <2>9. main' \in 0..Len(chat') /\ Len(chat') >= Len(chat) /\ job[k].at # "done" BY <1>1, <1>5
    <2> QED BY <1>1, <1>5, <2>5, <2>6, <2>7, <2>8, <2>9, ChainGoes
  <1> QED BY <1>3, <1>4, <1>5 DEF Chat!GoOn

(* The facts every step of the chain starts from. *)
LEMMA JobFacts ==
  ASSUME ChatInv, NEW k \in DOMAIN job
  PROVE /\ job[k] \in Chat!Job /\ JobOK(job[k])
        /\ Len(chat) \in Nat /\ DOMAIN chat = 1..Len(chat) /\ Chat!Chats = 1..Len(chat)
        /\ main \in 0..Len(chat) /\ chat \in Seq(Chat!Entry) /\ changes \in 0..MaxChanges
        /\ \A d \in Chat!Chats : chat[d].held => d = main
        /\ job[k].at # "waiting" => Chat!Turn(k)
  BY ChatTypes DEF ChatInv, Chat!TypeOK, Chat!OneChat, InTurn

LEMMA JobKept ==
  ASSUME ChatInv, NEW k \in DOMAIN job, Len(chat') \in Nat, Len(chat') >= Len(chat)
  PROVE job[k] \in Chat!Job'
  BY JobFacts DEF Chat!Job

LEMMA ChatBegin ==
  ASSUME ChatInv, NEW k \in DOMAIN job, Chat!Begin(k)
  PROVE ChatInv'
  <1> DEFINE j == job[k]
  <1>1. j.at = "waiting" /\ j.id = 0 /\ j.answer = "none" /\ Chat!Turn(k) /\ main' = main /\ changes' = changes
    BY JobFacts DEF Chat!Begin, JobOK
  <1>2. CASE Chat!GoOn(k, 0) /\ Chat!Gone
    BY <1>1, <1>2, JobFacts, JobGoesOn DEF Chat!Gone
  <1>3. CASE Chat!GoOn(k, main)
    BY <1>1, <1>3, JobFacts, JobGoesOn
  <1>4. CASE Chat!Gone /\ chat' = [chat EXCEPT ![main].held = TRUE] /\ Chat!Pass(k, "opened", main)
    <2>0. main \in 1..Len(chat) BY <1>4, JobFacts DEF Chat!Gone
    <2>1. job' = [job EXCEPT ![k] = [j EXCEPT !.at = "opened", !.id = main]] BY <1>4 DEF Chat!Pass
    <2>2. job'[k] = [j EXCEPT !.at = "opened", !.id = main] BY <2>1
    <2>3. /\ chat[main] \in Chat!Entry /\ [chat[main] EXCEPT !.held = TRUE] \in Chat!Entry
          /\ [chat[main] EXCEPT !.held = TRUE].held
      BY <2>0, ChatTypes DEF Chat!Entry
    <2>4. /\ chat' \in Seq(Chat!Entry) /\ Len(chat') = Len(chat) /\ chat'[main].held
          /\ \A d \in 1..Len(chat) \ {main} : chat'[d] = chat[d]
      BY <1>4, <2>0, <2>3, JobFacts
    <2>5. Chat!OneChat' BY <1>1, <2>4, JobFacts DEF Chat!OneChat, Chat!Chats
    <2>6. job'[k].at = "opened" /\ job'[k].id = main /\ job'[k].answer = "none"
      BY <1>1, <2>2, JobFacts, JobPass
    <2>7. JobOK(job[k])' BY <1>1, <2>0, <2>4, <2>6 DEF JobOK
    <2>11. j \in Chat!Job' /\ main \in 0..Len(chat') BY <2>4, JobFacts, JobKept
    <2>8. job'[k] \in Chat!Job' BY <2>2, <2>11 DEF Chat!Job
    <2>9. job' = [job EXCEPT ![k] = job'[k]] BY <2>1, <2>2
    <2>10. main' \in 0..Len(chat') /\ Len(chat') >= Len(chat) /\ changes' \in 0..MaxChanges
      BY <1>1, <2>4, JobFacts
    <2> QED BY <1>1, <2>4, <2>5, <2>7, <2>8, <2>9, <2>10, ChainGoes
  <1> QED BY <1>2, <1>3, <1>4 DEF Chat!Begin

LEMMA ChatOpened ==
  ASSUME ChatInv, NEW k \in DOMAIN job, Chat!Opened(k)
  PROVE ChatInv'
  <1>1. job[k].at = "opened" /\ job[k].id \in 1..Len(chat) /\ main \in {0, job[k].id}
        /\ (job[k].cut \/ Chat!Held(job[k].id)) /\ Chat!Turn(k)
    BY JobFacts DEF Chat!Opened, JobOK, Chat!Job, Chat!Held
  <1>2. Chat!GoOn(k, job[k].id) /\ UNCHANGED <<main, changes>> BY DEF Chat!Opened
  <1> QED BY <1>1, <1>2, JobGoesOn

LEMMA ChatSent ==
  ASSUME ChatInv, NEW k \in DOMAIN job, Chat!Sent(k)
  PROVE ChatInv'
  <1> DEFINE j == job[k]
             c == job[k].id
  <1>1. /\ j.at = "sending" /\ c \in 1..Len(chat) /\ main \in {0, c} /\ j.answer = "none"
        /\ (j.cut \/ Chat!Held(c)) /\ Chat!Turn(k) /\ main' = main /\ changes' = changes
    BY JobFacts DEF Chat!Sent, JobOK, Chat!Job, Chat!Held
  <1>2. PICK i \in 0..Len(chat), a \in {"ok", "error", "notice", "dropped"} :
          /\ Chat!Finish(k, i, a)
          /\ chat' = chat \/ chat' = [chat EXCEPT ![c].agent = TRUE]
          /\ a = "dropped" => ~Chat!Held(main)
          /\ a = "error" => i = 0 \/ ~Chat!Held(c)
    BY <1>1, JobFacts DEF Chat!Sent, Chat!Notice
  <1>3. /\ chat' \in Seq(Chat!Entry) /\ Len(chat') = Len(chat)
        /\ \A d \in 1..Len(chat) : chat'[d].held = chat[d].held
    <2>1. chat[c] \in Chat!Entry /\ [chat[c] EXCEPT !.agent = TRUE] \in Chat!Entry
          /\ [chat[c] EXCEPT !.agent = TRUE].held = chat[c].held
      BY <1>1, ChatTypes DEF Chat!Entry
    <2> DEFINE e == [chat[c] EXCEPT !.agent = TRUE]
    <2>2. chat' = chat \/ chat' = [chat EXCEPT ![c] = e] BY <1>2
    <2>3. e \in Chat!Entry /\ e.held = chat[c].held BY <2>1
    <2> HIDE DEF e
    <2> QED BY <1>1, <2>2, <2>3, JobFacts
  <1>4. Chat!Held(c) => Chat!Held(main) BY <1>1, JobFacts DEF Chat!Held
  <1>5. job' = [job EXCEPT ![k] = [j EXCEPT !.at = "done", !.into = i, !.answer = a]]
    BY <1>2 DEF Chat!Finish
  <1>6. job'[k] = [j EXCEPT !.at = "done", !.into = i, !.answer = a] BY <1>5
  <1>7. job'[k].at = "done" /\ job'[k].answer = a /\ job'[k].cut = j.cut /\ job'[k].into = i
    BY <1>6, JobFacts, JobFinish
  <1>8. JobOK(job[k])' BY <1>1, <1>2, <1>4, <1>7 DEF JobOK
  <1>9. job'[k] \in Chat!Job' BY <1>3, <1>6, JobFacts DEF Chat!Job
  <1>10. Chat!OneChat' BY <1>1, <1>3, JobFacts DEF Chat!OneChat, Chat!Chats
  <1>11. job' = [job EXCEPT ![k] = job'[k]] BY <1>5, <1>6
  <1>12. main' \in 0..Len(chat') /\ Len(chat') >= Len(chat) /\ changes' \in 0..MaxChanges
    BY <1>1, <1>3, JobFacts
  <1> QED BY <1>1, <1>3, <1>8, <1>9, <1>10, <1>11, <1>12, ChainGoes

LEMMA ChatCreated ==
  ASSUME ChatInv, NEW k \in DOMAIN job, Chat!Created(k)
  PROVE ChatInv'
  <1> DEFINE j == job[k]
             n == Len(chat) + 1
             e == [held |-> TRUE, exists |-> TRUE, full |-> FALSE, agent |-> TRUE]
  <1>1. /\ j.at = "creating" /\ NoneHeld /\ Chat!Turn(k) /\ main' = n /\ changes' = changes
        /\ chat' = Append(chat, e) /\ Chat!Finish(k, n, "ok")
    BY JobFacts DEF Chat!Created, JobOK
  <1>2. e \in Chat!Entry BY DEF Chat!Entry
  <1> HIDE DEF e
  <1>3. /\ chat' \in Seq(Chat!Entry) /\ Len(chat') = n
        /\ \A d \in 1..Len(chat) : chat'[d] = chat[d]
    BY <1>1, <1>2, JobFacts
  <1>4. job' = [job EXCEPT ![k] = [j EXCEPT !.at = "done", !.into = n, !.answer = "ok"]]
    BY <1>1 DEF Chat!Finish
  <1>5. job'[k] = [j EXCEPT !.at = "done", !.into = n, !.answer = "ok"] BY <1>4
  <1>6. job'[k].at = "done" /\ job'[k].answer = "ok" BY <1>5, JobFacts, JobFinish
  <1>7. JobOK(job[k])' BY <1>6 DEF JobOK
  <1>12. j \in Chat!Job' /\ n \in 0..Len(chat') BY <1>3, JobFacts, JobKept
  <1>8. job'[k] \in Chat!Job' BY <1>5, <1>12 DEF Chat!Job
  <1>9. Chat!OneChat' BY <1>1, <1>3, JobFacts DEF Chat!OneChat, Chat!Chats, NoneHeld
  <1>10. job' = [job EXCEPT ![k] = job'[k]] BY <1>4, <1>5
  <1>11. main' \in 0..Len(chat') /\ Len(chat') >= Len(chat) /\ changes' \in 0..MaxChanges
    BY <1>1, <1>3, JobFacts
  <1> QED BY <1>1, <1>3, <1>7, <1>8, <1>9, <1>10, <1>11, ChainGoes

LEMMA ChatCreateFails ==
  ASSUME ChatBounds, ChatInv, NEW k \in DOMAIN job, Chat!CreateFails(k)
  PROVE ChatInv'
  <1> DEFINE j == job[k]
  <1>1. /\ j.at = "creating" /\ Chat!Turn(k) /\ main' = main /\ chat' = chat
        /\ changes' \in 0..MaxChanges /\ Chat!Finish(k, 0, "error")
    BY JobFacts DEF Chat!CreateFails, Chat!Change, ChatBounds
  <1>2. job' = [job EXCEPT ![k] = [j EXCEPT !.at = "done", !.into = 0, !.answer = "error"]]
    BY <1>1 DEF Chat!Finish
  <1>3. job'[k] = [j EXCEPT !.at = "done", !.into = 0, !.answer = "error"] BY <1>2
  <1>4. job'[k].at = "done" /\ job'[k].answer = "error" /\ job'[k].into = 0 BY <1>3, JobFacts, JobFinish
  <1>5. JobOK(job[k])' BY <1>4 DEF JobOK
  <1>10. j \in Chat!Job' /\ 0 \in 0..Len(chat') BY <1>1, JobFacts, JobKept
  <1>6. job'[k] \in Chat!Job' BY <1>3, <1>10 DEF Chat!Job
  <1>7. Chat!OneChat' BY <1>1, JobFacts DEF Chat!OneChat, Chat!Chats
  <1>8. job' = [job EXCEPT ![k] = job'[k]] BY <1>2, <1>3
  <1>9. main' \in 0..Len(chat') /\ Len(chat') >= Len(chat) BY <1>1, JobFacts
  <1> QED BY <1>1, <1>5, <1>6, <1>7, <1>8, <1>9, JobFacts, ChainGoes

-----------------------------------------------------------------------------
(* The events that cut a job off: the chat is lost and nothing is held. *)
LEMMA ChatLost ==
  ASSUME ChatInv, main # 0, main' \in {0, main}, changes' \in 0..MaxChanges, Chat!Cut,
         chat' \in Seq(Chat!Entry), Len(chat') = Len(chat), \A d \in 1..Len(chat) : ~chat'[d].held
  PROVE ChatInv'
  <1> DEFINE Lost(k) == IF job[k].at \in {"waiting", "done"} THEN job[k]
                        ELSE [job[k] EXCEPT !.cut = TRUE]
  <1>1. job' = [k \in DOMAIN job |-> Lost(k)] BY DEF Chat!Cut
  <1>2. ASSUME NEW k \in DOMAIN job
        PROVE /\ job'[k] \in Chat!Job' /\ job'[k].at = job[k].at /\ job'[k].id = job[k].id
              /\ job'[k].answer = job[k].answer /\ job'[k].into = job[k].into
              /\ job[k].at \notin {"waiting", "done"} => job'[k].cut
              /\ job[k].cut => job'[k].cut
    <2>1. job[k] \in Chat!Job' BY JobFacts, JobKept
    <2>2. job'[k] = Lost(k) BY <1>1
    <2>3. CASE job[k].at \in {"waiting", "done"} BY <2>1, <2>2, <2>3
    <2>4. CASE job[k].at \notin {"waiting", "done"} BY <2>1, <2>2, <2>4 DEF Chat!Job
    <2> QED BY <2>3, <2>4
  <1>3. DOMAIN job' = DOMAIN job /\ job' \in [1..Len(job) -> Chat!Job'] /\ Len(job) \in Nat
        /\ DOMAIN job = 1..Len(job)
    BY <1>1, <1>2, ChatTypes
  <1>4. job' \in Seq(Chat!Job') BY <1>3
  <1>5. main' \in 0..Len(chat') BY ChatTypes
  <1>6. Chat!TypeOK' BY <1>4, <1>5 DEF Chat!TypeOK
  <1>7. Chat!OneChat' /\ NoneHeld' BY DEF Chat!OneChat, NoneHeld, Chat!Chats
  <1>8. InTurn' BY <1>2, <1>3 DEF ChatInv, InTurn, Chat!Turn
  <1>9. ASSUME NEW k \in DOMAIN job' PROVE JobOK(job[k])'
    <2>1. k \in DOMAIN job /\ JobOK(job[k]) BY <1>3 DEF ChatInv
    <2> QED BY <1>2, <1>7, <2>1 DEF JobOK
  <1> QED BY <1>6, <1>7, <1>8, <1>9 DEF ChatInv

(* The agent of a chat starts, stops or says something: the chat is held as it was. *)
LEMMA ChatSame ==
  ASSUME ChatInv, UNCHANGED <<main, job>>, changes' \in 0..MaxChanges,
         chat' \in Seq(Chat!Entry), Len(chat') = Len(chat),
         \A d \in 1..Len(chat) : chat'[d].held = chat[d].held
  PROVE ChatInv'
  <1>1. \A k \in DOMAIN job : job[k] \in Chat!Job' BY JobKept, ChatTypes
  <1>2. job \in Seq(Chat!Job') BY <1>1, ChatTypes DEF ChatInv, Chat!TypeOK
  <1>3. Chat!TypeOK' BY <1>2, ChatTypes DEF Chat!TypeOK
  <1>4. Chat!OneChat' BY ChatTypes DEF ChatInv, Chat!OneChat, Chat!Chats
  <1>5. InTurn' BY DEF ChatInv, InTurn, Chat!Turn
  <1>6. NoneHeld => NoneHeld' BY DEF NoneHeld, Chat!Chats
  <1>7. ASSUME NEW k \in DOMAIN job' PROVE JobOK(job[k])'
    <2>1. k \in DOMAIN job /\ JobOK(job[k]) /\ job'[k] = job[k] /\ main' = main BY DEF ChatInv
    <2>2. job[k].id \in 0..Len(chat) BY <2>1, ChatTypes DEF Chat!Job
    <2> QED BY <1>6, <2>1, <2>2 DEF JobOK
  <1> QED BY <1>3, <1>4, <1>5, <1>7 DEF ChatInv

LEMMA ChatArrives ==
  ASSUME ChatInv, NEW t \in {"prompt", "result"}, Chat!Arrives(t)
  PROVE ChatInv'
  <1>1. Chat!NewJob(t) \in Chat!Job BY ChatTypes DEF Chat!NewJob, Chat!Job
  <1>2. /\ job' = Append(job, Chat!NewJob(t)) /\ UNCHANGED <<main, chat, changes>>
        /\ Chat!Job' = Chat!Job
    BY DEF Chat!Arrives, Chat!Job
  <1>3. /\ job' \in Seq(Chat!Job) /\ DOMAIN job' = 1..(Len(job) + 1)
        /\ job'[Len(job) + 1] = Chat!NewJob(t) /\ \A k \in DOMAIN job : job'[k] = job[k]
    BY <1>1, <1>2, ChatTypes DEF ChatInv, Chat!TypeOK
  <1>4. Chat!TypeOK' BY <1>2, <1>3 DEF ChatInv, Chat!TypeOK
  <1>5. Chat!OneChat' BY <1>2 DEF ChatInv, Chat!OneChat, Chat!Chats
  <1>6. \A k \in DOMAIN job' : k \in DOMAIN job \/ k = Len(job) + 1 BY <1>3, ChatTypes
  <1>7. Chat!NewJob(t).at = "waiting" /\ Chat!NewJob(t).id = 0 /\ Chat!NewJob(t).answer = "none"
    BY DEF Chat!NewJob
  <1>8. InTurn'
    <2> SUFFICES ASSUME NEW k \in DOMAIN job', job'[k].at # "waiting", NEW i \in 1..(k - 1)
                 PROVE job'[i].at = "done"
      BY DEF InTurn, Chat!Turn
    <2>1. k \in DOMAIN job /\ job'[k] = job[k] BY <1>3, <1>6, <1>7
    <2>2. i \in DOMAIN job BY <2>1, ChatTypes
    <2>3. job[i].at = "done" BY <2>1 DEF ChatInv, InTurn, Chat!Turn
    <2> QED BY <1>3, <2>2, <2>3
  <1>9. ASSUME NEW k \in DOMAIN job' PROVE JobOK(job[k])'
    <2>1. CASE k \in DOMAIN job
      <3>1. job'[k] = job[k] /\ JobOK(job[k]) BY <1>3, <2>1 DEF ChatInv
      <3>2. NoneHeld' = NoneHeld BY <1>2 DEF NoneHeld, Chat!Chats
      <3> QED BY <1>2, <3>1, <3>2 DEF JobOK
    <2>2. CASE k = Len(job) + 1 BY <1>3, <1>7, <2>2 DEF JobOK
    <2> QED BY <1>6, <2>1, <2>2
  <1> QED BY <1>4, <1>5, <1>8, <1>9 DEF ChatInv

LEMMA ChatInit == ASSUME ChatBounds, Chat!Init PROVE ChatInv
  <1>1. /\ chat = <<>> /\ job = <<>> /\ Len(chat) = 0 /\ DOMAIN job = {} /\ main = 0
        /\ chat \in Seq(Chat!Entry) /\ job \in Seq(Chat!Job) /\ changes = 0
    BY DEF Chat!Init
  <1>2. 0 \in 0..MaxChanges BY DEF ChatBounds
  <1> QED BY <1>1, <1>2 DEF ChatInv, Chat!TypeOK, Chat!OneChat, InTurn, Chat!Chats

LEMMA ChatStep ==
  ASSUME ChatBounds, ChatInv, [Chat!Next]_chatVars
  PROVE ChatInv'
  <1>0. Chat!Change => changes' \in 0..MaxChanges
    BY DEF Chat!Change, ChatBounds, ChatInv, Chat!TypeOK
  <1>1. ASSUME NEW t \in {"prompt", "result"}, Chat!Arrives(t) PROVE ChatInv' BY <1>1, ChatArrives
  <1>2. CASE Chat!NewChat
    <2>1. main \in 1..Len(chat) /\ main' = 0 /\ Chat!Cut /\ changes' \in 0..MaxChanges
      BY <1>0, <1>2, ChatTypes DEF Chat!NewChat
    <2>2. /\ chat' \in Seq(Chat!Entry) /\ Len(chat') = Len(chat)
          /\ \A d \in 1..Len(chat) : ~chat'[d].held
      <3>1. chat' = IF Chat!Held(main) THEN Chat!Closed(main) ELSE chat BY <1>2 DEF Chat!NewChat
      <3>2. \A d \in 1..Len(chat) : chat[d].held => d = main
        BY ChatTypes DEF ChatInv, Chat!OneChat
      <3>3. chat \in Seq(Chat!Entry) BY DEF ChatInv, Chat!TypeOK
      <3> QED BY <2>1, <3>1, <3>2, <3>3, ChatTypes, ClosedChats DEF Chat!Held
    <2> QED BY <2>1, <2>2, ChatLost
  <1>3. CASE Chat!DeleteChat
    <2> DEFINE e == [Chat!Closed(main)[main] EXCEPT !.exists = FALSE]
    <2>1. main \in 1..Len(chat) /\ main' = main /\ Chat!Cut /\ changes' \in 0..MaxChanges
      BY <1>0, <1>3, ChatTypes DEF Chat!DeleteChat
    <2>2. /\ Chat!Closed(main) \in Seq(Chat!Entry) /\ Len(Chat!Closed(main)) = Len(chat)
          /\ \A d \in 1..Len(chat) : ~Chat!Closed(main)[d].held
      BY <2>1, ClosedChats, ChatTypes DEF ChatInv, Chat!OneChat
    <2>3. Chat!Closed(main)[main] \in Chat!Entry BY <2>1, <2>2
    <2>4. e \in Chat!Entry /\ ~e.held BY <2>1, <2>2, <2>3 DEF Chat!Entry
    <2>5. chat' = [Chat!Closed(main) EXCEPT ![main] = e] BY <1>3 DEF Chat!DeleteChat
    <2> HIDE DEF e
    <2>6. /\ chat' \in Seq(Chat!Entry) /\ Len(chat') = Len(chat)
          /\ \A d \in 1..Len(chat) : ~chat'[d].held
      BY <2>1, <2>2, <2>4, <2>5
    <2> QED BY <2>1, <2>6, ChatLost
  <1>4. CASE Chat!CloseChat
    <2>1. main \in 1..Len(chat) /\ main' = main /\ Chat!Cut /\ changes' \in 0..MaxChanges
      BY <1>0, <1>4, ChatTypes DEF Chat!CloseChat, Chat!Held
    <2>2. /\ chat' \in Seq(Chat!Entry) /\ Len(chat') = Len(chat)
          /\ \A d \in 1..Len(chat) : ~chat'[d].held
      BY <1>4, <2>1, ClosedChats, ChatTypes DEF ChatInv, Chat!OneChat, Chat!CloseChat
    <2> QED BY <2>1, <2>2, ChatLost
  <1>5. CASE Chat!AgentStops \/ Chat!AgentSaves
    <2> DEFINE off == [chat[main] EXCEPT !.agent = FALSE]
               full == [chat[main] EXCEPT !.full = TRUE]
    <2>1. main \in 1..Len(chat) /\ UNCHANGED <<main, job>> /\ changes' \in 0..MaxChanges
      BY <1>0, <1>5, ChatTypes DEF Chat!AgentStops, Chat!AgentSaves, ChatInv, Chat!TypeOK
    <2>2. chat[main] \in Chat!Entry BY <2>1, ChatTypes
    <2>3. off \in Chat!Entry /\ off.held = chat[main].held /\ full \in Chat!Entry /\ full.held = chat[main].held
      BY <2>2 DEF Chat!Entry
    <2>4. chat' = [chat EXCEPT ![main] = off] \/ chat' = [chat EXCEPT ![main] = full]
      BY <1>5 DEF Chat!AgentStops, Chat!AgentSaves
    <2>5. chat \in Seq(Chat!Entry) BY DEF ChatInv, Chat!TypeOK
    <2> HIDE DEF off, full
    <2>6. /\ chat' \in Seq(Chat!Entry) /\ Len(chat') = Len(chat)
          /\ \A d \in 1..Len(chat) : chat'[d].held = chat[d].held
      BY <2>1, <2>3, <2>4, <2>5, ChatTypes
    <2> QED BY <2>1, <2>6, ChatSame
  <1>6. ASSUME NEW k \in DOMAIN job,
               Chat!Begin(k) \/ Chat!Opened(k) \/ Chat!Sent(k) \/ Chat!Created(k) \/ Chat!CreateFails(k)
        PROVE ChatInv'
    BY <1>6, ChatBegin, ChatOpened, ChatSent, ChatCreated, ChatCreateFails
  <1>7. CASE UNCHANGED chatVars
    BY <1>7, ChatTypes, ChatSame DEF chatVars, ChatInv, Chat!TypeOK
  <1> QED BY <1>1, <1>2, <1>3, <1>4, <1>5, <1>6, <1>7 DEF Chat!Next

-----------------------------------------------------------------------------
(* HumansAreTold, of every run of both, for any number of requests, jobs and faults. *)
THEOREM HumansToldAlways ==
  ASSUME HandoffBounds, ChatBounds
  PROVE HumansSpec => []HumansAreTold
  <1>1. HumansInit => HandoffInv /\ ChatInv BY HandoffInit, ChatInit DEF HumansInit
  <1>2. HandoffInv /\ ChatInv /\ [HumansNext]_<<handoffVars, chatVars>> => HandoffInv' /\ ChatInv'
    <2> SUFFICES ASSUME HandoffInv, ChatInv, [HumansNext]_<<handoffVars, chatVars>>
                 PROVE HandoffInv' /\ ChatInv'
      OBVIOUS
    <2>1. [Handoff!Next]_handoffVars /\ [Chat!Next]_chatVars BY DEF HumansNext
    <2> QED BY <2>1, HandoffStep, ChatStep
  <1>3. HandoffInv /\ ChatInv => HumansAreTold
    BY DEF HandoffInv, ChatInv, HumansAreTold, JobOK, Chat!OutcomesAreTold
  <1> QED BY <1>1, <1>2, <1>3, PTL DEF HumansSpec

-----------------------------------------------------------------------------
(* The child process (BoundedSpawn).                                            *)

SpawnBounds == MaxBytes \in Nat /\ MaxOutput \in Nat

(* A stop is what the deadline or the caller's signal asked for, and what   *)
(* cancels the readers is the end of a stop's grace, or the budget.         *)
StopsHaveCause ==
  /\ grace = "armed" => deadline = "passed" \/ signal
  /\ cancelled => oversize \/ deadline = "passed" \/ signal

(* What was read is kept, as long as the budget lasts; nothing is read after. *)
ReadIsKept ==
  /\ bytes \in Nat /\ (oversize => cancelled)
  /\ \A s \in Child!Streams : outlet[s] <= written[s]
  /\ ~oversize => /\ kept["stdout"] + kept["stderr"] = bytes /\ bytes <= MaxBytes
                  /\ \A s \in Child!Streams : kept[s] + outlet[s] = written[s]

(* A loop ends when its readers are cancelled or nobody is left to write. *)
EndsAtTheEnd ==
  \A s \in Child!Streams :
    loop[s] = "over" /\ phase = "running" => cancelled \/ oversize \/ Child!Closed(s)

(* The types, each variable by itself. *)
SpawnTyped ==
  /\ phase \in {"launching", "running", "returned"} /\ child \in {"alive", "termed", "gone"}
  /\ deadline \in {"none", "armed", "passed"} /\ grace \in {"none", "armed", "over"}
  /\ stubborn \in BOOLEAN /\ grandchild \in BOOLEAN /\ signal \in BOOLEAN
  /\ cancelled \in BOOLEAN /\ oversize \in BOOLEAN
  /\ outlet \in [Child!Streams -> 0..MaxOutput] /\ written \in [Child!Streams -> 0..MaxOutput]
  /\ kept \in [Child!Streams -> 0..MaxOutput] /\ loop \in [Child!Streams -> {"reading", "over"}]
  /\ reason \in {"none", "spawn-failed", "too-large", "timeout", "aborted", "exited"}

SpawnInv ==
  /\ SpawnTyped
  /\ phase = "launching" =>
       /\ grace = "none" /\ ~cancelled /\ ~oversize /\ deadline # "passed" /\ bytes = 0
       /\ \A s \in Child!Streams : loop[s] = "reading"
  /\ StopsHaveCause /\ ReadIsKept /\ EndsAtTheEnd /\ Child!ReadsAreWhole

LEMMA SpawnTypes == ASSUME SpawnTyped PROVE Child!TypeOK
  <1>1. {stubborn, grandchild, signal, cancelled, oversize} \subseteq BOOLEAN BY DEF SpawnTyped
  <1>2. \A s \in Child!Streams : {outlet[s], written[s], kept[s]} \subseteq 0..MaxOutput BY DEF SpawnTyped
  <1> QED BY <1>1, <1>2 DEF SpawnTyped, Child!TypeOK

LEMMA SpawnInitial == ASSUME SpawnBounds, Child!Init PROVE SpawnInv
  <1>1. \A s \in Child!Streams : outlet[s] = 0 /\ written[s] = 0 /\ kept[s] = 0 /\ loop[s] = "reading"
    BY DEF Child!Init
  <1>2. SpawnTyped
    <2>1. /\ outlet \in [Child!Streams -> 0..MaxOutput] /\ written \in [Child!Streams -> 0..MaxOutput]
          /\ kept \in [Child!Streams -> 0..MaxOutput] /\ loop \in [Child!Streams -> {"reading", "over"}]
      BY DEF SpawnBounds, Child!Init
    <2> QED BY <2>1 DEF Child!Init, SpawnTyped
  <1>6. ReadIsKept BY <1>1 DEF ReadIsKept, SpawnBounds, Child!Init, Child!Streams
  <1> QED
    BY <1>1, <1>2, <1>6
    DEF SpawnInv, Child!Init, StopsHaveCause, EndsAtTheEnd, Child!ReadsAreWhole

(* A step of the process, the timers or the caller: nothing is read. *)
LEMMA SpawnAside ==
  ASSUME SpawnBounds, SpawnInv, UNCHANGED Child!io, UNCHANGED <<stubborn, reason>>,
         phase' = phase \/ (phase = "launching" /\ phase' = "running"), SpawnTyped',
         StopsHaveCause', cancelled => cancelled',
         phase' = "launching" => grace' = "none" /\ ~cancelled' /\ deadline' # "passed",
         phase = "running" /\ child = "gone" /\ ~grandchild => child' = "gone" /\ ~grandchild'
  PROVE SpawnInv'
  <1>2. ReadIsKept' BY DEF SpawnInv, ReadIsKept, Child!io
  <1>3. EndsAtTheEnd' BY DEF SpawnInv, EndsAtTheEnd, Child!io, Child!Closed
  <1>4. Child!ReadsAreWhole' BY DEF SpawnInv, Child!ReadsAreWhole, Child!io
  <1> QED BY <1>2, <1>3, <1>4 DEF SpawnInv, Child!io

LEMMA SpawnStops ==
  ASSUME SpawnBounds, SpawnInv,
         Child!Launch \/ Child!DeadlinePasses \/ Child!Abort \/ Child!GraceOver
           \/ Child!Forks \/ Child!Exits \/ Child!TermKills
  PROVE SpawnInv'
  <1> USE DEF StopsHaveCause, Child!Stop, SpawnTyped, Child!io
  <1>0. /\ StopsHaveCause /\ SpawnTyped
        /\ phase = "launching" => grace = "none" /\ ~cancelled /\ deadline # "passed"
    BY DEF SpawnInv
  <1>1. CASE Child!Launch BY <1>0, <1>1, SpawnAside DEF Child!Launch
  <1>2. CASE Child!DeadlinePasses BY <1>0, <1>2, SpawnAside DEF Child!DeadlinePasses
  <1>3. CASE Child!Abort BY <1>0, <1>3, SpawnAside DEF Child!Abort
  <1>4. CASE Child!GraceOver BY <1>0, <1>4, SpawnAside DEF Child!GraceOver
  <1>5. CASE Child!Forks BY <1>0, <1>5, SpawnAside DEF Child!Forks
  <1>6. CASE Child!Exits
    <2>1. CASE child # "gone" /\ child' = "gone" /\ UNCHANGED grandchild
      BY <1>0, <1>6, <2>1, SpawnAside DEF Child!Exits
    <2>2. CASE grandchild /\ grandchild' = FALSE /\ UNCHANGED child
      <3>1. SpawnTyped' /\ StopsHaveCause' BY <1>0, <1>6, <2>2 DEF Child!Exits
      <3> QED BY <1>6, <2>2, <3>1, SpawnAside DEF Child!Exits
    <2> QED BY <1>6, <2>1, <2>2 DEF Child!Exits
  <1>7. CASE Child!TermKills BY <1>0, <1>7, SpawnAside DEF Child!TermKills
  <1> QED BY <1>1, <1>2, <1>3, <1>4, <1>5, <1>6, <1>7

LEMMA SpawnFailing == ASSUME SpawnBounds, SpawnInv, Child!SpawnFails PROVE SpawnInv'
  <1>1. SpawnTyped' BY DEF SpawnInv, Child!SpawnFails, SpawnTyped, Child!io
  <1>2. ReadIsKept' BY DEF SpawnInv, Child!SpawnFails, ReadIsKept, Child!io
  <1>3. Child!ReadsAreWhole'
    BY DEF SpawnInv, ReadIsKept, Child!SpawnFails, Child!ReadsAreWhole, Child!io
  <1> QED BY <1>1, <1>2, <1>3 DEF SpawnInv, StopsHaveCause, EndsAtTheEnd, Child!SpawnFails, Child!io

LEMMA SpawnReads ==
  ASSUME SpawnBounds, SpawnInv, NEW s \in Child!Streams,
         Child!Writes(s) \/ Child!Reads(s) \/ Child!Ends(s)
  PROVE SpawnInv'
  <1>1. /\ phase = "running" /\ phase' = phase /\ reason' = reason /\ MaxBytes \in Nat /\ MaxOutput \in Nat
        /\ UNCHANGED <<stubborn, grandchild, deadline, signal, grace>>
    BY DEF Child!Writes, Child!Reads, Child!Ends, SpawnBounds
  <1>2. SpawnTyped /\ bytes \in Nat /\ ReadIsKept /\ EndsAtTheEnd /\ StopsHaveCause
    BY DEF SpawnInv, ReadIsKept
  <1>3. CASE Child!Writes(s)
    <2>1. /\ written[s] + 1 \in 0..MaxOutput /\ outlet[s] + 1 \in 0..MaxOutput
          /\ written' = [written EXCEPT ![s] = @ + 1] /\ outlet' = [outlet EXCEPT ![s] = @ + 1]
          /\ UNCHANGED <<child, cancelled, loop, bytes, oversize, kept>> /\ (child # "gone" \/ grandchild)
      BY <1>1, <1>2, <1>3 DEF Child!Writes, SpawnTyped, ReadIsKept
    <2>2. SpawnTyped'
      BY <1>1, <1>2, <2>1 DEF SpawnTyped
    <2>3. ReadIsKept'
      BY <1>1, <1>2, <2>1 DEF ReadIsKept, SpawnTyped
    <2>4. EndsAtTheEnd' /\ StopsHaveCause'
      BY <1>1, <1>2, <2>1 DEF EndsAtTheEnd, StopsHaveCause, Child!Closed
    <2> QED BY <1>1, <2>2, <2>3, <2>4 DEF SpawnInv, Child!ReadsAreWhole
  <1>4. CASE Child!Ends(s)
    <2>1. /\ (cancelled \/ Child!Closed(s)) /\ loop' = [loop EXCEPT ![s] = "over"]
          /\ UNCHANGED <<child, cancelled, outlet, written, bytes, oversize, kept>>
      BY <1>4 DEF Child!Ends
    <2>2. SpawnTyped' /\ ReadIsKept' /\ StopsHaveCause'
      BY <1>1, <1>2, <2>1 DEF SpawnTyped, ReadIsKept, StopsHaveCause
    <2>3. EndsAtTheEnd'
      BY <1>1, <1>2, <2>1 DEF EndsAtTheEnd, SpawnTyped, Child!Closed
    <2> QED BY <1>1, <2>2, <2>3 DEF SpawnInv, Child!ReadsAreWhole
  <1>5. CASE Child!Reads(s)
    <2>1. /\ outlet[s] \in 1..MaxOutput /\ outlet' = [outlet EXCEPT ![s] = @ - 1] /\ bytes' = bytes + 1
          /\ ~oversize /\ ~cancelled /\ written' = written /\ loop[s] = "reading"
      BY <1>2, <1>5 DEF Child!Reads, SpawnTyped, ReadIsKept
    <2>2. CASE Child!OverBudget(bytes + 1)
      <3>1. /\ oversize' = TRUE /\ child' = "gone" /\ cancelled' = TRUE
            /\ loop' = [loop EXCEPT ![s] = "over"] /\ kept' = kept
        BY <1>5, <2>2 DEF Child!Reads
      <3>2. SpawnTyped'
        BY <1>1, <1>2, <2>1, <3>1 DEF SpawnTyped
      <3>3. ReadIsKept' /\ StopsHaveCause' /\ EndsAtTheEnd'
        BY <1>1, <1>2, <2>1, <3>1 DEF SpawnTyped, ReadIsKept, StopsHaveCause, EndsAtTheEnd
      <3> QED BY <1>1, <3>2, <3>3 DEF SpawnInv, Child!ReadsAreWhole
    <2>3. CASE ~Child!OverBudget(bytes + 1)
      <3>1. /\ kept' = [kept EXCEPT ![s] = @ + 1] /\ UNCHANGED <<oversize, child, cancelled, loop>>
            /\ bytes + 1 <= MaxBytes
        BY <1>1, <1>2, <1>5, <2>3 DEF Child!Reads, Child!OverBudget
      <3>2. kept[s] + 1 \in 0..MaxOutput
        BY <1>1, <1>2, <2>1 DEF SpawnTyped, ReadIsKept
      <3>3. SpawnTyped'
        BY <1>1, <1>2, <2>1, <3>1, <3>2 DEF SpawnTyped
      <3>4. ReadIsKept'
        <4>1. \A t \in Child!Streams : outlet'[t] <= written'[t] /\ kept'[t] + outlet'[t] = written'[t]
          BY <1>1, <1>2, <2>1, <3>1 DEF SpawnTyped, ReadIsKept
        <4>2. kept'["stdout"] + kept'["stderr"] = bytes'
          BY <1>1, <1>2, <2>1, <3>1 DEF SpawnTyped, ReadIsKept, Child!Streams
        <4> QED BY <1>1, <1>2, <2>1, <3>1, <4>1, <4>2 DEF ReadIsKept
      <3>5. EndsAtTheEnd' /\ StopsHaveCause'
        BY <1>1, <1>2, <2>1, <3>1 DEF EndsAtTheEnd, StopsHaveCause, SpawnTyped, Child!Closed
      <3> QED BY <1>1, <3>3, <3>4, <3>5 DEF SpawnInv, Child!ReadsAreWhole
    <2> QED BY <2>2, <2>3
  <1> QED BY <1>3, <1>4, <1>5

(* A run that nothing cut off was read to the end of its pipes. *)
LEMMA SpawnReturns == ASSUME SpawnBounds, SpawnInv, Child!Return PROVE SpawnInv'
  <1>1. /\ phase = "running" /\ phase' = "returned" /\ \A s \in Child!Streams : loop[s] = "over"
        /\ UNCHANGED <<child, stubborn, grandchild, signal, grace, cancelled, outlet, written,
                       loop, bytes, oversize>>
        /\ deadline' = IF deadline = "armed" THEN "none" ELSE deadline
    BY DEF Child!Return, Child!Finished
  <1>2. /\ oversize => kept' = [s \in Child!Streams |-> 0] /\ reason' = "too-large"
        /\ ~oversize => kept' = kept
    BY DEF Child!Return
  <1>3. reason' \in {"too-large", "timeout", "aborted", "exited"}
    BY DEF Child!Return, SpawnInv, SpawnTyped
  <1>4. reason' = "exited" => ~oversize /\ deadline # "passed" /\ ~signal
    BY DEF Child!Return, SpawnInv, SpawnTyped
  <1>5. SpawnTyped /\ bytes \in Nat /\ ReadIsKept /\ EndsAtTheEnd /\ StopsHaveCause
        /\ MaxBytes \in Nat /\ MaxOutput \in Nat
    BY DEF SpawnInv, ReadIsKept, SpawnBounds
  <1>6. SpawnTyped'
    BY <1>1, <1>2, <1>3, <1>5 DEF SpawnTyped
  <1>7. ReadIsKept' /\ StopsHaveCause' /\ EndsAtTheEnd'
    BY <1>1, <1>2, <1>5 DEF SpawnTyped, ReadIsKept, StopsHaveCause, EndsAtTheEnd
  <1>8. kept'["stdout"] + kept'["stderr"] <= MaxBytes
    BY <1>1, <1>2, <1>5 DEF SpawnTyped, ReadIsKept, Child!Streams
  <1>9. ASSUME reason' = "exited" PROVE kept' = written'
    <2>1. \A s \in Child!Streams : outlet[s] = 0 /\ kept[s] = written[s]
      BY <1>1, <1>4, <1>5, <1>9 DEF EndsAtTheEnd, StopsHaveCause, ReadIsKept, Child!Closed, SpawnTyped
    <2> QED BY <1>1, <1>2, <1>4, <1>5, <1>9, <2>1 DEF SpawnTyped
  <1> QED BY <1>1, <1>6, <1>7, <1>8, <1>9 DEF SpawnInv, Child!ReadsAreWhole

LEMMA SpawnKeepsOn == ASSUME SpawnBounds, SpawnInv, [Child!Next]_spawnVars PROVE SpawnInv'
  <1>1. CASE UNCHANGED spawnVars
    BY <1>1 DEF spawnVars, SpawnInv, SpawnTyped, StopsHaveCause, ReadIsKept, EndsAtTheEnd,
                Child!Closed, Child!ReadsAreWhole
  <1>2. CASE Child!Next
    BY <1>2, SpawnStops, SpawnFailing, SpawnReads, SpawnReturns DEF Child!Next
  <1> QED BY <1>1, <1>2

-----------------------------------------------------------------------------
(* The calls to a model (ModelCall).                                            *)

ModelBounds ==
  /\ MaxModels \in Nat /\ Attempts \in Nat \ {0} /\ Budget \in Nat
  /\ MaxHedges \in Nat /\ MaxHint \in Nat /\ MaxSteps \in Nat

(* A call that goes on has an attempt left, and its waits were affordable; as *)
(* many requests are out as were sent.                                        *)
CallInBounds ==
  /\ at \in {"send", "sleep"} => attempt < Attempts
  /\ (Budget > 0 => waited <= Budget) /\ flight.out <= flight.sent + 1

(* Why a call that came back with an error was not tried again. *)
FellHonestly ==
  at = "fell" /\ error # "stopped" =>
    /\ \/ Model!Aborts(error) \/ attempt = Attempts
       \/ Budget > 0 /\ \E w \in Model!Waits(error) : waited + w > Budget
    /\ flight.out = 0 \/ flight.sent = MaxHedges

(* A model taken from the chain is remembered as tried. *)
TakenIsTried == \A m \in Model!Chain : falls[m] <= 1 /\ (falls[m] > 0 => m \in tried)

(* Between two steps no error is left. *)
OverHonestly ==
  /\ at = "idle" => error = "none"
  /\ at = "over" /\ part = "chain" /\ error \notin {"none", "stopped"} =>
       Model!Overflow(error) \/ \A m \in Model!Chain : m > model => m \in tried

ModelInv ==
  /\ Model!TypeOK /\ CallInBounds /\ FellHonestly /\ TakenIsTried /\ OverHonestly
  /\ Model!SwitchesAreHeard

LEMMA ModelInitial == ASSUME ModelBounds, Model!Init PROVE ModelInv
  <1>1. /\ at = "idle" /\ attempt = 0 /\ waited = 0 /\ flight = [out |-> 0, sent |-> 0, last |-> "none"]
        /\ error = "none" /\ model \in Model!Models /\ control = -1 /\ tried = {} /\ part = "first"
        /\ stop = FALSE /\ steps = 0 /\ falls = [m \in Model!Chain |-> 0] /\ broken = {}
    BY DEF Model!Init, Model!None
  <1>2. flight \in [out : 0..MaxHedges + 1, sent : 0..MaxHedges, last : Model!Errors \cup {"none"}]
    BY <1>1 DEF ModelBounds
  <1>3. Model!TypeOK
    <2>1. falls \in [Model!Chain -> Nat] /\ control \in Model!Models \cup {-1} BY <1>1
    <2>2. attempt \in 0..Attempts /\ steps \in 0..MaxSteps BY <1>1 DEF ModelBounds
    <2> QED BY <1>1, <1>2, <2>1, <2>2 DEF Model!TypeOK
  <1> QED
    BY <1>1, <1>3
    DEF ModelBounds, ModelInv, CallInBounds, FellHonestly, TakenIsTried, OverHonestly,
        Model!SwitchesAreHeard

(* What the steps of a call leave alone. *)
LEMMA ChoiceKept ==
  ASSUME ModelBounds, ModelInv, UNCHANGED <<Model!choice, part, steps>>
  PROVE  TakenIsTried' /\ Model!SwitchesAreHeard'
  BY DEF Model!choice, ModelInv, TakenIsTried, Model!SwitchesAreHeard

LEMMA CallGoes ==
  ASSUME ModelBounds, ModelInv,
         Model!Send \/ Model!Hedge \/ Model!Wakes \/ Model!SeesStop \/ Model!Answered
  PROVE  ModelInv'
  <1> USE DEF ModelBounds, Model!choice, Model!call
  <1>1. TakenIsTried' /\ Model!SwitchesAreHeard'
    BY ChoiceKept DEF Model!Send, Model!Hedge, Model!Wakes, Model!SeesStop, Model!Answered, ModelInv,
                      TakenIsTried, Model!SwitchesAreHeard
  <1>2. Model!TypeOK /\ CallInBounds /\ FellHonestly /\ OverHonestly BY DEF ModelInv
  <1> USE DEF CallInBounds, FellHonestly, OverHonestly
  <1>3. CASE Model!Send
    <2>1. flight' = [out |-> 1, sent |-> 0, last |-> "none"] BY <1>3 DEF Model!Send, Model!None
    <2>2. /\ attempt' \in 0..Attempts
          /\ flight' \in [out : 0..MaxHedges + 1, sent : 0..MaxHedges, last : Model!Errors \cup {"none"}]
      <3>1. attempt' \in 0..Attempts BY <1>2, <1>3 DEF Model!Send, Model!TypeOK
      <3>2. 1 \in 0..MaxHedges + 1 /\ 0 \in 0..MaxHedges OBVIOUS
      <3> QED BY <2>1, <3>1, <3>2
    <2>3. Model!TypeOK' BY <1>2, <1>3, <2>2 DEF Model!Send, Model!TypeOK
    <2> QED BY <1>1, <1>2, <1>3, <2>1, <2>3 DEF Model!Send, ModelInv
  <1>4. CASE Model!Hedge
    <2>1. /\ flight.sent \in 0..MaxHedges /\ flight.out \in 0..MaxHedges + 1 /\ flight.sent < MaxHedges
          /\ flight' = [out |-> flight.out + 1, sent |-> flight.sent + 1, last |-> flight.last]
          /\ flight.last \in Model!Errors \cup {"none"}
      BY <1>2, <1>4 DEF Model!Hedge, Model!TypeOK
    <2>2. /\ flight' \in [out : 0..MaxHedges + 1, sent : 0..MaxHedges, last : Model!Errors \cup {"none"}]
          /\ flight'.out <= flight'.sent + 1
      <3>1. flight.sent + 1 \in 0..MaxHedges /\ flight.out + 1 \in 0..MaxHedges + 1
            /\ flight.out + 1 <= flight.sent + 1 + 1
        BY <1>2, <2>1
      <3> QED BY <2>1, <3>1
    <2>3. Model!TypeOK' BY <1>2, <1>4, <2>2 DEF Model!Hedge, Model!TypeOK
    <2> QED BY <1>1, <1>2, <1>4, <2>2, <2>3 DEF Model!Hedge, ModelInv
  <1>5. CASE Model!Wakes
    <2>1. Model!TypeOK' BY <1>2, <1>5 DEF Model!Wakes, Model!TypeOK
    <2> QED BY <1>1, <1>2, <1>5, <2>1 DEF Model!Wakes, ModelInv
  <1>6. CASE Model!SeesStop
    <2>1. Model!TypeOK' BY <1>2, <1>6 DEF Model!SeesStop, Model!TypeOK
    <2> QED BY <1>1, <1>2, <1>6, <2>1 DEF Model!SeesStop, ModelInv
  <1>7. CASE Model!Answered
    <2>1. flight' = [out |-> 0, sent |-> 0, last |-> "none"] /\ attempt' = 0 /\ waited' = 0
      BY <1>7 DEF Model!Answered, Model!None, Model!Fresh
    <2>2. Model!TypeOK' BY <1>2, <1>7, <2>1 DEF Model!Answered, Model!TypeOK
    <2> QED BY <1>1, <1>2, <1>7, <2>1, <2>2 DEF Model!Answered, ModelInv
  <1> QED BY <1>3, <1>4, <1>5, <1>6, <1>7

LEMMA WaitsTyped ==
  ASSUME ModelBounds, NEW e PROVE Model!Waits(e) \subseteq Nat
  BY DEF ModelBounds, Model!Waits

(* An attempt that failed: its call falls for a reason, or waits and may afford it. *)
LEMMA AttemptFails ==
  ASSUME ModelBounds, ModelInv, NEW e \in Model!Errors, Model!Fails(e), at = "await",
         UNCHANGED <<Model!choice, part, stop, steps>>,
         flight' \in [out : 0..MaxHedges + 1, sent : 0..MaxHedges, last : Model!Errors \cup {"none"}],
         flight'.out <= flight'.sent + 1, flight'.out = 0 \/ flight'.sent = MaxHedges,
         attempt \in 0..Attempts
  PROVE  ModelInv'
  <1>1. TakenIsTried' /\ Model!SwitchesAreHeard' BY ChoiceKept
  <1>2. Model!TypeOK /\ CallInBounds BY DEF ModelInv
  <1>3. CASE /\ Model!Aborts(e) \/ attempt >= Attempts \/ \E w \in Model!Waits(e) : ~Model!Affords(w)
             /\ at' = "fell" /\ error' = e /\ UNCHANGED <<attempt, waited>>
    <2>1. Model!TypeOK' BY <1>2, <1>3 DEF Model!TypeOK, Model!choice
    <2>2. Model!Waits(e)' = Model!Waits(e)
      BY <1>3 DEF Model!Waits
    <2>3. (\E w \in Model!Waits(e) : ~Model!Affords(w)) =>
             Budget > 0 /\ \E w \in Model!Waits(e) : waited + w > Budget
      BY <1>2, WaitsTyped DEF ModelBounds, Model!Affords, Model!TypeOK
    <2>4. attempt >= Attempts => attempt = Attempts BY DEF ModelBounds
    <2>5. FellHonestly'
      BY <1>3, <2>2, <2>3, <2>4 DEF FellHonestly, Model!Waits
    <2> QED BY <1>1, <1>2, <1>3, <2>1, <2>5 DEF ModelInv, CallInBounds, OverHonestly
  <1>4. CASE /\ ~Model!Aborts(e) /\ attempt < Attempts
             /\ \E w \in Model!Waits(e) : Model!Affords(w) /\ waited' = waited + w
             /\ at' = "sleep" /\ UNCHANGED <<attempt, error>>
    <2>1. waited' \in Nat /\ (Budget > 0 => waited' <= Budget)
      BY <1>2, <1>4, WaitsTyped DEF ModelBounds, Model!Affords, Model!TypeOK
    <2>2. Model!TypeOK' BY <1>2, <1>4, <2>1 DEF Model!TypeOK, Model!choice
    <2> QED BY <1>1, <1>4, <2>1, <2>2 DEF ModelInv, CallInBounds, FellHonestly, OverHonestly
  <1> QED BY <1>3, <1>4 DEF Model!Fails

LEMMA CallFails ==
  ASSUME ModelBounds, ModelInv, (\E e \in Model!Errors : Model!Errs(e)) \/ Model!TimesOut
  PROVE  ModelInv'
  <1>1. /\ Model!TypeOK /\ CallInBounds /\ attempt \in 0..Attempts
        /\ flight \in [out : 0..MaxHedges + 1, sent : 0..MaxHedges, last : Model!Errors \cup {"none"}]
        /\ flight.out <= flight.sent + 1
    BY DEF ModelInv, Model!TypeOK, CallInBounds
  <1>2. ASSUME NEW e \in Model!Errors, Model!Errs(e) PROVE ModelInv'
    <2>1. /\ flight' = [flight EXCEPT !.out = @ - 1, !.last = e] /\ flight.out > 0 /\ at = "await"
          /\ UNCHANGED <<Model!choice, part, stop, steps>>
      BY <1>2 DEF Model!Errs
    <2>0. /\ flight' = [out |-> flight.out - 1, sent |-> flight.sent, last |-> e]
          /\ flight.out - 1 \in 0..MaxHedges + 1 /\ flight.sent \in 0..MaxHedges
          /\ flight.out \in Nat /\ flight.out - 1 <= flight.sent + 1
      <3>1. flight.out \in 0..MaxHedges + 1 /\ flight.sent \in 0..MaxHedges BY <1>1
      <3>2. flight' = [out |-> flight.out - 1, sent |-> flight.sent, last |-> e] BY <1>1, <2>1
      <3>3. flight.out > 0 /\ flight.out <= flight.sent + 1 BY <1>1, <2>1
      <3> QED BY <3>1, <3>2, <3>3 DEF ModelBounds
    <2>2. /\ flight' \in [out : 0..MaxHedges + 1, sent : 0..MaxHedges, last : Model!Errors \cup {"none"}]
          /\ flight'.out = flight.out - 1 /\ flight'.sent = flight.sent /\ flight'.out <= flight'.sent + 1
      BY <2>0
    <2>3. CASE flight.out = 1
      <3>1. flight'.out = 0 BY <2>2, <2>3
      <3>2. Model!Fails(e) BY <1>2, <2>3 DEF Model!Errs
      <3> QED BY <1>1, <2>1, <2>2, <3>1, <3>2, AttemptFails
    <2>4. CASE flight.out # 1
      <3>1. UNCHANGED <<at, error, attempt, waited>> BY <1>2, <2>4 DEF Model!Errs
      <3>2. Model!TypeOK' BY <1>1, <2>1, <2>2, <3>1 DEF Model!TypeOK, Model!choice
      <3> QED
        BY <1>1, <2>1, <2>2, <3>1, <3>2, ChoiceKept
        DEF ModelInv, CallInBounds, FellHonestly, OverHonestly
    <2> QED BY <2>3, <2>4
  <1>3. CASE Model!TimesOut
    <2> DEFINE e == IF flight.last = "none" THEN "failure" ELSE flight.last
    <2>1. e \in Model!Errors BY <1>1 DEF Model!Errors
    <2>2. /\ Model!Fails(e) /\ at = "await" /\ flight' = flight /\ flight.sent = MaxHedges
          /\ UNCHANGED <<Model!choice, part, stop, steps>>
      BY <1>3 DEF Model!TimesOut
    <2> HIDE DEF e
    <2> QED BY <1>1, <2>1, <2>2, AttemptFails
  <1> QED BY <1>2, <1>3

(* A call asked anew. *)
LEMMA CallAnew ==
  ASSUME ModelBounds, ModelInv, Model!Call, error' = error, stop' = stop, steps' \in 0..MaxSteps,
         part' \in {"first", "squeezed", "chain"}, model' \in Model!Models,
         control' \in Model!Models \cup {-1}, tried' \subseteq Model!Models,
         falls' \in [Model!Chain -> Nat], broken' \subseteq Model!Models,
         TakenIsTried', Model!SwitchesAreHeard'
  PROVE  ModelInv'
  <1>1. at' = "send" /\ attempt' = 0 /\ waited' = 0 /\ flight' = [out |-> 0, sent |-> 0, last |-> "none"]
    BY DEF Model!Call, Model!Fresh, Model!None
  <1>2. Model!TypeOK' BY <1>1 DEF ModelBounds, ModelInv, Model!TypeOK
  <1> QED BY <1>1, <1>2 DEF ModelBounds, ModelInv, CallInBounds, FellHonestly, OverHonestly

LEMMA StepGoes ==
  ASSUME ModelBounds, ModelInv,
         Model!Step \/ Model!GivesUp \/ Model!Exhausted \/ Model!Stops \/ Model!Leaves
           \/ \E b \in BOOLEAN : Model!Squeeze(b)
  PROVE  ModelInv'
  <1>1. Model!TypeOK BY DEF ModelInv
  <1>2. CASE Model!Step
    <2>1. steps' \in 0..MaxSteps BY <1>1, <1>2 DEF Model!Step, Model!TypeOK, ModelBounds
    <2> QED BY <1>1, <1>2, <2>1, CallAnew, ChoiceKept
            DEF Model!Step, Model!choice, ModelInv, Model!TypeOK, TakenIsTried, Model!SwitchesAreHeard
  <1>3. CASE \E b \in BOOLEAN : Model!Squeeze(b)
    <2>1. PICK b \in BOOLEAN : Model!Squeeze(b) BY <1>3
    <2>2. CASE b
      BY <1>1, <2>1, <2>2, CallAnew
      DEF Model!Squeeze, Model!choice, ModelInv, Model!TypeOK, TakenIsTried, Model!SwitchesAreHeard
    <2>3. CASE ~b
      <3>1. /\ part = "first" /\ at' = "over"
            /\ UNCHANGED <<Model!call, error, Model!choice, part, stop, steps>>
        BY <2>1, <2>3 DEF Model!Squeeze, Model!Fatal
      <3>2. Model!TypeOK' BY <1>1, <3>1 DEF Model!TypeOK, Model!call, Model!choice
      <3> QED
        BY <3>1, <3>2
        DEF Model!call, Model!choice, ModelInv, CallInBounds, FellHonestly, OverHonestly,
            TakenIsTried, Model!SwitchesAreHeard
    <2> QED BY <2>2, <2>3
  <1>4. CASE Model!GivesUp
    <2>1. Model!TypeOK' BY <1>1, <1>4 DEF Model!TypeOK, Model!call, Model!choice, Model!GivesUp, Model!Fatal
    <2> QED
      BY <1>4, <2>1
      DEF Model!GivesUp, Model!Fatal, Model!call, Model!choice, ModelInv, CallInBounds, FellHonestly,
          OverHonestly, Model!Overflow, TakenIsTried, Model!SwitchesAreHeard
  <1>5. CASE Model!Exhausted
    <2>1. Model!TypeOK' BY <1>1, <1>5 DEF Model!TypeOK, Model!call, Model!Exhausted
    <2>2. \A m \in Model!Chain : m > model' => m \in tried'
      BY <1>1, <1>5 DEF Model!Exhausted, Model!Left
    <2> QED
      BY <1>5, <2>1, <2>2
      DEF Model!Exhausted, Model!call, ModelInv, CallInBounds, FellHonestly, OverHonestly,
          TakenIsTried, Model!SwitchesAreHeard
  <1>6. CASE Model!Stops
    <2>1. Model!TypeOK' BY <1>1, <1>6 DEF Model!TypeOK, Model!call, Model!choice, Model!Stops
    <2> QED
      BY <1>6, <2>1
      DEF Model!Stops, Model!call, Model!choice, ModelInv, CallInBounds, FellHonestly, OverHonestly,
          TakenIsTried, Model!SwitchesAreHeard, Model!Waits
  <1>7. CASE Model!Leaves
    <2>1. Model!TypeOK' BY <1>1, <1>7 DEF Model!TypeOK, Model!call, Model!choice, Model!Leaves
    <2> QED
      BY <1>7, <2>1
      DEF Model!Leaves, Model!call, Model!choice, ModelInv, CallInBounds, FellHonestly, OverHonestly,
          TakenIsTried, Model!SwitchesAreHeard
  <1> QED BY <1>2, <1>3, <1>4, <1>5, <1>6, <1>7

(* The chain takes over, once with each model; the user's switch is heard or remembered as broken. *)
LEMMA ModelChosen ==
  ASSUME ModelBounds, ModelInv, NEW m \in Model!Models, NEW made \in BOOLEAN,
         Model!Fallback(m, made) \/ Model!Switch(m, made)
  PROVE  ModelInv'
  <1>1. Model!TypeOK BY DEF ModelInv
  <1>2. CASE Model!Fallback(m, made)
    <2>1. /\ m \in Model!Chain /\ m \notin tried /\ tried' = tried \cup {model, m} /\ stop' = stop
          /\ falls' = [falls EXCEPT ![m] = @ + 1] /\ at = "fell" /\ broken' = broken /\ steps' = steps
          /\ error' = error
      BY <1>2 DEF Model!Fallback, Model!Left, Model!Tries
    <2>2. falls[m] = 0 BY <1>1, <2>1 DEF ModelInv, TakenIsTried, Model!TypeOK
    <2>3. falls' \in [Model!Chain -> Nat] /\ TakenIsTried'
      BY <1>1, <2>1, <2>2 DEF ModelInv, TakenIsTried, Model!TypeOK
    <2>4. tried' \subseteq Model!Models BY <1>1, <2>1 DEF Model!TypeOK
    <2>5. CASE made
      <3>1. Model!Call /\ model' = m /\ control' = m /\ part' = "chain"
        BY <1>2, <2>5 DEF Model!Fallback, Model!Applied
      <3>2. Model!SwitchesAreHeard' BY <3>1 DEF Model!SwitchesAreHeard
      <3>3. steps' \in 0..MaxSteps /\ broken' \subseteq Model!Models BY <1>1, <2>1 DEF Model!TypeOK
      <3> QED BY <2>1, <2>3, <2>4, <3>1, <3>2, <3>3, CallAnew
    <2>6. CASE ~made
      <3>1. UNCHANGED <<at, Model!call, error, model, control, part, broken>>
        BY <1>2, <2>6 DEF Model!Fallback
      <3>2. Model!TypeOK' BY <1>1, <2>1, <2>3, <2>4, <3>1 DEF Model!TypeOK, Model!call
      <3> QED
        BY <2>1, <2>3, <3>1, <3>2
        DEF ModelInv, Model!call, CallInBounds, FellHonestly, OverHonestly, Model!SwitchesAreHeard,
            Model!Waits
    <2> QED BY <2>5, <2>6
  <1>3. CASE Model!Switch(m, made)
    <2>1. Model!SwitchesAreHeard' BY <1>3 DEF Model!Switch, Model!SwitchesAreHeard
    <2>2. model' \in Model!Models /\ control' \in Model!Models /\ broken' \subseteq Model!Models
      BY <1>1, <1>3 DEF Model!Switch, Model!TypeOK
    <2>3. Model!TypeOK' BY <1>1, <1>3, <2>2 DEF Model!TypeOK, Model!call, Model!Switch
    <2> QED
      BY <1>3, <2>1, <2>3
      DEF Model!Switch, ModelInv, Model!call, CallInBounds, FellHonestly, OverHonestly, TakenIsTried
  <1> QED BY <1>2, <1>3

LEMMA ModelKeepsOn ==
  ASSUME ModelBounds, ModelInv, [Model!Next]_callVars
  PROVE  ModelInv'
  <1>1. CASE UNCHANGED callVars
    <2>1. Model!TypeOK' /\ CallInBounds' BY <1>1 DEF callVars, ModelInv, Model!TypeOK, CallInBounds
    <2>2. FellHonestly' BY <1>1 DEF callVars, ModelInv, FellHonestly, Model!Waits
    <2>3. OverHonestly' /\ TakenIsTried' /\ Model!SwitchesAreHeard'
      BY <1>1 DEF callVars, ModelInv, OverHonestly, TakenIsTried, Model!SwitchesAreHeard
    <2> QED BY <2>1, <2>2, <2>3 DEF ModelInv
  <1>2. CASE Model!Next
    <2>1. CASE \E b \in BOOLEAN : \E m \in Model!Models : Model!Fallback(m, b) \/ Model!Switch(m, b)
      BY <2>1, ModelChosen
    <2>2. CASE Model!Send \/ Model!Hedge \/ Model!Wakes \/ Model!SeesStop \/ Model!Answered
      BY <2>2, CallGoes
    <2>3. CASE (\E e \in Model!Errors : Model!Errs(e)) \/ Model!TimesOut
      BY <2>3, CallFails
    <2>4. CASE Model!Step \/ Model!GivesUp \/ Model!Exhausted \/ Model!Stops \/ Model!Leaves
                 \/ \E b \in BOOLEAN : Model!Squeeze(b)
      BY <2>4, StepGoes
    <2> QED BY <1>2, <2>1, <2>2, <2>3, <2>4 DEF Model!Next
  <1> QED BY <1>1, <1>2

LEMMA ModelHonest ==
  ASSUME ModelInv PROVE Model!CallsFailHonestly /\ Model!ChainIsWalkedOnce
  BY DEF ModelInv, CallInBounds, FellHonestly, OverHonestly, TakenIsTried, Model!CallsFailHonestly,
         Model!ChainIsWalkedOnce

-----------------------------------------------------------------------------
(* The race of the workers' calls (WorkerRace).                                 *)

RaceBounds == IsFiniteSet(Units) /\ MaxInflight \in Nat /\ MaxCalls \in Nat \ {0}

(* The calls in flight, each on a slot. *)
InFlight == {h \in Units \X Race!Calls : fork[h[1]][h[2]] = "running"}

(* A unit's calls are started in order. *)
InOrder(u) == \E n \in 0..MaxCalls : Race!Started(u) = 1..n

(* A loop waits only for a call it can start; it has heard calls that came  *)
(* back, none of them valid; and it leaves with the best of what it heard.  *)
RaceOK(u) ==
  /\ InOrder(u)
  /\ racer[u].at \in {"asks", "queued", "spare"} => \E k \in Race!Calls : fork[u][k] = "none"
  /\ \A k \in racer[u].heard : fork[u][k] \in Race!Answers
  /\ racer[u].at # "back" => \A k \in racer[u].heard : fork[u][k] # "valid"
  /\ racer[u].at = "back" =>
       /\ \E k \in racer[u].heard : fork[u][k] = racer[u].result
       /\ racer[u].result # "valid" => racer[u].heard = Race!Calls
       /\ \A k \in racer[u].heard : fork[u][k] = "valid" => racer[u].result = "valid"
       /\ \A k \in racer[u].heard : fork[u][k] = "invalid" => racer[u].result # "failed"

RaceInv ==
  /\ Race!TypeOK /\ \A u \in Units : RaceOK(u)
  /\ free + Cardinality(InFlight) + (IF warm = "running" THEN 1 ELSE 0) = MaxInflight

(* The cardinality the instance speaks of is that of FiniteSets. *)
LEMMA SameCardinality ==
  ASSUME NEW S PROVE Race!Cardinality(S) = Cardinality(S)
  BY DEF Race!Cardinality, Cardinality

LEMMA InFlightFinite ==
  ASSUME RaceBounds PROVE IsFiniteSet(InFlight) /\ Cardinality(InFlight) \in Nat
  <1>1. IsFiniteSet(Race!Calls) BY FS_Interval DEF RaceBounds, Race!Calls
  <1>2. IsFiniteSet(Units \X Race!Calls) BY <1>1, FS_Product DEF RaceBounds
  <1>3. IsFiniteSet(InFlight) BY <1>2, FS_Subset DEF InFlight
  <1> QED BY <1>3, FS_CardinalityType

LEMMA RaceInitial == ASSUME RaceBounds, Race!Init PROVE RaceInv
  <1>1. /\ fork = [u \in Units |-> [k \in Race!Calls |-> "none"]] /\ free = MaxInflight
        /\ racer = [u \in Units |-> [at |-> "asks", heard |-> {}, result |-> "none"]]
        /\ warm \in {"asks", "over"}
    BY DEF Race!Init
  <1>2. Race!TypeOK BY <1>1 DEF RaceBounds, Race!TypeOK, Race!Racer
  <1>3. 1 \in Race!Calls BY DEF RaceBounds, Race!Calls
  <1>4. \A u \in Units : RaceOK(u)
    <2>1. SUFFICES ASSUME NEW u \in Units PROVE RaceOK(u) OBVIOUS
    <2>2. /\ racer[u] = [at |-> "asks", heard |-> {}, result |-> "none"]
          /\ \A k \in Race!Calls : fork[u][k] = "none"
      BY <1>1
    <2>3. Race!Started(u) = 1..0 BY <2>2 DEF Race!Started
    <2>4. InOrder(u) BY <2>3 DEF InOrder, RaceBounds
    <2> QED BY <1>3, <2>2, <2>4 DEF RaceOK
  <1>5. InFlight = {} BY <1>1 DEF InFlight
  <1>6. Cardinality(InFlight) = 0 BY <1>5, FS_EmptySet
  <1> QED BY <1>1, <1>2, <1>4, <1>6 DEF RaceInv, RaceBounds

(* The next call of a unit is the one after those started. *)
LEMMA NextCall ==
  ASSUME RaceBounds, NEW u \in Units, InOrder(u), \E k \in Race!Calls : fork[u][k] = "none"
  PROVE  LET n == Cardinality(Race!Started(u)) IN
         n \in Nat /\ n + 1 \in Race!Calls /\ fork[u][n + 1] = "none" /\ Race!Started(u) = 1..n
  <1>1. PICK n \in 0..MaxCalls : Race!Started(u) = 1..n BY DEF InOrder
  <1>2. Cardinality(Race!Started(u)) = n
    <2>1. MaxCalls \in Nat BY DEF RaceBounds
    <2>2. n \in Nat /\ 1 \in Int /\ n \in Int BY <2>1
    <2>3. Cardinality(1..n) = n BY <2>2, FS_Interval
    <2> QED BY <1>1, <2>3
  <1>3. PICK k \in Race!Calls : fork[u][k] = "none" OBVIOUS
  <1>4. k \notin 1..n BY <1>1, <1>3 DEF Race!Started
  <1>5. n \in Nat /\ n + 1 \in Race!Calls /\ n + 1 \notin 1..n
    BY <1>3, <1>4 DEF RaceBounds, Race!Calls
  <1>6. fork[u][n + 1] = "none" BY <1>1, <1>5 DEF Race!Started
  <1> QED BY <1>1, <1>2, <1>5, <1>6

(* A call started takes the slot that is no longer free. *)
LEMMA RaceStarts ==
  ASSUME RaceBounds, RaceInv, NEW u \in Units, Race!Start(u), warm' = warm,
         racer[u].at \in {"queued", "spare"}
  PROVE  RaceInv'
  <1> DEFINE n == Cardinality(Race!Started(u))
  <1>1. /\ Race!TypeOK /\ \A v \in Units : RaceOK(v)
        /\ free + Cardinality(InFlight) + (IF warm = "running" THEN 1 ELSE 0) = MaxInflight
    BY DEF RaceInv
  <1>2. /\ n \in Nat /\ n + 1 \in Race!Calls /\ fork[u][n + 1] = "none" /\ Race!Started(u) = 1..n
    BY <1>1, NextCall DEF RaceOK
  <1>3. /\ free > 0 /\ free' = free - 1 /\ fork' = [fork EXCEPT ![u][n + 1] = "running"]
        /\ racer' = [racer EXCEPT ![u].at = "loop"]
    BY SameCardinality DEF Race!Start
  <1> HIDE DEF n
  <1>4. fork' = [fork EXCEPT ![u] = [fork[u] EXCEPT ![n + 1] = "running"]]
    BY <1>3
  <1>5. /\ fork \in [Units -> [Race!Calls -> {"none", "running"} \cup Race!Answers]]
        /\ racer \in [Units -> Race!Racer] /\ free \in 0..MaxInflight
    BY <1>1 DEF Race!TypeOK
  <1>6. /\ fork' \in [Units -> [Race!Calls -> {"none", "running"} \cup Race!Answers]]
        /\ fork'[u][n + 1] = "running"
        /\ \A k \in Race!Calls \ {n + 1} : fork'[u][k] = fork[u][k]
        /\ \A v \in Units \ {u} : fork'[v] = fork[v]
    BY <1>2, <1>4, <1>5
  <1>7. /\ racer' \in [Units -> Race!Racer] /\ racer'[u].at = "loop" /\ racer'[u].heard = racer[u].heard
        /\ \A v \in Units \ {u} : racer'[v] = racer[v]
    BY <1>3, <1>5 DEF Race!Racer
  <1>8. Race!TypeOK'
    <2>1. free' \in 0..MaxInflight BY <1>3, <1>5 DEF RaceBounds
    <2> QED BY <1>1, <1>6, <1>7, <2>1 DEF Race!TypeOK
  <1>9. ASSUME NEW v \in Units PROVE RaceOK(v)'
    <2>1. CASE v # u
      BY <1>1, <1>6, <1>7, <2>1 DEF RaceOK, InOrder, Race!Started
    <2>2. CASE v = u
      <3>1. Race!Started(u)' = 1..(n + 1)
        BY <1>2, <1>6 DEF Race!Started, Race!Calls
      <3>2. InOrder(u)' BY <1>2, <3>1 DEF InOrder, RaceBounds, Race!Calls
      <3>3. racer[u].heard \subseteq Race!Calls BY <1>5 DEF Race!Racer
      <3>4. \A k \in racer'[u].heard : fork'[u][k] = fork[u][k]
        BY <1>1, <1>2, <1>6, <1>7, <3>3 DEF RaceOK, Race!Answers
      <3> QED BY <1>1, <1>7, <2>2, <3>2, <3>4 DEF RaceOK
    <2> QED BY <2>1, <2>2
  <1>10. InFlight' = InFlight \cup {<<u, n + 1>>} /\ <<u, n + 1>> \notin InFlight
    BY <1>2, <1>6 DEF InFlight
  <1>11. Cardinality(InFlight') = Cardinality(InFlight) + 1
    BY <1>10, InFlightFinite, FS_AddElement
  <1>12. free' + Cardinality(InFlight') + (IF warm' = "running" THEN 1 ELSE 0) = MaxInflight
    BY <1>1, <1>3, <1>5, <1>11, InFlightFinite DEF RaceBounds
  <1> QED BY <1>8, <1>9, <1>12 DEF RaceInv

(* A loop that looks, waits or gives up a spare slot: no call starts or ends. *)
LEMMA LoopStep ==
  ASSUME RaceBounds, RaceInv, NEW u \in Units, NEW r \in Race!Racer,
         racer' = [racer EXCEPT ![u] = r], UNCHANGED <<free, warm, fork>>, RaceOK(u)'
  PROVE  RaceInv'
  <1>1. Race!TypeOK' BY DEF RaceInv, Race!TypeOK
  <1>2. ASSUME NEW v \in Units \ {u} PROVE RaceOK(v)'
    <2>1. racer'[v] = racer[v] BY <1>2 DEF RaceInv, Race!TypeOK
    <2> QED BY <2>1 DEF RaceInv, RaceOK, InOrder, Race!Started
  <1>3. InFlight' = InFlight BY DEF InFlight
  <1> QED BY <1>1, <1>2, <1>3 DEF RaceInv

LEMMA LoopLooks ==
  ASSUME RaceBounds, RaceInv, NEW u \in Units,
         Race!Announce(u) \/ Race!Stall(u) \/ (Race!TrySpare(u) /\ ~(free > 0))
  PROVE  RaceInv'
  <1>1. PICK at_ \in {"queued", "spare", "loop"} :
          /\ racer' = [racer EXCEPT ![u].at = at_] /\ UNCHANGED <<free, warm, fork>>
          /\ racer[u].at # "back"
          /\ at_ # "loop" => racer[u].at = "asks" \/ Race!CanStart(u)
    BY DEF Race!Announce, Race!Stall, Race!TrySpare
  <1> DEFINE r == [racer[u] EXCEPT !.at = at_]
  <1>2. racer \in [Units -> Race!Racer] /\ RaceOK(u) BY DEF RaceInv, Race!TypeOK
  <1>3. r \in Race!Racer /\ racer' = [racer EXCEPT ![u] = r] BY <1>1, <1>2 DEF Race!Racer
  <1>4. racer'[u].at = at_ /\ racer'[u].heard = racer[u].heard
    BY <1>1, <1>2 DEF Race!Racer
  <1>5. Race!CanStart(u) => \E k \in Race!Calls : fork[u][k] = "none"
    BY DEF Race!CanStart, Race!Started
  <1>6. RaceOK(u)'
    BY <1>1, <1>2, <1>4, <1>5 DEF RaceOK, InOrder, Race!Started
  <1> HIDE DEF r
  <1> QED BY <1>1, <1>3, <1>6, LoopStep

(* An answer heard: it wins, another call is asked for, or the best of them all is left. *)
LEMMA LoopHears ==
  ASSUME RaceBounds, RaceInv, NEW u \in Units, NEW k \in Race!Calls, Race!Hear(u, k)
  PROVE  RaceInv'
  <1> DEFINE H == racer[u].heard \cup {k}
             stays(p) == [at |-> p, heard |-> H, result |-> "none"]
             r == CASE Race!Wins(fork[u][k]) -> [at |-> "back", heard |-> H, result |-> fork[u][k]]
                    [] ~Race!Wins(fork[u][k]) /\ Race!CanStart(u) -> stays("asks")
                    [] ~Race!Wins(fork[u][k]) /\ ~Race!CanStart(u) /\ H = Race!Calls ->
                         [at |-> "back", heard |-> H, result |-> Race!Leftover(u, H)]
                    [] OTHER -> stays("loop")
  <1>1. /\ racer[u].at = "loop" /\ k \in Race!Unheard(u) \ Race!Running(u)
        /\ racer' = [racer EXCEPT ![u] = r] /\ UNCHANGED <<free, warm, fork>>
    BY DEF Race!Hear
  <1>2. /\ racer \in [Units -> Race!Racer] /\ RaceOK(u)
        /\ fork[u] \in [Race!Calls -> {"none", "running"} \cup Race!Answers]
    BY DEF RaceInv, Race!TypeOK
  <1>3. /\ fork[u][k] \in Race!Answers /\ H \subseteq Race!Calls
        /\ \A j \in H : fork[u][j] \in Race!Answers
        /\ \A j \in H \ {k} : fork[u][j] # "valid"
    BY <1>1, <1>2 DEF RaceOK, Race!Unheard, Race!Running, Race!Started, Race!Racer
  <1>4. InOrder(u)' BY <1>1, <1>2 DEF RaceOK, InOrder, Race!Started
  <1>5. r \in Race!Racer /\ RaceOK(u)'
    <2>1. CASE fork[u][k] = "valid"
      <3>1. r = [at |-> "back", heard |-> H, result |-> "valid"] BY <2>1 DEF Race!Wins
      <3>2. racer'[u] = [at |-> "back", heard |-> H, result |-> "valid"] BY <1>1, <1>2, <3>1
      <3>3. r \in Race!Racer BY <1>3, <3>1 DEF Race!Racer, Race!Answers
      <3>4. RaceOK(u)' BY <1>1, <1>3, <1>4, <2>1, <3>2 DEF RaceOK
      <3> QED BY <3>3, <3>4
    <2>2. CASE fork[u][k] # "valid" /\ Race!CanStart(u)
      <3>1. r = [at |-> "asks", heard |-> H, result |-> "none"] BY <2>2 DEF Race!Wins
      <3>2. racer'[u] = [at |-> "asks", heard |-> H, result |-> "none"] BY <1>1, <1>2, <3>1
      <3>3. r \in Race!Racer BY <1>3, <3>1 DEF Race!Racer
      <3>4. \E j \in Race!Calls : fork[u][j] = "none" BY <2>2 DEF Race!CanStart, Race!Started
      <3>5. RaceOK(u)' BY <1>1, <1>3, <1>4, <2>2, <3>2, <3>4 DEF RaceOK
      <3> QED BY <3>3, <3>5
    <2>3. CASE fork[u][k] # "valid" /\ ~Race!CanStart(u) /\ H = Race!Calls
      <3>1. r = [at |-> "back", heard |-> H, result |-> Race!Leftover(u, H)] BY <2>3 DEF Race!Wins
      <3>2. racer'[u] = [at |-> "back", heard |-> H, result |-> Race!Leftover(u, H)]
        BY <1>1, <1>2, <3>1
      <3>3. r \in Race!Racer BY <1>3, <3>1 DEF Race!Racer, Race!Leftover, Race!Answers
      <3>4. \E j \in H : fork[u][j] = Race!Leftover(u, H)
        BY <1>3, <2>3 DEF Race!Leftover, Race!Answers
      <3>5. \A j \in H : fork[u][j] = "invalid" => Race!Leftover(u, H) # "failed"
        BY DEF Race!Leftover
      <3>6. \A j \in H : fork[u][j] # "valid" BY <1>3, <2>3
      <3> HIDE DEF H, r, stays
      <3>7. RaceOK(u)' BY <1>1, <1>3, <1>4, <2>3, <3>2, <3>4, <3>5, <3>6 DEF RaceOK
      <3> QED BY <3>3, <3>7
    <2>4. CASE fork[u][k] # "valid" /\ ~Race!CanStart(u) /\ H # Race!Calls
      <3>1. r = [at |-> "loop", heard |-> H, result |-> "none"] BY <2>4 DEF Race!Wins
      <3>2. racer'[u] = [at |-> "loop", heard |-> H, result |-> "none"] BY <1>1, <1>2, <3>1
      <3>3. r \in Race!Racer BY <1>3, <3>1 DEF Race!Racer
      <3>4. RaceOK(u)' BY <1>1, <1>3, <1>4, <2>4, <3>2 DEF RaceOK
      <3> QED BY <3>3, <3>4
    <2> QED BY <2>1, <2>2, <2>3, <2>4
  <1> HIDE DEF r
  <1> QED BY <1>1, <1>5, LoopStep

(* A call that ends frees its slot. *)
LEMMA CallsEnding ==
  ASSUME RaceBounds, RaceInv, NEW u \in Units, NEW k \in Race!Calls, NEW a \in Race!Answers,
         Race!CallEnds(u, k, a)
  PROVE  RaceInv'
  <1>1. /\ Race!TypeOK /\ \A v \in Units : RaceOK(v)
        /\ free + Cardinality(InFlight) + (IF warm = "running" THEN 1 ELSE 0) = MaxInflight
    BY DEF RaceInv
  <1>2. /\ fork[u][k] = "running" /\ fork' = [fork EXCEPT ![u][k] = a] /\ free' = free + 1
        /\ warm' = warm /\ racer' = racer
    BY DEF Race!CallEnds, Race!Freed
  <1>3. /\ fork \in [Units -> [Race!Calls -> {"none", "running"} \cup Race!Answers]]
        /\ racer \in [Units -> Race!Racer] /\ free \in 0..MaxInflight
    BY <1>1 DEF Race!TypeOK
  <1>4. /\ fork' \in [Units -> [Race!Calls -> {"none", "running"} \cup Race!Answers]]
        /\ fork'[u][k] = a /\ \A j \in Race!Calls \ {k} : fork'[u][j] = fork[u][j]
        /\ \A v \in Units \ {u} : fork'[v] = fork[v]
    BY <1>2, <1>3
  <1>5. ASSUME NEW v \in Units PROVE RaceOK(v)'
    <2>1. CASE v # u
      BY <1>1, <1>2, <1>4, <2>1 DEF RaceOK, InOrder, Race!Started
    <2>2. CASE v = u
      <3>1. Race!Started(u)' = Race!Started(u)
        BY <1>2, <1>4 DEF Race!Started, Race!Answers
      <3>2. InOrder(u)' BY <1>1, <3>1 DEF RaceOK, InOrder
      <3>3. racer[u].heard \subseteq Race!Calls /\ k \notin racer[u].heard
        BY <1>1, <1>2, <1>3 DEF Race!Racer, RaceOK, Race!Answers
      <3>4. \A j \in racer[u].heard : fork'[u][j] = fork[u][j] BY <1>4, <3>3
      <3>5. (\E j \in Race!Calls : fork[u][j] = "none") => \E j \in Race!Calls : fork'[u][j] = "none"
        BY <1>2, <1>4
      <3> QED BY <1>1, <1>2, <2>2, <3>2, <3>4, <3>5 DEF RaceOK
    <2> QED BY <2>1, <2>2
  <1>6. InFlight' = InFlight \ {<<u, k>>} /\ <<u, k>> \in InFlight
    BY <1>2, <1>4 DEF InFlight, Race!Answers
  <1>7. Cardinality(InFlight') = Cardinality(InFlight) - 1
    BY <1>6, InFlightFinite, FS_RemoveElement
  <1>8. /\ free' + Cardinality(InFlight') + (IF warm' = "running" THEN 1 ELSE 0) = MaxInflight
        /\ free' \in 0..MaxInflight
    <2>1. Cardinality(InFlight') \in Nat
      BY <1>6, InFlightFinite, FS_RemoveElement, FS_CardinalityType
    <2> QED BY <1>1, <1>2, <1>3, <1>7, <2>1, InFlightFinite DEF RaceBounds
  <1>9. Race!TypeOK' BY <1>1, <1>2, <1>4, <1>8 DEF Race!TypeOK
  <1> QED BY <1>5, <1>8, <1>9 DEF RaceInv

LEMMA WarmingGoes == ASSUME RaceBounds, RaceInv, Race!WarmGoes PROVE RaceInv'
  <1>1. /\ UNCHANGED <<racer, fork>> /\ free \in 0..MaxInflight /\ Race!TypeOK
        /\ Cardinality(InFlight) \in Nat /\ MaxInflight \in Nat
        /\ free + Cardinality(InFlight) + (IF warm = "running" THEN 1 ELSE 0) = MaxInflight
    BY InFlightFinite
    DEF Race!WarmGoes, Race!WarmAsks, Race!WarmAcquires, Race!WarmEnds, RaceInv, Race!TypeOK, RaceBounds
  <1>2. InFlight' = InFlight BY <1>1 DEF InFlight
  <1>3. \A u \in Units : RaceOK(u)' BY <1>1 DEF RaceInv, RaceOK, InOrder, Race!Started
  <1>4. /\ warm' \in {"queued", "running", "over"} /\ free' \in 0..MaxInflight
        /\ free' + Cardinality(InFlight) + (IF warm' = "running" THEN 1 ELSE 0) = MaxInflight
    BY <1>1 DEF Race!WarmGoes, Race!WarmAsks, Race!WarmAcquires, Race!WarmEnds
  <1>5. Race!TypeOK' BY <1>1, <1>4 DEF Race!TypeOK
  <1> QED BY <1>2, <1>3, <1>4, <1>5 DEF RaceInv

LEMMA RaceKeepsOn == ASSUME RaceBounds, RaceInv, [Race!Next]_raceVars PROVE RaceInv'
  <1>1. CASE UNCHANGED raceVars
    <2>1. Race!TypeOK' BY <1>1 DEF raceVars, RaceInv, Race!TypeOK
    <2>2. \A u \in Units : RaceOK(u)' BY <1>1 DEF raceVars, RaceInv, RaceOK, InOrder, Race!Started
    <2>3. InFlight' = InFlight /\ free' = free /\ warm' = warm BY <1>1 DEF raceVars, InFlight
    <2> QED BY <2>1, <2>2, <2>3 DEF RaceInv
  <1>2. CASE Race!WarmGoes BY <1>2, WarmingGoes
  <1>3. ASSUME NEW u \in Units,
               Race!Stall(u) \/ Race!LoopGoes(u) \/ \E k \in Race!Calls : Race!CallReturns(u, k)
        PROVE  RaceInv'
    <2>1. CASE Race!Stall(u) BY <2>1, LoopLooks
    <2>2. CASE Race!Announce(u) BY <2>2, LoopLooks
    <2>3. CASE Race!Acquire(u) BY <2>3, RaceStarts DEF Race!Acquire
    <2>4. CASE Race!TrySpare(u)
      <3>1. CASE free > 0 BY <2>4, <3>1, RaceStarts DEF Race!TrySpare
      <3>2. CASE ~(free > 0) BY <2>4, <3>2, LoopLooks
      <3> QED BY <3>1, <3>2
    <2>5. CASE \E k \in Race!Calls : Race!Hear(u, k) BY <2>5, LoopHears
    <2>6. CASE \E k \in Race!Calls : Race!CallReturns(u, k)
      BY <2>6, CallsEnding DEF Race!CallReturns
    <2> QED BY <1>3, <2>1, <2>2, <2>3, <2>4, <2>5, <2>6 DEF Race!LoopGoes
  <1> QED BY <1>1, <1>2, <1>3 DEF Race!Next

LEMMA RaceHonest ==
  ASSUME RaceBounds, RaceInv PROVE Race!TypeOK /\ Race!SlotsAreKept /\ Race!BestAnswerWins
  <1>1. Race!SlotsAreKept BY SameCardinality DEF RaceInv, InFlight, Race!SlotsAreKept
  <1>2. Race!BestAnswerWins BY DEF RaceInv, RaceOK, Race!BestAnswerWins
  <1> QED BY <1>1, <1>2 DEF RaceInv

-----------------------------------------------------------------------------
(* The run of orchestrate (Orchestrate).                                        *)

WavesBounds == IsFiniteSet(Paths) /\ Reviews \in Nat

(* The workers of one plan: nobody shares a file, and nobody's files have    *)
(* changed since they were read; those to be joined are of the run's targets, *)
(* and when the tools write none is left.                                     *)
Apart ==
  /\ units \in Seq(Waves!Unit) /\ (owner = 0 => units = <<>>)
  /\ \A i \in DOMAIN units : units[i].from = owner
  /\ \A i, j \in DOMAIN units : i # j => units[i].files \cap units[j].files = {}
  /\ \A i \in DOMAIN units : \A r \in units[i].read : r[1] \in units[i].files /\ Waves!Content[r[1]] = r[2]
  /\ step = "collect" => \A i \in DOMAIN units : units[i].files \subseteq targets
  /\ step \notin {"plan", "collect"} => \A i \in DOMAIN units : units[i].files = {}

(* What the coordinator was told was written, or its write failed. *)
WritesTold ==
  /\ \A p \in Paths : tree[p] > 0 => p \in targets
  /\ \A p \in Paths : status[p] = "changed" => tree[p] > 0 \/ p \in lost

(* While a review is asked for, the tree is the one the gate saw; a fast     *)
(* result is checked and final.                                              *)
GateTrue ==
  /\ step = "plan" /\ fixing => gated = Waves!Content /\ rounds < Reviews
  /\ path = "fast" =>
       step = "back" /\ targets # {} /\ \A p \in targets \ lost : tree[p] > 0
  /\ step = "back" /\ ok => gated = Waves!Content

WavesTyped ==
  /\ step \in {"plan", "collect", "checks", "gate", "regate", "back"}
  /\ stream \in [Waves!Streams -> {"none", "open", "over"}]
  /\ owner \in {0} \cup Waves!Streams
  /\ tree \in [Paths -> Nat] /\ tidied \in [Paths -> Nat] /\ status \in [Paths -> Waves!Statuses]
  /\ targets \subseteq Paths /\ lost \subseteq Paths /\ text \in {"", "fast", "full"}
  /\ path \in {"full", "fast", "fast->full"} /\ rounds \in 0..Reviews
  /\ ok \in BOOLEAN /\ fixing \in BOOLEAN /\ gated \in [Paths -> Nat]

WavesInv == WavesTyped /\ Apart /\ WritesTold /\ GateTrue

LEMMA WavesCardinality ==
  ASSUME NEW S PROVE Waves!Cardinality(S) = Cardinality(S)
  BY DEF Waves!Cardinality, Cardinality

LEMMA WavesHonest ==
  ASSUME WavesInv PROVE Waves!TypeOK /\ Waves!WorkersApart /\ Waves!SuccessIsGated
  <1>1. {ok, fixing} \subseteq BOOLEAN /\ targets \cup lost \subseteq Paths
    BY DEF WavesInv, WavesTyped
  <1>2. \A i \in DOMAIN units : units[i] \in Waves!Unit
    BY DEF WavesInv, Apart
  <1>3. Waves!TypeOK BY <1>1, <1>2 DEF WavesInv, WavesTyped, Waves!TypeOK
  <1>4. Waves!WorkersApart BY DEF WavesInv, Apart, Waves!WorkersApart
  <1>5. Waves!SuccessIsGated BY DEF WavesInv, WavesTyped, WritesTold, GateTrue, Waves!SuccessIsGated
  <1> QED BY <1>3, <1>4, <1>5

LEMMA WavesInitial == ASSUME WavesBounds, Waves!Init PROVE WavesInv
  <1>1. units = <<>> /\ owner = 0 /\ step = "plan" /\ fixing = FALSE BY DEF Waves!Init
  <1>2. units \in Seq(Waves!Unit) /\ DOMAIN units = {} BY <1>1
  <1>3. Apart BY <1>1, <1>2 DEF Apart
  <1>4. /\ stream \in [Waves!Streams -> {"none", "open", "over"}]
        /\ tree \in [Paths -> Nat] /\ tidied \in [Paths -> Nat]
        /\ status \in [Paths -> Waves!Statuses] /\ gated \in [Paths -> Nat]
    BY DEF Waves!Init, Waves!Statuses
  <1>5. WavesTyped
    <2>1. /\ owner = 0 /\ rounds = 0 /\ targets = {} /\ lost = {} /\ text = "" /\ path = "full"
          /\ ok = FALSE /\ fixing = FALSE /\ step = "plan"
      BY DEF Waves!Init
    <2>2. rounds \in 0..Reviews
      <3>1. Reviews \in Nat BY DEF WavesBounds
      <3>2. rounds = 0 BY <2>1
      <3> QED BY <3>1, <3>2
    <2> QED BY <1>4, <2>1, <2>2 DEF WavesTyped
  <1>6. WritesTold
    <2>1. \A p \in Paths : ~(tree[p] > 0)
      <3>1. tree = [p \in Paths |-> 0] BY DEF Waves!Init
      <3> QED BY <3>1
    <2>2. \A p \in Paths : status[p] # "changed" BY DEF Waves!Init
    <2> QED BY <2>1, <2>2 DEF WritesTold
  <1>7. GateTrue BY <1>1 DEF Waves!Init, GateTrue
  <1> QED BY <1>3, <1>5, <1>6, <1>7 DEF WavesInv

(* What the tree holds is what the workers and the tools wrote. *)
LEMMA ContentKept == ASSUME UNCHANGED <<tree, tidied>> PROVE UNCHANGED Waves!Content
  BY DEF Waves!Content

LEMMA UnitFiles == ASSUME NEW x \in Waves!Unit PROVE x.files \subseteq Paths
  BY DEF Waves!Unit

(* The workers of a block work on its files, one or all of them each. *)
LEMMA WorkersOfBlock ==
  ASSUME WavesBounds, NEW s \in Waves!Streams, NEW P \in SUBSET Paths, NEW w \in Waves!Workers(s, P)
  PROVE  /\ w \in Seq(Waves!Unit)
         /\ \A i \in DOMAIN w : w[i].from = s /\ w[i].read = {} /\ w[i].files \subseteq P
         /\ \A i, j \in DOMAIN w : i # j => w[i].files \cap w[j].files = {}
  <1> DEFINE R == Waves!Runs(P)
  <1>1. IsFiniteSet(P) BY FS_Subset DEF WavesBounds
  <1>2. IsFiniteSet(R)
    <2>1. IsFiniteSet(SUBSET P) BY <1>1, FS_SUBSET
    <2>2. R \subseteq SUBSET P BY DEF Waves!Runs
    <2> QED BY <2>1, <2>2, FS_Subset
  <1>3. Cardinality(R) \in Nat BY <1>2, FS_CardinalityType
  <1>4. PICK q \in [1..Cardinality(R) -> R] :
          /\ \A i, j \in DOMAIN q : q[i] = q[j] => i = j
          /\ w = [i \in 1..Cardinality(R) |-> [files |-> q[i], from |-> s, read |-> {}]]
    BY WavesCardinality DEF Waves!Workers
  <1>5. R \subseteq SUBSET P /\ \A A, B \in R : A # B => A \cap B = {}
    BY DEF Waves!Runs
  <1> HIDE DEF R
  <1>6. \A i \in 1..Cardinality(R) : q[i] \in SUBSET P /\ [files |-> q[i], from |-> s, read |-> {}] \in Waves!Unit
    BY <1>4, <1>5 DEF Waves!Unit
  <1>7. w \in Seq(Waves!Unit) BY <1>3, <1>4, <1>6
  <1>8. DOMAIN w = 1..Cardinality(R) /\ DOMAIN q = 1..Cardinality(R) BY <1>4
  <1>9. \A i \in DOMAIN w : w[i].from = s /\ w[i].read = {} /\ w[i].files = q[i] /\ q[i] \in R
    BY <1>4, <1>8
  <1>10. \A i \in DOMAIN w : w[i].files \subseteq P BY <1>5, <1>9
  <1>11. \A i, j \in DOMAIN w : i # j => w[i].files \cap w[j].files = {}
    BY <1>4, <1>5, <1>8, <1>9
  <1> QED BY <1>7, <1>9, <1>10, <1>11

LEMMA WavesBlock ==
  ASSUME WavesBounds, WavesInv, NEW s \in Waves!Streams, NEW P \in SUBSET Paths, Waves!Block(s, P)
  PROVE  WavesInv'
  <1>1. PICK w \in Waves!Workers(s, Waves!Fresh(P)) : units' = units \o w BY DEF Waves!Block
  <1>2. /\ step = "plan" /\ owner \in {0, s} /\ owner' = s
        /\ UNCHANGED <<step, stream, text, tree, status, fixing, lost, targets, path, rounds, ok, tidied, gated>>
    BY DEF Waves!Block, Waves!Follows, Waves!result
  <1>3. Waves!Fresh(P) \subseteq Paths /\ \A i \in DOMAIN units : units[i].files \cap Waves!Fresh(P) = {}
    BY DEF Waves!Fresh, Waves!Dispatched
  <1>4. /\ w \in Seq(Waves!Unit)
        /\ \A i \in DOMAIN w : w[i].from = s /\ w[i].read = {} /\ w[i].files \subseteq Waves!Fresh(P)
        /\ \A i, j \in DOMAIN w : i # j => w[i].files \cap w[j].files = {}
    BY <1>3, WorkersOfBlock
  <1>5. Apart BY DEF WavesInv
  <1>6. units \in Seq(Waves!Unit) /\ units \o w \in Seq(Waves!Unit) BY <1>4, <1>5 DEF Apart
  <1>7. \A i \in DOMAIN (units \o w) :
          \/ i \in DOMAIN units /\ (units \o w)[i] = units[i]
          \/ i - Len(units) \in DOMAIN w /\ (units \o w)[i] = w[i - Len(units)]
    BY <1>4, <1>6
  <1>8. \A i \in DOMAIN units : units[i].from = s
    BY <1>2, <1>5 DEF Apart
  <1>9. Apart'
    <2>1. \A i \in DOMAIN units' : units'[i].from = owner'
      BY <1>1, <1>2, <1>4, <1>7, <1>8
    <2>2. \A i, j \in DOMAIN units' : i # j => units'[i].files \cap units'[j].files = {}
      <3>1. SUFFICES ASSUME NEW i \in DOMAIN (units \o w), NEW j \in DOMAIN (units \o w), i # j
                     PROVE  (units \o w)[i].files \cap (units \o w)[j].files = {}
        BY <1>1
      <3>2. i \in Nat /\ j \in Nat /\ Len(units) \in Nat BY <1>6
      <3>3. CASE i \in DOMAIN units /\ (units \o w)[i] = units[i]
        BY <1>3, <1>4, <1>5, <1>7, <3>1, <3>3 DEF Apart
      <3>4. CASE i - Len(units) \in DOMAIN w /\ (units \o w)[i] = w[i - Len(units)]
        <4>1. i - Len(units) # j - Len(units) BY <3>1, <3>2
        <4> QED BY <1>3, <1>4, <1>7, <3>4, <4>1
      <3> QED BY <1>7, <3>3, <3>4
    <2>3. \A i \in DOMAIN units' : \A r \in units'[i].read : r[1] \in units'[i].files /\ Waves!Content'[r[1]] = r[2]
      BY <1>1, <1>2, <1>4, <1>5, <1>7, ContentKept DEF Apart
    <2>4. owner' # 0 BY <1>2 DEF Waves!Streams
    <2> QED BY <1>1, <1>2, <1>6, <2>1, <2>2, <2>3, <2>4 DEF Apart
  <1>10. WavesTyped' BY <1>2 DEF WavesInv, WavesTyped
  <1>11. WritesTold' /\ GateTrue' BY <1>2, ContentKept DEF WavesInv, WritesTold, GateTrue
  <1> QED BY <1>9, <1>10, <1>11 DEF WavesInv

LEMMA WavesHedge == ASSUME WavesBounds, WavesInv, Waves!Hedge PROVE WavesInv'
  <1>1. /\ UNCHANGED <<step, owner, units, text, tree, status, fixing, lost, targets, path, rounds, ok, tidied, gated>>
        /\ stream' = [stream EXCEPT ![2] = "open"]
    BY DEF Waves!Hedge, Waves!result
  <1>2. stream' \in [Waves!Streams -> {"none", "open", "over"}] BY <1>1 DEF WavesInv, WavesTyped
  <1> QED BY <1>1, <1>2, ContentKept DEF WavesInv, WavesTyped, Apart, WritesTold, GateTrue

Texts == {"", "fast", "full"}

(* The answer is in: what was given out is of the targets. *)
LEMMA AnswerIn ==
  ASSUME WavesBounds, WavesInv, NEW t \in Texts, Waves!Ends(t), step = "plan",
         UNCHANGED <<units, tree, fixing, lost, path, ok, tidied, gated>>,
         owner' = owner \/ (owner' \in Waves!Streams /\ owner = 0)
  PROVE  WavesInv'
  <1>1. WavesTyped /\ Apart /\ WritesTold /\ GateTrue BY DEF WavesInv
  <1>2. Waves!Dispatched \subseteq Paths /\ \A i \in DOMAIN units : units[i].files \subseteq Waves!Dispatched
    <2>1. \A i \in DOMAIN units : units[i] \in Waves!Unit BY <1>1 DEF Apart
    <2>2. \A i \in DOMAIN units : units[i].files \subseteq Paths BY <2>1, UnitFiles
    <2> QED BY <2>2 DEF Waves!Dispatched
  <1>3. /\ text' = t /\ stream' = [s \in Waves!Streams |-> "over"] /\ targets' = targets \cup Waves!Dispatched
        /\ status' = status \/ status' = [p \in Paths |-> ""]
    BY DEF Waves!Ends
  <1>4. /\ step' \in {"gate", "back", "collect"}
        /\ rounds' = rounds \/ (rounds' = rounds + 1 /\ fixing)
        /\ step' = "back" => fixing
        /\ step' # "collect" => Waves!Dispatched = {}
    BY DEF Waves!Ends
  <1>5. rounds' \in 0..Reviews
    <2>1. rounds \in 0..Reviews /\ (fixing => rounds < Reviews) BY <1>1 DEF WavesTyped, GateTrue
    <2>2. Reviews \in Nat BY DEF WavesBounds
    <2> QED BY <1>4, <2>1, <2>2
  <1>6. status' \in [Paths -> Waves!Statuses] BY <1>1, <1>3 DEF WavesTyped, Waves!Statuses
  <1>7. WavesTyped'
    BY <1>1, <1>2, <1>3, <1>4, <1>5, <1>6 DEF WavesTyped, Texts
  <1>8. Apart'
    <2>1. \A i \in DOMAIN units' : units'[i].files \subseteq targets' BY <1>2, <1>3
    <2>2. owner' = 0 => owner = 0 BY <1>1 DEF WavesTyped, Waves!Streams
    <2>3. owner' # owner => DOMAIN units = {}
      <3>1. owner' # owner => units = <<>> BY <1>1 DEF Apart
      <3>2. DOMAIN <<>> = {} OBVIOUS
      <3> QED BY <3>1, <3>2
    <2>4. step' # "collect" => \A i \in DOMAIN units' : units'[i].files = {} BY <1>2, <1>4
    <2> QED BY <1>1, <1>4, <2>1, <2>2, <2>3, <2>4, ContentKept DEF Apart
  <1>9. WritesTold' BY <1>1, <1>3 DEF WritesTold
  <1>10. GateTrue' BY <1>1, <1>4, ContentKept DEF GateTrue
  <1> QED BY <1>7, <1>8, <1>9, <1>10 DEF WavesInv

LEMMA WavesStreams ==
  ASSUME WavesBounds, WavesInv, NEW s \in Waves!Streams, Waves!StreamEnds(s)
  PROVE  WavesInv'
  <1>1. /\ step = "plan" /\ UNCHANGED <<units, tree, fixing, lost, path, ok, tidied, gated>>
    BY DEF Waves!StreamEnds, Waves!Done, Waves!Breaks
  <1>2. ASSUME NEW t \in Texts, Waves!Ends(t),
               owner' = owner \/ (owner' = s /\ owner \in {0, s})
        PROVE  WavesInv'
    <2>1. owner' = owner \/ (owner' \in Waves!Streams /\ owner = 0) BY <1>2
    <2> QED BY <1>1, <1>2, <2>1, AnswerIn
  <1>3. ASSUME Waves!Goes, owner' = owner, stream' \in [Waves!Streams -> {"none", "open", "over"}]
        PROVE  WavesInv'
    BY <1>1, <1>3, ContentKept DEF Waves!Goes, WavesInv, WavesTyped, Apart, WritesTold, GateTrue
  <1>4. \/ \E t \in Texts : Waves!Ends(t) /\ (owner' = owner \/ (owner' = s /\ owner \in {0, s}))
        \/ /\ Waves!Goes /\ owner' = owner
           /\ \/ stream' = [stream EXCEPT ![s] = "over"]
              \/ stream' = [stream EXCEPT ![1] = "over", ![2] = "open"]
    BY DEF Waves!StreamEnds, Waves!Done, Waves!Breaks, Waves!Follows, Texts
  <1>5. stream \in [Waves!Streams -> {"none", "open", "over"}] BY DEF WavesInv, WavesTyped
  <1> QED BY <1>2, <1>3, <1>4, <1>5

LEMMA WavesReads ==
  ASSUME WavesBounds, WavesInv, NEW i \in DOMAIN units, Waves!Reads(i)
  PROVE  WavesInv'
  <1>1. /\ step \in {"plan", "collect"}
        /\ units' = [units EXCEPT ![i].read = {<<p, Waves!Content[p]>> : p \in units[i].files}]
        /\ UNCHANGED <<step, stream, owner, text, tree, status, fixing, lost, targets, path, rounds, ok, tidied, gated>>
    BY DEF Waves!Reads, Waves!result
  <1>2. WavesTyped /\ Apart /\ units \in Seq(Waves!Unit) BY DEF WavesInv, Apart
  <1> DEFINE u == [units[i] EXCEPT !.read = {<<p, Waves!Content[p]>> : p \in units[i].files}]
  <1>3. units[i] \in Waves!Unit BY <1>2
  <1>4. u \in Waves!Unit /\ u.files = units[i].files /\ u.from = units[i].from
        /\ \A r \in u.read : r[1] \in u.files /\ Waves!Content[r[1]] = r[2]
    <2>1. \A p \in units[i].files : p \in Paths BY <1>3, UnitFiles
    <2>2. \A p \in Paths : Waves!Content[p] \in Nat
      <3>1. \A p \in Paths : tree[p] \in Nat /\ tidied[p] \in Nat BY <1>2 DEF WavesTyped
      <3>2. \A p \in Paths : Waves!Content[p] = tree[p] + tidied[p] BY DEF Waves!Content
      <3>3. \A x, y \in Nat : x + y \in Nat OBVIOUS
      <3> QED BY <3>1, <3>2, <3>3
    <2> QED BY <1>3, <2>1, <2>2 DEF Waves!Unit
  <1>5. units' = [units EXCEPT ![i] = u] BY <1>1
  <1> HIDE DEF u
  <1>6. units' \in Seq(Waves!Unit) /\ DOMAIN units' = DOMAIN units
        /\ units'[i] = u /\ \A j \in DOMAIN units : j # i => units'[j] = units[j]
    BY <1>2, <1>4, <1>5
  <1>7. Apart'
    <2>1. owner' = 0 => units' = <<>> BY <1>1, <1>2, <1>6 DEF Apart
    <2>2. \A j, k \in DOMAIN units' : j # k => units'[j].files \cap units'[k].files = {}
      BY <1>2, <1>4, <1>6 DEF Apart
    <2> QED BY <1>1, <1>2, <1>4, <1>6, <2>1, <2>2, ContentKept DEF Apart
  <1> QED BY <1>1, <1>7, ContentKept DEF WavesInv, WavesTyped, WritesTold, GateTrue

(* A worker's answer is written over files that no other worker has. *)
LEMMA WavesCollect == ASSUME WavesBounds, WavesInv, Waves!Collect PROVE WavesInv'
  <1> DEFINE P == Head(units).files
  <1>1. /\ step = "collect" /\ units # <<>> /\ units' = Tail(units)
        /\ UNCHANGED <<step, stream, owner, text, fixing, targets, path, rounds, ok, tidied, gated>>
    BY DEF Waves!Collect, Waves!result
  <1>2. WavesTyped /\ Apart /\ WritesTold /\ GateTrue /\ units \in Seq(Waves!Unit) BY DEF WavesInv, Apart
  <1>3. /\ Head(units) = units[1] /\ 1 \in DOMAIN units /\ Tail(units) \in Seq(Waves!Unit)
        /\ \A i \in DOMAIN Tail(units) : i + 1 \in DOMAIN units /\ i + 1 # 1 /\ i \in Nat
                                         /\ Tail(units)[i] = units[i + 1]
    BY <1>1, <1>2
  <1>4. P \subseteq Paths /\ P \subseteq targets 
    <2>1. units[1] \in Waves!Unit /\ units[1].files \subseteq targets BY <1>1, <1>2, <1>3 DEF Apart
    <2> QED BY <1>3, <2>1, UnitFiles
  <1> DEFINE Written ==
        /\ tree' \in [Paths -> Nat] /\ status' \in [Paths -> Waves!Statuses]
        /\ lost \subseteq lost' /\ lost' \subseteq Paths
        /\ \A p \in Paths : tree'[p] >= tree[p] /\ (p \notin P => tree'[p] = tree[p])
        /\ \A p \in Paths : status'[p] = "changed" => status[p] = "changed" \/ tree'[p] > 0 \/ p \in lost'
  <1>5. Written
    <2>1. CASE Waves!Tell(P, [p \in P |-> "failed"]) /\ UNCHANGED <<tree, lost>>
      <3>1. /\ status' \in [Paths -> Waves!Statuses]
            /\ \A p \in Paths : status'[p] = "changed" => status[p] = "changed"
        BY <1>2, <2>1 DEF Waves!Tell, WavesTyped, Waves!Statuses
      <3>2. \A p \in Paths : tree[p] \in Nat BY <1>2 DEF WavesTyped
      <3>3. \A p \in Paths : tree[p] >= tree[p] BY <3>2
      <3> QED BY <1>2, <2>1, <3>1, <3>3 DEF WavesTyped
    <2>2. ASSUME NEW w \in [P -> {"changed", "unchanged"}], NEW F \in SUBSET {p \in P : w[p] = "changed"},
                 Waves!Tell(P, w), lost' = lost \cup F,
                 tree' = [p \in Paths |-> tree[p] + IF p \in P \ F /\ w[p] = "changed" THEN 1 ELSE 0]
          PROVE  Written
      <3>1. /\ status' \in [Paths -> Waves!Statuses]
            /\ \A p \in Paths : status'[p] = IF p \in P THEN w[p] ELSE status[p]
        BY <1>2, <2>2 DEF Waves!Tell, WavesTyped, Waves!Statuses
      <3>2. \A p \in Paths : tree'[p] = tree[p] + (IF p \in P \ F /\ w[p] = "changed" THEN 1 ELSE 0)
        BY <2>2
      <3>3. \A p \in Paths : tree[p] \in Nat BY <1>2 DEF WavesTyped
      <3>4. tree' \in [Paths -> Nat] BY <2>2, <3>3
      <3>5. lost \subseteq lost' /\ lost' \subseteq Paths BY <1>2, <1>4, <2>2 DEF WavesTyped
      <3>6. \A p \in Paths : tree'[p] >= tree[p] /\ (p \notin P => tree'[p] = tree[p]) BY <3>2, <3>3
      <3>7. \A p \in Paths : status'[p] = "changed" => status[p] = "changed" \/ tree'[p] > 0 \/ p \in lost'
        BY <2>2, <3>1, <3>2, <3>3
      <3> QED BY <3>1, <3>4, <3>5, <3>6, <3>7
    <2> QED BY <2>1, <2>2 DEF Waves!Collect
  <1>6. Apart'
    <2>1. \A i \in DOMAIN units' : units'[i].files \cap P = {} /\ units'[i].files \subseteq Paths
      <3>1. ASSUME NEW i \in DOMAIN units' PROVE units'[i].files \cap P = {} /\ units'[i].files \subseteq Paths
        <4>1. i + 1 \in DOMAIN units /\ i + 1 # 1 /\ units'[i] = units[i + 1] BY <1>1, <1>3
        <4>2. units[i + 1] \in Waves!Unit BY <1>2, <4>1
        <4>3. units[i + 1].files \cap units[1].files = {} BY <1>2, <1>3, <4>1 DEF Apart
        <4> QED BY <1>3, <4>1, <4>2, <4>3, UnitFiles
      <3> QED BY <3>1
    <2>6. \A p \in Paths : p \notin P => Waves!Content'[p] = Waves!Content[p]
      BY <1>1, <1>5 DEF Waves!Content
    <2>2. \A i \in DOMAIN units' : \A r \in units'[i].read : r[1] \in units'[i].files /\ Waves!Content'[r[1]] = r[2]
      BY <1>1, <1>2, <1>3, <2>1, <2>6 DEF Apart
    <2>3. \A i, j \in DOMAIN units' : i # j => units'[i].files \cap units'[j].files = {}
      BY <1>1, <1>2, <1>3 DEF Apart
    <2>4. owner' # 0 BY <1>1, <1>2 DEF Apart
    <2>5. \A i \in DOMAIN units' : units'[i].from = owner' /\ units'[i].files \subseteq targets'
      BY <1>1, <1>2, <1>3 DEF Apart
    <2> QED BY <1>1, <1>3, <2>2, <2>3, <2>4, <2>5 DEF Apart
  <1>7. WritesTold'
    <2>1. \A p \in Paths : tree[p] \in Nat /\ tree'[p] \in Nat BY <1>2, <1>5 DEF WavesTyped
    <2>2. ASSUME NEW p \in Paths, tree'[p] > 0 PROVE p \in targets'
      <3>1. CASE p \in P BY <1>1, <1>4, <3>1
      <3>2. CASE p \notin P
        <4>1. tree[p] > 0 BY <1>5, <2>2, <3>2
        <4> QED BY <1>1, <1>2, <4>1 DEF WritesTold
      <3> QED BY <3>1, <3>2
    <2>3. ASSUME NEW p \in Paths, status'[p] = "changed" PROVE tree'[p] > 0 \/ p \in lost'
      <3>1. CASE status[p] = "changed"
        <4>1. tree[p] > 0 \/ p \in lost BY <1>2, <3>1 DEF WritesTold
        <4>2. tree[p] > 0 => tree'[p] > 0 BY <1>5, <2>1
        <4> QED BY <1>5, <4>1, <4>2
      <3> QED BY <1>5, <2>3, <3>1
    <2> QED BY <2>2, <2>3 DEF WritesTold
  <1>8. WavesTyped' BY <1>1, <1>2, <1>5 DEF WavesTyped
  <1>9. GateTrue' BY <1>1, <1>2 DEF GateTrue
  <1> QED BY <1>6, <1>7, <1>8, <1>9 DEF WavesInv

(* What becomes of the result: the files are those of before, whatever the *)
(* tools do to them.                                                        *)
LEMMA ResultGoes ==
  ASSUME WavesBounds, WavesInv, UNCHANGED <<tree, status, targets, lost>>, WavesTyped', GateTrue',
         step' # "collect",
         units' = <<>> \/ (UNCHANGED <<owner, units>> /\ step \notin {"plan", "collect"})
  PROVE  WavesInv'
  <1>1. WritesTold' BY DEF WavesInv, WritesTold
  <1>2. CASE units' = <<>>
    <2>1. units' \in Seq(Waves!Unit) /\ DOMAIN units' = {} BY <1>2
    <2> QED BY <1>1, <1>2, <2>1 DEF WavesInv, Apart
  <1>3. CASE UNCHANGED <<owner, units>> /\ step \notin {"plan", "collect"}
    <2>1. Apart BY DEF WavesInv
    <2>2. \A i \in DOMAIN units : units[i].files = {} /\ \A r \in units[i].read : FALSE
      BY <1>3, <2>1 DEF Apart
    <2>3. Apart' BY <1>3, <2>1, <2>2 DEF Apart
    <2> QED BY <1>1, <2>3 DEF WavesInv
  <1> QED BY <1>2, <1>3

(* The tools write no other part of the run. *)
LEMMA ToolsWrite ==
  ASSUME WavesTyped, Waves!Tidies
  PROVE  tidied' \in [Paths -> Nat] /\ Waves!Content' \in [Paths -> Nat] /\ UNCHANGED tree
  <1>1. PICK F \in SUBSET Paths : tidied' = [p \in Paths |-> tidied[p] + IF p \in F THEN 1 ELSE 0]
    BY DEF Waves!Tidies
  <1>2. \A p \in Paths : tidied[p] \in Nat /\ tree[p] \in Nat BY DEF WavesTyped
  <1>3. tidied' \in [Paths -> Nat] /\ UNCHANGED tree BY <1>1, <1>2 DEF Waves!Tidies
  <1>4. \A p \in Paths : tree'[p] \in Nat /\ tidied'[p] \in Nat BY <1>2, <1>3
  <1> QED BY <1>3, <1>4 DEF Waves!Content

LEMMA WavesResult ==
  ASSUME WavesBounds, WavesInv,
         \/ Waves!Joined
         \/ \E passes \in BOOLEAN :
              Waves!Gate(passes) \/ Waves!Regate(passes)
                \/ \E named \in BOOLEAN : Waves!Checks(named, passes)
  PROVE  WavesInv'
  <1> USE DEF Waves!asking, Waves!result
  <1>1. WavesTyped /\ GateTrue /\ WritesTold BY DEF WavesInv
  <1>2. CASE Waves!Joined
    <2>1. step' \in {"checks", "gate", "regate"} /\ step = "collect" /\ units' = <<>>
          /\ UNCHANGED <<stream, owner, units, text, tree, status, fixing, lost, targets, path, rounds, ok, tidied, gated>>
      BY <1>1, <1>2 DEF Waves!Joined
    <2>2. WavesTyped' /\ GateTrue' BY <1>1, <2>1, ContentKept DEF WavesTyped, GateTrue
    <2> QED BY <2>1, <2>2, ResultGoes
  <1>3. ASSUME NEW passes \in BOOLEAN, Waves!Gate(passes) PROVE WavesInv'
    <2>1. /\ step = "gate" /\ ok' = passes /\ gated' = Waves!Content'
          /\ UNCHANGED <<tree, status, targets, path, rounds, lost>>
          /\ tidied' \in [Paths -> Nat] /\ Waves!Content' \in [Paths -> Nat]
      BY <1>1, <1>3, ToolsWrite DEF Waves!Gate
    <2>2. CASE step' = "back" /\ UNCHANGED <<Waves!asking, fixing>>
      <3>1. WavesTyped' /\ GateTrue' BY <1>1, <2>1, <2>2 DEF WavesTyped, GateTrue
      <3> QED BY <2>1, <2>2, <3>1, ResultGoes
    <2>3. CASE /\ rounds < Reviews /\ step' = "plan" /\ fixing' = TRUE
               /\ stream' = [s \in Waves!Streams |-> IF s = 1 THEN "open" ELSE "none"]
               /\ owner' = 0 /\ units' = <<>> /\ text' = ""
      <3>1. WavesTyped' /\ GateTrue' BY <1>1, <2>1, <2>3 DEF WavesTyped, GateTrue
      <3> QED BY <2>1, <2>3, <3>1, ResultGoes
    <2> QED BY <1>3, <2>2, <2>3 DEF Waves!Gate
  <1>4. ASSUME NEW passes \in BOOLEAN, Waves!Regate(passes) PROVE WavesInv'
    <2>1. /\ step = "regate" /\ gated' = Waves!Content' /\ step' \in {"back", "gate"} /\ ok' \in {TRUE, ok}
          /\ UNCHANGED <<stream, owner, units, text, tree, status, targets, path, rounds, fixing, lost>>
          /\ tidied' \in [Paths -> Nat] /\ Waves!Content' \in [Paths -> Nat]
      BY <1>1, <1>4, ToolsWrite DEF Waves!Regate
    <2>2. WavesTyped' /\ GateTrue' BY <1>1, <2>1 DEF WavesTyped, GateTrue
    <2> QED BY <2>1, <2>2, ResultGoes
  <1>5. ASSUME NEW passes \in BOOLEAN, NEW named \in BOOLEAN, Waves!Checks(named, passes) PROVE WavesInv'
    <2>1. /\ step = "checks" /\ gated' = (IF Waves!GuardPasses /\ named THEN Waves!Content' ELSE gated)
          /\ tidied' \in [Paths -> Nat] /\ Waves!Content' \in [Paths -> Nat]
          /\ UNCHANGED <<stream, owner, units, text, tree, status, targets, rounds, fixing, lost>>
          /\ \/ Waves!GuardPasses /\ named /\ step' = "back" /\ path' = "fast" /\ ok' = TRUE
             \/ step' = "gate" /\ path' = "fast->full" /\ ok' = ok
      BY <1>1, <1>5, ToolsWrite DEF Waves!Checks
    <2>2. Waves!GuardPasses => targets # {} /\ \A p \in targets \ lost : tree[p] > 0
      <3>1. Cardinality({}) = 0 BY FS_EmptySet
      <3>2. Waves!GuardPasses => Cardinality(targets) # 0
        BY WavesCardinality DEF Waves!GuardPasses
      <3>3. Waves!GuardPasses => \A p \in targets : status[p] = "changed" BY DEF Waves!GuardPasses
      <3> QED BY <1>1, <3>1, <3>2, <3>3 DEF WritesTold, WavesTyped
    <2>3. WavesTyped' BY <1>1, <2>1 DEF WavesTyped
    <2>4. GateTrue' BY <1>1, <2>1, <2>2 DEF GateTrue
    <2> QED BY <2>1, <2>3, <2>4, ResultGoes
  <1> QED BY <1>2, <1>3, <1>4, <1>5

LEMMA WavesKeepOn == ASSUME WavesBounds, WavesInv, [Waves!Next]_wavesVars PROVE WavesInv'
  <1>1. CASE UNCHANGED wavesVars
    <2>1. WavesTyped' BY <1>1 DEF wavesVars, WavesInv, WavesTyped
    <2>2. Apart' BY <1>1, ContentKept DEF wavesVars, WavesInv, Apart
    <2>3. WritesTold' /\ GateTrue' BY <1>1, ContentKept DEF wavesVars, WavesInv, WritesTold, GateTrue
    <2> QED BY <2>1, <2>2, <2>3 DEF WavesInv
  <1>2. CASE Waves!Next
    <2>1. CASE \E s \in Waves!Streams :
                 Waves!StreamEnds(s) \/ \E P \in SUBSET Paths \ {{}} : Waves!Block(s, P)
      BY <2>1, WavesStreams, WavesBlock
    <2>2. CASE Waves!Hedge \/ Waves!RunGoes
      BY <2>2, WavesHedge, WavesReads, WavesCollect, WavesResult DEF Waves!RunGoes
    <2> QED BY <1>2, <2>1, <2>2 DEF Waves!Next
  <1> QED BY <1>1, <1>2

-----------------------------------------------------------------------------
CallsBounds == SpawnBounds /\ ModelBounds /\ RaceBounds /\ WavesBounds

CallsInv == SpawnInv /\ ModelInv /\ RaceInv /\ WavesInv

(* Whatever is asked of somebody and awaited comes back honestly: a child's run read whole (spawnBounded.ts), *)
(* a model's answer or a failure with its reason (agent.rs query_model, http.rs), the best answer of a race    *)
(* with every slot kept (shard.rs), and a run of orchestrate whose success the gate saw (coord.rs).            *)
THEOREM CallsHonestAlways == ASSUME CallsBounds PROVE CallsSpec => []CallsAreHonest
  <1>1. CallsInit => CallsInv
    BY SpawnInitial, ModelInitial, RaceInitial, WavesInitial DEF CallsBounds, CallsInit, CallsInv
  <1>2. CallsInv /\ [CallsNext]_<<spawnVars, callVars, raceVars, wavesVars>> => CallsInv'
    <2>1. SUFFICES ASSUME CallsInv, [CallsNext]_<<spawnVars, callVars, raceVars, wavesVars>>
                   PROVE  CallsInv'
      OBVIOUS
    <2>2. /\ [Child!Next]_spawnVars /\ [Model!Next]_callVars
          /\ [Race!Next]_raceVars /\ [Waves!Next]_wavesVars
      BY <2>1 DEF CallsNext
    <2> QED
      BY <2>1, <2>2, SpawnKeepsOn, ModelKeepsOn, RaceKeepsOn, WavesKeepOn DEF CallsBounds, CallsInv
  <1>3. CallsInv => CallsAreHonest
    <2>1. SUFFICES ASSUME CallsInv PROVE CallsAreHonest OBVIOUS
    <2>2. Child!TypeOK /\ Child!ReadsAreWhole BY <2>1, SpawnTypes DEF CallsInv, SpawnInv
    <2>3. /\ Model!TypeOK /\ Model!CallsFailHonestly /\ Model!ChainIsWalkedOnce
          /\ Model!SwitchesAreHeard
      BY <2>1, ModelHonest DEF CallsInv, ModelInv
    <2>4. Race!TypeOK /\ Race!SlotsAreKept /\ Race!BestAnswerWins
      BY <2>1, RaceHonest DEF CallsInv, CallsBounds
    <2>5. Waves!TypeOK /\ Waves!WorkersApart /\ Waves!SuccessIsGated
      BY <2>1, WavesHonest DEF CallsInv
    <2> QED BY <2>2, <2>3, <2>4, <2>5 DEF CallsAreHonest
  <1>4. QED
    BY <1>1, <1>2, <1>3, PTL DEF CallsSpec
=============================================================================
