--------------------------- MODULE ChannelConsumer ---------------------------
(* The WhatsApp channel consumer: inbox.ts (accepted rows and the cursor of   *)
(* a consumer), consumer.ts (one row at a time, a turn, a reply), the send    *)
(* ledger of evoSend.ts and the receiver of evoReceiver.ts, over a gateway    *)
(* that may lose an answer, land a message late or refuse it, and a process   *)
(* that may be stopped or killed between any two steps.  One group thread.    *)
(*                                                                            *)
(* A message id is the number of the row it was accepted as; an outgoing      *)
(* message has a number of its own, `id`.  Texts are "empty" (nothing but     *)
(* directives), "note" (the generic failure note) and the members of Words.   *)
EXTENDS Integers, FiniteSets

CONSTANTS
    MaxRows,       \* bound: rows accepted
    MaxFaults,     \* bound: crashes, stops, lost answers, refusals, unreadable histories
    MaxRepeats,    \* bound: times a row's deferred step may have run before another turn
                   \* answers it without words
    Words,         \* the texts a turn may answer with
    Old,           \* outgoing messages the thread held before the consumer ran
    Window,        \* the evidence window of findDeliveredReply (50 in the code)
    GuardWindow,   \* the window of the own-send guard (25 in the code)
    SharedQuotes,  \* TRUE: a sender may reply to an earlier message
    LoseQuotes     \* TRUE: the history may have lost what a message quotes

ASSUME ConsumerAssumption ==
    /\ MaxRows \in Nat /\ MaxFaults \in Nat /\ MaxRepeats \in Nat /\ Old \in Nat
    /\ Window \in Nat /\ GuardWindow \in Nat
    /\ "note" \notin Words /\ "empty" \notin Words
    /\ {SharedQuotes, LoseQuotes} \subseteq BOOLEAN

Row == 1 .. MaxRows
Text == Words \cup {"note", "empty"}

VARIABLES
    rows, n,      \* channel_inbox: rows[1..n] are accepted, payloads never change
    known,        \* channel_consumers holds this consumer
    cursor,       \* its cursor: every row up to it is acknowledged
    ledger,       \* channel_sends: [state, text, reply] of each row
    tasks,        \* channel_tasks: rows whose reply put a task on the queue
    thread,       \* outgoing messages that landed in the thread
    flying,       \* outgoing messages whose fate the consumer does not know
    out,          \* outgoing ids given out
    pc,           \* where the consumer is; "down": no process
    stopped,      \* stop() was called
    draft,        \* reply and directive between the turn and the ledger
    got,          \* id of the message that answers the current row
    deferred,     \* background steps that live only in the process
    ran,          \* history: times the deferred step of a row ran
    late,         \* history: rows whose reply was in flight when a settle wait was over
    faults        \* faults so far

store == <<rows, n, known, cursor, ledger, tasks>>
world == <<thread, flying, out>>
local == <<pc, stopped, draft, got, deferred>>
history == <<ran, late>>
vars == <<store, world, local, history, faults>>

(* kind: "chat" runs a turn, "command" is an operator command, "quiet" is    *)
(* not addressed to the bot.  quote: the message the reply will quote.        *)
RowType == [src : {"user", "own"}, id : Nat, quote : Row, kind : {"chat", "command", "quiet"}]
Entry == [state : {"none", "sending", "uncertain", "sent"}, text : Text, reply : Nat]
\* of: the row answered, 0 for a note of the queue bridge; quote 0: lost.
Message == [id : Nat, of : 0 .. MaxRows, quote : 0 .. MaxRows, text : Text, fresh : BOOLEAN]
Directive == {"none", "queue", "followup"}
Nothing == [text |-> "empty", directive |-> "none"]
NoEntry == [state |-> "none", text |-> "empty", reply |-> 0]

seq == cursor + 1
Quote(s) == rows[s].quote

Init ==
    /\ rows = [s \in Row |-> [src |-> "user", id |-> s, quote |-> s, kind |-> "quiet"]]
    /\ n = 0 /\ known = FALSE /\ cursor = 0
    /\ ledger = [s \in Row |-> NoEntry] /\ tasks = {}
    /\ thread = {} /\ flying = {} /\ out = 0
    /\ pc = "down" /\ stopped = FALSE /\ draft = Nothing /\ got = 0 /\ deferred = {}
    /\ ran = [s \in Row |-> 0] /\ late = {} /\ faults = 0

Fault == faults < MaxFaults /\ faults' = faults + 1

-----------------------------------------------------------------------------
(* The receiver and ChannelInbox.accept: one transaction per message, a      *)
(* redelivery changes nothing.                                                *)

Insert(r) ==
    /\ n < MaxRows
    /\ n' = n + 1 /\ rows' = [rows EXCEPT ![n + 1] = r]
    /\ UNCHANGED <<known, cursor, ledger, tasks, world, local, history, faults>>

Accept(kind, q) ==
    /\ q = n + 1 \/ (SharedQuotes /\ q \in 1 .. n)
    /\ Insert([src |-> "user", id |-> n + 1, quote |-> q, kind |-> kind])

\* isOwnSendId: only ids the ledger already holds are recognised.
Echo(m) ==
    /\ \A s \in Row : ledger[s].reply # m.id
    /\ \A s \in 1 .. n : ~(rows[s].src = "own" /\ rows[s].id = m.id)
    /\ Insert([src |-> "own", id |-> m.id, kind |-> "chat",
               quote |-> IF m.quote = 0 THEN n + 1 ELSE m.quote])

-----------------------------------------------------------------------------
(* The gateway and time.                                                      *)

Outgoing(s, text, quote) ==
    [id |-> out + 1, of |-> s, quote |-> quote, text |-> text, fresh |-> TRUE]

\* What sendText carries: the reply of this pass.
Sent == Outgoing(seq, draft.text, Quote(seq))

Visible(quote) == IF LoseQuotes THEN {quote, 0} ELSE {quote}

Land(m) ==
    /\ flying' = flying \ {m}
    /\ \E q \in Visible(m.quote) : thread' = thread \cup {[m EXCEPT !.quote = q]}
    /\ UNCHANGED <<store, out, local, history, faults>>

Lose(m) ==
    /\ flying' = flying \ {m}
    /\ UNCHANGED <<store, thread, out, local, history, faults>>

\* Fifteen minutes pass: what is in the history is no longer text evidence.
Age ==
    /\ \E m \in thread : m.fresh
    /\ Fault
    /\ thread' = {[m EXCEPT !.fresh = FALSE] : m \in thread}
    /\ UNCHANGED <<store, flying, out, local, history>>

-----------------------------------------------------------------------------
(* The process.                                                               *)

Exit ==
    /\ pc' = "down" /\ stopped' = FALSE /\ draft' = Nothing /\ got' = 0 /\ deferred' = {}

\* ChannelInbox.sync: a new consumer starts at the present.
Start ==
    /\ pc = "down" /\ pc' = "idle"
    /\ known' = TRUE /\ cursor' = IF known THEN cursor ELSE n
    /\ UNCHANGED <<rows, n, ledger, tasks, world, stopped, draft, got, deferred, history, faults>>

Crash ==
    /\ pc # "down" /\ Fault /\ Exit
    /\ \/ UNCHANGED <<flying, out>>
       \/ /\ pc = "send" /\ draft.text # "empty"
          /\ flying' = flying \cup {Sent} /\ out' = out + 1
    /\ UNCHANGED <<store, thread, history>>

Stop ==
    /\ pc # "down" /\ ~stopped /\ Fault /\ stopped' = TRUE
    /\ UNCHANGED <<store, world, pc, draft, got, deferred, history>>

LoopEnds ==
    /\ pc = "idle" /\ stopped /\ Exit
    /\ UNCHANGED <<store, world, history, faults>>

Goto(l) == pc' = l /\ UNCHANGED <<stopped, draft, got, deferred>>

\* acknowledge(): compare-and-set of the cursor to the next row, then the loop.
Acknowledge ==
    /\ cursor' = seq /\ pc' = "idle"
    /\ UNCHANGED <<rows, n, known, ledger, tasks, world, stopped, draft, got, history>>

-----------------------------------------------------------------------------
(* processOne, up to the turn.                                                *)

Take ==
    /\ pc = "idle" /\ ~stopped /\ cursor < n
    /\ Goto(IF rows[seq].src = "own" THEN "guard" ELSE "route")
    /\ UNCHANGED <<store, world, history, faults>>

History == Cardinality(thread) + Old

\* The own-send guard: an id found in the outgoing history is ours.
GuardOwn ==
    /\ pc = "guard" /\ History < GuardWindow
    /\ \E m \in thread : m.id = rows[seq].id
    /\ Acknowledge /\ UNCHANGED <<deferred, faults>>

\* It fails open: the history is unreadable, or its window is full.
GuardOpen ==
    /\ pc = "guard" /\ Goto("route")
    /\ (History >= GuardWindow /\ UNCHANGED faults) \/ Fault
    /\ UNCHANGED <<store, world, history>>

\* Operator commands are acknowledged before their work starts.
Command ==
    /\ pc = "route" /\ rows[seq].kind = "command"
    /\ Acknowledge /\ deferred' = deferred \cup {seq}
    /\ UNCHANGED faults

\* Any reply that was begun counts as sent.
NotForUsOnceBegun ==
    /\ pc = "route"
    /\ \/ rows[seq].kind = "quiet"
       \/ rows[seq].kind = "chat" /\ ledger[seq].state # "none"
    /\ Acknowledge /\ UNCHANGED <<deferred, faults>>

NotForUs ==
    /\ pc = "route"
    /\ \/ rows[seq].kind = "quiet"
       \/ rows[seq].kind = "chat" /\ ledger[seq].state = "sent"
    /\ Acknowledge /\ UNCHANGED <<deferred, faults>>

\* A stored reply is checked once, without the settle wait.
AnswerAtOnce ==
    /\ pc = "route" /\ rows[seq].kind = "chat" /\ ledger[seq].state # "sent"
    /\ Goto(IF ledger[seq].text # "empty" THEN "check2" ELSE "turn")
    /\ UNCHANGED <<store, world, history, faults>>

Answer ==
    /\ pc = "route" /\ rows[seq].kind = "chat" /\ ledger[seq].state # "sent"
    /\ Goto(IF ledger[seq].text # "empty" THEN "check1" ELSE "turn")
    /\ UNCHANGED <<store, world, history, faults>>

-----------------------------------------------------------------------------
(* findDeliveredReply, twice with a settle wait between: only absence twice  *)
(* in a row earns a resend; a window that proves nothing ends the pass.       *)

\* quotedStanzaId equal, or missing with the same recent text (never a note).
Conclusive == History \in 1 .. Window - 1

Evidence(m, s) ==
    \/ m.quote = Quote(s)
    \/ m.quote = 0 /\ m.text = ledger[s].text /\ m.text # "note" /\ m.fresh

CheckFinds(m) ==
    /\ pc \in {"check1", "check2"} /\ Conclusive
    /\ Evidence(m, seq)
    /\ pc' = "landed" /\ got' = m.id
    /\ UNCHANGED <<store, world, stopped, draft, deferred, history, faults>>

\* Absence never earns a resend.
CheckAbsentWaits ==
    /\ pc \in {"check1", "check2"} /\ Conclusive
    /\ \A m \in thread : ~Evidence(m, seq)
    /\ Goto("idle")
    /\ UNCHANGED <<store, world, history, faults>>

CheckAbsent ==
    /\ pc \in {"check1", "check2"} /\ Conclusive
    /\ \A m \in thread : ~Evidence(m, seq)
    /\ pc' = IF pc = "check1" THEN "settle" ELSE "send"
    /\ draft' = [Nothing EXCEPT !.text = ledger[seq].text]
    /\ UNCHANGED <<store, world, stopped, got, deferred, history, faults>>

CheckBlind ==
    /\ pc \in {"check1", "check2"} /\ Goto("idle")
    /\ (~Conclusive /\ UNCHANGED faults) \/ Fault
    /\ UNCHANGED <<store, world, history>>

Settle ==
    /\ pc = "settle" /\ Goto("check2")
    /\ late' = IF \E m \in flying : m.of = seq THEN late \cup {seq} ELSE late
    /\ UNCHANGED <<store, world, ran, faults>>

-----------------------------------------------------------------------------
(* The turn and its reply.                                                    *)

\* The follow-up starts with the plan, before the ledger holds the reply.
TurnDefers(text, d) ==
    /\ pc = "turn" /\ ~stopped
    /\ (text = "empty" => d = "none" \/ (d = "followup" /\ ran[seq] < MaxRepeats))
    /\ (text = "note" => d = "none")
    /\ pc' = "begin" /\ draft' = [text |-> text, directive |-> "none"]
    /\ tasks' = IF d = "queue" THEN tasks \cup {seq} ELSE tasks
    /\ deferred' = IF d = "followup" THEN deferred \cup {seq} ELSE deferred
    /\ UNCHANGED <<rows, n, known, cursor, ledger, world, stopped, got, history, faults>>

(* runTurn and planReply: the row of a queued task is written before the     *)
(* ledger.  Nothing is left to say after a directive (queueBridge.ts:260-282) *)
(* or when the answer is but a picture or a voice note (consumer.ts:532-538). *)
Turn(text, d) ==
    /\ pc = "turn" /\ ~stopped
    /\ (text = "empty" => d = "none" \/ (d = "followup" /\ ran[seq] < MaxRepeats))
    /\ (text = "note" => d = "none")
    /\ pc' = "begin" /\ draft' = [text |-> text, directive |-> d]
    /\ tasks' = IF d = "queue" THEN tasks \cup {seq} ELSE tasks
    /\ UNCHANGED <<rows, n, known, cursor, ledger, world, stopped, got, deferred, history, faults>>

\* Torn down by stop(): no reply, no note, no acknowledgement.
TurnStopped ==
    /\ pc = "turn" /\ stopped /\ Goto("idle")
    /\ UNCHANGED <<store, world, history, faults>>

\* A throw outside runTurn (media, a plan): the row is retried.
TurnThrows ==
    /\ pc = "turn" /\ Fault /\ Goto("idle")
    /\ UNCHANGED <<store, world, history>>

\* SendLedger.begin keeps the text of an existing row; then the deferred work starts.
Begin ==
    /\ pc = "begin" /\ pc' = "send" /\ draft' = [draft EXCEPT !.directive = "none"]
    /\ ledger' = [ledger EXCEPT ![seq].state = "sending",
                                ![seq].text = IF ledger[seq].state = "none" THEN draft.text ELSE @]
    /\ deferred' = IF draft.directive = "followup" THEN deferred \cup {seq} ELSE deferred
    /\ UNCHANGED <<rows, n, known, cursor, tasks, world, stopped, got, history, faults>>

SendConfirmed ==
    /\ pc = "send" /\ draft.text # "empty"
    /\ \E q \in Visible(Quote(seq)) : thread' = thread \cup {[Sent EXCEPT !.quote = q]}
    /\ out' = out + 1 /\ pc' = "landed" /\ got' = out + 1 /\ draft' = Nothing
    /\ UNCHANGED <<store, flying, stopped, deferred, history, faults>>

\* No answer: the message may be on its way, or never have left.
SendUnsure ==
    /\ pc = "send" /\ draft.text # "empty" /\ Fault /\ Goto("unsure")
    /\ \/ flying' = flying \cup {Sent} /\ out' = out + 1
       \/ UNCHANGED <<flying, out>>
    /\ UNCHANGED <<store, thread, history>>

\* A definitive 4xx; the gateway takes 1 byte at least, so an empty reply is refused.
SendRefused ==
    /\ pc = "send" /\ Goto("unsure")
    /\ (draft.text = "empty" /\ UNCHANGED faults) \/ Fault
    /\ UNCHANGED <<store, world, history>>

MarkUncertain ==
    /\ pc = "unsure" /\ pc' = "idle" /\ draft' = Nothing
    /\ ledger' = [ledger EXCEPT ![seq].state = "uncertain"]
    /\ UNCHANGED <<rows, n, known, cursor, tasks, world, stopped, got, deferred, history, faults>>

MarkSent ==
    /\ pc = "landed" /\ pc' = "marked" /\ got' = 0
    /\ ledger' = [ledger EXCEPT ![seq].state = "sent", ![seq].reply = got]
    /\ UNCHANGED <<rows, n, known, cursor, tasks, world, stopped, draft, deferred, history, faults>>

AckSent ==
    /\ pc = "marked" /\ Acknowledge /\ UNCHANGED <<deferred, faults>>

\* A deferred step: a command, or a follow-up, whose note quotes the message itself.
Deferred(s) ==
    /\ pc # "down"
    /\ deferred' = deferred \ {s} /\ ran' = [ran EXCEPT ![s] = @ + 1] /\ late' = late
    /\ \/ /\ rows[s].kind = "command" /\ UNCHANGED <<thread, out>>
       \/ /\ rows[s].kind = "chat" /\ out' = out + 1
          /\ thread' = thread \cup {[Outgoing(0, "empty", s) EXCEPT !.fresh = FALSE]}
    /\ UNCHANGED <<store, flying, pc, stopped, draft, got, faults>>

-----------------------------------------------------------------------------
Inbound ==
    \/ \E kind \in {"chat", "command", "quiet"}, q \in Row : Accept(kind, q)
    \/ \E m \in thread : Echo(m)

Gateway == \E m \in flying : Land(m) \/ Lose(m)

Consumer ==
    \/ LoopEnds \/ Take \/ GuardOwn \/ GuardOpen \/ Command \/ NotForUs \/ Answer
    \/ \E m \in thread : CheckFinds(m)
    \/ CheckAbsent \/ CheckBlind \/ Settle
    \/ \E text \in Text, d \in Directive : Turn(text, d)
    \/ TurnStopped \/ TurnThrows \/ Begin
    \/ SendConfirmed \/ SendUnsure \/ SendRefused
    \/ MarkUncertain \/ MarkSent \/ AckSent

Background == \E s \in deferred : Deferred(s)

Next == Inbound \/ Gateway \/ Age \/ Start \/ Crash \/ Stop \/ Consumer \/ Background

Spec == Init /\ [][Next]_vars

(* The process is restarted by its service manager, its loop runs on, and a  *)
(* message in flight lands or is lost in the end.                             *)
FairSpec ==
    Spec /\ WF_vars(Start) /\ WF_vars(Consumer) /\ WF_vars(Gateway) /\ WF_vars(Background)

-----------------------------------------------------------------------------
(* Properties.                                                                *)

TypeOK ==
    /\ rows \in [Row -> RowType] /\ n \in 0 .. MaxRows
    /\ known \in BOOLEAN /\ cursor \in 0 .. n
    /\ ledger \in [Row -> Entry] /\ tasks \subseteq Row
    /\ thread \subseteq Message /\ flying \subseteq Message /\ out \in Nat
    /\ pc \in {"down", "idle", "guard", "route", "check1", "settle", "check2", "turn",
               "begin", "send", "unsure", "landed", "marked"}
    /\ pc \notin {"down", "idle"} => cursor < n
    /\ stopped \in BOOLEAN /\ draft \in [text : Text, directive : Directive] /\ got \in Nat
    /\ deferred \subseteq Row /\ ran \in [Row -> Nat] /\ late \subseteq Row /\ faults \in 0 .. MaxFaults

Answered(s) == \E m \in thread : m.of = s

\* Another message of ours that the evidence rule cannot tell from the reply to s.
Confusable(s) ==
    \E m \in thread : /\ m.of # s
                      /\ \/ m.quote = Quote(s)
                         \/ m.quote = 0 /\ m.text = ledger[s].text

(* consumer.ts:16-22.  The cursor passes a message that asked for a reply    *)
(* only when its reply is in the thread, whatever was lost, refused or        *)
(* crashed on the way; the one exception is another message of ours with the  *)
(* same quote, or with the same text and its quote lost.  Rows skipped by     *)
(* sync() on the first start have no ledger entry.                            *)
Owed == {s \in 1 .. cursor : rows[s].src = "user" /\ ledger[s].state # "none"}

AckedIsAnswered == \A s \in Owed : Answered(s) \/ Confusable(s)

(* The ledger holds the first answer to a message, and that had no words: it  *)
(* reads like no answer, and every pass runs a turn (consumer.ts:475, 497).    *)
Bare(s) == ledger[s].state # "none" /\ ledger[s].text = "empty"

(* consumer.ts:474-490.  A second copy of a reply is sent only when the      *)
(* first one left no evidence: its quote is lost, and its text is the         *)
(* generic note or too old to count; or it was still on its way after the     *)
(* settle wait (docs/channel-consumers.md:35 accepts this); or the answer     *)
(* that was journalled has no words.                                          *)
NoDuplicateReply ==
    \A m1, m2 \in thread :
        m1.of # 0 /\ m1.of = m2.of /\ m1.id < m2.id
            => \/ m1.quote = 0 /\ (m1.text = "note" \/ ~m1.fresh)
               \/ m1.of \in late \/ Bare(m1.of)

(* consumer.ts:377-397.  The consumer does not answer itself: the echo of a  *)
(* reply that overtakes the ledger is recognised in the history, as long as   *)
(* nothing failed and the thread is younger than the window of the guard.     *)
NoSelfAnswer ==
    \A s \in Row : rows[s].src = "own" /\ ledger[s].state # "none"
                       => faults > 0 \/ History >= GuardWindow

(* Both: a message gets one answer, and an answer none.                       *)
AnsweredOnce == NoDuplicateReply /\ NoSelfAnswer

(* queueBridge.ts:275-297, consumer.ts:551-568.  The deferred work of a      *)
(* message (an amendment, a new session) is done once at most, however often  *)
(* its row is replayed -- unless its first answer had no words: then nothing   *)
(* can be sent, and the next pass runs the turn and its work again.            *)
DeferredOnce == \A s \in Row : ran[s] <= 1 \/ Bare(s)

(* consumer.ts:14-22.  Every accepted message is acknowledged in the end,    *)
(* unless the history can prove nothing (it is empty, or fills the window),   *)
(* or turns answer without words again and again.                             *)
EveryRowAcked ==
    \/ []<>(pc = "begin" /\ draft.text = "empty")
    \/ \A s \in Row : n >= s ~> cursor >= s \/ ~Conclusive

=============================================================================
