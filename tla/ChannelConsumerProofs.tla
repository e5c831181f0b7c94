----------------------- MODULE ChannelConsumerProofs -----------------------
(***************************************************************************)
(* Proofs about the channel consumer, for any number of rows and faults,   *)
(* any texts, any windows and every choice of the switches: the cursor     *)
(* never passes a message that is owed a reply; the deferred work of a      *)
(* message is done once at most, unless the answer that was journalled has  *)
(* no words; and a message gets one answer, and an answer none, but for     *)
(* that answer and for a reply that lands after the settle wait.            *)
(***************************************************************************)
EXTENDS ChannelConsumer, FiniteSetTheorems, TLAPS

-----------------------------------------------------------------------------
(* Types.                                                                  *)

\* What a send puts in flight, or in the thread, is a message.
LEMMA OutgoingType ==
    ASSUME TypeOK, NEW s \in 0 .. MaxRows, NEW text \in Text, NEW q \in 0 .. MaxRows
    PROVE  Outgoing(s, text, q) \in Message
BY ConsumerAssumption DEF TypeOK, Outgoing, Message

\* The row being processed exists, and so does the message its reply quotes.
LEMMA SeqIsRow ==
    ASSUME TypeOK, pc \notin {"down", "idle"}
    PROVE  seq \in Row /\ seq \in 1 .. n /\ rows[seq] \in RowType /\ ledger[seq] \in Entry
           /\ Quote(seq) \in Row /\ ledger[seq].text \in Text
BY ConsumerAssumption DEF TypeOK, seq, Row, RowType, Entry, Quote

\* Losing its quote or growing old leaves a message a message.
LEMMA ChangedMessage ==
    ASSUME NEW m \in Message
    PROVE  /\ [m EXCEPT !.fresh = FALSE] \in Message
           /\ \A q \in 0 .. MaxRows : [m EXCEPT !.quote = q] \in Message
BY DEF Message

\* The message a send puts on its way.
LEMMA SentType ==
    ASSUME TypeOK, pc \notin {"down", "idle"}
    PROVE  /\ Sent \in Message
           /\ \A q \in Visible(Quote(seq)) : [Sent EXCEPT !.quote = q] \in Message
<1>1. seq \in 0 .. MaxRows /\ Quote(seq) \in 0 .. MaxRows /\ draft.text \in Text /\ MaxRows \in Nat
  <2>1. MaxRows \in Nat
    BY ConsumerAssumption
  <2> QED
    BY <2>1, SeqIsRow DEF TypeOK, Row
<1>2. Sent \in Message
  BY <1>1, OutgoingType DEF Sent
<1>3. Visible(Quote(seq)) \subseteq 0 .. MaxRows
  BY <1>1 DEF Visible
<1> QED
  BY <1>2, <1>3, ChangedMessage

\* Every step keeps the types.
LEMMA TypeStep ==
    ASSUME TypeOK, [Next]_vars
    PROVE  TypeOK'
<1>a. MaxRows \in Nat /\ MaxFaults \in Nat
  BY ConsumerAssumption
<1> USE <1>a DEF TypeOK, vars, store, world, local, history, Text, Directive

<1>1. ASSUME NEW kind \in {"chat","command","quiet"}, NEW q \in Row, Accept(kind, q)
      PROVE  TypeOK'
  <2>1. [src |-> "user", id |-> n + 1, quote |-> q, kind |-> kind] \in RowType
    BY <1>1 DEF Accept, Insert, RowType, Row
  <2>2. rows' \in [Row -> RowType] /\ n' \in 0 .. MaxRows
    BY <1>1, <2>1 DEF Accept, Insert, Row
  <2> QED
    BY <1>1, <2>1, <2>2 DEF Accept, Insert
<1>2. ASSUME NEW m \in thread, Echo(m)
      PROVE  TypeOK'
  <2>1. m \in Message /\ n + 1 \in Row
    BY <1>2 DEF Echo, Insert, Row
  <2>2. [src |-> "own", id |-> m.id, kind |-> "chat", quote |-> IF m.quote = 0 THEN n + 1 ELSE m.quote] \in RowType
    BY <1>2, <2>1 DEF Echo, Insert, RowType, Row, Message
  <2>3. rows' \in [Row -> RowType] /\ n' \in 0 .. MaxRows
    BY <1>2, <2>2 DEF Echo, Insert, Row
  <2> QED
    BY <1>2, <2>1, <2>2, <2>3 DEF Echo, Insert
<1>3. ASSUME NEW m \in flying, Land(m)
      PROVE  TypeOK'
  <2>1. thread' \subseteq Message /\ flying' \subseteq Message
    BY <1>3 DEF Land, Visible, Message
  <2> QED
    BY <1>3, <2>1 DEF Land, Visible
<1>4. ASSUME NEW m \in flying, Lose(m)
      PROVE  TypeOK'
  BY <1>4 DEF Lose
<1>5. CASE Age
  BY <1>5, ChangedMessage DEF Age, Fault
<1>6. CASE Start
  BY <1>6 DEF Start
<1>7. CASE Crash
  <2>1. flying' \subseteq Message /\ out' \in Nat
    BY <1>7, SentType DEF Crash, Exit, Fault
  <2>2. faults' \in 0 .. MaxFaults
    BY <1>7 DEF Crash, Exit, Fault
  <2> QED
    BY <1>7, <2>1, <2>2 DEF Crash, Exit, Fault, Nothing
<1>8. CASE Stop
  BY <1>8 DEF Stop, Fault
<1>9. CASE LoopEnds
  BY <1>9 DEF LoopEnds, Exit, Nothing
<1>10. CASE Take
  BY <1>10 DEF Take, Goto
<1>11. CASE GuardOwn
  BY <1>11, SeqIsRow DEF GuardOwn, Acknowledge, seq
<1>12. CASE GuardOpen
  BY <1>12 DEF GuardOpen, Goto, Fault
<1>13. CASE Command
  <2>1. deferred' \subseteq Row /\ cursor' \in 0 .. n
    BY <1>13, SeqIsRow DEF Command, Acknowledge, seq
  <2> QED
    BY <1>13, <2>1 DEF Command, Acknowledge, seq
<1>14. CASE NotForUs
  BY <1>14, SeqIsRow DEF NotForUs, Acknowledge, seq
<1>15. CASE Answer
  BY <1>15 DEF Answer, Goto
<1>16. ASSUME NEW m \in thread, CheckFinds(m)
      PROVE  TypeOK'
  BY <1>16 DEF CheckFinds, Message
<1>17. CASE CheckAbsent
  BY <1>17, SeqIsRow DEF CheckAbsent, Nothing
<1>18. CASE CheckBlind
  BY <1>18 DEF CheckBlind, Goto, Fault
<1>19. CASE Settle
  <2>1. late' \subseteq Row
    <3>1. seq \in Row BY <1>19, SeqIsRow DEF Settle
    <3>2. late' = late \/ late' = late \cup {seq} BY <1>19 DEF Settle
    <3> QED BY <3>1, <3>2
  <2>2. pc' = "check2" /\ pc = "settle" /\ cursor < n BY <1>19 DEF Settle, Goto
  <2>3. /\ UNCHANGED <<rows, n, known, cursor, ledger, tasks, thread, flying, out>>
        /\ UNCHANGED <<stopped, draft, got, deferred, ran, faults>>
    BY <1>19 DEF Settle, Goto
  <2> QED
    BY <2>1, <2>2, <2>3
<1>20. ASSUME NEW text \in Text, NEW d \in Directive, Turn(text, d)
      PROVE  TypeOK'
  <2>1. tasks' \subseteq Row
    BY <1>20, SeqIsRow DEF Turn
  <2> QED
    BY <1>20, <2>1 DEF Turn
<1>21. CASE TurnStopped
  BY <1>21 DEF TurnStopped, Goto
<1>22. CASE TurnThrows
  BY <1>22 DEF TurnThrows, Goto, Fault
<1>23. CASE Begin
  <2>1. ledger' \in [Row -> Entry]
    BY <1>23, SeqIsRow DEF Begin, Entry
  <2>2. deferred' \subseteq Row
    BY <1>23, SeqIsRow DEF Begin
  <2> QED
    BY <1>23, <2>1, <2>2 DEF Begin
<1>24. CASE SendConfirmed
  <2>1. thread' \subseteq Message /\ out' \in Nat
    BY <1>24, SentType DEF SendConfirmed
  <2> QED
    BY <1>24, <2>1 DEF SendConfirmed, Nothing
<1>25. CASE SendUnsure
  <2>1. flying' \subseteq Message /\ out' \in Nat
    BY <1>25, SentType DEF SendUnsure, Goto, Fault
  <2> QED
    BY <1>25, <2>1 DEF SendUnsure, Goto, Fault
<1>26. CASE SendRefused
  BY <1>26 DEF SendRefused, Goto, Fault
<1>27. CASE MarkUncertain
  <2>1. ledger' \in [Row -> Entry]
    BY <1>27, SeqIsRow DEF MarkUncertain, Nothing, Entry
  <2> QED
    BY <1>27, <2>1 DEF MarkUncertain, Nothing
<1>28. CASE MarkSent
  <2>1. ledger' \in [Row -> Entry]
    BY <1>28, SeqIsRow DEF MarkSent, Entry
  <2> QED
    BY <1>28, <2>1 DEF MarkSent
<1>29. CASE AckSent
  BY <1>29, SeqIsRow DEF AckSent, Acknowledge, seq
<1>30. ASSUME NEW s \in deferred, Deferred(s)
      PROVE  TypeOK'
  <2>1. s \in 0 .. MaxRows /\ "empty" \in Text
    BY <1>30 DEF Deferred, Row
  <2>2. [Outgoing(0, "empty", s) EXCEPT !.fresh = FALSE] \in Message
    BY <1>30, <2>1, OutgoingType, ChangedMessage DEF Deferred
  <2>3. thread' \subseteq Message
    BY <1>30, <2>2 DEF Deferred
  <2>4. out' \in Nat
    BY <1>30 DEF Deferred
  <2>5. ran' \in [Row -> Nat] /\ deferred' \subseteq Row
    BY <1>30 DEF Deferred
  <2> QED
    BY <1>30, <2>1, <2>2, <2>3, <2>4, <2>5 DEF Deferred
<1>31. CASE UNCHANGED vars
  BY <1>31
<1> QED
  BY <1>1, <1>2, <1>3, <1>4, <1>5, <1>6, <1>7, <1>8, <1>9, <1>10, <1>11, <1>12, <1>13, <1>14, <1>15, <1>16, <1>17, <1>18, <1>19, <1>20, <1>21, <1>22, <1>23, <1>24, <1>25, <1>26, <1>27, <1>28, <1>29, <1>30, <1>31 DEF Next, Inbound, Gateway, Consumer, Background

(* Every variable keeps its type: rows, ledger and history of the consumer   *)
(* (inbox.ts, evoSend.ts, consumer.ts).                                       *)
THEOREM TypeCorrect == Spec => []TypeOK
<1>0. MaxRows \in Nat /\ MaxFaults \in Nat
  BY ConsumerAssumption
<1>1. Init => TypeOK
  <2> HAVE Init
  <2>1. rows \in [Row -> RowType]
    BY <1>0 DEF Init, Row, RowType
  <2>2. ledger \in [Row -> Entry]
    BY <1>0 DEF Init, NoEntry, Entry, Text
  <2>3. draft \in [text : Text, directive : Directive]
    BY DEF Init, Nothing, Text, Directive
  <2>4. known \in BOOLEAN /\ stopped \in BOOLEAN
    BY DEF Init
  <2>5. n \in 0 .. MaxRows /\ cursor \in 0 .. n
    BY <1>0 DEF Init
  <2>6. thread \subseteq Message /\ flying \subseteq Message /\ tasks \subseteq Row /\ deferred \subseteq Row
    BY DEF Init
  <2>7. faults \in 0 .. MaxFaults /\ got \in Nat /\ out \in Nat
    BY <1>0 DEF Init
  <2>8. ran \in [Row -> Nat] /\ late \subseteq Row
    BY DEF Init
  <2>9. pc = "down"
    BY DEF Init
  <2> QED
    BY <2>1, <2>2, <2>3, <2>4, <2>5, <2>6, <2>7, <2>8, <2>9 DEF TypeOK
<1>2. TypeOK /\ [Next]_vars => TypeOK'
  BY TypeStep
<1> QED
  BY <1>1, <1>2, PTL DEF Spec


-----------------------------------------------------------------------------
(* The cursor and the replies.                                             *)

\* The thread shows the reply to s, or what cannot be told from it.
Shown(s) == Answered(s) \/ Confusable(s)

\* Where the consumer answers a message addressed to it.
Answering == {"check1", "settle", "check2", "turn", "begin", "send", "unsure", "landed", "marked"}

\* The ledger has entries only once the consumer is known, and only for chats.
LedgerBegun ==
    /\ pc # "down" => known
    /\ ~known => \A s \in Row : ledger[s].state = "none"
    /\ \A s \in Row : ledger[s].state # "none" => s <= n /\ rows[s].kind = "chat"

\* What the consumer knows of the row it is at.
AtRow ==
    /\ pc \in Answering => rows[seq].kind = "chat"
    /\ pc = "guard" => rows[seq].src = "own"
    /\ pc = "landed" => Shown(seq)
    /\ pc = "marked" => ledger[seq].state = "sent"

\* A reply marked as sent is in the thread.
SentIsShown == \A s \in Row : ledger[s].state = "sent" => Shown(s)

AckInv == LedgerBegun /\ AtRow /\ SentIsShown /\ AckedIsAnswered

\* A step never removes a message from the thread, nor changes an accepted row.
LEMMA ThreadGrows ==
    ASSUME TypeOK, [Next]_vars
    PROVE  /\ \A x \in thread : \E y \in thread' : y.of = x.of /\ y.quote = x.quote /\ y.text = x.text
           /\ \A r \in 1 .. n : rows'[r] = rows[r]
           /\ n' \in Nat /\ n <= n'
<1> DEFINE Kept == \A x \in thread : \E y \in thread' : y.of = x.of /\ y.quote = x.quote /\ y.text = x.text
           Rows == (\A r \in 1 .. n : rows'[r] = rows[r]) /\ n' \in Nat /\ n <= n'
<1>a. MaxRows \in Nat /\ n \in 0 .. MaxRows /\ rows \in [Row -> RowType] /\ thread \subseteq Message
  BY ConsumerAssumption DEF TypeOK
<1>b. thread \subseteq thread' => Kept
  OBVIOUS
<1>c. UNCHANGED <<rows, n>> => Rows
  BY <1>a
<1> HIDE DEF Kept, Rows
<1>d. SUFFICES Kept /\ Rows
  BY DEF Kept, Rows
<1> USE DEF vars, store, world, local, history

<1>1. ASSUME NEW kind \in {"chat","command","quiet"}, NEW q \in Row, Accept(kind, q)
      PROVE  Kept /\ Rows
  <2>1. Rows
    BY <1>1, <1>a DEF Accept, Insert, Rows, Row
  <2> QED
    BY <1>1, <2>1, <1>b DEF Accept, Insert
<1>2. ASSUME NEW m \in thread, Echo(m)
      PROVE  Kept /\ Rows
  <2>1. Rows
    BY <1>2, <1>a DEF Echo, Insert, Rows, Row
  <2> QED
    BY <1>2, <2>1, <1>b DEF Echo, Insert
<1>3. ASSUME NEW m \in flying, Land(m)
      PROVE  Kept /\ Rows
  BY <1>3, <1>b, <1>c DEF Land, Visible
<1>4. ASSUME NEW m \in flying, Lose(m)
      PROVE  Kept /\ Rows
  BY <1>4, <1>b, <1>c DEF Lose
<1>5. CASE Age
  <2>1. \A x \in thread : LET y == [x EXCEPT !.fresh = FALSE] IN
          y \in thread' /\ y.of = x.of /\ y.quote = x.quote /\ y.text = x.text
    BY <1>5, <1>a DEF Age, Fault, Message
  <2>2. Kept
    BY <1>5, <2>1 DEF Age, Fault, Kept
  <2> QED
    BY <1>5, <2>1, <2>2, <1>c DEF Age, Fault
<1>6. CASE Start
  BY <1>6, <1>b, <1>c DEF Start
<1>7. CASE Crash
  BY <1>7, <1>b, <1>c DEF Crash, Exit, Fault
<1>8. CASE Stop
  BY <1>8, <1>b, <1>c DEF Stop, Fault
<1>9. CASE LoopEnds
  BY <1>9, <1>b, <1>c DEF LoopEnds, Exit
<1>10. CASE Take
  BY <1>10, <1>b, <1>c DEF Take, Goto
<1>11. CASE GuardOwn
  BY <1>11, <1>b, <1>c DEF GuardOwn, Acknowledge
<1>12. CASE GuardOpen
  BY <1>12, <1>b, <1>c DEF GuardOpen, Goto, Fault
<1>13. CASE Command
  BY <1>13, <1>b, <1>c DEF Command, Acknowledge
<1>14. CASE NotForUs
  BY <1>14, <1>b, <1>c DEF NotForUs, Acknowledge
<1>15. CASE Answer
  BY <1>15, <1>b, <1>c DEF Answer, Goto
<1>16. ASSUME NEW m \in thread, CheckFinds(m)
      PROVE  Kept /\ Rows
  BY <1>16, <1>b, <1>c DEF CheckFinds
<1>17. CASE CheckAbsent
  BY <1>17, <1>b, <1>c DEF CheckAbsent, Nothing
<1>18. CASE CheckBlind
  BY <1>18, <1>b, <1>c DEF CheckBlind, Goto, Fault
<1>19. CASE Settle
  BY <1>19, <1>b, <1>c DEF Settle, Goto
<1>20. ASSUME NEW text \in Text, NEW d \in Directive, Turn(text, d)
      PROVE  Kept /\ Rows
  BY <1>20, <1>b, <1>c DEF Turn
<1>21. CASE TurnStopped
  BY <1>21, <1>b, <1>c DEF TurnStopped, Goto
<1>22. CASE TurnThrows
  BY <1>22, <1>b, <1>c DEF TurnThrows, Goto, Fault
<1>23. CASE Begin
  BY <1>23, <1>b, <1>c DEF Begin
<1>24. CASE SendConfirmed
  BY <1>24, <1>b, <1>c DEF SendConfirmed, Nothing
<1>25. CASE SendUnsure
  BY <1>25, <1>b, <1>c DEF SendUnsure, Goto, Fault
<1>26. CASE SendRefused
  BY <1>26, <1>b, <1>c DEF SendRefused, Goto, Fault
<1>27. CASE MarkUncertain
  BY <1>27, <1>b, <1>c DEF MarkUncertain, Nothing
<1>28. CASE MarkSent
  BY <1>28, <1>b, <1>c DEF MarkSent
<1>29. CASE AckSent
  BY <1>29, <1>b, <1>c DEF AckSent, Acknowledge
<1>30. ASSUME NEW s \in deferred, Deferred(s)
      PROVE  Kept /\ Rows
  BY <1>30, <1>b, <1>c DEF Deferred
<1>31. CASE UNCHANGED vars
  BY <1>31, <1>b, <1>c
<1> QED
  BY <1>1, <1>2, <1>3, <1>4, <1>5, <1>6, <1>7, <1>8, <1>9, <1>10, <1>11, <1>12, <1>13, <1>14, <1>15, <1>16, <1>17, <1>18, <1>19, <1>20, <1>21, <1>22, <1>23, <1>24, <1>25, <1>26, <1>27, <1>28, <1>29, <1>30, <1>31 DEF Next, Inbound, Gateway, Consumer, Background

\* What is shown stays shown.
LEMMA ShownStays ==
    ASSUME TypeOK, [Next]_vars, NEW s \in 1 .. n, Shown(s), ledger'[s].text = ledger[s].text
    PROVE  Shown(s)'
<1>1. \A x \in thread : \E y \in thread' : y.of = x.of /\ y.quote = x.quote /\ y.text = x.text
  BY ThreadGrows
<1>2. rows'[s] = rows[s]
  BY ThreadGrows
<1>3. CASE Answered(s)
  BY <1>1, <1>3 DEF Answered, Shown
<1>4. CASE Confusable(s)
  <2>1. Confusable(s)'
    BY <1>1, <1>2, <1>4 DEF Confusable, Quote
  <2> QED
    BY <2>1 DEF Shown
<1> QED
  BY <1>3, <1>4 DEF Shown

\* Every step keeps the invariant of the cursor.
LEMMA AckStep ==
    ASSUME TypeOK, TypeOK', AckInv, [Next]_vars
    PROVE  AckInv'
<1>a. MaxRows \in Nat /\ n \in 0 .. MaxRows /\ cursor \in 0 .. n /\ (pc \notin {"down", "idle"} => cursor < n)
      /\ ledger \in [Row -> Entry] /\ rows \in [Row -> RowType]
  BY ConsumerAssumption DEF TypeOK
<1>b. \A s \in 1 .. n : Shown(s) /\ ledger'[s].text = ledger[s].text => Shown(s)'
  BY ShownStays
<1>c. /\ \A s \in 1 .. n : rows'[s] = rows[s]
      /\ n' \in Nat /\ n <= n'
  BY ThreadGrows
<1>d. \A s : Answered(s) \/ Confusable(s) <=> Shown(s)
  BY DEF Shown
<1>e. \A s : (Answered(s) \/ Confusable(s) <=> Shown(s))'
  BY DEF Shown
<1> USE <1>a, <1>b, <1>c, <1>d, <1>e DEF vars, store, world, local, history, Row, AckInv, LedgerBegun, AtRow, SentIsShown, AckedIsAnswered, Owed, seq, Answering

<1>1. ASSUME NEW kind \in {"chat","command","quiet"}, NEW q \in Row, Accept(kind, q)
      PROVE  AckInv'
  BY <1>1 DEF Accept, Insert
<1>2. ASSUME NEW m \in thread, Echo(m)
      PROVE  AckInv'
  BY <1>2 DEF Echo, Insert
<1>3. ASSUME NEW m \in flying, Land(m)
      PROVE  AckInv'
  BY <1>3 DEF Land, Visible
<1>4. ASSUME NEW m \in flying, Lose(m)
      PROVE  AckInv'
  BY <1>4 DEF Lose
<1>5. CASE Age
  BY <1>5 DEF Age, Fault
<1>6. CASE Start
  BY <1>6 DEF Start
<1>7. CASE Crash
  BY <1>7 DEF Crash, Exit, Fault
<1>8. CASE Stop
  BY <1>8 DEF Stop, Fault
<1>9. CASE LoopEnds
  BY <1>9 DEF LoopEnds, Exit
<1>10. CASE Take
  BY <1>10 DEF Take, Goto
<1>11. CASE GuardOwn
  BY <1>11 DEF GuardOwn, Acknowledge
<1>12. CASE GuardOpen
  BY <1>12 DEF GuardOpen, Goto, Fault
<1>13. CASE Command
  BY <1>13 DEF Command, Acknowledge
<1>14. CASE NotForUs
  BY <1>14 DEF NotForUs, Acknowledge
<1>15. CASE Answer
  BY <1>15 DEF Answer, Goto
<1>16. ASSUME NEW m \in thread, CheckFinds(m)
      PROVE  AckInv'
  <2>1. Shown(seq)
    BY <1>16, SeqIsRow DEF CheckFinds, Evidence, Shown, Answered, Confusable
  <2>2. Shown(seq)'
    BY <1>16, <2>1, SeqIsRow DEF CheckFinds
  <2> QED
    BY <1>16, <2>1, <2>2, SeqIsRow DEF CheckFinds
<1>17. CASE CheckAbsent
  BY <1>17 DEF CheckAbsent, Nothing
<1>18. CASE CheckBlind
  BY <1>18 DEF CheckBlind, Goto, Fault
<1>19. CASE Settle
  BY <1>19 DEF Settle, Goto
<1>20. ASSUME NEW text \in Text, NEW d \in Directive, Turn(text, d)
      PROVE  AckInv'
  BY <1>20 DEF Turn
<1>21. CASE TurnStopped
  BY <1>21 DEF TurnStopped, Goto
<1>22. CASE TurnThrows
  BY <1>22 DEF TurnThrows, Goto, Fault
<1>23. CASE Begin
  <2>1. seq \in Row /\ seq \notin 1 .. cursor
    BY <1>23, SeqIsRow DEF Begin
  <2>2. (\A r \in Row : r # seq => ledger'[r] = ledger[r]) /\ ledger'[seq].state = "sending" /\ seq' = seq
    BY <1>23, <2>1 DEF Begin, Entry
  <2>3. LedgerBegun'
    BY <1>23, <2>1, <2>2, SeqIsRow DEF Begin
  <2>4. AtRow'
    BY <1>23, <2>1, <2>2, SeqIsRow DEF Begin
  <2>5. SentIsShown'
    BY <1>23, <2>1, <2>2, SeqIsRow DEF Begin
  <2>6. AckedIsAnswered'
    BY <1>23, <2>1, <2>2, SeqIsRow DEF Begin
  <2> QED
    BY <1>23, <2>1, <2>2, <2>3, <2>4, <2>5, <2>6, SeqIsRow DEF Begin
<1>24. CASE SendConfirmed
  <2>1. PICK q \in Visible(Quote(seq)) : thread' = thread \cup {[Sent EXCEPT !.quote = q]}
    BY <1>24 DEF SendConfirmed
  <2>2. [Sent EXCEPT !.quote = q].of = seq
    BY <1>24 DEF SendConfirmed, Nothing, Sent, Outgoing
  <2>3. Shown(seq)'
    BY <1>24, <2>1, <2>2 DEF SendConfirmed, Nothing, Shown, Answered
  <2> QED
    BY <1>24, <2>1, <2>2, <2>3, SeqIsRow DEF SendConfirmed, Nothing
<1>25. CASE SendUnsure
  BY <1>25 DEF SendUnsure, Goto, Fault
<1>26. CASE SendRefused
  BY <1>26 DEF SendRefused, Goto, Fault
<1>27. CASE MarkUncertain
  BY <1>27 DEF MarkUncertain, Nothing
<1>28. CASE MarkSent
  <2>1. seq \in Row /\ seq \notin 1 .. cursor
    BY <1>28, SeqIsRow DEF MarkSent
  <2>2. (\A r \in Row : r # seq => ledger'[r] = ledger[r]) /\ ledger'[seq].state = "sent" /\ ledger'[seq].text = ledger[seq].text
    BY <1>28, <2>1 DEF MarkSent, Entry
  <2>3. seq' = seq /\ Shown(seq)'
    BY <1>28, <2>1, <2>2, SeqIsRow DEF MarkSent
  <2>4. LedgerBegun'
    BY <1>28, <2>1, <2>2, <2>3, SeqIsRow DEF MarkSent
  <2>5. AtRow'
    BY <1>28, <2>1, <2>2, <2>3, SeqIsRow DEF MarkSent
  <2>6. SentIsShown'
    BY <1>28, <2>1, <2>2, <2>3, SeqIsRow DEF MarkSent
  <2>7. AckedIsAnswered'
    BY <1>28, <2>1, <2>2, <2>3, SeqIsRow DEF MarkSent
  <2> QED
    BY <1>28, <2>1, <2>2, <2>3, <2>4, <2>5, <2>6, <2>7, SeqIsRow DEF MarkSent
<1>29. CASE AckSent
  BY <1>29 DEF AckSent, Acknowledge
<1>30. ASSUME NEW s \in deferred, Deferred(s)
      PROVE  AckInv'
  BY <1>30 DEF Deferred
<1>31. CASE UNCHANGED vars
  BY <1>31
<1> QED
  BY <1>1, <1>2, <1>3, <1>4, <1>5, <1>6, <1>7, <1>8, <1>9, <1>10, <1>11, <1>12, <1>13, <1>14, <1>15, <1>16, <1>17, <1>18, <1>19, <1>20, <1>21, <1>22, <1>23, <1>24, <1>25, <1>26, <1>27, <1>28, <1>29, <1>30, <1>31 DEF Next, Inbound, Gateway, Consumer, Background

(* The cursor passes a message that asked for a reply only when its reply is *)
(* in the thread, or a message of ours that the evidence rule takes for it:   *)
(* for any crashes, lost answers, refusals and late landings                  *)
(* (consumer.ts processOne, acknowledge and the send ledger).                  *)
THEOREM AckedIsAnsweredAlways == Spec => []AckedIsAnswered
<1>1. Init => AckInv
  BY DEF Init, AckInv, LedgerBegun, AtRow, SentIsShown, AckedIsAnswered, Owed, NoEntry, Answering
<1>2. TypeOK /\ TypeOK' /\ AckInv /\ [Next]_vars => AckInv'
  BY AckStep
<1>3. AckInv => AckedIsAnswered
  BY DEF AckInv
<1> QED
  BY <1>1, <1>2, <1>3, TypeCorrect, PTL DEF Spec


-----------------------------------------------------------------------------
(* Deferred work.                                                          *)

\* A turn runs when the ledger holds no words, the history is searched for the words it
\* holds, and what is sent is begun.
HasWords ==
    /\ \A s \in Row : ledger[s].state = "none" => ledger[s].text = "empty"
    /\ pc \in {"turn", "begin"} => ledger[seq].text = "empty"
    /\ pc \in {"check1", "settle", "check2"} => ledger[seq].text # "empty"
    /\ pc \in {"send", "unsure", "landed"} => ledger[seq].state # "none"

\* Work is deferred, or done, only for rows that are begun or behind the cursor.
DeferredBegun == \A s \in Row : s \in deferred \/ ran[s] > 0 => s <= cursor \/ ledger[s].state # "none"

\* Deferred or done, and never both, unless the answer has no words.
OnceEach == \A s \in Row : Bare(s) \/ ran[s] = 0 \/ (ran[s] = 1 /\ s \notin deferred)

OnceInv == HasWords /\ DeferredBegun /\ OnceEach

\* Every step keeps the invariant of the deferred work.
LEMMA OnceStep ==
    ASSUME TypeOK, TypeOK', AckInv, OnceInv, [Next]_vars
    PROVE  OnceInv'
<1>a. MaxRows \in Nat /\ n \in 0 .. MaxRows /\ cursor \in 0 .. n /\ (pc \notin {"down", "idle"} => cursor < n)
      /\ ledger \in [Row -> Entry] /\ ran \in [Row -> Nat] /\ deferred \subseteq Row
  BY ConsumerAssumption DEF TypeOK
<1>b. \A s \in Row : ledger[s].state # "none" => s <= n /\ rows[s].kind = "chat"
  BY DEF AckInv, LedgerBegun
<1> USE <1>a DEF vars, store, world, local, history, Row, OnceInv, HasWords, DeferredBegun, OnceEach, Bare, seq

<1>1. ASSUME NEW kind \in {"chat","command","quiet"}, NEW q \in Row, Accept(kind, q)
      PROVE  OnceInv'
  BY <1>1 DEF Accept, Insert
<1>2. ASSUME NEW m \in thread, Echo(m)
      PROVE  OnceInv'
  BY <1>2 DEF Echo, Insert
<1>3. ASSUME NEW m \in flying, Land(m)
      PROVE  OnceInv'
  BY <1>3 DEF Land, Visible
<1>4. ASSUME NEW m \in flying, Lose(m)
      PROVE  OnceInv'
  BY <1>4 DEF Lose
<1>5. CASE Age
  BY <1>5 DEF Age, Fault
<1>6. CASE Start
  BY <1>6 DEF Start
<1>7. CASE Crash
  BY <1>7 DEF Crash, Exit, Fault
<1>8. CASE Stop
  BY <1>8 DEF Stop, Fault
<1>9. CASE LoopEnds
  BY <1>9 DEF LoopEnds, Exit
<1>10. CASE Take
  BY <1>10 DEF Take, Goto
<1>11. CASE GuardOwn
  BY <1>11 DEF GuardOwn, Acknowledge
<1>12. CASE GuardOpen
  BY <1>12 DEF GuardOpen, Goto, Fault
<1>13. CASE Command
  <2>1. seq \in Row /\ seq \notin 1 .. cursor
    BY <1>13, SeqIsRow DEF Command, Acknowledge
  <2>2. seq \notin deferred /\ ran[seq] = 0 /\ ran' = ran /\ deferred' = deferred \cup {seq}
    BY <1>13, <1>b, <2>1, SeqIsRow DEF Command, Acknowledge
  <2>3. HasWords'
    BY <1>13, <2>1, <2>2, SeqIsRow DEF Command, Acknowledge
  <2>4. DeferredBegun'
    BY <1>13, <2>1, <2>2, SeqIsRow DEF Command, Acknowledge
  <2>5. OnceEach'
    BY <1>13, <2>2 DEF Command, Acknowledge
  <2> QED
    BY <1>13, <2>1, <2>2, <2>3, <2>4, <2>5 DEF Command, Acknowledge
<1>14. CASE NotForUs
  BY <1>14 DEF NotForUs, Acknowledge
<1>15. CASE Answer
  BY <1>15 DEF Answer, Goto
<1>16. ASSUME NEW m \in thread, CheckFinds(m)
      PROVE  OnceInv'
  BY <1>16 DEF CheckFinds
<1>17. CASE CheckAbsent
  BY <1>17 DEF CheckAbsent, Nothing
<1>18. CASE CheckBlind
  BY <1>18 DEF CheckBlind, Goto, Fault
<1>19. CASE Settle
  BY <1>19 DEF Settle, Goto
<1>20. ASSUME NEW text \in Text, NEW d \in Directive, Turn(text, d)
      PROVE  OnceInv'
  BY <1>20 DEF Turn
<1>21. CASE TurnStopped
  BY <1>21 DEF TurnStopped, Goto
<1>22. CASE TurnThrows
  BY <1>22 DEF TurnThrows, Goto, Fault
<1>23. CASE Begin
  <2>1. seq \in Row /\ seq \notin 1 .. cursor
    BY <1>23, SeqIsRow DEF Begin
  <2>2. (\A r \in Row : r # seq => ledger'[r] = ledger[r]) /\ ledger'[seq].state = "sending"
        /\ (ledger[seq].state = "none" \/ ledger'[seq].text = "empty")
    BY <1>23, <2>1 DEF Begin, Entry
  <2>3. HasWords'
    BY <1>23, <2>1, <2>2, SeqIsRow DEF Begin
  <2>4. DeferredBegun'
    BY <1>23, <2>1, <2>2, SeqIsRow DEF Begin
  <2>5. OnceEach'
    BY <1>23, <2>2 DEF Begin
  <2> QED
    BY <1>23, <2>1, <2>2, <2>3, <2>4, <2>5, SeqIsRow DEF Begin
<1>24. CASE SendConfirmed
  BY <1>24 DEF SendConfirmed, Nothing
<1>25. CASE SendUnsure
  BY <1>25 DEF SendUnsure, Goto, Fault
<1>26. CASE SendRefused
  BY <1>26 DEF SendRefused, Goto, Fault
<1>27. CASE MarkUncertain
  <2>1. seq \in Row /\ seq \notin 1 .. cursor
    BY <1>27, SeqIsRow DEF MarkUncertain, Nothing
  <2>2. (\A r \in Row : r # seq => ledger'[r] = ledger[r]) /\ ledger'[seq].state = "uncertain" /\ ledger'[seq].text = ledger[seq].text
    BY <1>27, <2>1 DEF MarkUncertain, Nothing, Entry
  <2>3. HasWords'
    BY <1>27, <2>1, <2>2, SeqIsRow DEF MarkUncertain, Nothing
  <2>4. DeferredBegun'
    BY <1>27, <2>1, <2>2, SeqIsRow DEF MarkUncertain, Nothing
  <2>5. OnceEach'
    BY <1>27 DEF MarkUncertain, Nothing
  <2> QED
    BY <1>27, <2>1, <2>2, <2>3, <2>4, <2>5, SeqIsRow DEF MarkUncertain, Nothing
<1>28. CASE MarkSent
  <2>1. seq \in Row /\ seq \notin 1 .. cursor
    BY <1>28, SeqIsRow DEF MarkSent
  <2>2. (\A r \in Row : r # seq => ledger'[r] = ledger[r]) /\ ledger'[seq].state = "sent" /\ ledger'[seq].text = ledger[seq].text
    BY <1>28, <2>1 DEF MarkSent, Entry
  <2>3. HasWords'
    BY <1>28, <2>1, <2>2, SeqIsRow DEF MarkSent
  <2>4. DeferredBegun'
    BY <1>28, <2>1, <2>2, SeqIsRow DEF MarkSent
  <2>5. OnceEach'
    BY <1>28 DEF MarkSent
  <2> QED
    BY <1>28, <2>1, <2>2, <2>3, <2>4, <2>5, SeqIsRow DEF MarkSent
<1>29. CASE AckSent
  BY <1>29 DEF AckSent, Acknowledge
<1>30. ASSUME NEW s \in deferred, Deferred(s)
      PROVE  OnceInv'
  BY <1>30 DEF Deferred
<1>31. CASE UNCHANGED vars
  BY <1>31
<1> QED
  BY <1>1, <1>2, <1>3, <1>4, <1>5, <1>6, <1>7, <1>8, <1>9, <1>10, <1>11, <1>12, <1>13, <1>14, <1>15, <1>16, <1>17, <1>18, <1>19, <1>20, <1>21, <1>22, <1>23, <1>24, <1>25, <1>26, <1>27, <1>28, <1>29, <1>30, <1>31 DEF Next, Inbound, Gateway, Consumer, Background

(* The deferred work of a message is done once at most, however often its    *)
(* row is replayed, unless the answer that was journalled for it has no       *)
(* words, which the next pass takes for no answer (consumer.ts:475, 497, 551;  *)
(* SendLedger.begin).                                                          *)
THEOREM DeferredOnceAlways == Spec => []DeferredOnce
<1>1. Init => AckInv /\ OnceInv
  BY DEF Init, AckInv, LedgerBegun, AtRow, SentIsShown, AckedIsAnswered, Owed, NoEntry, Answering,
         OnceInv, HasWords, DeferredBegun, OnceEach, seq
<1>2. TypeOK /\ TypeOK' /\ AckInv /\ OnceInv /\ [Next]_vars => AckInv' /\ OnceInv'
  BY AckStep, OnceStep
<1>3. OnceInv /\ TypeOK => DeferredOnce
  BY DEF OnceInv, OnceEach, DeferredOnce, TypeOK
<1> QED
  BY <1>1, <1>2, <1>3, TypeCorrect, PTL DEF Spec

-----------------------------------------------------------------------------
(* One answer.                                                             *)

\* The messages of ours that are in the thread, or may get there.
Ours == thread \cup flying

\* A message that is no evidence any more: it landed, without its quote, and says what
\* anything may say, or too long ago.
Spent(m) == m \notin flying /\ m.quote = 0 /\ (m.text = "note" \/ ~m.fresh)

\* Outgoing messages are numbered in the order they left.
Numbered == \A m \in Ours : m.id <= out

\* A reply says what the ledger holds, if that has words, and quotes what its row quotes, or
\* has lost it.
Replies ==
    \A m \in Ours : m.of # 0 =>
        /\ m.of \in 1 .. n /\ ledger[m.of].state # "none"
        /\ Bare(m.of) \/ m.text = ledger[m.of].text
        /\ m.quote \in {Quote(m.of), 0}

\* A row that may be answered again: its reply was late, or the journalled one has no words.
Waived(s) == s \in late \/ Bare(s)

\* Only a reply that is no evidence any more was followed by another.
OneCounts ==
    \A m1, m2 \in Ours : m1.of # 0 /\ m1.of = m2.of /\ m1.id < m2.id
                             => Spent(m1) \/ Waived(m1.of)

\* What is on its way after the settle wait is known to be late, and what is about to be
\* sent has no copy that counts.
SendIsDue ==
    /\ pc = "check2" => \A m \in flying : m.of = seq => seq \in late
    /\ pc = "send" => /\ Bare(seq) \/ draft.text = ledger[seq].text
                      /\ Waived(seq) \/ \A m \in Ours : m.of = seq => Spent(m)

Fates == Numbered /\ Replies /\ OneCounts /\ SendIsDue

\* A row that may be answered again stays one.
LEMMA WaivedStays ==
    ASSUME late \subseteq late', NEW s, Waived(s),
           ledger[s].state # "none" => ledger'[s].state # "none" /\ ledger'[s].text = ledger[s].text
    PROVE  Waived(s)'
BY DEF Waived, Bare

\* A reply is to a row.
LEMMA ReplyOfRow ==
    ASSUME TypeOK, Fates
    PROVE  \A m \in Ours : m.of # 0 => m.of \in 1 .. n /\ m.of \in Row
BY ConsumerAssumption DEF TypeOK, Row, Fates, Replies

\* What a step has to show when it leaves the messages alone.
LEMMA FatesKept ==
    ASSUME TypeOK, Fates, thread' = thread, flying' = flying, out' = out, n' = n, rows' = rows,
           late \subseteq late',
           \A s \in Row : ledger'[s].text = ledger[s].text
                          /\ (ledger[s].state # "none" => ledger'[s].state # "none"),
           SendIsDue'
    PROVE  Fates'
<1>1. Ours' = Ours /\ \A m \in Ours : m.of # 0 => m.of \in Row
  BY ReplyOfRow DEF Ours
<1>2. \A s \in Row : Waived(s) => Waived(s)'
  BY WaivedStays
<1>3. Numbered'
  BY <1>1 DEF Fates, Numbered
<1>4. OneCounts'
  <2>1. \A m : Spent(m) => Spent(m)'
    BY DEF Spent
  <2> QED
    BY <1>1, <1>2, <2>1 DEF Fates, OneCounts
<1>5. Replies'
  BY <1>1 DEF Fates, Replies, Quote, Bare
<1>6. QED
  BY <1>3, <1>4, <1>5 DEF Fates

\* Another row is accepted.
LEMMA FatesInsert ==
    ASSUME TypeOK, Fates, NEW r, Insert(r)
    PROVE  Fates'
<1>1. /\ UNCHANGED <<thread, flying, out, ledger, pc, draft, cursor, late>> /\ n' = n + 1
      /\ n \in Nat /\ \A s \in 1 .. n : rows'[s] = rows[s]
  <2>1. n \in Nat /\ n + 1 \in Nat /\ rows \in [Row -> RowType]
    BY ConsumerAssumption DEF TypeOK
  <2>2. \A s \in 1 .. n : s # n + 1
    BY <2>1
  <2>3. QED
    BY <2>1, <2>2 DEF Insert, world, local, history, Row
<1>2. Numbered' /\ OneCounts' /\ SendIsDue'
  BY <1>1 DEF Fates, Numbered, OneCounts, SendIsDue, Ours, Spent, Waived, Bare, seq
<1>3. Replies'
  BY <1>1 DEF Fates, Replies, Ours, Quote, Bare
<1>4. QED
  BY <1>2, <1>3 DEF Fates

\* A message lands, with or without its quote.
LEMMA FatesLand ==
    ASSUME TypeOK, Fates, NEW m \in flying, Land(m)
    PROVE  Fates'
<1>1. PICK q \in Visible(m.quote) : thread' = thread \cup {[m EXCEPT !.quote = q]}
  BY DEF Land
<1> DEFINE x == [m EXCEPT !.quote = q]
<1>2. /\ flying' = flying \ {m} /\ UNCHANGED <<rows, n, ledger, cursor, out, pc, draft, late>>
      /\ thread' = thread \cup {x} /\ m \in Message /\ m \in Ours
  BY <1>1 DEF Land, store, local, history, TypeOK, Ours
<1>3. x.id = m.id /\ x.of = m.of /\ x.text = m.text /\ x.quote = q /\ q \in {m.quote, 0}
  BY <1>2 DEF Message, Visible
<1> HIDE DEF x
<1>4. Numbered'
  BY <1>2, <1>3 DEF Fates, Numbered, Ours
<1>5. Replies'
  BY <1>2, <1>3 DEF Fates, Replies, Ours, Quote, Bare
<1>6. ASSUME NEW m1 \in Ours', NEW m2 \in Ours', m1.of # 0, m1.of = m2.of, m1.id < m2.id
      PROVE  (Spent(m1) \/ Waived(m1.of))'
  <2> DEFINE k1 == IF m1 = x THEN m ELSE m1
             k2 == IF m2 = x THEN m ELSE m2
  <2>1. k1 \in Ours /\ k2 \in Ours
    BY <1>2 DEF Ours
  <2>2. k1.of # 0 /\ k1.of = k2.of /\ k1.id < k2.id
    BY <1>3, <1>6
  <2>3. Spent(k1) \/ Waived(k1.of)
    <3> HIDE DEF k1, k2
    <3> QED BY <2>1, <2>2 DEF Fates, OneCounts
  <2>4. k1.of = m1.of
    BY <1>3
  <2>5. CASE Spent(k1)
    <3>1. k1 # m
      BY <2>5 DEF Spent
    <3> QED
      BY <1>2, <2>5, <3>1 DEF Spent
  <2>6. CASE Waived(k1.of)
    BY <1>2, <2>4, <2>6 DEF Waived, Bare
  <2>7. QED
    BY <2>3, <2>5, <2>6
<1>7. OneCounts'
  BY <1>6 DEF OneCounts
<1>8. SendIsDue'
  <2>1. pc = "send" => m.of # seq \/ Waived(seq)
    BY <1>2 DEF Fates, SendIsDue, Spent
  <2>2. QED
    BY <1>2, <1>3, <2>1 DEF Fates, SendIsDue, Spent, Ours, Waived, Bare, seq
<1>9. QED
  BY <1>4, <1>5, <1>7, <1>8 DEF Fates

\* A message is lost.
LEMMA FatesLose ==
    ASSUME TypeOK, Fates, NEW m \in flying, Lose(m)
    PROVE  Fates'
<1>1. /\ flying' = flying \ {m} /\ UNCHANGED <<rows, n, ledger, cursor, thread, out, pc, draft, late>>
  BY DEF Lose, store, local, history
<1>2. Ours' \subseteq Ours /\ \A x : Spent(x) => Spent(x)'
  BY <1>1 DEF Ours, Spent
<1>3. Numbered' /\ Replies'
  BY <1>1, <1>2 DEF Fates, Numbered, Replies, Quote, Bare
<1>4. OneCounts'
  BY <1>1, <1>2 DEF Fates, OneCounts, Waived, Bare
<1>5. SendIsDue'
  BY <1>1, <1>2 DEF Fates, SendIsDue, Waived, Bare, seq
<1>6. QED
  BY <1>3, <1>4, <1>5 DEF Fates

\* Time passes.
LEMMA FatesAge ==
    ASSUME TypeOK, Fates, Age
    PROVE  Fates'
<1> DEFINE old(m) == [m EXCEPT !.fresh = FALSE]
<1>1. /\ thread' = {old(m) : m \in thread} /\ UNCHANGED <<rows, n, ledger, cursor, flying, out, pc, draft, late>>
      /\ thread \subseteq Message
  BY DEF Age, store, local, history, TypeOK
<1>2. \A m \in thread : /\ old(m).id = m.id /\ old(m).of = m.of /\ old(m).text = m.text
                        /\ old(m).quote = m.quote /\ ~old(m).fresh
  BY <1>1 DEF Message
<1> HIDE DEF old
<1>3. Numbered' /\ Replies'
  BY <1>1, <1>2 DEF Fates, Numbered, Replies, Ours, Quote, Bare
<1>4. ASSUME NEW x \in Ours'
      PROVE  \E m \in Ours : /\ x.id = m.id /\ x.of = m.of
                             /\ x \notin flying => m \in thread /\ x = old(m)
                             /\ x \in flying => x = m
  BY <1>1, <1>2 DEF Ours
<1>5. ASSUME NEW x \in Ours', NEW m \in Ours, Spent(m), x \in flying => x = m,
             x \notin flying => m \in thread /\ x = old(m)
      PROVE  Spent(x)'
  BY <1>1, <1>2, <1>5 DEF Spent
<1>6. OneCounts'
  <2> SUFFICES ASSUME NEW m1 \in Ours', NEW m2 \in Ours', m1.of # 0, m1.of = m2.of, m1.id < m2.id
               PROVE  (Spent(m1) \/ Waived(m1.of))'
    BY DEF OneCounts
  <2>1. PICK k1 \in Ours : /\ m1.id = k1.id /\ m1.of = k1.of
                           /\ m1 \notin flying => k1 \in thread /\ m1 = old(k1)
                           /\ m1 \in flying => m1 = k1
    BY <1>4
  <2>2. PICK k2 \in Ours : m2.id = k2.id /\ m2.of = k2.of
    BY <1>4
  <2>3. Spent(k1) \/ Waived(m1.of)
    BY <2>1, <2>2 DEF Fates, OneCounts
  <2>4. CASE Waived(m1.of)
    BY <1>1, <2>4 DEF Waived, Bare
  <2>5. QED
    BY <1>5, <2>1, <2>3, <2>4
<1>7. SendIsDue'
  <2>1. ASSUME pc = "send", ~Waived(seq), NEW x \in Ours', x.of = seq
        PROVE  Spent(x)'
    <3>1. PICK m \in Ours : /\ x.of = m.of
                            /\ x \notin flying => m \in thread /\ x = old(m)
                            /\ x \in flying => x = m
      BY <1>4
    <3>2. Spent(m)
      BY <2>1, <3>1 DEF Fates, SendIsDue
    <3>3. QED
      BY <1>5, <3>1, <3>2
  <2>2. QED
    BY <1>1, <2>1 DEF Fates, SendIsDue, Waived, Bare, seq
<1>8. QED
  BY <1>3, <1>6, <1>7 DEF Fates

\* The reply of this pass leaves: it may be on its way, or land.
LEMMA FatesSent ==
    ASSUME TypeOK, OnceInv, Fates, pc = "send", pc' # "send", pc' # "check2",
           UNCHANGED <<rows, n, ledger, cursor, late>>, out' = out + 1,
           NEW x \in Message, x.id = out + 1, x.of = seq, x.text = draft.text,
           x.quote \in {Quote(seq), 0},
           \/ thread' = thread \cup {x} /\ flying' = flying
           \/ thread' = thread /\ flying' = flying \cup {x}
    PROVE  Fates'
<1>1. /\ seq \in 1 .. n /\ seq \in Row /\ out \in Nat /\ thread \subseteq Message /\ flying \subseteq Message
  BY SeqIsRow DEF TypeOK
<1>2. ledger[seq].state # "none"
  BY <1>1 DEF OnceInv, HasWords
<1>3. Ours' = Ours \cup {x} /\ \A m \in Ours : m.id \in Nat /\ m.id <= out
  BY <1>1 DEF Ours, Fates, Numbered, Message
<1>4. Numbered'
  BY <1>1, <1>3 DEF Numbered
<1>5. Replies'
  BY <1>1, <1>2, <1>3 DEF Fates, Replies, SendIsDue, Quote, Bare
<1>6. \A m \in Ours : Spent(m) => Spent(m)'
  BY <1>1, <1>3 DEF Spent
<1>7. OneCounts'
  <2> SUFFICES ASSUME NEW m1 \in Ours', NEW m2 \in Ours', m1.of # 0, m1.of = m2.of, m1.id < m2.id
               PROVE  (Spent(m1) \/ Waived(m1.of))'
    BY DEF OneCounts
  <2>0. Waived(m1.of) => Waived(m1.of)'
    BY DEF Waived, Bare
  <2>1. m1 \in Ours
    BY <1>1, <1>3
  <2>2. CASE m2 = x
    BY <1>6, <2>0, <2>1, <2>2 DEF Fates, SendIsDue
  <2>3. CASE m2 \in Ours
    BY <1>6, <2>0, <2>1, <2>3 DEF Fates, OneCounts
  <2>4. QED
    BY <1>3, <2>2, <2>3
<1>8. SendIsDue'
  BY DEF SendIsDue
<1>9. QED
  BY <1>4, <1>5, <1>7, <1>8 DEF Fates

\* Every step keeps it.
LEMMA FatesStep ==
    ASSUME TypeOK, OnceInv, Fates, [Next]_vars
    PROVE  Fates'
<1>a. ledger \in [Row -> Entry] /\ draft.text \in Text
  BY DEF TypeOK
<1> USE <1>a DEF vars, store, world, local, history

<1>1. ASSUME NEW kind \in {"chat","command","quiet"}, NEW q \in Row, Accept(kind, q)
      PROVE  Fates'
  BY <1>1, FatesInsert DEF Accept
<1>2. ASSUME NEW m \in thread, Echo(m)
      PROVE  Fates'
  BY <1>2, FatesInsert DEF Echo
<1>3. ASSUME NEW m \in flying, Land(m) \/ Lose(m)
      PROVE  Fates'
  BY <1>3, FatesLand, FatesLose
<1>4. CASE Age
  BY <1>4, FatesAge
<1>5. CASE Start
  <2>1. SendIsDue'
    BY <1>5 DEF Start, SendIsDue
  <2> QED
    BY <1>5, <2>1, FatesKept DEF Start
<1>6. CASE Crash
  <2>1. pc' = "down" /\ UNCHANGED <<rows, n, ledger, cursor, thread, late>>
    BY <1>6 DEF Crash, Exit
  <2>2. CASE UNCHANGED <<flying, out>>
    <3>1. SendIsDue'
      BY <2>1 DEF SendIsDue
    <3> QED
      BY <2>1, <2>2, <3>1, FatesKept
  <2>3. CASE pc = "send" /\ flying' = flying \cup {Sent} /\ out' = out + 1
    <3>1. /\ Sent \in Message /\ Sent.id = out + 1 /\ Sent.of = seq /\ Sent.text = draft.text
          /\ Sent.quote = Quote(seq)
      BY <2>3, SentType DEF Sent, Outgoing
    <3> QED
      BY <2>1, <2>3, <3>1, FatesSent
  <2> QED
    BY <1>6, <2>2, <2>3 DEF Crash
<1>7. CASE Stop
  <2>1. SendIsDue'
    BY <1>7 DEF Stop, Fates, SendIsDue, Ours, Spent, Waived, Bare, seq
  <2> QED
    BY <1>7, <2>1, FatesKept DEF Stop
<1>8. ASSUME UNCHANGED <<thread, flying, out, n, rows, ledger, late>>, pc' \notin {"check2", "send"}
      PROVE  Fates'
  <2>1. SendIsDue'
    BY <1>8 DEF SendIsDue
  <2> QED
    BY <1>8, <2>1, FatesKept
<1>9. CASE LoopEnds
  BY <1>8, <1>9 DEF LoopEnds, Exit
<1>10. CASE Take
  BY <1>8, <1>10 DEF Take, Goto
<1>11. CASE GuardOwn
  BY <1>8, <1>11 DEF GuardOwn, Acknowledge
<1>12. CASE GuardOpen
  BY <1>8, <1>12 DEF GuardOpen, Goto
<1>13. CASE Command
  BY <1>8, <1>13 DEF Command, Acknowledge
<1>14. CASE NotForUs
  BY <1>8, <1>14 DEF NotForUs, Acknowledge
<1>15. CASE Answer
  BY <1>8, <1>15 DEF Answer, Goto
<1>16. ASSUME NEW m \in thread, CheckFinds(m)
      PROVE  Fates'
  BY <1>8, <1>16 DEF CheckFinds
<1>17. CASE CheckAbsent
  <2>1. UNCHANGED <<thread, flying, out, n, rows, ledger, cursor, late>> /\ draft'.text = ledger[seq].text
        /\ pc' \in {"settle", "send"} /\ (pc' = "send" => pc = "check2")
    BY <1>17 DEF CheckAbsent, Nothing
  <2>2. ASSUME pc' = "send", ~Waived(seq), NEW m \in Ours, m.of = seq
        PROVE  Spent(m)
    <3>1. m \in thread /\ m \notin flying /\ ~Evidence(m, seq)
      BY <1>17, <2>1, <2>2 DEF CheckAbsent, Fates, SendIsDue, Ours, Waived
    <3>2. m.of # 0 /\ m \in Message
      BY <1>17, <2>2, <3>1, SeqIsRow DEF CheckAbsent, Row, TypeOK
    <3>3. m.quote \in {Quote(seq), 0} /\ m.text = ledger[seq].text
      BY <2>2, <3>2 DEF Fates, Replies, Waived
    <3> QED
      BY <3>1, <3>3 DEF Evidence, Spent
  <2>3. SendIsDue'
    BY <2>1, <2>2 DEF SendIsDue, Ours, Spent, Waived, Bare, seq
  <2> QED
    BY <2>1, <2>3, FatesKept
<1>18. CASE CheckBlind
  BY <1>8, <1>18 DEF CheckBlind, Goto
<1>19. CASE Settle
  <2>1. /\ UNCHANGED <<thread, flying, out, n, rows, ledger, cursor>> /\ pc' = "check2"
        /\ late' = IF \E m \in flying : m.of = seq THEN late \cup {seq} ELSE late
    BY <1>19 DEF Settle, Goto
  <2>2. SendIsDue'
    BY <2>1 DEF SendIsDue, seq
  <2> QED
    BY <2>1, <2>2, FatesKept
<1>20. ASSUME NEW text \in Text, NEW d \in Directive, Turn(text, d)
      PROVE  Fates'
  BY <1>8, <1>20 DEF Turn
<1>21. CASE TurnStopped
  BY <1>8, <1>21 DEF TurnStopped, Goto
<1>22. CASE TurnThrows
  BY <1>8, <1>22 DEF TurnThrows, Goto
<1>23. CASE Begin
  <2>1. seq \in Row /\ ledger[seq].text = "empty" /\ draft'.text = draft.text
    BY <1>23, SeqIsRow DEF Begin, OnceInv, HasWords, TypeOK
  <2>2. /\ UNCHANGED <<thread, flying, out, n, rows, cursor, late>> /\ pc' = "send"
        /\ ledger'[seq].state = "sending"
        /\ ledger'[seq].text = IF ledger[seq].state = "none" THEN draft.text ELSE ledger[seq].text
        /\ \A s \in Row : s # seq => ledger'[s] = ledger[s]
    BY <1>23, <2>1 DEF Begin, Entry
  <2>3. \A m \in Ours : m.of # 0 => m.of \in Row /\ ledger[m.of].state # "none"
    BY ReplyOfRow DEF Fates, Replies
  <2>4. ledger[seq].state # "none" => Bare(seq) /\ Bare(seq)'
    BY <2>1, <2>2 DEF Bare, seq
  <2>5. Ours' = Ours /\ (\A m : Spent(m)' <=> Spent(m)) /\ \A s \in Row : Waived(s) => Waived(s)'
    <3>1. \A s \in Row : Waived(s) => Waived(s)'
      BY <2>2, WaivedStays
    <3> QED
      BY <2>2, <3>1 DEF Ours, Spent
  <2>6. Numbered' /\ OneCounts'
    BY <2>2, <2>3, <2>5 DEF Fates, Numbered, OneCounts
  <2>7. Replies'
    BY <2>2, <2>3, <2>5 DEF Fates, Replies, Quote, Bare
  <2>8. SendIsDue'
    <3>1. CASE ledger[seq].state = "none"
      <4>1. \A m \in Ours : m.of # seq
        BY <2>1, <2>3, <3>1 DEF Row
      <4> QED
        BY <2>1, <2>2, <2>5, <3>1, <4>1 DEF SendIsDue, seq
    <3>2. CASE ledger[seq].state # "none"
      BY <2>2, <2>4, <3>2 DEF SendIsDue, Waived, seq
    <3> QED
      BY <3>1, <3>2
  <2> QED
    BY <2>6, <2>7, <2>8 DEF Fates
<1>24. CASE SendConfirmed
  <2>1. PICK q \in Visible(Quote(seq)) : thread' = thread \cup {[Sent EXCEPT !.quote = q]}
    BY <1>24 DEF SendConfirmed
  <2>2. /\ pc = "send" /\ pc' = "landed" /\ out' = out + 1 /\ flying' = flying
        /\ UNCHANGED <<rows, n, ledger, cursor, late>>
    BY <1>24 DEF SendConfirmed
  <2>3. [Sent EXCEPT !.quote = q] \in Message /\ q \in {Quote(seq), 0}
    BY <2>2, SentType DEF Visible
  <2>4. LET x == [Sent EXCEPT !.quote = q]
        IN  x.id = out + 1 /\ x.of = seq /\ x.text = draft.text /\ x.quote = q
    BY DEF Sent, Outgoing
  <2> QED
    BY <2>1, <2>2, <2>3, <2>4, FatesSent
<1>25. CASE SendUnsure
  <2>1. pc = "send" /\ pc' = "unsure" /\ UNCHANGED <<rows, n, ledger, cursor, thread, late>>
    BY <1>25 DEF SendUnsure, Goto
  <2>2. CASE flying' = flying \cup {Sent} /\ out' = out + 1
    <3>1. /\ Sent \in Message /\ Sent.id = out + 1 /\ Sent.of = seq /\ Sent.text = draft.text
          /\ Sent.quote = Quote(seq)
      BY <2>1, SentType DEF Sent, Outgoing
    <3> QED
      BY <2>1, <2>2, <3>1, FatesSent
  <2>3. CASE UNCHANGED <<flying, out>>
    BY <1>8, <2>1, <2>3
  <2> QED
    BY <1>25, <2>2, <2>3 DEF SendUnsure
<1>26. CASE SendRefused
  BY <1>8, <1>26 DEF SendRefused, Goto
<1>27. ASSUME MarkUncertain \/ MarkSent
      PROVE  Fates'
  <2>1. /\ UNCHANGED <<thread, flying, out, n, rows, late>> /\ pc' \in {"idle", "marked"}
        /\ \A s \in Row : ledger'[s].text = ledger[s].text
                          /\ (ledger[s].state # "none" => ledger'[s].state # "none")
    BY <1>27, SeqIsRow DEF MarkUncertain, MarkSent, Entry
  <2>2. SendIsDue'
    BY <2>1 DEF SendIsDue
  <2> QED
    BY <2>1, <2>2, FatesKept
<1>29. CASE AckSent
  BY <1>8, <1>29 DEF AckSent, Acknowledge
<1>30. ASSUME NEW s \in deferred, Deferred(s)
      PROVE  Fates'
  <2>1. UNCHANGED <<rows, n, ledger, cursor, flying, pc, draft, late>>
    BY <1>30 DEF Deferred
  <2>2. CASE UNCHANGED <<thread, out>>
    <3>1. SendIsDue'
      BY <2>1, <2>2 DEF Fates, SendIsDue, Ours, Spent, Waived, Bare, seq
    <3> QED
      BY <2>1, <2>2, <3>1, FatesKept
  <2>3. CASE out' = out + 1 /\ thread' = thread \cup {[Outgoing(0, "empty", s) EXCEPT !.fresh = FALSE]}
    <3> DEFINE x == [Outgoing(0, "empty", s) EXCEPT !.fresh = FALSE]
    <3>1. x.of = 0 /\ x.id = out + 1 /\ x \in Message
      <4>1. s \in 0 .. MaxRows /\ "empty" \in Text
        BY <1>30 DEF TypeOK, Row, Text
      <4> QED
        BY <4>1, OutgoingType, ChangedMessage, ConsumerAssumption DEF Outgoing
    <3>2. Ours' = Ours \cup {x} /\ out \in Nat /\ \A m \in Ours : m.id \in Nat
      BY <2>1, <2>3 DEF Ours, TypeOK, Message
    <3> HIDE DEF x
    <3>3. Numbered' /\ Replies'
      BY <2>1, <2>3, <3>1, <3>2 DEF Fates, Numbered, Replies, Quote, Bare
    <3>4. \A m \in Ours : Spent(m) => Spent(m)'
      BY <2>1 DEF Spent
    <3>5. OneCounts'
      BY <2>1, <3>1, <3>2, <3>4 DEF Fates, OneCounts, Waived, Bare
    <3>6. pc \notin {"down", "idle"} => seq # 0
      BY SeqIsRow DEF Row
    <3>7. SendIsDue'
      BY <2>1, <3>1, <3>2, <3>4, <3>6 DEF Fates, SendIsDue, Waived, Bare, seq
    <3> QED
      BY <3>3, <3>5, <3>7 DEF Fates
  <2> QED
    BY <1>30, <2>2, <2>3 DEF Deferred
<1>31. CASE UNCHANGED vars
  <2>1. SendIsDue'
    BY <1>31 DEF Fates, SendIsDue, Ours, Spent, Waived, Bare, seq
  <2> QED
    BY <1>31, <2>1, FatesKept
<1> QED
  BY <1>1, <1>2, <1>3, <1>4, <1>5, <1>6, <1>7, <1>9, <1>10, <1>11, <1>12, <1>13, <1>14, <1>15, <1>16, <1>17, <1>18, <1>19, <1>20, <1>21, <1>22, <1>23, <1>24, <1>25, <1>26, <1>27, <1>29, <1>30, <1>31 DEF Next, Inbound, Gateway, Consumer, Background

-----------------------------------------------------------------------------
(* No answer to an answer.                                                 *)

\* The guard lets an own message pass only after a failure, or in a thread as long as its
\* window.
Excused == faults > 0 \/ History >= GuardWindow

\* An own message that the guard let pass.
Passed(s) ==
    rows[s].src = "own" /\ (\/ ledger[s].state # "none"
                            \/ s = seq /\ pc \notin {"down", "idle", "guard"})

GuardInv ==
    /\ IsFiniteSet(thread)
    /\ faults = 0 => flying = {}
    /\ \A s \in Row : Passed(s) => Excused

\* An excuse lasts: faults stay counted, and without one the thread only grows.
LEMMA ExcuseLasts ==
    ASSUME TypeOK, TypeOK', IsFiniteSet(thread'), faults' >= faults, thread \subseteq thread', Excused
    PROVE  Excused'
<1>1. Cardinality(thread) <= Cardinality(thread')
  BY FS_Subset
<1>2. Cardinality(thread) \in Nat /\ Cardinality(thread') \in Nat
  BY FS_Subset, FS_CardinalityType
<1>3. faults \in Nat /\ faults' \in Nat
  BY ConsumerAssumption DEF TypeOK
<1>4. QED
  BY <1>1, <1>2, <1>3, ConsumerAssumption DEF Excused, History

\* What a step has to show.
LEMMA GuardKept ==
    ASSUME TypeOK, TypeOK', GuardInv, faults' >= faults, IsFiniteSet(thread'),
           thread \subseteq thread' \/ faults' > 0, faults' = 0 => flying' = {},
           \A s \in Row : Passed(s)' => Passed(s) \/ Excused \/ faults' > 0
    PROVE  GuardInv'
<1>1. Excused => Excused'
  <2>1. CASE thread \subseteq thread'
    BY <2>1, ExcuseLasts
  <2>2. CASE faults' > 0
    BY <2>2 DEF Excused
  <2>3. QED
    BY <2>1, <2>2
<1>2. faults' > 0 => Excused'
  BY DEF Excused
<1>3. QED
  BY <1>1, <1>2 DEF GuardInv

\* Every step keeps it.
LEMMA GuardStep ==
    ASSUME TypeOK, TypeOK', AckInv, GuardInv, [Next]_vars
    PROVE  GuardInv'
<1>a. /\ faults \in Nat /\ n \in Nat /\ cursor \in Nat /\ rows \in [Row -> RowType]
      /\ ledger \in [Row -> Entry] /\ IsFiniteSet(thread)
      /\ faults = 0 => flying = {}
      /\ pc \notin {"down", "idle"} => seq \in 1 .. n
  BY ConsumerAssumption DEF TypeOK, GuardInv, seq
<1>b. \A x : IsFiniteSet(thread \cup {x})
  BY <1>a, FS_AddElement
<1> USE <1>a DEF vars, store, world, local, history

<1>0. ASSUME UNCHANGED <<rows, ledger, thread>>, faults' >= faults, faults' = 0 => flying' = {},
             \/ pc' \in {"down", "idle", "guard"}
             \/ UNCHANGED cursor /\ pc \notin {"down", "idle", "guard"}
             \/ UNCHANGED <<cursor, pc>>
      PROVE  GuardInv'
  <2>1. \A s \in Row : Passed(s)' => Passed(s)
    BY <1>0 DEF Passed, seq
  <2> QED
    BY <1>0, <2>1, GuardKept
<1>1. ASSUME NEW r \in RowType, Insert(r)
      PROVE  GuardInv'
  <2>1. /\ UNCHANGED <<ledger, thread, flying, cursor, pc, faults>>
        /\ \A s \in Row : s # n + 1 => rows'[s] = rows[s]
    BY <1>1 DEF Insert
  <2>2. n + 1 \in Row => ledger[n + 1].state = "none"
    BY DEF AckInv, LedgerBegun
  <2>3. \A s \in Row : Passed(s)' => Passed(s)
    BY <2>1, <2>2 DEF Passed, seq
  <2> QED
    BY <2>1, <2>3, GuardKept
<1>2. ASSUME NEW kind \in {"chat","command","quiet"}, NEW q \in Row, Accept(kind, q)
      PROVE  GuardInv'
  <2>1. [src |-> "user", id |-> n + 1, quote |-> q, kind |-> kind] \in RowType
    BY DEF RowType
  <2> QED
    BY <1>1, <1>2, <2>1 DEF Accept
<1>3. ASSUME NEW m \in thread, Echo(m)
      PROVE  GuardInv'
  <2>1. m \in Message /\ n + 1 \in Row
    BY <1>3, ConsumerAssumption DEF Echo, Insert, Row, TypeOK
  <2>2. [src |-> "own", id |-> m.id, kind |-> "chat", quote |-> IF m.quote = 0 THEN n + 1 ELSE m.quote] \in RowType
    BY <2>1, ConsumerAssumption DEF RowType, Row, Message
  <2> QED
    BY <1>1, <1>3, <2>2 DEF Echo
<1>4. ASSUME NEW m \in flying, Land(m)
      PROVE  GuardInv'
  <2>1. PICK x : thread' = thread \cup {x}
    BY <1>4 DEF Land
  <2>2. UNCHANGED <<rows, ledger, cursor, pc, faults>> /\ faults # 0
    BY <1>4 DEF Land
  <2>3. \A s \in Row : Passed(s)' => Passed(s)
    BY <2>2 DEF Passed, seq
  <2> QED
    BY <1>b, <2>1, <2>2, <2>3, GuardKept
<1>5. ASSUME NEW m \in flying, Lose(m)
      PROVE  GuardInv'
  BY <1>0, <1>5 DEF Lose
<1>6. CASE Age
  <2> DEFINE T == {[m EXCEPT !.fresh = FALSE] : m \in thread}
             f == [m \in thread |-> [m EXCEPT !.fresh = FALSE]]
  <2>1. IsFiniteSet(T)
    <3>1. f \in Surjection(thread, T)
      BY DEF Surjection
    <3> HIDE DEF f, T
    <3> QED
      BY <3>1, FS_Surjection
  <2>2. UNCHANGED <<rows, ledger, cursor, pc>> /\ faults' = faults + 1 /\ IsFiniteSet(thread')
    BY <1>6, <2>1 DEF Age, Fault
  <2>3. \A s \in Row : Passed(s)' => Passed(s)
    BY <2>2 DEF Passed, seq
  <2> QED
    BY <2>2, <2>3, GuardKept
<1>7. CASE Start
  BY <1>0, <1>7 DEF Start
<1>8. CASE Crash
  BY <1>0, <1>8 DEF Crash, Exit, Fault
<1>9. CASE Stop
  BY <1>0, <1>9 DEF Stop, Fault
<1>10. CASE LoopEnds
  BY <1>0, <1>10 DEF LoopEnds, Exit
<1>11. CASE Take
  <2>1. CASE rows[seq].src = "own"
    BY <1>0, <1>11, <2>1 DEF Take, Goto
  <2>2. CASE rows[seq].src # "own"
    <3>1. UNCHANGED <<rows, ledger, thread, flying, cursor, faults>>
      BY <1>11 DEF Take, Goto
    <3>2. \A s \in Row : Passed(s)' => Passed(s)
      BY <2>2, <3>1 DEF Passed, seq
    <3> QED
      BY <3>1, <3>2, GuardKept
  <2> QED
    BY <2>1, <2>2
<1>12. CASE GuardOwn
  BY <1>0, <1>12 DEF GuardOwn, Acknowledge
<1>13. CASE GuardOpen
  <2>1. UNCHANGED <<rows, ledger, thread, flying, cursor>> /\ faults' >= faults
        /\ (History >= GuardWindow \/ faults' > 0)
    BY <1>13 DEF GuardOpen, Goto, Fault
  <2>2. Excused \/ faults' > 0
    BY <2>1 DEF Excused
  <2> QED
    BY <2>1, <2>2, GuardKept
<1>14. CASE Command
  BY <1>0, <1>14 DEF Command, Acknowledge
<1>15. CASE NotForUs
  BY <1>0, <1>15 DEF NotForUs, Acknowledge
<1>16. CASE Answer
  BY <1>0, <1>16 DEF Answer, Goto
<1>17. ASSUME NEW m \in thread, CheckFinds(m)
      PROVE  GuardInv'
  BY <1>0, <1>17 DEF CheckFinds
<1>18. CASE CheckAbsent
  BY <1>0, <1>18 DEF CheckAbsent
<1>19. CASE CheckBlind
  BY <1>0, <1>19 DEF CheckBlind, Goto, Fault
<1>20. CASE Settle
  BY <1>0, <1>20 DEF Settle, Goto
<1>21. ASSUME NEW text \in Text, NEW d \in Directive, Turn(text, d)
      PROVE  GuardInv'
  BY <1>0, <1>21 DEF Turn
<1>22. CASE TurnStopped
  BY <1>0, <1>22 DEF TurnStopped, Goto
<1>23. CASE TurnThrows
  BY <1>0, <1>23 DEF TurnThrows, Goto, Fault
<1>24. ASSUME NEW st \in {"sending", "uncertain", "sent"}, pc \notin {"down", "idle", "guard"},
              UNCHANGED <<rows, cursor, thread, flying, faults>>,
              \A s \in Row : s # seq => ledger'[s] = ledger[s]
      PROVE  GuardInv'
  <2>1. \A s \in Row : Passed(s)' => Passed(s)
    BY <1>24 DEF Passed, seq
  <2> QED
    BY <1>24, <2>1, GuardKept
<1>25. CASE Begin
  BY <1>24, <1>25 DEF Begin
<1>26. CASE SendConfirmed
  <2>1. PICK x : thread' = thread \cup {x}
    BY <1>26 DEF SendConfirmed
  <2>2. UNCHANGED <<rows, ledger, cursor, faults, flying>> /\ pc = "send" /\ pc' = "landed"
    BY <1>26 DEF SendConfirmed
  <2>3. \A s \in Row : Passed(s)' => Passed(s)
    BY <2>2 DEF Passed, seq
  <2>4. IsFiniteSet(thread') /\ thread \subseteq thread'
    BY <1>b, <2>1
  <2>5. faults' >= faults /\ (faults' = 0 => flying' = {})
    BY <2>2
  <2> QED
    BY <2>3, <2>4, <2>5, GuardKept
<1>27. CASE SendUnsure
  BY <1>0, <1>27 DEF SendUnsure, Goto, Fault
<1>28. CASE SendRefused
  BY <1>0, <1>28 DEF SendRefused, Goto, Fault
<1>29. CASE MarkUncertain
  BY <1>24, <1>29 DEF MarkUncertain
<1>30. CASE MarkSent
  BY <1>24, <1>30 DEF MarkSent
<1>31. CASE AckSent
  BY <1>0, <1>31 DEF AckSent, Acknowledge
<1>32. ASSUME NEW s \in deferred, Deferred(s)
      PROVE  GuardInv'
  <2>1. UNCHANGED <<rows, ledger, cursor, pc, faults, flying>>
    BY <1>32 DEF Deferred
  <2>2. thread \subseteq thread' /\ IsFiniteSet(thread')
    BY <1>32, <1>b DEF Deferred
  <2>3. \A r \in Row : Passed(r)' => Passed(r)
    BY <2>1 DEF Passed, seq
  <2> QED
    BY <2>1, <2>2, <2>3, GuardKept
<1>33. CASE UNCHANGED vars
  BY <1>0, <1>33
<1> QED
  BY <1>2, <1>3, <1>4, <1>5, <1>6, <1>7, <1>8, <1>9, <1>10, <1>11, <1>12, <1>13, <1>14, <1>15, <1>16, <1>17, <1>18, <1>19, <1>20, <1>21, <1>22, <1>23, <1>25, <1>26, <1>27, <1>28, <1>29, <1>30, <1>31, <1>32, <1>33 DEF Next, Inbound, Gateway, Consumer, Background

(* The consumer does not answer itself, for any windows and switches: the     *)
(* echo of a reply is answered only after a failure, or in a thread as long   *)
(* as the window of the guard (consumer.ts:377-397).                          *)
THEOREM NoSelfAnswerAlways == Spec => []NoSelfAnswer
<1>1. Init => AckInv /\ GuardInv
  BY FS_EmptySet DEF Init, AckInv, LedgerBegun, AtRow, SentIsShown, AckedIsAnswered, Owed, NoEntry,
     Answering, GuardInv, Passed, Row, seq
<1>2. TypeOK /\ TypeOK' /\ AckInv /\ GuardInv /\ [Next]_vars => AckInv' /\ GuardInv'
  BY AckStep, GuardStep
<1>3. GuardInv => NoSelfAnswer
  BY DEF GuardInv, Passed, Excused, NoSelfAnswer
<1> QED
  BY <1>1, <1>2, <1>3, TypeCorrect, PTL DEF Spec

(* A message gets one answer, and an answer none: a second copy of a reply    *)
(* is sent only when the first left no evidence, was still on its way when    *)
(* the settle wait was over, or went out for a row whose journalled answer    *)
(* has no words (consumer.ts:474-490, the two checks of findDeliveredReply    *)
(* around the settle wait), whatever crashed, was lost or refused.             *)
THEOREM AnsweredOnceAlways == Spec => []AnsweredOnce
<1>1. Init => AckInv /\ OnceInv /\ Fates
  BY DEF Init, AckInv, LedgerBegun, AtRow, SentIsShown, AckedIsAnswered, Owed, NoEntry, Answering,
         OnceInv, HasWords, DeferredBegun, OnceEach, seq, Fates, Numbered, Replies, OneCounts,
         SendIsDue, Ours
<1>2. TypeOK /\ TypeOK' /\ AckInv /\ OnceInv /\ Fates /\ [Next]_vars => AckInv' /\ OnceInv' /\ Fates'
  <2> SUFFICES ASSUME TypeOK, TypeOK', AckInv, OnceInv, Fates, [Next]_vars
               PROVE  AckInv' /\ OnceInv' /\ Fates'
    OBVIOUS
  <2>1. AckInv'
    BY AckStep
  <2>2. OnceInv'
    BY OnceStep
  <2>3. Fates'
    BY FatesStep
  <2> QED
    BY <2>1, <2>2, <2>3
<1>3. Fates => NoDuplicateReply
  BY DEF Fates, OneCounts, Ours, Spent, Waived, NoDuplicateReply
<1> QED
  BY <1>1, <1>2, <1>3, TypeCorrect, NoSelfAnswerAlways, PTL DEF Spec, AnsweredOnce

=============================================================================
