-------------------------- MODULE AgentLoopProofs --------------------------
(***************************************************************************)
(* Proofs about the agent's run loop, for every set of messages and        *)
(* settings and for all limits.                                            *)
(***************************************************************************)
EXTENDS AgentLoop, TLAPS

-----------------------------------------------------------------------------
(* Types.                                                                  *)

\* A counter that stops at its cap stays in its range.
LEMMA UpToRange ==
    ASSUME NEW cap \in Nat \ {0}, NEW n \in Nat
    PROVE  UpTo(n, cap) \in 0..cap /\ UpTo(n + 1, cap) \in 0..cap
BY DEF UpTo

\* Every step keeps the types.
LEMMA TypeStep ==
    ASSUME TypeOK, [Next]_vars
    PROVE  TypeOK'
<1>b. /\ Budget \in Nat \ {0} /\ FormatLimit \in Nat \ {0} /\ RepeatCap \in Nat \ {0}
      /\ FailureCap \in Nat \ {0} /\ RejectionCap \in Nat \ {0} /\ ErrorCap \in Nat \ {0}
  BY BoundsOK
<1> USE <1>b DEF TypeOK, At, Ends, vars, mail, talk, Exit, Pc, Flow
<1>1. CASE Start
  <2>1. check' \in Check
    BY <1>1 DEF Start, capture_task_verifier, Check
  <2> QED
    BY <1>1, <2>1 DEF Start, capture_task_verifier
<1>2. CASE FastPath
  BY <1>2 DEF FastPath
<1>3. CASE CompactOnly
  BY <1>3 DEF CompactOnly
<1>4. CASE TopStopped
  BY <1>4 DEF TopStopped
<1>5. CASE Step
  <2>1. seal' \in Seal
    BY <1>5 DEF Step, NoSeal, Seal, Check
  <2> QED
    BY <1>5, <2>1 DEF Step
<1>6. CASE ReadControl
  BY <1>6 DEF ReadControl
<1>7. CASE Truncate
  BY <1>7 DEF Truncate
<1>8. CASE ApplyInStep
  <2>1. kids' \in Kids
    BY <1>8 DEF ApplyInStep, Kids
  <2>2. conv' \subseteq Message /\ left' \in 0..Budget /\ disk' \subseteq Message
    BY <1>8 DEF ApplyInStep, ConvWith, LeftWith
  <2> QED
    BY <1>8, <2>1, <2>2 DEF ApplyInStep, ConvWith, LeftWith, Line
<1>9. CASE LimitsExceeded
  BY <1>9 DEF LimitsExceeded
<1>10. CASE CallFails
  BY <1>10 DEF CallFails, Called
<1>11. CASE FormatError
  BY <1>11 DEF FormatError, Called
<1>12. CASE TextReply
  <2>1. seal' \in Seal
    BY <1>12 DEF TextReply, Seal
  <2> QED
    BY <1>12, <2>1 DEF TextReply, Called
<1>13. ASSUME NEW r \in BOOLEAN, ActionReply(r)
      PROVE  TypeOK'
  <2>1. same' \in 0..RepeatCap
    BY <1>13, UpToRange DEF ActionReply
  <2>2. pc' \in Pc /\ exit' \in Exit
    BY <1>13 DEF ActionReply
  <2> QED
    BY <1>13, <2>1, <2>2 DEF ActionReply, Called
<1>14. ASSUME NEW p \in BOOLEAN, NEW i \in BOOLEAN, NEW w \in BOOLEAN,
             NEW spawns \in BOOLEAN, ExecuteActions(p, i, w, spawns)
      PROVE  TypeOK'
  <2>1. check' \in Check
    BY <1>14 DEF ExecuteActions, Check
  <2>2. kids' \in Kids
    BY <1>14 DEF ExecuteActions, Kids
  <2>3. seal' \in Seal
    BY <1>14 DEF ExecuteActions, Seal
  <2> QED
    BY <1>14, <2>1, <2>2, <2>3 DEF ExecuteActions
<1>15. CASE ActionsStopped
  BY <1>15 DEF ActionsStopped
<1>16. CASE Observe
  BY <1>16 DEF Observe
<1>17. CASE fast_verifier_closure
  <2>1. check' \in Check
    BY <1>17 DEF fast_verifier_closure, Check
  <2>2. seal' \in Seal
    BY <1>17 DEF fast_verifier_closure, Seal
  <2> QED
    BY <1>17, <2>1, <2>2 DEF fast_verifier_closure
<1>18. ASSUME NEW joined \in BOOLEAN, Submit(joined)
      PROVE  TypeOK'
  <2>1. kids' \in Kids
    BY <1>18 DEF Submit, NoKids, Kids
  <2>2. seal' \in Seal
    BY <1>18 DEF Submit, Seal
  <2> QED
    BY <1>18, <2>1, <2>2 DEF Submit
<1>19. CASE StepStopped
  BY <1>19 DEF StepStopped
<1>20. CASE StepOk
  BY <1>20 DEF StepOk
<1>21. CASE StepFormat
  <2>1. fmt' \in 0..FormatLimit
    BY <1>21, UpToRange DEF StepFormat
  <2>2. exit' \in Exit
    BY <1>21 DEF StepFormat
  <2> QED
    BY <1>21, <2>1, <2>2 DEF StepFormat
<1>22. CASE StepInterrupt
  BY <1>22 DEF StepInterrupt
<1>23. CASE StepFatal
  BY <1>23 DEF StepFatal
<1>24. CASE NotChecked
  BY <1>24 DEF NotChecked
<1>25. CASE CheckerPasses
  <2>1. seal' \in Seal
    BY <1>25 DEF CheckerPasses, Seal
  <2> QED
    BY <1>25, <2>1 DEF CheckerPasses
<1>26. CASE CheckerRejects
  <2>1. check' \in Check
    BY <1>26, UpToRange DEF CheckerRejects, Rejected, Check
  <2> QED
    BY <1>26, <2>1 DEF CheckerRejects, Rejected
<1>27. CASE CheckerStopped
  BY <1>27 DEF CheckerStopped
<1>28. CASE NotJudged
  <2>1. seal' \in Seal
    BY <1>28, ConfsOK DEF NotJudged, Handoff, Seal, Kids, Conf
  <2> QED
    BY <1>28, <2>1 DEF NotJudged
<1>29. CASE JudgeSkipped
  BY <1>29 DEF JudgeSkipped
<1>30. CASE JudgeAccepts
  <2>1. seal' \in Seal
    BY <1>30 DEF JudgeAccepts, Seal
  <2>2. judge' \in Verdict
    BY <1>30 DEF JudgeAccepts, Verdict
  <2> QED
    BY <1>30, <2>1, <2>2 DEF JudgeAccepts, Asked
<1>31. CASE JudgeUnavailable
  <2>1. judge' \in Verdict
    BY <1>31, UpToRange DEF JudgeUnavailable, Verdict
  <2> QED
    BY <1>31, <2>1 DEF JudgeUnavailable, Asked
<1>32. ASSUME NEW r \in BOOLEAN, JudgeRejects(r)
      PROVE  TypeOK'
  <2>1. judge' \in Verdict
    BY <1>32, UpToRange DEF JudgeRejects, Verdict
  <2>2. seal' \in Seal
    BY <1>32 DEF JudgeRejects, Seal
  <2>3. exit' \in Exit
    BY <1>32 DEF JudgeRejects
  <2> QED
    BY <1>32, <2>1, <2>2, <2>3 DEF JudgeRejects, Asked
<1>33. CASE Save
  BY <1>33 DEF Save, Finish
<1>34. CASE Hold
  BY <1>34 DEF Hold, Finish
<1>35. CASE ApplyQuick
  <2>1. conv' \subseteq Message /\ left' \in 0..Budget /\ disk' \subseteq Message
    BY <1>35 DEF ApplyQuick, ConvWith, LeftWith
  <2> QED
    BY <1>35, <2>1 DEF ApplyQuick, ConvWith, LeftWith, Woken, Finish, Line
<1>36. CASE IdleEnds
  BY <1>36 DEF IdleEnds
<1>37. CASE LoopTick
  BY <1>37 DEF LoopTick
<1>38. CASE ApplyInLoop
  <2>1. kids' \in Kids
    BY <1>38 DEF ApplyInLoop, Kids
  <2>2. conv' \subseteq Message /\ left' \in 0..Budget /\ disk' \subseteq Message
    BY <1>38 DEF ApplyInLoop, ConvWith, LeftWith
  <2> QED
    BY <1>38, <2>1, <2>2 DEF ApplyInLoop, ConvWith, LeftWith, Woken, Finish, Line
<1>39. CASE HeadlessTick
  <2>1. kids' \in Kids
    BY <1>39 DEF HeadlessTick, Kids
  <2> QED
    BY <1>39, <2>1 DEF HeadlessTick, Woken, Finish
<1>40. ASSUME NEW l \in Line, Send(l)
      PROVE  TypeOK'
  BY <1>40 DEF Send, Line
<1>41. CASE Interrupt
  BY <1>41 DEF Interrupt
<1>42. CASE Kill
  <2>1. check' \in Check
    BY <1>42, ConfsOK DEF Kill, NoCheck, Check, Conf
  <2>2. judge' \in Verdict
    BY <1>42 DEF Kill, NoVerdict, Verdict
  <2>3. kids' \in Kids
    BY <1>42 DEF Kill, NoKids, Kids
  <2>4. seal' \in Seal
    BY <1>42 DEF Kill, NoSeal, Seal
  <2> QED
    BY <1>42, <2>1, <2>2, <2>3, <2>4 DEF Kill
<1>43. ASSUME NEW ends \in BOOLEAN, NEW noted \in BOOLEAN, ChildReports(ends, noted)
      PROVE  TypeOK'
  <2>1. kids' \in Kids
    BY <1>43 DEF ChildReports, Kids
  <2> QED
    BY <1>43, <2>1 DEF ChildReports
<1>44. CASE UNCHANGED vars
  BY <1>44
<1>45. CASE Starts
  BY <1>45, <1>1, <1>2, <1>3 DEF Starts
<1>46. CASE Drains
  BY <1>46, <1>4, <1>5, <1>6, <1>7, <1>8, <1>9 DEF Drains
<1>47. CASE Replies
  BY <1>47, <1>10, <1>11, <1>12, <1>13 DEF Replies
<1>48. CASE Acts
  BY <1>48, <1>14, <1>15, <1>16, <1>17, <1>18 DEF Acts
<1>49. CASE StepEnds
  BY <1>49, <1>19, <1>20, <1>21, <1>22, <1>23 DEF StepEnds
<1>50. CASE Gates
  BY <1>50, <1>24, <1>25, <1>26, <1>27, <1>28, <1>29, <1>30, <1>31, <1>32 DEF Gates
<1>51. CASE Holds
  BY <1>51, <1>33, <1>34, <1>35, <1>36, <1>37, <1>38, <1>39 DEF Holds
<1>52. CASE Others
  BY <1>52, <1>40, <1>41, <1>42, <1>43 DEF Others
<1> QED
  BY <1>45, <1>46, <1>47, <1>48, <1>49, <1>50, <1>51, <1>52, <1>44 DEF Next, AgentStep

\* The types hold in every state.
THEOREM TypeCorrect == Spec => []TypeOK
<1>1. Init => TypeOK
  <2> SUFFICES ASSUME Init PROVE TypeOK
    OBVIOUS
  <2>1. /\ Budget \in Nat /\ FormatLimit \in Nat /\ RepeatCap \in Nat
        /\ FailureCap \in Nat /\ RejectionCap \in Nat /\ ErrorCap \in Nat
    BY BoundsOK
  <2>2. check \in Check
    BY <2>1, ConfsOK DEF Init, NoCheck, Check, Conf
  <2>3. judge \in Verdict /\ kids \in Kids /\ seal \in Seal
    BY <2>1 DEF Init, NoVerdict, NoKids, NoSeal, Verdict, Kids, Seal
  <2>4. pc \in Pc /\ exit \in Exit /\ stop \in BOOLEAN
    BY Zenon DEF Init, Pc, Exit
  <2>5. left \in 0..Budget /\ fmt \in 0..FormatLimit /\ same \in 0..RepeatCap
    BY <2>1 DEF Init
  <2> QED
    BY <2>2, <2>3, <2>4, <2>5 DEF Init, TypeOK
<1> QED
  BY <1>1, TypeStep, PTL DEF Spec

-----------------------------------------------------------------------------
(***************************************************************************)
(* The inductive invariant.  What a run says at its end is settled in      *)
(* earlier states: the invariant says at which place of run() each fact is *)
(* already established.                                                    *)
(***************************************************************************)
Draining == pc \in {"drain", "truncate", "apply"}

\* Inside a step: the model has not proposed an end yet.
InStep == \/ pc \in {"limits", "acting", "acted", "ok", "format", "fatal"}
          \/ Draining /\ from = "step"

Alone == ~kids.live /\ ~kids.notes

\* What a run starts from, and what a conversational task never has.
Fresh == /\ pc = "start" => check.file = "none" /\ ~check.closed /\ conv = {} /\ Alone
         /\ conf.chat => check.file = "none"

\* The exit message of a step that goes on is gone.
NoExit == InStep \/ pc \in {"start", "top"} => exit = "none"

\* Lines are held between the read and the take-up only, and the journal never has more than
\* the conversation.
Held == /\ disk \subseteq conv
        /\ pc \notin {"truncate", "apply"} => hand = {}

\* The checker's part of a success that has passed its gate, and of a fast closure that is
\* about to pass it untested.
Proven == \/ seal.proved \/ stop \/ seal.reopened
          \/ check.file = "unhashed" /\ check.closed

Closed == /\ InStep /\ check.closed => seal.reopened
          /\ exit = "Submitted" /\ check.closed => Proven

Proved == exit = "Submitted" /\ check.file # "none" /\ pc \notin {"interrupt", "gate"} => Proven

\* The judge's part.
Decided == exit = "Submitted" /\ ~conf.chat /\ conf.oracle # "off"
           /\ pc \notin {"interrupt", "gate", "judge"} =>
               \/ seal.judged \/ stop \/ seal.handed
               \/ check.present /\ conf.oracle # "always"

\* The model was called with the whole conversation before it proposed an end.
Answered == exit = "Submitted" \/ pc \in {"acting", "acted"} => conv \subseteq seen

\* Where the run ends without looking at its subagents, it has none.
Childless == /\ from = "fast" => pc = "save" /\ Alone
             /\ from = "quick" /\ Draining => Alone

RunInv == result = "run" => /\ Fresh /\ NoExit /\ Held /\ Closed /\ Proved /\ Decided
                            /\ Answered /\ Childless

\* The five guarantees, with the invariant that carries them.
Rest == /\ RunInv
        /\ ClosureProven /\ GoalJudged /\ MessagesSurvive /\ AnsweredBeforeSuccess
        /\ ChildrenOutlived

IInv == TypeOK /\ Rest

\* Every step keeps the invariant.
LEMMA InvStep ==
    ASSUME IInv, [Next]_vars
    PROVE  Rest'
<1> USE DEF IInv, TypeOK, Seal, Kids, Check, At, Ends, mail, talk, Flow
<1> USE DEF Rest, ClosureProven, GoalJudged, MessagesSurvive, AnsweredBeforeSuccess,
            ChildrenOutlived
<1> USE DEF RunInv, Fresh, NoExit, Held, Closed, Proved, Decided, Answered, Childless, Proven,
            InStep, Draining, Alone
<1>1. ASSUME Start PROVE Rest'
  BY <1>1 DEF Start, capture_task_verifier
<1>2. ASSUME FastPath PROVE Rest'
  BY <1>2 DEF FastPath
<1>3. ASSUME CompactOnly PROVE Rest'
  BY <1>3 DEF CompactOnly
<1>4. ASSUME TopStopped PROVE Rest'
  BY <1>4 DEF TopStopped
<1>5. ASSUME Step PROVE Rest'
  BY <1>5 DEF Step, NoSeal
<1>6. ASSUME ReadControl PROVE Rest'
  BY <1>6 DEF ReadControl
<1>7. ASSUME Truncate PROVE Rest'
  BY <1>7 DEF Truncate
<1>8. ASSUME ApplyInStep PROVE Rest'
  BY <1>8 DEF ApplyInStep, ConvWith, LeftWith
<1>9. ASSUME LimitsExceeded PROVE Rest'
  BY <1>9 DEF LimitsExceeded
<1>10. ASSUME CallFails PROVE Rest'
  BY <1>10 DEF CallFails, Called
<1>11. ASSUME FormatError PROVE Rest'
  BY <1>11 DEF FormatError, Called
<1>12. ASSUME TextReply PROVE Rest'
  BY <1>12 DEF TextReply, Called
<1>13. ASSUME NEW r \in BOOLEAN, ActionReply(r)
      PROVE  Rest'
  BY <1>13 DEF ActionReply, Called
<1>14. ASSUME NEW p \in BOOLEAN, NEW i \in BOOLEAN, NEW w \in BOOLEAN,
             NEW spawns \in BOOLEAN, ExecuteActions(p, i, w, spawns)
      PROVE  Rest'
  BY <1>14 DEF ExecuteActions
<1>15. ASSUME ActionsStopped PROVE Rest'
  BY <1>15 DEF ActionsStopped
<1>16. ASSUME Observe PROVE Rest'
  BY <1>16 DEF Observe
<1>17. ASSUME fast_verifier_closure PROVE Rest'
  BY <1>17 DEF fast_verifier_closure
<1>18. ASSUME NEW joined \in BOOLEAN, Submit(joined)
      PROVE  Rest'
  BY <1>18 DEF Submit, NoKids
<1>19. ASSUME StepStopped PROVE Rest'
  BY <1>19 DEF StepStopped
<1>20. ASSUME StepOk PROVE Rest'
  BY <1>20 DEF StepOk
<1>21. ASSUME StepFormat PROVE Rest'
  BY <1>21 DEF StepFormat
<1>22. ASSUME StepInterrupt PROVE Rest'
  BY <1>22 DEF StepInterrupt
<1>23. ASSUME StepFatal PROVE Rest'
  BY <1>23 DEF StepFatal
<1>24. ASSUME NotChecked PROVE Rest'
  BY <1>24 DEF NotChecked, Checked
<1>25. ASSUME CheckerPasses PROVE Rest'
  BY <1>25 DEF CheckerPasses
<1>26. ASSUME CheckerRejects PROVE Rest'
  BY <1>26 DEF CheckerRejects, Rejected, Checked
<1>27. ASSUME CheckerStopped PROVE Rest'
  BY <1>27 DEF CheckerStopped
<1>28. ASSUME NotJudged PROVE Rest'
  BY <1>28 DEF NotJudged, Handoff, Judged
<1>29. ASSUME JudgeSkipped PROVE Rest'
  BY <1>29 DEF JudgeSkipped, Judged, Handoff
<1>30. ASSUME JudgeAccepts PROVE Rest'
  BY <1>30 DEF JudgeAccepts, Asked
<1>31. ASSUME JudgeUnavailable PROVE Rest'
  BY <1>31 DEF JudgeUnavailable, Asked
<1>32. ASSUME NEW r \in BOOLEAN, JudgeRejects(r)
      PROVE  Rest'
  BY <1>32 DEF JudgeRejects, Asked
<1>33. ASSUME Save PROVE Rest'
  BY <1>33 DEF Save, Finish
<1>34. ASSUME Hold PROVE Rest'
  BY <1>34 DEF Hold, Finish, HoldsNot
<1>35. ASSUME ApplyQuick PROVE Rest'
  BY <1>35 DEF ApplyQuick, ConvWith, LeftWith, Woken, Finish
<1>36. ASSUME IdleEnds PROVE Rest'
  BY <1>36 DEF IdleEnds
<1>37. ASSUME LoopTick PROVE Rest'
  BY <1>37 DEF LoopTick
<1>38. ASSUME ApplyInLoop PROVE Rest'
  BY <1>38 DEF ApplyInLoop, ConvWith, LeftWith, Woken, Finish
<1>39. ASSUME HeadlessTick PROVE Rest'
  BY <1>39 DEF HeadlessTick, Woken, Finish
<1>40. ASSUME NEW l \in Line, Send(l)
      PROVE  Rest'
  BY <1>40 DEF Send
<1>41. ASSUME Interrupt PROVE Rest'
  BY <1>41 DEF Interrupt
<1>42. ASSUME Kill PROVE Rest'
  BY <1>42 DEF Kill, NoCheck, NoVerdict, NoKids, NoSeal
<1>43. ASSUME NEW ends \in BOOLEAN, NEW noted \in BOOLEAN, ChildReports(ends, noted)
      PROVE  Rest'
  BY <1>43 DEF ChildReports
<1>44. CASE UNCHANGED vars
  BY <1>44 DEF vars, mail, talk
<1> HIDE DEF IInv, Rest
<1>45. CASE Starts
  BY <1>45, <1>1, <1>2, <1>3 DEF Starts
<1>46. CASE Drains
  BY <1>46, <1>4, <1>5, <1>6, <1>7, <1>8, <1>9 DEF Drains
<1>47. CASE Replies
  BY <1>47, <1>10, <1>11, <1>12, <1>13 DEF Replies
<1>48. CASE Acts
  BY <1>48, <1>14, <1>15, <1>16, <1>17, <1>18 DEF Acts
<1>49. CASE StepEnds
  BY <1>49, <1>19, <1>20, <1>21, <1>22, <1>23 DEF StepEnds
<1>50. CASE Gates
  BY <1>50, <1>24, <1>25, <1>26, <1>27, <1>28, <1>29, <1>30, <1>31, <1>32 DEF Gates
<1>51. CASE Holds
  BY <1>51, <1>33, <1>34, <1>35, <1>36, <1>37, <1>38, <1>39 DEF Holds
<1>52. CASE Others
  BY <1>52, <1>40, <1>41, <1>42, <1>43 DEF Others
<1> QED
  BY <1>45, <1>46, <1>47, <1>48, <1>49, <1>50, <1>51, <1>52, <1>44 DEF Next, AgentStep

\* The invariant holds in every state.
THEOREM InvHolds == Spec => []IInv
<1>1. Init => Rest
  BY DEF Init, Rest, RunInv, Fresh, NoExit, Held, Closed, Proved, Decided, Answered, Childless,
         InStep, Draining, Alone, NoCheck, NoKids, ClosureProven, GoalJudged, MessagesSurvive,
         AnsweredBeforeSuccess, ChildrenOutlived
<1>2. IInv /\ [Next]_vars => Rest'
  BY InvStep
<1> QED
  BY <1>1, <1>2, TypeCorrect, PTL DEF Spec, IInv

\* A run that ends with success has seen the unchanged checker of its task pass after its last
\* command, but for the three exceptions that ClosureProven names.
THEOREM SuccessIsProven == Spec => []ClosureProven
<1>1. IInv => ClosureProven
  BY DEF IInv, Rest
<1> QED
  BY <1>1, InvHolds, PTL

\* A run that ends with success has been judged on that proposal where a judge is due.
THEOREM SuccessIsJudged == Spec => []GoalJudged
<1>1. IInv => GoalJudged
  BY DEF IInv, Rest
<1> QED
  BY <1>1, InvHolds, PTL

\* drain_control loses no message but the ones that arrive between its read and its truncation.
THEOREM NoMessageVanishes == Spec => []MessagesSurvive
<1>1. IInv => MessagesSurvive
  BY DEF IInv, Rest
<1> QED
  BY <1>1, InvHolds, PTL

\* A run that ends with success called the model with every message it took up.
THEOREM SuccessAnswersAll == Spec => []AnsweredBeforeSuccess
<1>1. IInv => AnsweredBeforeSuccess
  BY DEF IInv, Rest
<1> QED
  BY <1>1, InvHolds, PTL

\* A run that can be talked to, or holds at its exit, never ends before its subagents.
THEOREM NoOrphans == Spec => []ChildrenOutlived
<1>1. IInv => ChildrenOutlived
  BY DEF IInv, Rest
<1> QED
  BY <1>1, InvHolds, PTL

=============================================================================
