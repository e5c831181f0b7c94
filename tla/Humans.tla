------------------------------- MODULE Humans -------------------------------
(***************************************************************************)
(* What the server tells the human about the work it does for him: the     *)
(* requests of a worker to act in its browser tab (HumanHandoff), and the  *)
(* one chat in which prompts are answered and results reported             *)
(* (DispatcherChat).                                                       *)
(***************************************************************************)
EXTENDS Naturals, Sequences

CONSTANTS
  MaxAsks, MaxRestarts,                          \* of HumanHandoff
  MaxJobs, MaxChanges                            \* of DispatcherChat

VARIABLES
  ask, card, waiter, noted, shown, pressed, restarts,
  main, chat, job, changes

Handoff == INSTANCE HumanHandoff
Chat == INSTANCE DispatcherChat

handoffVars == <<ask, card, waiter, noted, shown, pressed, restarts>>
chatVars == <<main, chat, job, changes>>

HumansInit == Handoff!Init /\ Chat!Init

(* They share no state: a step is one of either. *)
HumansNext ==
  \/ Handoff!Next /\ UNCHANGED chatVars
  \/ Chat!Next /\ UNCHANGED handoffVars

HumansSpec == HumansInit /\ [][HumansNext]_<<handoffVars, chatVars>>

(* HumanHandoff: the card shows the request somebody waits for, and "done" *)
(* and "not answered" are said only when they are so.  DispatcherChat: the *)
(* queue holds one conversation, results are told in it, and an error      *)
(* means that the prompt was not taken.                                    *)
HumansAreTold ==
  /\ Handoff!TypeOK /\ Handoff!CardIsWaitedFor /\ Handoff!AnswersAreTrue
  /\ Chat!TypeOK /\ Chat!OneChat /\ Chat!OutcomesAreTold
=============================================================================
