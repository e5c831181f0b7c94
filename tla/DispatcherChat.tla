--------------------------- MODULE DispatcherChat ---------------------------
(***************************************************************************)
(* The queue's one chat (src/web/queueHost.ts): the human's prompts and    *)
(* the results of settled tasks go to it one at a time, while it may be    *)
(* replaced by a new chat, deleted from the history, or lose its agent at  *)
(* any moment.  Chats are numbered in the order they are created.  What a  *)
(* message says is left out, and so are the restarts of the server.        *)
(***************************************************************************)
EXTENDS Naturals, Sequences

CONSTANTS
  MaxJobs,   \* bound: prompts and results in all
  MaxChanges \* bound: new chats, deletions and agents that stop

VARIABLES
  main,      \* the id of the chat the queue talks to, or 0
  chat,      \* every chat created: held, its row exists, it has messages, its agent runs
  job,       \* prompts and results, in the order of the chain
  changes

vars == <<main, chat, job, changes>>

Chats == 1..Len(chat)
Held(c) == c \in Chats /\ chat[c].held

Entry == [held : BOOLEAN, exists : BOOLEAN, full : BOOLEAN, agent : BOOLEAN]

(* at: where the chain is with it; id: the chat it looked up; into: the    *)
(* chat it ended up in; cut: that chat was lost while it was under way     *)
(* (history).                                                              *)
Job == [t : {"prompt", "result"}, id : 0..Len(chat), into : 0..Len(chat),
        at : {"waiting", "opened", "sending", "creating", "done"},
        answer : {"none", "ok", "error", "notice", "dropped"}, cut : BOOLEAN]

(* The job's own copy of the chat's id is read once, as the job begins. *)
NewJob(t) == [t |-> t, at |-> "waiting", id |-> 0, into |-> 0, answer |-> "none", cut |-> FALSE]

Init == main = 0 /\ chat = <<>> /\ job = <<>> /\ changes = 0

----------------------------------------------------------------------------
(* Requests and events *)

Arrives(t) ==
  /\ Len(job) < MaxJobs
  /\ job' = Append(job, NewJob(t))
  /\ UNCHANGED <<main, chat, changes>>

Change == changes < MaxChanges /\ changes' = changes + 1

Closed(c) == [chat EXCEPT ![c] = [@ EXCEPT !.held = FALSE, !.agent = FALSE]]

(* History: the job under way may lose the chat it looked up. *)
Cut == job' = [k \in DOMAIN job |->
                 IF job[k].at \in {"waiting", "done"} THEN job[k] ELSE [job[k] EXCEPT !.cut = TRUE]]

NewChat ==
  /\ main # 0 /\ Change
  /\ chat' = IF Held(main) THEN Closed(main) ELSE chat
  /\ main' = 0 /\ Cut

DeleteChat ==
  /\ main # 0 /\ chat[main].exists /\ Change
  /\ chat' = [Closed(main) EXCEPT ![main].exists = FALSE]
  /\ Cut
  /\ UNCHANGED main

(* The chat is closed in another view; its row stays. *)
CloseChat ==
  /\ Held(main) /\ Change
  /\ chat' = Closed(main) /\ Cut
  /\ UNCHANGED main

AgentStops ==
  /\ main # 0 /\ chat[main].agent /\ Change
  /\ chat' = [chat EXCEPT ![main].agent = FALSE]
  /\ UNCHANGED <<main, job>>

AgentSaves ==
  /\ main # 0 /\ chat[main].agent /\ ~chat[main].full
  /\ chat' = [chat EXCEPT ![main].full = TRUE]
  /\ UNCHANGED <<main, job, changes>>

----------------------------------------------------------------------------
(* The chain *)

Turn(k) == \A j \in 1..(k - 1) : job[j].at = "done"

Finish(k, into, answer) ==
  job' = [job EXCEPT ![k] = [@ EXCEPT !.at = "done", !.into = into, !.answer = answer]]

Pass(k, at, id) == job' = [job EXCEPT ![k] = [@ EXCEPT !.at = at, !.id = id]]

(* Faulty variant: a result nobody can take as a message is dropped. *)
NoticeDropped(k) == Finish(k, 0, "dropped")

Notice(k) ==
  IF Held(main) THEN Finish(k, main, "notice") ELSE Finish(k, 0, "dropped")

(* The chat takes a message if it has anything to go on from. *)
Alive(c) == chat[c].full \/ chat[c].agent

(* Whether another process drives the chat's conversation takes a while to *)
(* find out: `send` holds on to the entry it looked up before.             *)
GoOn(k, c) ==
  \/ /\ job[k].t = "prompt" /\ Held(c) /\ Alive(c)
     /\ Pass(k, "sending", c) /\ UNCHANGED chat
  \/ /\ job[k].t = "prompt" /\ ~(Held(c) /\ Alive(c))
     /\ chat' = IF Held(c) THEN Closed(c) ELSE chat
     /\ Pass(k, "creating", c)
  \/ /\ job[k].t = "result" /\ Held(c)
     /\ Pass(k, "sending", c) /\ UNCHANGED chat
  \/ /\ job[k].t = "result" /\ ~Held(c)
     /\ Notice(k) /\ UNCHANGED chat

Gone == main # 0 /\ ~Held(main)

(* A chat nobody holds is read back from the history, if it is there. *)
Begin(k) ==
  /\ job[k].at = "waiting" /\ Turn(k)
  /\ \/ /\ Gone /\ chat[main].exists
        /\ chat' = [chat EXCEPT ![main].held = TRUE]
        /\ Pass(k, "opened", main)
     \/ Gone /\ ~chat[main].exists /\ GoOn(k, 0)
     \/ ~Gone /\ GoOn(k, main)
  /\ UNCHANGED <<main, changes>>

Opened(k) ==
  /\ job[k].at = "opened" /\ GoOn(k, job[k].id)
  /\ UNCHANGED <<main, changes>>

Sent(k) ==
  /\ job[k].at = "sending"
  /\ LET c == job[k].id IN
     \/ /\ Alive(c) /\ job[k].t = "prompt"
        /\ chat' = [chat EXCEPT ![c].agent = TRUE]
        /\ Finish(k, c, IF Held(c) THEN "ok" ELSE "error")
     \/ /\ Alive(c) /\ job[k].t = "result"
        /\ chat' = [chat EXCEPT ![c].agent = TRUE]
        /\ Finish(k, c, "ok")
     \/ /\ ~Alive(c) /\ job[k].t = "prompt"
        /\ Finish(k, 0, "error") /\ UNCHANGED chat
     \/ /\ ~Alive(c) /\ job[k].t = "result"
        /\ Notice(k) /\ UNCHANGED chat
  /\ UNCHANGED <<main, changes>>

Created(k) ==
  /\ job[k].at = "creating"
  /\ chat' = Append(chat, [held |-> TRUE, exists |-> TRUE, full |-> FALSE, agent |-> TRUE])
  /\ main' = Len(chat) + 1
  /\ Finish(k, Len(chat) + 1, "ok")
  /\ UNCHANGED changes

CreateFails(k) ==
  /\ job[k].at = "creating" /\ Change
  /\ Finish(k, 0, "error")
  /\ UNCHANGED <<main, chat>>

----------------------------------------------------------------------------
Next ==
  \/ (\E t \in {"prompt", "result"} : Arrives(t))
  \/ NewChat \/ DeleteChat \/ CloseChat \/ AgentStops \/ AgentSaves
  \/ \E k \in DOMAIN job : Begin(k) \/ Opened(k) \/ Sent(k) \/ Created(k) \/ CreateFails(k)

Spec == Init /\ [][Next]_vars

(* A job whose turn has come goes on: its awaits all come back. *)
Goes(k) == k \in DOMAIN job /\ (Begin(k) \/ Opened(k) \/ Sent(k) \/ Created(k))

Fairness == \A k \in 1..MaxJobs : WF_vars(Goes(k))

----------------------------------------------------------------------------
TypeOK ==
  /\ main \in 0..Len(chat) /\ changes \in 0..MaxChanges
  /\ chat \in Seq(Entry) /\ job \in Seq(Job)

(* There is one chat: however prompts and results arrive together, the     *)
(* only conversation held for the queue is the one it talks to.            *)
OneChat == \A c \in Chats : chat[c].held => c = main

(* An outcome reaches the chat there is.  A result that found a chat is    *)
(* told as a message or as a notice, and a prompt answered with an error   *)
(* was not taken - unless that chat was closed, deleted or replaced while  *)
(* the job was under way.                                                  *)
OutcomesAreTold ==
  \A k \in DOMAIN job :
    /\ job[k].answer = "dropped" => job[k].cut \/ job[k].id = 0
    /\ job[k].answer = "error" => job[k].cut \/ job[k].into = 0

AllDone == \A k \in DOMAIN job : job[k].at = "done"

(* No prompt and no result holds up the ones behind it. *)
EveryJobEnds == []<>AllDone
=============================================================================
