---------------------------- MODULE SessionFeed ----------------------------
(***************************************************************************)
(* One browser tab following one session's transcript: the server's feed   *)
(* (src/web/feed.ts), the tab's socket (web/src/lib/session-socket.ts) and *)
(* the store that applies the frames (stores/sessions.svelte.ts).          *)
(*                                                                         *)
(* A transcript is a sequence of events.  All events of one events array   *)
(* are alike here, so an event is the number of the array it was written   *)
(* into: a view that mixes two numbers is a transcript nobody ever wrote.  *)
(* Meta data, the message in flight and frames that carry only them are    *)
(* left out, and so are the delays between retries.                        *)
(***************************************************************************)
EXTENDS Naturals, Sequences

CONSTANTS
  MaxLen,       \* bound: events of one array
  MaxRewrites,  \* bound: how often the whole array is replaced
  MaxTrouble    \* bound: dropped frames, dead connections, failed answers

VARIABLES
  gen, len,     \* the server's events: which array, and how many are in it
  held,         \* the session still exists
  sub,          \* the feed's subscriber of the tab's connection
  conn,         \* the connection, as the network has it
  pipe,         \* frames on their way to the tab
  asked,          \* a resync request on its way to the server
  link,         \* the tab's socket: "up", "down" or stopped for good, "gone"
  got,          \* this connection has delivered a snapshot
  retry, probe, \* a reconnect timer is armed; an exists() question is open
  view,         \* the transcript the tab shows
  copy,         \* a transcript fetched over HTTP, to be adopted
  adopted,      \* how the copy adopted last fits what the feed has sent
  trouble

vars == <<gen, len, held, sub, conn, pipe, asked, link, got, retry, probe,
          view, copy, adopted, trouble>>
server == <<gen, len, held>>
tab == <<link, got, retry, probe>>

Whole(g, n) == [i \in 1..n |-> g]

Subscriber == [on : BOOLEAN, sent : 0..MaxLen, ref : 0..MaxRewrites, resync : BOOLEAN,
               timer : BOOLEAN]
Frame == [t : {"snapshot", "delta", "gone"}, gen : 0..MaxRewrites, from : 0..MaxLen,
          upto : 0..MaxLen]
Copy == [t : {"none", "fetched", "adopted"}, gen : 0..MaxRewrites, upto : 0..MaxLen]

NoSub == [on |-> FALSE, sent |-> 0, ref |-> 0, resync |-> FALSE, timer |-> FALSE]

NoCopy == [t |-> "none", gen |-> 0, upto |-> 0]

(* What the code counts as a failure of somebody else costs one trouble. *)
Trouble == trouble < MaxTrouble /\ trouble' = trouble + 1

Init ==
  /\ gen = 0 /\ len = 1 /\ held = TRUE
  /\ sub = NoSub /\ conn = "none" /\ pipe = <<>> /\ asked = FALSE
  /\ link = "down" /\ got = FALSE /\ retry = TRUE /\ probe = FALSE
  /\ view = <<>> /\ copy = NoCopy /\ adopted = "fits" /\ trouble = 0

----------------------------------------------------------------------------
(* The server's side: the session's events, and the feed *)

(* Faulty variant: a new array is not noticed. *)
FrameOfAnyArray(s) ==
  IF s.resync \/ len < s.sent
  THEN [t |-> "snapshot", gen |-> gen, from |-> 0, upto |-> len]
  ELSE [t |-> "delta", gen |-> gen, from |-> s.sent, upto |-> len]

FrameOf(s) ==
  IF s.resync \/ s.ref # gen \/ len < s.sent
  THEN [t |-> "snapshot", gen |-> gen, from |-> 0, upto |-> len]
  ELSE [t |-> "delta", gen |-> gen, from |-> s.sent, upto |-> len]

Sent(s) == [s EXCEPT !.resync = FALSE, !.ref = gen, !.sent = len, !.timer = FALSE]

(* Faulty variant: a frame that was dropped arms no timer. *)
NotSentUnarmed(s) == [s EXCEPT !.resync = TRUE]

NotSent(s) == [s EXCEPT !.resync = TRUE, !.timer = TRUE]

(* On a connection that died half-open the socket still takes the frame. *)
Flush(s) ==
  \/ /\ sub' = Sent(s)
     /\ pipe' = IF conn = "dead" THEN pipe ELSE Append(pipe, FrameOf(s))
     /\ UNCHANGED trouble
  \/ /\ Trouble
     /\ sub' = NotSent(s)
     /\ UNCHANGED pipe

Publish == sub' = IF sub.on THEN [sub EXCEPT !.timer = TRUE] ELSE sub

Grow ==
  /\ held /\ len < MaxLen
  /\ len' = len + 1
  /\ Publish
  /\ UNCHANGED <<gen, held, conn, pipe, asked, tab, view, copy, adopted, trouble>>

(* The journal was rewritten, or the session attached to another agent's:  *)
(* a new array takes the place of the old one.                             *)
Rewrite ==
  /\ held /\ gen < MaxRewrites
  /\ gen' = gen + 1
  /\ len' \in 0..MaxLen
  /\ Publish
  /\ UNCHANGED <<held, conn, pipe, asked, tab, view, copy, adopted, trouble>>

(* A subscriber that was forgotten while a retry was pending still retries. *)
TimerFires ==
  /\ sub.timer
  /\ Flush(sub)
  /\ UNCHANGED <<server, conn, asked, tab, view, copy, adopted>>

(* The socket's open handler looks the session up, which takes a while. *)
Subscribe ==
  /\ conn = "opening"
  /\ \/ /\ held
        /\ conn' = "open"
        /\ Flush([NoSub EXCEPT !.on = TRUE, !.ref = gen, !.resync = TRUE])
     \/ /\ ~held
        /\ conn' = "unknown"
        /\ UNCHANGED <<sub, pipe, trouble>>
     \/ /\ Trouble
        /\ conn' = "closed"
        /\ UNCHANGED <<sub, pipe>>
  /\ UNCHANGED <<server, asked, tab, view, copy, adopted>>

ServeResync ==
  /\ asked /\ conn = "open"
  /\ asked' = FALSE
  /\ Flush([sub EXCEPT !.resync = TRUE])
  /\ UNCHANGED <<server, conn, tab, view, copy, adopted>>

(* The session is deleted: its subscriber is told, if the frame gets out,  *)
(* and forgotten either way.                                               *)
Delete ==
  /\ held
  /\ held' = FALSE
  /\ sub' = NoSub
  /\ \/ /\ pipe' = IF sub.on /\ conn = "open"
                   THEN Append(pipe, [t |-> "gone", gen |-> gen, from |-> 0, upto |-> 0])
                   ELSE pipe
        /\ UNCHANGED trouble
     \/ sub.on /\ Trouble /\ UNCHANGED pipe
  /\ UNCHANGED <<gen, len, conn, asked, tab, view, copy, adopted>>

----------------------------------------------------------------------------
(* The network *)

(* A connection goes: the server's close handler unsubscribes. *)
Breaks ==
  /\ conn \in {"opening", "open"} /\ Trouble
  /\ conn' = "closed" /\ sub' = NoSub /\ pipe' = <<>> /\ asked' = FALSE
  /\ UNCHANGED <<server, tab, view, copy, adopted>>

(* A phone falls asleep: neither end is told, and nothing arrives. *)
Freezes ==
  /\ conn = "open" /\ Trouble
  /\ conn' = "dead" /\ pipe' = <<>> /\ asked' = FALSE
  /\ UNCHANGED <<server, sub, tab, view, copy, adopted>>

----------------------------------------------------------------------------
(* The tab's socket *)

Connect ==
  /\ conn' = "opening" /\ sub' = NoSub /\ pipe' = <<>> /\ asked' = FALSE
  /\ link' = "up" /\ got' = FALSE /\ retry' = FALSE
  /\ UNCHANGED <<server, probe, view, copy, adopted, trouble>>

RetryFires == retry /\ link # "gone" /\ Connect

(* The tab became visible, or the network came back. *)
Poke == link = "down" /\ Connect

(* Nothing arrived for too long: the heartbeat recycles the socket. *)
Recycle ==
  /\ conn = "dead" /\ link = "up"
  /\ conn' = "none" /\ link' = "down" /\ retry' = TRUE
  /\ sub' = NoSub
  /\ UNCHANGED <<server, pipe, asked, got, probe, view, copy, adopted, trouble>>

OnClose ==
  /\ conn \in {"closed", "unknown"} /\ link = "up"
  /\ conn' = "none"
  /\ link' = IF conn = "unknown" THEN "gone" ELSE "down"
  /\ retry' = (retry \/ (conn = "closed" /\ got))
  /\ probe' = (probe \/ (conn = "closed" /\ ~got))
  /\ UNCHANGED <<server, sub, pipe, asked, got, view, copy, adopted, trouble>>

(* Only a plain "no" stops the socket: no answer is not an answer. *)
Verdict(answer) == IF answer = "no" THEN "gone" ELSE "retry"

Probed ==
  /\ probe /\ probe' = FALSE
  /\ \E answer \in {"yes", "no", "unknown"} :
       /\ CASE answer = "unknown" -> Trouble
            [] answer = "yes" -> held /\ UNCHANGED trouble
            [] answer = "no" -> ~held /\ UNCHANGED trouble
       /\ \/ /\ link = "gone"
             /\ UNCHANGED <<link, retry, conn, sub, pipe>>
          \/ /\ link # "gone" /\ Verdict(answer) = "gone"
             /\ link' = "gone" /\ retry' = FALSE
             /\ conn' = "none" /\ sub' = NoSub /\ pipe' = <<>>
          \/ /\ link # "gone" /\ Verdict(answer) = "retry"
             /\ retry' = TRUE
             /\ UNCHANGED <<link, conn, sub, pipe>>
  /\ UNCHANGED <<server, asked, got, view, copy, adopted>>

----------------------------------------------------------------------------
(* The tab's store *)

Placeable(f) == f.from = Len(view)

OnFrame ==
  /\ pipe # <<>> /\ link = "up" /\ conn = "open"
  /\ LET f == Head(pipe) IN
     \/ /\ f.t = "snapshot"
        /\ view' = Whole(f.gen, f.upto) /\ adopted' = "fits"
        /\ got' = TRUE /\ pipe' = Tail(pipe)
        /\ UNCHANGED <<link, asked, conn, sub>>
     \/ /\ f.t = "delta" /\ Placeable(f)
        /\ view' = view \o Whole(f.gen, f.upto - f.from)
        /\ pipe' = Tail(pipe)
        /\ UNCHANGED <<link, got, asked, conn, sub, adopted>>
     \/ /\ f.t = "delta" /\ ~Placeable(f)
        /\ asked' = TRUE /\ pipe' = Tail(pipe)
        /\ adopted' = IF adopted = "crossed" THEN "crossed" ELSE "fits"
        /\ UNCHANGED <<view, link, got, conn, sub>>
     \/ /\ f.t = "gone"
        /\ link' = "gone" /\ view' = <<>> /\ pipe' = <<>>
        /\ conn' = "none" /\ sub' = NoSub
        /\ UNCHANGED <<got, asked, adopted>>
  /\ UNCHANGED <<server, retry, probe, copy, trouble>>

(* The store reopens a session over HTTP: the answer holds the transcript  *)
(* as it was when the server wrote it, and takes the place of whatever the *)
(* socket has delivered by then.                                           *)
FetchCopy ==
  /\ copy.t = "none" /\ held
  /\ copy' = [t |-> "fetched", gen |-> gen, upto |-> len]
  /\ UNCHANGED <<server, sub, conn, pipe, asked, tab, view, adopted, trouble>>

(* The arrays the frames not yet seen are of, and the length the next of   *)
(* them starts from.                                                       *)
Feeds == {pipe[i].gen : i \in 1..Len(pipe)} \union (IF sub.on THEN {sub.ref} ELSE {})

Baseline == IF pipe = <<>> THEN sub.sent ELSE Head(pipe).from

Adopt ==
  /\ copy.t = "fetched" /\ link # "gone"
  /\ view' = Whole(copy.gen, copy.upto)
  /\ copy' = [copy EXCEPT !.t = "adopted"]
  /\ adopted' = CASE Feeds = {} -> "fits"
                  [] Feeds # {} /\ Feeds # {copy.gen} -> "crossed"
                  [] Feeds = {copy.gen} /\ copy.upto # Baseline -> "behind"
                  [] Feeds = {copy.gen} /\ copy.upto = Baseline -> "fits"
  /\ UNCHANGED <<server, sub, conn, pipe, asked, tab, trouble>>

----------------------------------------------------------------------------
Next ==
  \/ Grow \/ Rewrite \/ Delete \/ Breaks \/ Freezes \/ Poke
  \/ FetchCopy \/ Adopt
  \/ TimerFires \/ Subscribe \/ ServeResync
  \/ RetryFires \/ Recycle \/ OnClose \/ Probed \/ OnFrame

Spec == Init /\ [][Next]_vars

(* Timers fire, handlers run and a frame on a working connection arrives.  *)
Fairness ==
  /\ WF_vars(TimerFires) /\ WF_vars(Subscribe) /\ WF_vars(ServeResync)
  /\ WF_vars(RetryFires) /\ WF_vars(Recycle) /\ WF_vars(OnClose)
  /\ WF_vars(Probed) /\ WF_vars(OnFrame)

----------------------------------------------------------------------------
TypeOK ==
  /\ gen \in 0..MaxRewrites /\ len \in 0..MaxLen /\ held \in BOOLEAN
  /\ sub \in Subscriber
  /\ conn \in {"none", "opening", "open", "dead", "closed", "unknown"}
  /\ pipe \in Seq(Frame)
  /\ link \in {"up", "down", "gone"}
  /\ {asked, got, retry, probe} \subseteq BOOLEAN
  /\ adopted \in {"fits", "behind", "crossed"}
  /\ view \in Seq(0..MaxRewrites)
  /\ copy \in Copy
  /\ trouble \in 0..MaxTrouble

(* The tab never shows a transcript with a hole or one made of two arrays, *)
(* whatever frames were dropped and whenever the connection broke.  The    *)
(* one thing that can mix them is a copy adopted over HTTP that is of      *)
(* another array than the one the feed is sending.                         *)
WholeTranscript ==
  \/ adopted = "crossed"
  \/ /\ \A i, j \in 1..Len(view) : view[i] = view[j]
     /\ (view # <<>> /\ view[1] = gen) => Len(view) <= len

(* The tab stops following a session only when the session is gone: a      *)
(* server that is restarting or a question nobody answered is no reason.   *)
GoneIsGone == link = "gone" => ~held

(* Once changes and trouble stop, the tab ends up showing the transcript   *)
(* the server has.  An adopted copy the feed's frames do not continue may  *)
(* stand until the next frame, and no longer: that frame cannot be placed  *)
(* and the tab asks for the whole transcript.                              *)
CatchesUp == <>[](held => adopted # "fits" \/ view = Whole(gen, len))
=============================================================================
