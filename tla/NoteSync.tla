------------------------------ MODULE NoteSync ------------------------------
(***************************************************************************)
(* One note, edited in one tab and written by others: the editor's save    *)
(* machine (web/src/lib/noteEditor.ts), the client that carries its saves  *)
(* (notesClient.ts), the tab's hub connection (hub.ts), the server's hub   *)
(* (src/web/hub.ts) and the versioned store (src/sessions.ts).             *)
(*                                                                         *)
(* Texts are numbers: 0 is the empty note, 1..MaxTyped are what the user   *)
(* types in turn, and the larger ones are what others write.  A pane that  *)
(* changes notes, and a note deleted with its session, are left out.       *)
(***************************************************************************)
EXTENDS Naturals, Sequences, FiniteSets, SequencesExt

CONSTANTS
  MaxTyped,     \* bound: texts the user types
  MaxOthers,    \* bound: writes of other devices
  MaxNudges,    \* bound: saves asked for by blur, Ctrl+S, Retry or hiding the page
  MaxMishaps    \* bound: broken connections, deadlines and failed saves

VARIABLES
  store, clock, \* the stored note, and the time of its last write
  watched,      \* the server has this connection down as a watcher
  up,           \* the tab's connection
  toServer, toTab,
  stray,        \* what a broken connection still brings the server
  queue,        \* saves the tab wrote while it was offline
  ed,           \* the editor: text, what is stored, versions, verdict
  timer,        \* a flush is armed
  pending,      \* the saves nobody has answered or given up on
  inflight,     \* the save a new flush waits for, or 0
  waiting,      \* the flushes that wait for it, by the text each was called with
  req,          \* request numbers given out
  typed, others, nudges, mishaps,
  past,         \* every note the store has held (history)
  seen,         \* every text the user has been shown (history)
  misled        \* the verdict was replaced by an outdated one (history)

vars == <<store, clock, watched, up, toServer, toTab, stray, queue, ed, timer, pending,
          inflight, waiting, req, typed, others, nudges, mishaps, past, seen, misled>>
net == <<watched, up, toServer, toTab, stray, queue>>
book == <<pending, inflight, waiting, req>>
bounds == <<typed, others, nudges, mishaps>>

Note(b, v) == [body |-> b, ver |-> v]
Empty == Note(0, 0)
Mishap == mishaps < MaxMishaps /\ mishaps' = mishaps + 1

Init ==
  /\ store = Empty /\ clock = 0
  /\ watched = FALSE /\ up = FALSE /\ toServer = <<>> /\ toTab = <<>>
  /\ stray = <<>> /\ queue = <<>>
  /\ ed = [body |-> 0, saved |-> 0, base |-> 0, landed |-> 0, kind |-> "loading", theirs |-> Empty]
  /\ timer = FALSE /\ pending = {} /\ inflight = 0 /\ waiting = <<>> /\ req = 0
  /\ typed = 0 /\ others = 0 /\ nudges = 0 /\ mishaps = 0
  /\ past = {Empty} /\ seen = {0} /\ misled = FALSE

----------------------------------------------------------------------------
(* The editor's decisions *)

Absorb(e, n) ==
  [e EXCEPT !.body = n.body, !.saved = n.body, !.base = n.ver, !.landed = n.ver, !.kind = "saved"]

InConflict(e, n) == [e EXCEPT !.kind = "conflict", !.theirs = n]

NothingTyped(e) == e.body = e.saved /\ e.kind # "saving"

ApplyRemote(e, n) ==
  CASE e.kind = "loading" -> Absorb(e, n)
    [] e.kind # "loading" /\ n.ver = e.base -> e
    [] e.kind # "loading" /\ n.ver # e.base ->
         IF n.body = e.body \/ NothingTyped(e) THEN Absorb(e, n) ELSE InConflict(e, n)

(* The answer to a save the tab had given up on. *)
ApplyLate(e, n, ok) ==
  LET told == [e EXCEPT !.landed = n.ver] IN
  CASE e.kind \in {"conflict", "saving"} -> told
    [] e.kind \notin {"conflict", "saving"} /\ n.body = e.body -> Absorb(e, n)
    [] e.kind \notin {"conflict", "saving"} /\ n.body # e.body ->
         IF ok THEN [told EXCEPT !.saved = n.body, !.base = n.ver, !.kind = "dirty"]
         ELSE InConflict(told, n)

(* Faulty variant: what is typed by now is taken for what was stored. *)
LandedAsTyped(e, text, ver) ==
  [e EXCEPT !.landed = ver, !.base = ver, !.saved = e.body, !.kind = "saved"]

Landed(e, text, ver) ==
  [e EXCEPT !.landed = ver, !.base = ver, !.saved = text,
            !.kind = IF e.body = text THEN "saved" ELSE "dirty"]

Refused(e, text, n) == IF n.body = text THEN Absorb(e, n) ELSE InConflict(e, n)

Failed(e, text) ==
  [e EXCEPT !.kind = CASE text = e.saved -> "saved"
                       [] text # e.saved /\ text # e.body -> "dirty"
                       [] text # e.saved /\ text = e.body -> "error"]

Sendable(e) == e.body # e.saved /\ e.kind \notin {"conflict", "loading"}

Show(e) == ed' = e /\ seen' = seen \union {e.body} \union
                              (IF e.kind = "conflict" THEN {e.theirs.body} ELSE {})

----------------------------------------------------------------------------
(* Saves going out *)

Save(i, e, wanted) ==
  [t |-> "save", req |-> i, text |-> e.body, from |-> e.landed, wanted |-> wanted]

Watch == [t |-> "watch"]

(* A save that never went out leaves the queue when it is over. *)
Withdrawn(s) ==
  IF \E i \in 1..Len(queue) : queue[i] = s
  THEN RemoveAt(queue, CHOOSE i \in 1..Len(queue) : queue[i] = s)
  ELSE queue

(* Every flush of `wanteds` sends the editor's text from the version the   *)
(* last answer established: all of them the same one.  open, rest and      *)
(* running: the book, the queue and the save in flight before that.        *)
Send(e, wanteds, open, rest, running) ==
  LET n == Len(wanteds)
      saves == [k \in 1..n |-> Save(req + k, e, wanteds[k])]
  IN /\ req' = req + n
     /\ pending' = open \union {saves[k] : k \in 1..n}
     /\ inflight' = IF n > 0 THEN req + n ELSE running
     /\ toServer' = IF up THEN toServer \o saves ELSE toServer
     /\ queue' = IF up THEN rest ELSE rest \o saves
     /\ Show(IF n > 0 THEN [e EXCEPT !.kind = "saving"] ELSE e)

Flush(e) ==
  /\ timer' = FALSE
  /\ waiting' = IF inflight # 0 THEN Append(waiting, e.body) ELSE waiting
  /\ Send(e, IF inflight = 0 /\ Sendable(e) THEN <<e.body>> ELSE <<>>, pending, queue, inflight)

(* A save is over: the flush that made it looks whether the text moved on, *)
(* then the flushes that waited for it go, one after the other.            *)
Settle(s, e, armed) ==
  LET last == s.req = inflight IN
  /\ timer' = (armed \/ (e.body # s.wanted /\ e.body # e.saved))
  /\ waiting' = IF last THEN <<>> ELSE waiting
  /\ Send(e, IF last /\ Sendable(e) THEN waiting ELSE <<>>,
          pending \ {s}, Withdrawn(s), IF last THEN 0 ELSE inflight)

----------------------------------------------------------------------------
(* The user *)

Type ==
  /\ typed < MaxTyped /\ ed.kind # "loading"
  /\ typed' = typed + 1
  /\ \E text \in {0, typed + 1} :
       /\ text # ed.body
       /\ \/ ed.kind = "conflict" /\ Show([ed EXCEPT !.body = text]) /\ UNCHANGED timer
          \/ /\ ed.kind # "conflict"
             /\ Show([ed EXCEPT !.body = text, !.kind = IF text = ed.saved THEN "saved" ELSE "dirty"])
             /\ timer' = TRUE
  /\ UNCHANGED <<store, clock, net, book, others, nudges, mishaps, past, misled>>

TimerFires ==
  /\ timer /\ Flush(ed)
  /\ UNCHANGED <<store, clock, watched, up, toTab, stray, bounds, past, misled>>

Nudge ==
  /\ nudges < MaxNudges /\ nudges' = nudges + 1
  /\ Flush(ed)
  /\ UNCHANGED <<store, clock, watched, up, toTab, stray, typed, others, mishaps, past, misled>>

KeepMine ==
  /\ ed.kind = "conflict"
  /\ Flush([ed EXCEPT !.base = ed.theirs.ver, !.landed = ed.theirs.ver,
                      !.saved = ed.theirs.body, !.kind = "dirty"])
  /\ UNCHANGED <<store, clock, watched, up, toTab, stray, bounds, past, misled>>

TakeTheirs ==
  /\ ed.kind = "conflict"
  /\ Show(Absorb(ed, ed.theirs))
  /\ misled' = (misled \/ ed.theirs # store)
  /\ UNCHANGED <<store, clock, net, timer, book, bounds, past>>

----------------------------------------------------------------------------
(* The server *)

Push(n) == IF watched THEN <<[t |-> "note", note |-> n]>> ELSE <<>>

(* Faulty variant: the version a save is based on is not looked at. *)
AcceptsAny(from) == TRUE

Accepts(from) == store.ver = from

Written(text) == IF text = 0 THEN Empty ELSE Note(text, clock + 1)

Write(text) ==
  /\ store' = Written(text) /\ clock' = clock + 1
  /\ past' = past \union {Written(text)}

Answer(s, ok, n) == [t |-> "answer", save |-> s, ok |-> ok, note |-> n]

Handle ==
  /\ toServer # <<>> /\ toServer' = Tail(toServer)
  /\ LET m == Head(toServer) IN
     \/ /\ m.t = "watch"
        /\ watched' = TRUE
        /\ toTab' = Append(toTab, [t |-> "note", note |-> store])
        /\ UNCHANGED <<store, clock, past>>
     \/ /\ m.t = "save" /\ Accepts(m.from)
        /\ Write(m.text)
        /\ toTab' = Append(toTab, Answer(m, TRUE, Written(m.text)))
        /\ UNCHANGED watched
     \/ /\ m.t = "save" /\ ~Accepts(m.from)
        /\ toTab' = Append(toTab, Answer(m, FALSE, store))
        /\ UNCHANGED <<store, clock, past, watched>>
  /\ UNCHANGED <<up, stray, queue, ed, timer, book, bounds, seen, misled>>

(* What reached the server on a connection that is gone: nobody hears the  *)
(* answer, and the tab's new connection is a watcher like any.             *)
HandleStray ==
  /\ stray # <<>> /\ stray' = Tail(stray)
  /\ LET m == Head(stray) IN
     \/ /\ m.t = "save" /\ Accepts(m.from)
        /\ Write(m.text)
        /\ toTab' = toTab \o Push(Written(m.text))
     \/ /\ m.t = "save" => ~Accepts(m.from)
        /\ UNCHANGED <<store, clock, past, toTab>>
  /\ UNCHANGED <<watched, up, toServer, queue, ed, timer, book, bounds, seen, misled>>

OtherWrites ==
  /\ others < MaxOthers /\ others' = others + 1
  /\ \E text \in {0, MaxTyped + others + 1} :
       Write(text) /\ toTab' = toTab \o Push(Written(text))
  /\ UNCHANGED <<watched, up, toServer, stray, queue, ed, timer, book, typed, nudges, mishaps, seen, misled>>

----------------------------------------------------------------------------
(* The connection: what was on its way to the tab is lost, and what was on *)
(* its way to the server may arrive up to some message.                    *)

Breaks ==
  /\ up /\ Mishap
  /\ up' = FALSE /\ watched' = FALSE /\ toTab' = <<>> /\ toServer' = <<>>
  /\ \E k \in 0..Len(toServer) : stray' = stray \o SubSeq(toServer, 1, k)
  /\ UNCHANGED <<store, clock, queue, ed, timer, book, typed, others, nudges, past, seen, misled>>

(* Subscriptions first, then what queued. *)
Connect ==
  /\ ~up /\ up' = TRUE
  /\ toServer' = <<Watch>> \o queue /\ queue' = <<>>
  /\ UNCHANGED <<store, clock, watched, toTab, stray, ed, timer, book, bounds, past, seen, misled>>

----------------------------------------------------------------------------
(* Messages and deadlines in the tab *)

OnNote ==
  /\ toTab # <<>> /\ Head(toTab).t = "note"
  /\ toTab' = Tail(toTab)
  /\ Show(ApplyRemote(ed, Head(toTab).note))
  /\ UNCHANGED <<store, clock, watched, up, toServer, stray, queue, timer, book, bounds, past, misled>>

OnAnswer ==
  /\ toTab # <<>> /\ Head(toTab).t = "answer" /\ toTab' = Tail(toTab)
  /\ LET a == Head(toTab)
         s == a.save
         e == IF a.ok THEN Landed(ed, s.text, a.note.ver) ELSE Refused(ed, s.text, a.note)
     IN \/ s \in pending /\ Settle(s, e, timer \/ e.kind = "dirty")
        \/ /\ s \notin pending
           /\ LET late == ApplyLate(ed, a.note, a.ok) IN
              /\ Show(late)
              /\ timer' = (timer \/ late.kind = "dirty")
           /\ UNCHANGED <<book, toServer, queue>>
  /\ UNCHANGED <<store, clock, watched, up, stray, bounds, past, misled>>

(* The deadline of a save: it is withdrawn if it never went out, and given *)
(* up on if it did.  It may pass while the answer is still on its way.     *)
GiveUp(s) ==
  LET e == Failed(ed, s.text) IN
  /\ Settle(s, e, timer \/ e.kind = "dirty")
  /\ misled' = (misled \/ ed.kind = "conflict")
  /\ UNCHANGED <<store, clock, watched, up, toTab, stray, typed, others, nudges, past>>

OnItsWay(s) ==
  \/ \E i \in 1..Len(toServer) : toServer[i] = s
  \/ \E i \in 1..Len(queue) : queue[i] = s
  \/ \E i \in 1..Len(toTab) : toTab[i].t = "answer" /\ toTab[i].save = s

(* The saves that are pending together carry one text, so they have the    *)
(* same time and their timers fire in the order they were set.             *)
Due == {s \in pending : \A other \in pending : s.req <= other.req}

Deadline == \E s \in Due : OnItsWay(s) /\ Mishap /\ GiveUp(s)

Expire == \E s \in Due : ~OnItsWay(s) /\ UNCHANGED mishaps /\ GiveUp(s)

----------------------------------------------------------------------------
Next ==
  \/ Type \/ TimerFires \/ Nudge \/ KeepMine \/ TakeTheirs
  \/ Handle \/ HandleStray \/ OtherWrites \/ Breaks \/ Connect
  \/ OnNote \/ OnAnswer \/ Deadline \/ Expire

Spec == Init /\ [][Next]_vars

(* The browser's timers and the server's loop run; the connection comes    *)
(* back; a save whose answer was lost with it runs into its deadline.      *)
Fairness ==
  /\ WF_vars(TimerFires) /\ WF_vars(Handle) /\ WF_vars(HandleStray) /\ WF_vars(Connect)
  /\ WF_vars(OnNote) /\ WF_vars(OnAnswer) /\ WF_vars(Expire)

----------------------------------------------------------------------------
Texts == 0..(MaxTyped + MaxOthers)
Notes == [body : Texts, ver : Nat]
Kinds == {"loading", "saved", "dirty", "saving", "error", "conflict"}

Editor == [body : Texts, saved : Texts, base : Nat, landed : Nat, kind : Kinds, theirs : Notes]

Saves == [t : {"save"}, req : Nat, text : Texts, from : Nat, wanted : Texts]

TypeOK ==
  /\ store \in Notes /\ clock \in Nat
  /\ {watched, up, timer} \subseteq BOOLEAN
  /\ ed \in Editor /\ pending \subseteq Saves
  /\ inflight \in 0..req /\ \A s \in pending : s.req \in 1..req

(* What the editor takes for the stored text was stored, at that version.  *)
BookIsTrue ==
  ed.kind # "loading" => Note(ed.saved, ed.base) \in past

(* Unsaved text is never forgotten: a save is armed, on its way or waiting *)
(* its turn, or the panel says that the text is not saved.  (A save that   *)
(* fails while a conflict is shown replaces it with its own verdict.)      *)
UnsavedIsPursued ==
  misled \/ ed.body = ed.saved \/ ed.kind \in {"conflict", "error"} \/ timer \/ inflight # 0

(* What another device wrote is only overwritten from here after the user  *)
(* has been shown it.                                                      *)
OthersAreSeen ==
  [][store' # store /\ others' = others => store.body \in seen]_vars

(* When everything has calmed down no save hangs, and what the panel calls *)
(* saved is what the server has - unless a save that failed took the place *)
(* of the conflict the panel was showing, or the user took a version that  *)
(* the server had already replaced.                                        *)
SavedInTheEnd ==
  <>[](/\ ed.kind \notin {"loading", "saving"}
       /\ (ed.kind = "saved" /\ ~misled) => ed.body = store.body)

(* Typed text leaves the editor by the user's hand, or when it is stored   *)
(* already: "you are typing: never overwrite what you wrote"               *)
(* (noteEditor.ts:166), never "throwing either side's text away"           *)
(* (notes.ts:8).                                                           *)
TypedIsKept ==
  [][ed'.body # ed.body => \/ typed' # typed
                          \/ ed.body = ed.saved
                          \/ ed.kind = "conflict"]_vars
=============================================================================
