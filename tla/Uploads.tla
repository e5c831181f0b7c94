------------------------------- MODULE Uploads -------------------------------
(***************************************************************************)
(* Files of the prompt bar, from the picker to the agent: the composer's   *)
(* upload loops (Composer.svelte), the rules that own them                 *)
(* (attachmentUpload.ts), the message they go with (App.svelte) and the    *)
(* server's store of them (attachments.ts) across restarts.  A file is     *)
(* named by its pick and its place in it, <<p, k>>, and so is its id; the *)
(* copies of an image the agent made are not told apart.  Bytes, types and *)
(* sizes are left out.                                                     *)
(***************************************************************************)
EXTENDS Naturals, Sequences, FiniteSets, FiniteSetsExt, SequencesExt

CONSTANTS
  MaxPicks,  \* bound: how often files are picked or dropped on the bar
  PerPick,   \* bound: files in one pick
  MaxFiles,  \* bound: files in all of them
  Limit,     \* files a message may have: 10 in the code
  MaxSends,  \* bound: messages
  MaxUpsets  \* bound: restarts, refusals, lost answers, new chats, visits
             \* elsewhere, files taken off the bar, images registered

VARIABLES
  loops,        \* addFiles, by pick, see Fresh
  picks,        \* how many picks there were
  draft,        \* UploadState.draft of the composer on screen
  mounted,      \* the chat's composer is on screen
  attachments,  \* the files of the message being written
  main,         \* queue.main in the tab: the chat, or 0 for a new one
  message,      \* the send that is under way: its step, its files, its chat
  sends,
  index,        \* index.jsonl, see Appended
  byId, indexLoaded,
  chat, chats,  \* the server's chat, or 0; the last chat made
  upsets,
  shadowed,     \* what the index names and this process will not read (history)
  owed          \* files that joined a message, were neither taken off it by the
                \* user nor passed to an agent, nor lost in a known way (history)

store == <<index, byId, indexLoaded, shadowed>>
tab == <<loops, picks, draft, mounted, attachments, main, message, sends>>
server == <<store, chat, chats, upsets>>
vars == <<tab, server, owed>>

Picks == 1..MaxPicks
Files == Picks \X (1..PerPick)
Image == <<0, 1>>

(* at, of: the loop awaits the upload of its at-th file of `of`; draft:    *)
(* the token's; picked: the chat the files were picked for; gone: its      *)
(* composer is off the screen; cut: the first file begun after the chat or *)
(* the composer changed under the loop, or 0; reply: what the server       *)
(* answered, or "none".                                                    *)
Fresh == [at |-> 1, of |-> 0, draft |-> 0, picked |-> 0, gone |-> FALSE, cut |-> 0,
          reply |-> "none"]

NoMessage == [step |-> "none", refs |-> <<>>, to |-> 0]

Init ==
  /\ loops = [p \in Picks |-> Fresh] /\ picks = 0 /\ draft = 1 /\ mounted = TRUE
  /\ attachments = <<>> /\ main = 1 /\ message = NoMessage /\ sends = 0
  /\ index = [ids |-> {}, torn |-> FALSE, glued |-> {}]
  /\ byId = {} /\ indexLoaded = FALSE
  /\ chat = main /\ chats = 1 /\ upsets = 0
  /\ shadowed = {} /\ owed = {}

Upset == upsets < MaxUpsets /\ upsets' = upsets + 1

----------------------------------------------------------------------------
(* The store *)

(* ids: what the lines can be read for; torn: the last one has no end, and *)
(* what is appended to it is one line with it, which nobody can read.      *)
Appended(id) ==
  IF index.torn THEN [index EXCEPT !.torn = FALSE, !.glued = @ \union {id}]
                ELSE [index EXCEPT !.ids = @ \union {id}]

(* Faulty variant: the flag is set, the lines are not read. *)
LoadedNever == byId

(* loadIndex: once per process. *)
Loaded == IF indexLoaded THEN byId ELSE index.ids

LoadIndex == indexLoaded' = TRUE /\ byId' = Loaded

(* write: the index counts as loaded from then on, although nothing read it. *)
Write(id) ==
  /\ index' = Appended(id)
  /\ indexLoaded' = TRUE
  /\ byId' = byId \union {id}
  /\ shadowed' = IF indexLoaded THEN shadowed ELSE index.ids

(* registerFile: an image that was not copied by this process, or changed. *)
Register ==
  /\ Image \notin byId /\ Upset
  /\ index' = Appended(Image)
  /\ indexLoaded' = TRUE /\ byId' = Loaded \union {Image}
  /\ UNCHANGED <<tab, shadowed, chat, chats, owed>>

(* GET /attachments/:id *)
Get ==
  /\ ~indexLoaded
  /\ LoadIndex
  /\ UNCHANGED <<tab, index, shadowed, chat, chats, upsets, owed>>

----------------------------------------------------------------------------
(* Upload loops *)

InFlight(p) == loops[p].at <= loops[p].of
File(p) == <<p, loops[p].at>>
Uploading == {p \in Picks : InFlight(p) /\ ~loops[p].gone}

IsCurrent(p) == loops[p].gone \/ loops[p].draft = draft

(* beginUpload of the next file, in a composer whose draft is d. *)
Begins(l, d) == [l EXCEPT !.at = @ + 1, !.draft = d, !.reply = "none"]

(* The loop goes on with its next file, whatever became of the last one.  A *)
(* request that is aborted never reaches the server, or was served before.  *)
GoesOn(p) == loops' = [loops EXCEPT ![p] = Begins(@, IF @.gone THEN @.draft ELSE draft)]

(* slice(0, 10 - attached - uploading), which counts from the end when it  *)
(* is negative.                                                            *)
Taken(n) ==
  LET used == Len(attachments) + Cardinality(Uploading) IN
  IF used <= Limit THEN (IF n <= Limit - used THEN n ELSE Limit - used)
  ELSE IF n > used - Limit THEN n - (used - Limit) ELSE 0

Pick(n) ==
  /\ mounted /\ picks < MaxPicks /\ Taken(n) > 0
  /\ Taken(n) + MapThenSumSet(LAMBDA p : loops[p].of, Picks) <= MaxFiles
  /\ picks' = picks + 1
  /\ loops' = [loops EXCEPT ![picks + 1] =
                 [Fresh EXCEPT !.of = Taken(n), !.draft = draft, !.picked = main]]
  /\ UNCHANGED <<draft, mounted, attachments, main, message, sends, server, owed>>

(* The answer attaches the file.  A composer that is gone may still write  *)
(* through its binding.                                                    *)
Joins(p) ==
  /\ InFlight(p) /\ loops[p].reply = "stored"
  /\ \/ /\ IsCurrent(p)
        /\ attachments' = Append(attachments, File(p))
        /\ owed' = owed \union {File(p)}
     \/ loops[p].gone /\ UNCHANGED <<attachments, owed>>
  /\ GoesOn(p)
  /\ UNCHANGED <<picks, draft, mounted, main, message, sends, server>>

Fails(p) ==
  /\ InFlight(p) /\ loops[p].reply = "failed"
  /\ GoesOn(p)
  /\ UNCHANGED <<picks, draft, mounted, attachments, main, message, sends, server, owed>>

(* Faulty variant: the timer covers the answer, not the wait for it. *)
DeadlineOfAnswer(p) ==
  /\ InFlight(p) /\ loops[p].reply # "none"
  /\ GoesOn(p)
  /\ UNCHANGED <<picks, draft, mounted, attachments, main, message, sends, server, owed>>

(* cancelUpload by the chip's button, and the timer of beginUpload. *)
Deadline(p) ==
  /\ InFlight(p)
  /\ GoesOn(p)
  /\ UNCHANGED <<picks, draft, mounted, attachments, main, message, sends, server, owed>>

(* abandonDraft, cancelAllUploads: every upload of the composer is         *)
(* aborted, and its loop goes on with the next file under the draft d.     *)
Abandoned(d, leaving) ==
  [p \in Picks |->
     IF p \notin Uploading THEN loops[p]
     ELSE [Begins(loops[p], d) EXCEPT !.gone = leaving,
                                      !.cut = IF @ = 0 THEN loops[p].at + 1 ELSE @]]

(* Faulty variant: another chat leaves the uploads as they are. *)
ShowsOnly(m) == main' = m /\ UNCHANGED <<draft, loops>>

(* The tab shows chat m. *)
Shows(m) ==
  /\ main' = m
  /\ IF mounted /\ m # main
     THEN draft' = draft + 1 /\ loops' = Abandoned(draft + 1, FALSE)
     ELSE UNCHANGED <<draft, loops>>

RemoveAttachment(i) ==
  /\ mounted /\ i \in DOMAIN attachments /\ Upset
  /\ attachments' = RemoveAt(attachments, i)
  /\ owed' = owed \ {attachments[i]}
  /\ UNCHANGED <<loops, picks, draft, mounted, main, message, sends, store, chat, chats>>

(* A worker's session is opened, and closed again. *)
Leave ==
  /\ mounted /\ mounted' = FALSE /\ Upset
  /\ loops' = Abandoned(draft, TRUE)
  /\ UNCHANGED <<picks, draft, attachments, main, message, sends, store, chat, chats, owed>>

Return ==
  /\ ~mounted /\ mounted' = TRUE
  /\ UNCHANGED <<loops, picks, draft, attachments, main, message, sends, server, owed>>

----------------------------------------------------------------------------
(* The message *)

Send ==
  /\ mounted /\ Uploading = {} /\ message.step = "none" /\ sends < MaxSends
  /\ message' = [step |-> "posted", refs |-> attachments, to |-> 0]
  /\ sends' = sends + 1
  /\ UNCHANGED <<loops, picks, draft, mounted, attachments, main, server, owed>>

(* resolveAttachments looks at the first ten. *)
Looked == {message.refs[i] : i \in {j \in DOMAIN message.refs : j <= Limit}}

(* What is left out, without a word: what is beyond the tenth, hidden in   *)
(* the store, or glued to a torn line of the index.                        *)
LeftOut == (Range(message.refs) \ Looked)
             \union (Looked \cap (shadowed \union index.glued))

(* POST /queue/prompt: resolveAttachments, and a chat if there is none. *)
Accept ==
  /\ message.step = "posted"
  /\ chat' = IF chat = 0 THEN chats + 1 ELSE chat
  /\ chats' = IF chat = 0 THEN chats + 1 ELSE chats
  /\ message' = [message EXCEPT !.step = "accepted", !.to = chat']
  /\ IF message.refs = <<>> THEN UNCHANGED <<indexLoaded, byId>> ELSE LoadIndex
  /\ owed' = owed \ ((Looked \cap Loaded) \union LeftOut)
  /\ UNCHANGED <<loops, picks, draft, mounted, attachments, main, sends, index, shadowed, upsets>>

(* The answer empties the bar, with what was attached while it was awaited. *)
Sent ==
  /\ message.step = "accepted"
  /\ message' = NoMessage /\ attachments' = <<>>
  /\ owed' = owed \ (Range(attachments) \ Range(message.refs))
  /\ Shows(message.to)
  /\ UNCHANGED <<picks, mounted, sends, server>>

(* Faulty variant: the bar is emptied whatever the answer was. *)
SendFailsEmptied ==
  /\ message.step # "none" /\ Upset
  /\ message' = NoMessage /\ attachments' = <<>>
  /\ UNCHANGED <<loops, picks, draft, mounted, main, sends, store, chat, chats, owed>>

SendFails ==
  /\ message.step # "none" /\ Upset
  /\ message' = NoMessage
  /\ UNCHANGED <<loops, picks, draft, mounted, attachments, main, sends, store, chat, chats, owed>>

(* queueNew, of this tab or another. *)
NewChat ==
  /\ chat # 0 /\ chat' = 0 /\ Upset
  /\ UNCHANGED <<tab, store, chats, owed>>

(* The push of the queue. *)
Hear ==
  /\ main # chat
  /\ Shows(chat)
  /\ UNCHANGED <<picks, mounted, attachments, message, sends, server, owed>>

----------------------------------------------------------------------------
(* The server's side of an upload *)

Waits(p) == InFlight(p) /\ loops[p].reply = "none"

(* POST /attachments *)
Save(p) ==
  /\ Waits(p)
  /\ Write(File(p))
  /\ loops' = [loops EXCEPT ![p].reply = "stored"]
  /\ UNCHANGED <<picks, draft, mounted, attachments, main, message, sends, chat, chats, upsets,
                 owed>>

Refuse(p) ==
  /\ Waits(p) /\ Upset
  /\ loops' = [loops EXCEPT ![p].reply = "failed"]
  /\ UNCHANGED <<picks, draft, mounted, attachments, main, message, sends, store, chat, chats,
                 owed>>

(* What is in flight fails; a crash may tear the line being appended. *)
Restart(tears) ==
  /\ Upset
  /\ tears => \E p \in Picks : Waits(p)
  /\ index' = [index EXCEPT !.torn = @ \/ tears]
  /\ byId' = {} /\ indexLoaded' = FALSE /\ shadowed' = {}
  /\ loops' = [p \in Picks |-> IF Waits(p) THEN [loops[p] EXCEPT !.reply = "failed"]
                                           ELSE loops[p]]
  /\ message' = IF message.step = "posted" THEN NoMessage ELSE message
  /\ UNCHANGED <<picks, draft, mounted, attachments, main, sends, chat, chats, owed>>

Next ==
  \/ \E n \in 1..PerPick : Pick(n)
  \/ \E p \in Picks : Joins(p) \/ Fails(p) \/ Deadline(p) \/ Save(p) \/ Refuse(p)
  \/ \E i \in 1..Len(attachments) : RemoveAttachment(i)
  \/ Leave \/ Return \/ Send \/ Accept \/ Sent \/ SendFails \/ NewChat \/ Hear
  \/ Register \/ Get
  \/ \E tears \in BOOLEAN : Restart(tears)

(* The timer of an upload is set whatever becomes of the request. *)
Fairness == \A p \in Picks : WF_vars(Deadline(p))

Spec == Init /\ [][Next]_vars /\ Fairness

----------------------------------------------------------------------------
Ids == Files \union {Image}
Chats == 0..(MaxSends + 1)

Places == 1..(PerPick + 1)
Counts == 0..PerPick
Replies == {"none", "stored", "failed"}
Steps == {"none", "posted", "accepted"}

Loop == [at : Places, of : Counts, draft : Nat, picked : Chats, gone : BOOLEAN,
         cut : Places \union {0}, reply : Replies]

Index == [ids : SUBSET Ids, torn : BOOLEAN, glued : SUBSET Ids]

TypeOK ==
  /\ loops \in [Picks -> Loop]
  /\ Range(attachments) \subseteq Files /\ IsInjective(attachments)
  /\ message.step \in Steps /\ Range(message.refs) \subseteq Files
  /\ main \in Chats /\ chat \in Chats /\ chats \in Chats
  /\ index \in Index /\ byId \subseteq Ids
  /\ shadowed \subseteq Ids /\ owed \subseteq Files

(* attachments.ts serves every file its index names: a store that has read *)
(* its index has all of it, but for the entries hidden by an upload that   *)
(* came first after a restart.                                             *)
IndexIsServed == indexLoaded => index.ids \subseteq byId \union shadowed

(* A file that joined a message stays on the bar until the user takes it   *)
(* off or an agent is given it.  Known exceptions: LeftOut, and what was   *)
(* attached while the message before it was being sent (Sent).             *)
FilesArrive == owed \subseteq Range(attachments)

(* "Every upload belongs to the draft it was picked in": a file joins the  *)
(* message of the chat it was picked for, but for the later files of a     *)
(* pick whose loop was cut, which goes on in the chat that is shown then.  *)
JoinsItsChat ==
  [][\A p \in Picks :
       File(p) \in owed' \ owed =>
         \/ loops[p].picked = main
         \/ loops[p].cut # 0 /\ loops[p].at >= loops[p].cut]_vars

(* An upload that nobody answers does not disable Send for ever. *)
SendIsFreed == Uploading # {} ~> Uploading = {}
=============================================================================
