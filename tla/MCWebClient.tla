---------------------------- MODULE MCWebClient ----------------------------
(***************************************************************************)
(* Small instances of four parts of the web client that share nothing but  *)
(* the tab: the transcript it follows, the note it edits, the voice        *)
(* recorder and the files of a message.  Since they do not interact, one   *)
(* is picked at the start, `turn`, and it alone takes steps: checking      *)
(* their interleavings would show nothing more.                            *)
(***************************************************************************)
EXTENDS Naturals, Sequences

CONSTANTS
  MaxLen, MaxRewrites, MaxTrouble,               \* of SessionFeed
  MaxTyped, MaxOthers, MaxNudges, MaxMishaps,    \* of NoteSync
  MaxRequests, MaxTroubles,                      \* of AudioRecorder
  MaxPicks, PerPick, MaxFiles, Limit, MaxSends, MaxUpsets  \* of Uploads

VARIABLES
  turn,
  gen, len, held, sub, conn, pipe, asked, link, got, retry, probe, view, copy, adopted,
  trouble,
  store, clock, watched, up, toServer, toTab, stray, queue, ed, timer, pending,
  inflight, waiting, req, typed, others, nudges, mishaps, past, seen, misled,
  c, asking, mics, engine, ended, sending, disabled, troubles, discarded,
  refused, late,
  loops, picks, draft, mounted, attachments, main, message, sends, index, byId, indexLoaded,
  chat, chats, upsets, shadowed, owed

Feed == INSTANCE SessionFeed
Notes == INSTANCE NoteSync
Recorder == INSTANCE AudioRecorder
Files == INSTANCE Uploads

Parts == {"feed", "notes", "recorder", "files"}

feedVars == <<gen, len, held, sub, conn, pipe, asked, link, got, retry, probe, view, copy, adopted,
              trouble>>
notesVars == <<store, clock, watched, up, toServer, toTab, stray, queue, ed, timer, pending,
               inflight, waiting, req, typed, others, nudges, mishaps, past, seen, misled>>
recorderVars == <<c, asking, mics, engine, ended, sending, disabled, troubles, discarded,
                  refused, late>>
filesVars == <<loops, picks, draft, mounted, attachments, main, message, sends, index, byId,
               indexLoaded, chat, chats, upsets, shadowed, owed>>
vars == <<turn, feedVars, notesVars, recorderVars, filesVars>>

Init == turn \in Parts /\ Feed!Init /\ Notes!Init /\ Recorder!Init /\ Files!Init

FeedStep == turn = "feed" /\ Feed!Next /\ UNCHANGED <<turn, notesVars, recorderVars, filesVars>>

NotesStep == turn = "notes" /\ Notes!Next /\ UNCHANGED <<turn, feedVars, recorderVars, filesVars>>

RecorderStep == turn = "recorder" /\ Recorder!Next /\ UNCHANGED <<turn, feedVars, notesVars, filesVars>>

FilesStep == turn = "files" /\ Files!Next /\ UNCHANGED <<turn, feedVars, notesVars, recorderVars>>

Next == FeedStep \/ NotesStep \/ RecorderStep \/ FilesStep

(* The fairness each module states, while it is the component's turn. *)
Fairness ==
  /\ WF_feedVars(turn = "feed" /\ Feed!TimerFires)
  /\ WF_feedVars(turn = "feed" /\ Feed!Subscribe)
  /\ WF_feedVars(turn = "feed" /\ Feed!ServeResync)
  /\ WF_feedVars(turn = "feed" /\ Feed!RetryFires)
  /\ WF_feedVars(turn = "feed" /\ Feed!Recycle)
  /\ WF_feedVars(turn = "feed" /\ Feed!OnClose)
  /\ WF_feedVars(turn = "feed" /\ Feed!Probed)
  /\ WF_feedVars(turn = "feed" /\ Feed!OnFrame)
  /\ WF_notesVars(turn = "notes" /\ Notes!TimerFires)
  /\ WF_notesVars(turn = "notes" /\ Notes!Handle)
  /\ WF_notesVars(turn = "notes" /\ Notes!HandleStray)
  /\ WF_notesVars(turn = "notes" /\ Notes!Connect)
  /\ WF_notesVars(turn = "notes" /\ Notes!OnNote)
  /\ WF_notesVars(turn = "notes" /\ Notes!OnAnswer)
  /\ WF_notesVars(turn = "notes" /\ Notes!Expire)
  /\ \A n \in Recorder!Requests : WF_recorderVars(turn = "recorder" /\ Recorder!OnStop(n))
  /\ \A p \in Files!Picks : WF_filesVars(turn = "files" /\ Files!Deadline(p))

Spec == Init /\ [][Next]_vars /\ Fairness

----------------------------------------------------------------------------
(* SessionFeed: no hole and no mixture in the transcript a tab shows, and  *)
(* the tab gives a session up only when it is gone.                        *)
TranscriptIsTrue == Feed!TypeOK /\ Feed!WholeTranscript /\ Feed!GoneIsGone

(* NoteSync: what the editor takes for stored was stored, and unsaved text *)
(* is always on some path to the server, or said to be unsaved.            *)
NoteIsPursued == Notes!TypeOK /\ Notes!BookIsTrue /\ Notes!UnsavedIsPursued

(* AudioRecorder: the microphone is open only while the bar says so.       *)
(* Uploads: a file of a message stays on the bar or reaches an agent, and  *)
(* the store serves what its index names, across restarts of the server.   *)
BarIsTrue ==
  /\ Recorder!TypeOK /\ Recorder!MicIsShown
  /\ Files!TypeOK /\ Files!FilesArrive /\ Files!IndexIsServed

(* NoteSync: another device's text is overwritten only after it was shown. *)
(* AudioRecorder: a finished take is not dropped by itself.  Uploads: an   *)
(* upload joins the message of the chat it was picked for, no other.       *)
NothingIsLost == Notes!OthersAreSeen /\ Recorder!NoTakeLost /\ Files!JoinsItsChat

(* The tab ends up with the transcript the server has; no save hangs and   *)
(* "saved" ends up true; no stop is waited for without end; no upload      *)
(* disables Send for ever.                                                 *)
NothingHangs ==
  /\ turn = "feed" => Feed!CatchesUp
  /\ turn = "notes" => Notes!SavedInTheEnd
  /\ turn = "recorder" => Recorder!StopEnds
  /\ turn = "files" => Files!SendIsFreed
=============================================================================
