------------------------------- MODULE McpLogin -------------------------------
(* One MCP server that asks for OAuth: its record in mcp.json (src/mcp/store), *)
(* the logins that fill it in (flow.ts) and the refreshers that renew its      *)
(* tokens (client.ts).  The terminal and the web server are two processes over *)
(* the same file; each runs its own logins and its own refresher.  A change of *)
(* the file is a read, a change and a write of the whole, in one go within a   *)
(* process (no await in between); nothing keeps the other process from writing *)
(* between the read and the write.                                             *)
(*                                                                            *)
(* A token is the number the provider gave it, 0 none.  A client is the number *)
(* of the login that registered it, Earlier the one registered before, 0 none. *)
EXTENDS Naturals, Sequences

CONSTANTS
    Procs,       \* the processes: the terminal, the web server
    Refreshing,  \* those with a refresher (ensureTokenRefresher)
    Redirects,   \* for each process, where its logins may have the browser come back to
    Ports,       \* the redirects that are ports of this machine: one listener at a time
    MaxLogins,   \* bound: logins started
    MaxTokens,   \* bound: tokens the provider gives out
    MaxTroubles  \* bound: requests that fail, crashes, revocations, changes by hand,
                 \* changes of the file that the other process may cut in two

VARIABLES
    record,      \* the server's record: installed, its tokens, its clients, refreshError, disabled
    draft,       \* what a process has read and is about to write back, changed
    issued,      \* provider: for each token the client it was given to, and whether it is honoured
    logins,      \* the logins in flight and over
    refreshers,  \* what the refresher of each process is doing
    troubles,    \* how much of MaxTroubles is used
    disturbed,   \* history: a token was lost or revoked, an answer landed on another's record,
                 \* or what was read and changed was not what the change overwrote
    replaced     \* history: clients that another registration has overwritten

loginVars == <<record, draft, issued, logins, refreshers, troubles, disturbed, replaced>>

Logins == 1 .. MaxLogins
Tokens == 1 .. Len(issued)
Earlier == MaxLogins + 1
Clients == 0 .. Earlier
Keys == UNION {Redirects[p] : p \in Procs}
\* ids: the client of each redirect (`clients`); first: the oldest of them; client: the
\* redirect the tokens came through (`tokenClient`).
Record == [there : BOOLEAN, tok : 0 .. MaxTokens, client : Keys \cup {"none"},
           ids : [Keys -> Clients], first : Keys \cup {"none"}, dead : BOOLEAN, off : BOOLEAN]
NoIds == [k \in Keys |-> 0]
NoServer == [there |-> FALSE, tok |-> 0, client |-> "none", ids |-> NoIds, first |-> "none",
             dead |-> FALSE, off |-> FALSE]
\* step: where startLogin and complete are; view: the status shown; saw: the clients of the
\* record startLogin read first.
Login == [proc : Procs \cup {"none"}, key : Keys \cup {"none"}, client : Clients,
          saw : [Keys -> Clients], codes : Nat, got : 0 .. MaxTokens,
          step : {"none", "discover", "register", "wait", "exchange", "save", "probe", "end"},
          view : {"none", "pending", "exchanging", "done", "error"}]
NoLogin == [proc |-> "none", key |-> "none", client |-> 0, saw |-> NoIds, codes |-> 0,
            got |-> 0, step |-> "none", view |-> "none"]
Refresher == [at : {"idle", "due", "asked", "given", "refused"}, tok : 0 .. MaxTokens,
              client : Clients, got : 0 .. MaxTokens]
Idle == [at |-> "idle", tok |-> 0, client |-> 0, got |-> 0]

ASSUME LoginAssumption ==
    /\ "none" \notin Procs /\ "none" \notin Keys /\ Refreshing \subseteq Procs
    /\ \A p \in Procs : Redirects[p] # {}
    /\ MaxLogins \in Nat /\ MaxTokens \in Nat \ {0} /\ MaxTroubles \in Nat

\* A server just installed, or one logged in to through some redirect.
LoginInit ==
    /\ \/ record = [NoServer EXCEPT !.there = TRUE] /\ issued = <<>>
       \/ \E k \in Keys :
            /\ record = [NoServer EXCEPT !.there = TRUE, !.tok = 1, !.client = k,
                                         !.ids[k] = Earlier, !.first = k]
            /\ issued = <<[to |-> Earlier, good |-> TRUE]>>
    /\ draft = [p \in Procs |-> NoServer]
    /\ logins = [l \in Logins |-> NoLogin] /\ refreshers = [p \in Refreshing |-> Idle]
    /\ troubles = 0 /\ disturbed = FALSE /\ replaced = {}

Trouble == troubles < MaxTroubles /\ troubles' = troubles + 1

-----------------------------------------------------------------------------
(* The file.  A change is seldom cut in two: only a write of the other process  *)
(* at that very moment tells it from one step.                                  *)

\* Between its read and its write a process does nothing else.
Free(p) == ~draft[p].there

Reads(p) ==
    /\ record.there /\ Free(p) /\ Trouble
    /\ draft' = [draft EXCEPT ![p] = record]
    /\ UNCHANGED <<record, issued, logins, refreshers, disturbed, replaced>>

\* What a change of p's starts from.
Base(p) == IF Free(p) THEN record ELSE draft[p]

\* updateServer, upsertServer, removeServer; `astray`: the change itself goes wrong.
Writes(p, r, astray) ==
    /\ record' = r /\ draft' = [draft EXCEPT ![p] = NoServer]
    /\ disturbed' = (disturbed \/ Base(p) # record \/ astray)

-----------------------------------------------------------------------------
(* Logins.                                                                     *)

\* finish: the first outcome stands; an exchange that is under way goes on.
Finished(l, view) ==
    IF l.view \in {"done", "error"} THEN l
    ELSE [l EXCEPT !.view = view, !.step = IF @ = "wait" THEN "end" ELSE @]

\* startLogin: the first await is the discovery of the provider's endpoints.
Begin(l, p) ==
    /\ record.there /\ Free(p)
    /\ logins[l].step = "none" /\ \A m \in 1 .. (l - 1) : logins[m].step # "none"
    /\ logins' = [logins EXCEPT ![l].proc = p, ![l].step = "discover", ![l].saw = record.ids]
    /\ UNCHANGED <<record, draft, issued, refreshers, troubles, disturbed, replaced>>

\* Mutant of Superseded: only a login begun before is replaced.
SupersededInOrder(m, l) ==
    m < l /\ logins[m].proc = logins[l].proc /\ logins[m].view = "pending"

Superseded(m, l) == logins[m].proc = logins[l].proc /\ logins[m].view = "pending"

\* The login `now` is pending from here, and the one it replaces is over.
Pends(l, now) ==
    logins' = [m \in Logins |->
        IF m = l THEN [now EXCEPT !.step = "wait", !.view = "pending"]
        ELSE IF Superseded(m, l) THEN Finished(logins[m], "error") ELSE logins[m]]

\* The loopback listener of a login runs until it is finished.
Listens(m, k) ==
    logins[m].key = k /\ (logins[m].step = "register" \/ logins[m].view \in {"pending", "exchanging"})

\* The endpoints are written to the file; clientFor: the client registered before for this
\* redirect, or a new registration.  If the server is gone, what was read first counts.
Discovered(l, k) ==
    LET p == logins[l].proc
        client == IF Base(p).there THEN Base(p).ids[k] ELSE logins[l].saw[k]
        now == [logins[l] EXCEPT !.key = k, !.client = client, !.saw = NoIds]
    IN
    /\ logins[l].step = "discover"
    /\ k \in Redirects[p] /\ (k \in Ports => \A m \in Logins : ~Listens(m, k))
    /\ IF client # 0 THEN Pends(l, now)
       ELSE logins' = [logins EXCEPT ![l] = [now EXCEPT !.step = "register"]]
    /\ Writes(p, Base(p), FALSE)
    /\ UNCHANGED <<issued, refreshers, troubles, replaced>>

\* clientFor writes the new client over what the redirect had.
WithClient(r, k, c) ==
    [r EXCEPT !.ids[k] = c, !.first = IF @ = "none" THEN k ELSE @]

Registered(l) ==
    LET p == logins[l].proc
        k == logins[l].key
    IN
    /\ logins[l].step = "register"
    /\ Writes(p, IF Base(p).there THEN WithClient(Base(p), k, l) ELSE record, FALSE)
    /\ replaced' = IF Base(p).there THEN replaced \cup ({Base(p).ids[k]} \ {0}) ELSE replaced
    /\ Pends(l, [logins[l] EXCEPT !.client = l])
    /\ UNCHANGED <<issued, refreshers, troubles>>

\* The provider cannot be reached or refuses the client, or the server is gone and what was
\* read first has no endpoints: startLogin throws.
NotStarted(l) ==
    /\ logins[l].step \in {"discover", "register"} /\ Free(logins[l].proc)
    /\ (~record.there /\ UNCHANGED troubles) \/ Trouble
    /\ logins' = [logins EXCEPT ![l].step = "end", ![l].saw = NoIds]
    /\ UNCHANGED <<record, draft, issued, refreshers, disturbed, replaced>>

\* complete: "if (p.view.status !== "pending") return".
Awaited(l) == logins[l].view = "pending" /\ Free(logins[l].proc)

\* The redirect, or what the user pasted; either may come again.
Comes(l, withCode) ==
    /\ Awaited(l)
    /\ logins' = [logins EXCEPT ![l] =
           IF withCode /\ record.there
           THEN [@ EXCEPT !.view = "exchanging", !.step = "exchange",
                          !.codes = logins[l].codes + 1]
           ELSE Finished(@, "error")]
    /\ UNCHANGED <<record, draft, issued, refreshers, troubles, disturbed, replaced>>

\* The provider gives out a token.
Issue(to, was) ==
    /\ Len(issued) < MaxTokens
    /\ issued' = Append([t \in Tokens |-> [issued[t] EXCEPT !.good = @ /\ t # was]],
                        [to |-> to, good |-> TRUE])

Exchanged(l) ==
    /\ logins[l].step = "exchange" /\ Issue(logins[l].client, 0)
    /\ logins' = [logins EXCEPT ![l].step = "save", ![l].got = Len(issued')]
    /\ UNCHANGED <<record, draft, refreshers, troubles, disturbed, replaced>>

ExchangeFails(l) ==
    /\ logins[l].step = "exchange" /\ Free(logins[l].proc) /\ Trouble
    /\ logins' = [logins EXCEPT ![l] = [Finished(@, "error") EXCEPT !.step = "end"]]
    /\ UNCHANGED <<record, draft, issued, refreshers, disturbed, replaced>>

\* Mutant of Filled: the tokens without the redirect they came through.
FilledTokens(r, tok, k) == [r EXCEPT !.tok = tok, !.dead = FALSE, !.off = FALSE]

Filled(r, tok, k) == [r EXCEPT !.tok = tok, !.client = k, !.dead = FALSE, !.off = FALSE]

\* The answer of the exchange, whatever has become of the login's view.
Store(l) ==
    LET p == logins[l].proc IN
    /\ logins[l].step = "save"
    /\ IF Base(p).there
       THEN /\ Writes(p, Filled(Base(p), logins[l].got, logins[l].key), FALSE)
            /\ logins' = [logins EXCEPT ![l].step = "probe", ![l].got = 0]
       ELSE /\ logins' = [logins EXCEPT ![l] = [Finished(@, "error") EXCEPT !.step = "end"]]
            /\ UNCHANGED <<record, draft, disturbed>>
    /\ UNCHANGED <<issued, refreshers, troubles, replaced>>

\* The MCP server takes the token, or does not.
Probed(l, taken) ==
    /\ logins[l].step = "probe" /\ Free(logins[l].proc)
    /\ logins' = [logins EXCEPT ![l] =
           [Finished(@, IF taken THEN "done" ELSE "error") EXCEPT !.step = "end"]]
    /\ UNCHANGED <<record, draft, issued, refreshers, troubles, disturbed, replaced>>

\* Its ten minutes are over, or the user cancels it.
Over(l) ==
    /\ logins[l].view \in {"pending", "exchanging"} /\ Free(logins[l].proc)
    /\ logins' = [logins EXCEPT ![l] = Finished(@, "error")]
    /\ UNCHANGED <<record, draft, issued, refreshers, troubles, disturbed, replaced>>

-----------------------------------------------------------------------------
(* Refreshers.                                                                 *)

Id(r, k) == IF k \in Keys THEN r.ids[k] ELSE 0

\* clientFor of client.ts: the client of the tokens, or else the first one.
ClientOf(r) == IF Id(r, r.client) # 0 THEN Id(r, r.client) ELSE Id(r, r.first)

\* refreshDue reads every record; this one's turn comes when those before it are done.
Tick(p) ==
    /\ refreshers[p].at = "idle" /\ Free(p)
    /\ record.there /\ ~record.off /\ record.tok # 0 /\ ~record.dead
    /\ refreshers' = [refreshers EXCEPT ![p] =
           [at |-> "due", tok |-> record.tok, client |-> ClientOf(record), got |-> 0]]
    /\ UNCHANGED <<record, draft, issued, logins, troubles, disturbed, replaced>>

\* ensureFresh: a request, if what was read is about to expire and has a client.
Ask(p) ==
    LET r == refreshers[p] IN
    /\ r.at = "due" /\ Free(p)
    /\ \/ r.client # 0 /\ refreshers' = [refreshers EXCEPT ![p].at = "asked"]
       \/ refreshers' = [refreshers EXCEPT ![p] = Idle]
    /\ UNCHANGED <<record, draft, issued, logins, troubles, disturbed, replaced>>

Honoured(tok, client) == issued[tok].good /\ issued[tok].to = client

\* The provider renews the tokens; with a new refresh token the old one is void.
Renewed(p) ==
    LET r == refreshers[p] IN
    /\ r.at = "asked" /\ Honoured(r.tok, r.client)
    /\ \/ /\ Issue(r.client, r.tok)
          /\ refreshers' = [refreshers EXCEPT ![p].at = "given", ![p].got = Len(issued')]
       \/ /\ UNCHANGED issued
          /\ refreshers' = [refreshers EXCEPT ![p].at = "given", ![p].got = r.tok]
    /\ UNCHANGED <<record, draft, logins, troubles, disturbed, replaced>>

\* invalid_grant; what else the provider may call it is not recorded.
Refused(p) ==
    /\ refreshers[p].at = "asked" /\ ~Honoured(refreshers[p].tok, refreshers[p].client)
    /\ \/ refreshers' = [refreshers EXCEPT ![p].at = "refused"]
       \/ Free(p) /\ refreshers' = [refreshers EXCEPT ![p] = Idle]
    /\ UNCHANGED <<record, draft, issued, logins, troubles, disturbed, replaced>>

\* Anything but invalid_grant is left to the next tick; the answer may have been a token.
Unanswered(p) ==
    /\ refreshers[p].at \in {"asked", "given"} /\ Free(p) /\ Trouble
    /\ disturbed' = (disturbed \/ refreshers[p].at = "given")
    /\ refreshers' = [refreshers EXCEPT ![p] = Idle]
    /\ UNCHANGED <<record, draft, issued, logins, replaced>>

\* ensureFresh after its await: into whatever the record holds by now.
Land(p) ==
    LET r == refreshers[p]
        b == Base(p)
    IN
    /\ r.at \in {"given", "refused"}
    /\ Writes(p, IF ~b.there THEN record
                 ELSE IF r.at = "given" THEN [b EXCEPT !.tok = r.got, !.dead = FALSE]
                 ELSE [b EXCEPT !.dead = TRUE],
              r.at = "given" /\ b.tok # r.tok)
    /\ refreshers' = [refreshers EXCEPT ![p] = Idle]
    /\ UNCHANGED <<issued, logins, troubles, replaced>>

-----------------------------------------------------------------------------
(* By hand, at the provider, and the end of a process.                         *)

\* p changes the record by hand; what was read before is paid for.
ByHand(p, r) ==
    /\ Base(p).there
    /\ IF Free(p) THEN Trouble ELSE UNCHANGED troubles
    /\ Writes(p, r, FALSE)
    /\ UNCHANGED <<issued, logins, refreshers, replaced>>

\* logoutServer: refreshError stays, and so do the clients.
Logout(p) == Base(p).tok # 0 /\ ByHand(p, [Base(p) EXCEPT !.tok = 0, !.client = "none"])

SetDisabled(p, off) == Base(p).off # off /\ ByHand(p, [Base(p) EXCEPT !.off = off])

RemoveServer(p) == ByHand(p, NoServer)

Revoke(t) ==
    /\ issued[t].good /\ Trouble
    /\ issued' = [issued EXCEPT ![t].good = FALSE] /\ disturbed' = TRUE
    /\ UNCHANGED <<record, draft, logins, refreshers, replaced>>

\* Its logins and its requests are gone, an answer on its way with them.
Crash(p) ==
    /\ Trouble
    /\ disturbed' = (disturbed \/ (p \in Refreshing /\ refreshers[p].at = "given"))
    /\ draft' = [draft EXCEPT ![p] = NoServer]
    /\ refreshers' = [q \in Refreshing |-> IF q = p THEN Idle ELSE refreshers[q]]
    /\ logins' = [l \in Logins |->
           IF logins[l].proc = p
           THEN [Finished(logins[l], "error") EXCEPT !.step = "end", !.saw = NoIds]
           ELSE logins[l]]
    /\ UNCHANGED <<record, issued, replaced>>

LoginNext ==
    \/ \E l \in Logins :
         \/ \E p \in Procs : Begin(l, p)
         \/ \E k \in Keys : Discovered(l, k)
         \/ \E b \in BOOLEAN : Comes(l, b) \/ Probed(l, b)
         \/ Registered(l) \/ NotStarted(l) \/ Exchanged(l) \/ ExchangeFails(l)
         \/ Store(l) \/ Over(l)
    \/ \E p \in Refreshing :
         Tick(p) \/ Ask(p) \/ Renewed(p) \/ Refused(p) \/ Unanswered(p) \/ Land(p)
    \/ \E p \in Procs :
         \/ Reads(p) \/ Crash(p) \/ Logout(p) \/ RemoveServer(p)
         \/ \E off \in BOOLEAN : SetDisabled(p, off)
    \/ \E t \in Tokens : Revoke(t)

LoginSpec == LoginInit /\ [][LoginNext]_loginVars

-----------------------------------------------------------------------------
LoginTypeOK ==
    /\ record \in Record /\ draft \in [Procs -> Record]
    /\ issued \in Seq([to : Clients, good : BOOLEAN]) /\ Len(issued) <= MaxTokens
    /\ logins \in [Logins -> Login]
    /\ refreshers \in [Refreshing -> Refresher] /\ troubles \in 0 .. MaxTroubles
    /\ replaced \subseteq Clients

(* In one process at most one login of a server is pending, however the awaits *)
(* of startLogin overlap, and the code of a login is redeemed at most once,    *)
(* though the redirect and the pasted address may both bring it.               *)
OneLogin ==
    /\ \A l, m \in Logins :
         l # m /\ logins[l].view = "pending" /\ logins[m].view = "pending" =>
             logins[l].proc # logins[m].proc
    /\ \A l \in Logins : logins[l].codes <= 1

(* A grant is not lost by the program alone: the token stored is one that the  *)
(* provider honours, and the client the next refresh will use is the one it    *)
(* was given to, or that one was overwritten by another registration for the   *)
(* same redirect (two logins that overlap: flow.ts:103-106) -- until an answer *)
(* is lost, the provider revokes the token, an answer lands on a record that   *)
(* another refresh, a login or a logout changed, or a process writes over what *)
(* the other wrote since it read (store.ts:120-127).                           *)
StoredTokenWorks ==
    record.tok # 0 /\ ~disturbed /\ (\A p \in Refreshing : refreshers[p].at # "given") =>
        /\ issued[record.tok].good
        /\ issued[record.tok].to \in replaced \cup {ClientOf(record)}

(* What the logins of a server promise: OneLogin, and no grant lost by the     *)
(* program itself (StoredTokenWorks), with the types they speak of.            *)
LoginsAreTrue == LoginTypeOK /\ OneLogin /\ StoredTokenWorks
===============================================================================
