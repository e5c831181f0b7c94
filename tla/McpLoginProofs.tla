--------------------------- MODULE McpLoginProofs ---------------------------
(* What is proved of McpLogin, for any number of processes, redirects, logins, *)
(* tokens and troubles: types, that a process has one pending login and        *)
(* redeems its code once, and that the program by itself loses no grant but    *)
(* one whose client another registration overwrote.  The proofs rest on        *)
(* LoginAssumption alone.                                                      *)
EXTENDS McpLogin, SequenceTheorems, TLAPS

\* A login that has begun and is not over.
Running == {"wait", "exchange", "save", "probe"}

\* A login that has not come to its wait has done nothing, and one that is pending has not
\* had its code; from its registration on it has a redirect.
LoginOK(x) ==
    /\ x.step \in {"none", "discover", "register"} => x.view = "none" /\ x.codes = 0 /\ x.got = 0
    /\ x.view = "pending" => x.step = "wait" /\ x.codes = 0
    /\ x.codes <= 1
    /\ x.step # "none" => x.proc \in Procs
    /\ x.step = "save" => x.got # 0
    /\ x.step \in Running \cup {"register"} => x.key \in Keys

LoginsOK ==
    /\ \A l \in Logins : LoginOK(logins[l])
    /\ \A l, m \in Logins :
         l # m /\ logins[l].view = "pending" /\ logins[m].view = "pending" =>
             logins[l].proc # logins[m].proc

\* The tokens of the file, and of what was read of it and not yet written back.
Known == {record.tok} \cup {draft[q].tok : q \in Procs}

\* Every token that is held was given out, and a refresher's new one belongs to the client
\* of the old one.
RefresherOK(r, given) ==
    /\ r.tok \in 0 .. Len(given) /\ r.got \in 0 .. Len(given)
    /\ r.at # "idle" => r.tok # 0
    /\ r.at = "given" => r.got # 0 /\ given[r.got].to = given[r.tok].to

Given ==
    /\ Known \subseteq 0 .. Len(issued)
    /\ \A l \in Logins : /\ logins[l].got \in 0 .. Len(issued)
                         /\ logins[l].got # 0 => issued[logins[l].got].to = logins[l].client
    /\ \A p \in Refreshing : RefresherOK(refreshers[p], issued)

\* A refresher was given another token than it asked with.
Rotated(p) == refreshers[p].at = "given" /\ refreshers[p].got # refreshers[p].tok

\* A token on its way to the record is known to nobody but the one that brings it.
OnItsWay ==
    /\ \A l \in Logins : logins[l].got # 0 =>
         /\ logins[l].got \notin Known
         /\ \A m \in Logins : m # l => logins[m].got # logins[l].got
         /\ \A p \in Refreshing : logins[l].got \notin {refreshers[p].tok, refreshers[p].got}
    /\ \A p \in Refreshing : Rotated(p) =>
         /\ refreshers[p].got \notin Known
         /\ \A q \in Refreshing : /\ refreshers[q].tok # refreshers[p].got
                                  /\ q # p => refreshers[q].got # refreshers[p].got

\* It is honoured until the provider revokes it.
Honest ==
    ~disturbed =>
        /\ \A l \in Logins : logins[l].got # 0 => issued[logins[l].got].good
        /\ \A p \in Refreshing : Rotated(p) => issued[refreshers[p].got].good

\* c is the client that r has under the redirect k, or was.
Registers(r, k, c) == k \in Keys /\ r.ids[k] # 0 /\ c \in replaced \cup {r.ids[k]}

\* The tokens of the record are those of a registered client; if they are void they are about
\* to be replaced.
TokensOK ==
    record.tok # 0 /\ ~disturbed =>
        /\ Registers(record, record.client, issued[record.tok].to)
        /\ issued[record.tok].good \/ \E p \in Refreshing : Rotated(p) /\ refreshers[p].tok = record.tok

\* And so is the client of a login.
ClientsOK ==
    record.there /\ ~disturbed =>
        \A l \in Logins : logins[l].step \in Running => Registers(record, logins[l].key, logins[l].client)

\* Only an installed server has tokens.
CopiesOK ==
    /\ record.tok # 0 => record.there
    /\ \A q \in Procs : draft[q].tok # 0 => draft[q].there

Inv ==
    /\ LoginTypeOK /\ LoginsOK /\ CopiesOK
    /\ Given /\ OnItsWay /\ Honest /\ TokensOK /\ ClientsOK
-----------------------------------------------------------------------------
(* What the operators do.                                                      *)

LEMMA Bounds ==
    /\ MaxLogins \in Nat /\ MaxTokens \in Nat \ {0} /\ MaxTroubles \in Nat
    /\ "none" \notin Procs /\ "none" \notin Keys /\ Refreshing \subseteq Procs
    /\ 0 \in Clients /\ Earlier \in Clients /\ Logins \subseteq Clients
    /\ NoIds \in [Keys -> Clients] /\ NoServer \in Record /\ Idle \in Refresher
    /\ Idle.at = "idle" /\ Idle.tok = 0 /\ Idle.got = 0
    /\ NoServer.tok = 0 /\ ~NoServer.there
<1>1. /\ MaxLogins \in Nat /\ MaxTokens \in Nat \ {0} /\ MaxTroubles \in Nat
      /\ "none" \notin Procs /\ "none" \notin Keys /\ Refreshing \subseteq Procs
  BY LoginAssumption
<1>2. 0 \in Clients /\ Earlier \in Clients /\ Logins \subseteq Clients
  BY <1>1 DEF Clients, Earlier, Logins
<1>3. NoIds \in [Keys -> Clients]
  BY <1>2 DEF NoIds
<1>4. NoServer \in Record /\ NoServer.tok = 0 /\ ~NoServer.there
  BY <1>1, <1>3 DEF NoServer, Record
<1>5. Idle \in Refresher /\ Idle.at = "idle" /\ Idle.tok = 0 /\ Idle.got = 0
  BY <1>1, <1>2 DEF Idle, Refresher
<1>6. QED
  BY <1>1, <1>2, <1>3, <1>4, <1>5

LEMMA IssuedTyped ==
    ASSUME LoginTypeOK
    PROVE  /\ Len(issued) \in Nat
           /\ \A t \in 1 .. Len(issued) : issued[t] \in [to : Clients, good : BOOLEAN]
<1>1. issued \in Seq([to : Clients, good : BOOLEAN])
  BY DEF LoginTypeOK
<1>2. Len(issued) \in Nat
  BY <1>1
<1>3. \A t \in 1 .. Len(issued) : issued[t] \in [to : Clients, good : BOOLEAN]
  BY <1>1, ElementOfSeq
<1>4. QED
  BY <1>2, <1>3

\* The provider gives out one token more; of the others it voids at most one.
LEMMA IssueAdds ==
    ASSUME LoginTypeOK, NEW to \in Clients, NEW was, Issue(to, was)
    PROVE  /\ issued' \in Seq([to : Clients, good : BOOLEAN])
           /\ Len(issued') = Len(issued) + 1 /\ Len(issued') <= MaxTokens
           /\ \A t \in 1 .. Len(issued) : /\ issued'[t].to = issued[t].to
                                        /\ issued'[t].good = (issued[t].good /\ t # was)
           /\ issued'[Len(issued')] = [to |-> to, good |-> TRUE]
<1> DEFINE old == [t \in Tokens |-> [issued[t] EXCEPT !.good = @ /\ t # was]]
           new == [to |-> to, good |-> TRUE]
<1>1. /\ Len(issued) \in Nat /\ Len(issued) < MaxTokens /\ issued' = Append(old, new)
  BY DEF Issue, LoginTypeOK
<1>a. \A t \in Tokens : issued[t] \in [to : Clients, good : BOOLEAN]
  BY IssuedTyped DEF Tokens
<1>2. \A t \in Tokens : /\ old[t] \in [to : Clients, good : BOOLEAN]
                        /\ old[t].to = issued[t].to
                        /\ old[t].good = (issued[t].good /\ t # was)
  BY <1>a
<1>3. old \in Seq([to : Clients, good : BOOLEAN]) /\ Len(old) = Len(issued)
  BY <1>1, <1>2 DEF Tokens
<1>4. new \in [to : Clients, good : BOOLEAN]
  OBVIOUS
<1> HIDE DEF old, new
<1>5. /\ Append(old, new) \in Seq([to : Clients, good : BOOLEAN])
      /\ Len(Append(old, new)) = Len(old) + 1
      /\ \A t \in 1 .. Len(old) : Append(old, new)[t] = old[t]
      /\ Append(old, new)[Len(old) + 1] = new
  BY <1>3, <1>4
<1>6. Len(issued') = Len(issued) + 1 /\ Len(issued') <= MaxTokens
  BY <1>1, <1>3, <1>5, Bounds
<1>7. \A t \in 1 .. Len(issued) : issued'[t] = old[t]
  BY <1>1, <1>3, <1>5
<1>8. issued'[Len(issued')] = new
  BY <1>1, <1>3, <1>5, <1>6
<1>9. QED
  BY <1>1, <1>2, <1>5, <1>6, <1>7, <1>8 DEF Tokens, new

\* An outcome ends what waits and changes nothing but what is shown.
LEMMA FinishedOK ==
    ASSUME NEW x \in Login, LoginOK(x), x.step # "none", NEW v \in {"done", "error"}
    PROVE  LET y == Finished(x, v) IN
           /\ y \in Login /\ y.view # "pending" /\ [y EXCEPT !.step = "end"] \in Login
           /\ y.got = x.got /\ y.proc = x.proc /\ y.codes = x.codes
           /\ y.key = x.key /\ y.client = x.client
           /\ y.step \in {x.step, "end"}
           /\ x.step \notin {"discover", "register"} => LoginOK(y)
           /\ LoginOK([y EXCEPT !.step = "end"])
BY DEF Finished, Login, LoginOK, Running

-----------------------------------------------------------------------------
(* Changes of the file.                                                        *)

\* What a change starts from, the file or what was read of it.
LEMMA BaseNow ==
    ASSUME Inv, NEW p \in Procs
    PROVE  /\ record \in Record /\ draft[p] \in Record /\ Base(p) \in Record
           /\ Base(p).tok \in Known /\ record.tok \in Known /\ draft[p].tok \in Known
           /\ Base(p).tok # 0 => Base(p).there
           /\ ~Base(p).there => Free(p) /\ Base(p) = record
<1>1. record \in Record /\ draft \in [Procs -> Record] /\ CopiesOK
  BY DEF Inv, LoginTypeOK
<1>2. draft[p] \in Record /\ record.tok \in Known /\ draft[p].tok \in Known
  BY <1>1 DEF Known
<1>3. CASE Free(p)
  BY <1>1, <1>2, <1>3 DEF Base, CopiesOK
<1>4. CASE ~Free(p)
  BY <1>1, <1>2, <1>4 DEF Base, CopiesOK, Free
<1>5. QED
  BY <1>3, <1>4

\* What a change leaves of the tokens; undisturbed, it is one step on the file.
LEMMA Written ==
    ASSUME Inv, NEW p \in Procs, NEW r \in Record, NEW astray \in BOOLEAN, Writes(p, r, astray)
    PROVE  /\ record' = r /\ draft' \in [Procs -> Record]
           /\ \A q \in Procs : draft'[q].tok # 0 => draft'[q].there
           /\ Known' \subseteq Known \cup {0, r.tok}
           /\ ~disturbed' => ~disturbed /\ Base(p) = record /\ ~astray
<1>1. draft \in [Procs -> Record] /\ CopiesOK
  BY DEF Inv, LoginTypeOK
<1>2. /\ draft' \in [Procs -> Record]
      /\ \A q \in Procs : draft'[q] = IF q = p THEN NoServer ELSE draft[q]
  BY <1>1, Bounds DEF Writes
<1>3. \A q \in Procs : draft'[q].tok \in Known \cup {0} /\ (draft'[q].tok # 0 => draft'[q].there)
  BY <1>1, <1>2, Bounds DEF Known, CopiesOK
<1>4. QED
  BY <1>2, <1>3 DEF Writes, Known

\* Tokens stay where they are when the logins hold what they held.
LEMMA TokensStay ==
    ASSUME Inv, UNCHANGED <<issued, refreshers>>, Known' \subseteq Known \cup {0}, disturbed => disturbed',
           \A l \in Logins : /\ logins'[l].got = logins[l].got
                             /\ logins[l].got # 0 => logins'[l].client = logins[l].client
    PROVE  Given' /\ OnItsWay' /\ Honest'
<1>1. Len(issued) \in Nat
  BY IssuedTyped DEF Inv
<1>2. Given'
  BY <1>1 DEF Inv, Given
<1>3. \A p \in Refreshing : Rotated(p) => refreshers[p].got # 0
  BY DEF Inv, Given, RefresherOK, Rotated
<1>4. OnItsWay'
  BY <1>3 DEF Inv, OnItsWay, Rotated
<1>5. Honest'
  BY DEF Inv, Honest, Rotated
<1>6. QED
  BY <1>2, <1>4, <1>5

\* A change that brings no token: what it leaves of the tokens and clients there were.
LEMMA ChangeStep ==
    ASSUME Inv, NEW p \in Procs, NEW r \in Record, Writes(p, r, FALSE),
           r.tok \in {0, Base(p).tok}, r.tok # 0 => r.there,
           UNCHANGED <<issued, refreshers>>, troubles' \in 0 .. MaxTroubles,
           replaced \subseteq replaced', replaced' \subseteq Clients,
           logins' \in [Logins -> Login], LoginsOK',
           \A l \in Logins : /\ logins'[l].got = logins[l].got
                             /\ logins[l].got # 0 => logins'[l].client = logins[l].client,
           ~disturbed' /\ r.tok # 0 => r.tok = record.tok /\ r.client = record.client,
           ~disturbed' /\ r.tok # 0 => \A k \in Keys : record.ids[k] # 0 =>
               r.ids[k] # 0 /\ record.ids[k] \in replaced' \cup {r.ids[k]},
           ClientsOK'
    PROVE  Inv'
<1>1. /\ record' = r /\ draft' \in [Procs -> Record]
      /\ \A q \in Procs : draft'[q].tok # 0 => draft'[q].there
      /\ Known' \subseteq Known \cup {0, r.tok}
      /\ ~disturbed' => ~disturbed /\ Base(p) = record
  BY Written
<1>2. LoginTypeOK'
  BY <1>1 DEF Inv, LoginTypeOK
<1>3. CopiesOK'
  BY <1>1 DEF CopiesOK
<1>4. Known' \subseteq Known \cup {0}
  BY <1>1, BaseNow
<1>5. disturbed => disturbed'
  BY <1>1
<1>6. Given' /\ OnItsWay' /\ Honest'
  BY <1>4, <1>5, TokensStay
<1>7. TokensOK'
  <2>1. SUFFICES ASSUME r.tok # 0, ~disturbed'
                 PROVE  /\ Registers(r, r.client, issued[r.tok].to)'
                        /\ \/ issued[r.tok].good
                           \/ \E q \in Refreshing : Rotated(q) /\ refreshers[q].tok = r.tok
    BY <1>1 DEF TokensOK, Rotated, Registers
  <2>2. /\ ~disturbed /\ r.tok = record.tok /\ r.client = record.client
        /\ \A k \in Keys : record.ids[k] # 0 =>
             r.ids[k] # 0 /\ record.ids[k] \in replaced' \cup {r.ids[k]}
    BY <1>1, <2>1
  <2>3. /\ Registers(record, record.client, issued[record.tok].to)
        /\ \/ issued[record.tok].good
           \/ \E q \in Refreshing : Rotated(q) /\ refreshers[q].tok = record.tok
    BY <2>1, <2>2 DEF Inv, TokensOK
  <2>4. QED
    BY <2>2, <2>3 DEF Registers
<1>8. QED
  BY <1>2, <1>3, <1>6, <1>7 DEF Inv

-----------------------------------------------------------------------------
(* Steps of one login.                                                         *)

\* What holds of a login before it moves.
LEMMA LoginNow ==
    ASSUME Inv, NEW l \in Logins
    PROVE  /\ logins \in [Logins -> Login] /\ logins[l] \in Login /\ LoginOK(logins[l])
           /\ record.there /\ ~disturbed /\ logins[l].step \in Running =>
                  Registers(record, logins[l].key, logins[l].client)
           /\ troubles \in 0 .. MaxTroubles
           /\ Trouble => troubles' \in 0 .. MaxTroubles
  BY Bounds DEF Inv, LoginTypeOK, LoginsOK, ClientsOK, Trouble

\* One login goes on, and does not become pending.
LEMMA OneGoesOn ==
    ASSUME Inv, NEW l \in Logins, NEW y \in Login, LoginOK(y), logins' = [logins EXCEPT ![l] = y],
           y.view = "pending" => logins[l].view = "pending" /\ y.proc = logins[l].proc
    PROVE  /\ logins' \in [Logins -> Login] /\ LoginsOK' /\ logins'[l] = y
           /\ \A m \in Logins : m # l => logins'[m] = logins[m]
<1>1. logins \in [Logins -> Login]
  BY DEF Inv, LoginTypeOK
<1>2. /\ logins'[l] = y
      /\ \A m \in Logins : m # l => logins'[m] = logins[m]
      /\ logins' \in [Logins -> Login]
  BY <1>1
<1>3. LoginsOK'
  BY <1>2 DEF Inv, LoginsOK
<1>4. QED
  BY <1>2, <1>3

\* A step of one login that leaves the file and the tokens alone.
LEMMA LoginStep ==
    ASSUME Inv, NEW l \in Logins, NEW y \in Login, LoginOK(y), logins' = [logins EXCEPT ![l] = y],
           UNCHANGED <<record, draft, issued, refreshers, disturbed, replaced>>,
           troubles' \in 0 .. MaxTroubles,
           y.got = logins[l].got, y.got # 0 => y.client = logins[l].client,
           y.view = "pending" => logins[l].view = "pending" /\ y.proc = logins[l].proc,
           record.there /\ ~disturbed /\ y.step \in Running => Registers(record, y.key, y.client)
    PROVE  Inv'
<1>1. /\ logins' \in [Logins -> Login] /\ LoginsOK' /\ logins'[l] = y
      /\ \A m \in Logins : m # l => logins'[m] = logins[m]
  BY OneGoesOn
<1>2. LoginTypeOK' /\ CopiesOK'
  BY <1>1 DEF Inv, LoginTypeOK, CopiesOK
<1>3. Known' = Known
  BY DEF Known
<1>4. Given' /\ OnItsWay' /\ Honest'
  BY <1>1, <1>3, TokensStay
<1>5. TokensOK'
  BY DEF Inv, TokensOK, Rotated, Registers
<1>6. ClientsOK'
  BY <1>1 DEF Inv, ClientsOK, Registers
<1>7. QED
  BY <1>1, <1>2, <1>4, <1>5, <1>6 DEF Inv

\* A login becomes pending, and the one it replaces is over.
LEMMA PendsOK ==
    ASSUME Inv, NEW l \in Logins, logins[l].step \in {"discover", "register"},
           NEW now \in Login, now.proc = logins[l].proc, now.got = logins[l].got,
           now.codes = logins[l].codes, now.key \in Keys, Pends(l, now)
    PROVE  /\ logins' \in [Logins -> Login] /\ LoginsOK'
           /\ \A m \in Logins : /\ logins'[m].got = logins[m].got
                                /\ logins[m].got # 0 => logins'[m].client = logins[m].client
           /\ logins'[l].key = now.key /\ logins'[l].client = now.client
           /\ \A m \in Logins : m # l =>
                /\ logins'[m].step \in {logins[m].step, "end"}
                /\ logins'[m].key = logins[m].key /\ logins'[m].client = logins[m].client
<1>1. logins \in [Logins -> Login] /\ \A m \in Logins : LoginOK(logins[m])
  BY DEF Inv, LoginTypeOK, LoginsOK
<1> DEFINE y == [now EXCEPT !.step = "wait", !.view = "pending"]
<1>2. /\ logins'[l] = y
      /\ \A m \in Logins : m # l =>
           logins'[m] = IF Superseded(m, l) THEN Finished(logins[m], "error") ELSE logins[m]
      /\ DOMAIN logins' = Logins /\ logins' = [m \in Logins |-> logins'[m]]
  BY DEF Pends
<1>3. /\ y \in Login /\ LoginOK(y) /\ y.got = 0 /\ logins[l].got = 0 /\ y.proc = logins[l].proc
      /\ y.key = now.key /\ y.client = now.client
      /\ y.view = "pending" /\ logins[l].step # "none"
  BY <1>1 DEF LoginOK, Login
<1>4. ASSUME NEW m \in Logins, m # l
      PROVE  /\ logins'[m] \in Login /\ LoginOK(logins'[m])
             /\ logins'[m].got = logins[m].got /\ logins'[m].proc = logins[m].proc
             /\ logins'[m].key = logins[m].key /\ logins'[m].client = logins[m].client
             /\ logins'[m].step \in {logins[m].step, "end"}
             /\ logins'[m].view = "pending" => /\ logins[m].view = "pending"
                                               /\ logins[m].proc # logins[l].proc
  <2>1. CASE ~Superseded(m, l)
    BY <1>1, <1>2, <1>4, <2>1 DEF Superseded
  <2>2. CASE Superseded(m, l)
    <3>1. logins[m] \in Login /\ LoginOK(logins[m]) /\ logins[m].step = "wait"
      BY <1>1, <2>2 DEF Superseded, LoginOK
    <3>2. logins'[m] = Finished(logins[m], "error") /\ logins[m].view = "pending"
          /\ logins[m].proc = logins[l].proc
      BY <1>2, <1>4, <2>2 DEF Superseded
    <3>3. LET z == Finished(logins[m], "error") IN
          /\ z \in Login /\ LoginOK(z) /\ z.view # "pending"
          /\ z.got = logins[m].got /\ z.proc = logins[m].proc /\ z.step \in {logins[m].step, "end"}
          /\ z.key = logins[m].key /\ z.client = logins[m].client
      BY <3>1, FinishedOK
    <3>4. QED
      BY <3>2, <3>3
  <2>3. QED
    BY <2>1, <2>2
<1> HIDE DEF y
<1>5. logins' \in [Logins -> Login]
  BY <1>2, <1>3, <1>4
<1>6. LoginsOK'
  BY <1>2, <1>3, <1>4 DEF Inv, LoginsOK
<1>7. QED
  BY <1>2, <1>3, <1>4, <1>5, <1>6

LEMMA BeginOK ==
    ASSUME Inv, NEW l \in Logins, NEW p \in Procs, Begin(l, p)
    PROVE  Inv'
<1> DEFINE y == [logins[l] EXCEPT !.proc = p, !.step = "discover", !.saw = record.ids]
<1>1. logins' = [logins EXCEPT ![l] = y]
  BY LoginNow DEF Begin
<1>2. record.ids \in [Keys -> Clients]
  BY DEF Inv, LoginTypeOK, Record
<1>3. /\ y \in Login /\ LoginOK(y) /\ y.got = logins[l].got /\ y.got = 0
      /\ y.view # "pending" /\ y.step = "discover"
  BY <1>2, LoginNow DEF Begin, Login, LoginOK, Running
<1> HIDE DEF y
<1>4. QED
  BY <1>1, <1>3, LoginNow, LoginStep DEF Begin, Running

\* The endpoints are written; the client found is that of the redirect.
LEMMA DiscoveredOK ==
    ASSUME Inv, NEW l \in Logins, NEW k \in Keys, Discovered(l, k)
    PROVE  Inv'
<1> DEFINE p == logins[l].proc
           c == IF Base(p).there THEN Base(p).ids[k] ELSE logins[l].saw[k]
           now == [logins[l] EXCEPT !.key = k, !.client = c, !.saw = NoIds]
           y == [now EXCEPT !.step = "register"]
<1>1. /\ logins[l] \in Login /\ LoginOK(logins[l]) /\ logins[l].step = "discover"
      /\ p \in Procs /\ logins[l].got = 0 /\ logins[l].view = "none" /\ logins[l].codes = 0
      /\ logins \in [Logins -> Login]
  BY LoginNow DEF Discovered, LoginOK
<1>2. Base(p) \in Record /\ Base(p).ids \in [Keys -> Clients] /\ logins[l].saw \in [Keys -> Clients]
  BY <1>1, BaseNow DEF Record, Login
<1>3. c \in Clients
  BY <1>2
<1>4. /\ now \in Login /\ now.proc = p /\ now.got = 0 /\ now.codes = 0 /\ now.key = k
      /\ now.client = c /\ now.view = "none"
  BY <1>1, <1>3, Bounds DEF Login
<1>5. Writes(p, Base(p), FALSE) /\ UNCHANGED <<issued, refreshers, troubles, replaced>>
  BY DEF Discovered
<1>6. c # 0 => Pends(l, now)
  BY DEF Discovered
<1>7. c = 0 => logins' = [logins EXCEPT ![l] = y]
  BY DEF Discovered
<1> HIDE DEF now
<1>8. y \in Login /\ LoginOK(y) /\ y.got = 0 /\ y.view = "none" /\ y.step = "register"
  BY <1>1, <1>4 DEF Login, LoginOK, Running
<1>9. Running = {"wait", "exchange", "save", "probe"}
  BY DEF Running
<1> HIDE DEF y, c
<1>10. /\ logins' \in [Logins -> Login] /\ LoginsOK'
       /\ \A m \in Logins : /\ logins'[m].got = logins[m].got
                            /\ logins[m].got # 0 => logins'[m].client = logins[m].client
       /\ logins'[l].step \in Running => c # 0 /\ logins'[l].key = k /\ logins'[l].client = c
       /\ \A m \in Logins : m # l =>
            /\ logins'[m].step \in {logins[m].step, "end"}
            /\ logins'[m].key = logins[m].key /\ logins'[m].client = logins[m].client
  <2>1. CASE c # 0
    BY <1>1, <1>4, <1>6, <2>1, PendsOK
  <2>2. CASE c = 0
    BY <1>1, <1>7, <1>8, <1>9, <2>2, OneGoesOn
  <2>3. QED
    BY <2>1, <2>2
<1>11. record' = Base(p) /\ (~disturbed' => ~disturbed /\ Base(p) = record)
  BY <1>1, <1>2, <1>5, Written
<1>12. ClientsOK'
  <2>1. SUFFICES ASSUME record'.there, ~disturbed', NEW m \in Logins, logins'[m].step \in Running
                 PROVE  Registers(record, logins'[m].key, logins'[m].client)
    BY <1>5, <1>11 DEF ClientsOK, Registers
  <2>2. CASE m = l
    BY <1>2, <1>10, <1>11, <2>1, <2>2 DEF Registers, c
  <2>3. CASE m # l
    BY <1>9, <1>10, <1>11, <2>1, <2>3 DEF Inv, ClientsOK
  <2>4. QED
    BY <2>2, <2>3
<1>13. QED
  <2>1. Base(p).tok # 0 => Base(p).there
    BY <1>1, BaseNow
  <2>2. troubles' \in 0 .. MaxTroubles /\ replaced' \subseteq Clients
    BY <1>5 DEF Inv, LoginTypeOK
  <2>3. QED
    BY <1>1, <1>2, <1>5, <1>10, <1>11, <1>12, <2>1, <2>2, ChangeStep

\* The new client is written over what the redirect had.
LEMMA RegisteredOK ==
    ASSUME Inv, NEW l \in Logins, Registered(l)
    PROVE  Inv'
<1> DEFINE p == logins[l].proc
           k == logins[l].key
           now == [logins[l] EXCEPT !.client = l]
           r == IF Base(p).there THEN WithClient(Base(p), k, l) ELSE record
<1>1. /\ logins[l] \in Login /\ LoginOK(logins[l]) /\ logins[l].step = "register"
      /\ p \in Procs /\ k \in Keys /\ l \in Clients /\ l # 0
      /\ logins \in [Logins -> Login]
  BY LoginNow, Bounds DEF Registered, LoginOK, Logins
<1>2. /\ Base(p) \in Record /\ record \in Record /\ (~Base(p).there => Base(p) = record)
      /\ Base(p).tok # 0 => Base(p).there
  BY <1>1, BaseNow
<1>3. /\ now \in Login /\ now.proc = p /\ now.key = k /\ now.client = l
      /\ now.got = logins[l].got /\ now.codes = logins[l].codes
  BY <1>1 DEF Login
<1>4. /\ Writes(p, r, FALSE) /\ UNCHANGED <<issued, refreshers, troubles>> /\ Pends(l, now)
      /\ replaced' = IF Base(p).there THEN replaced \cup ({Base(p).ids[k]} \ {0}) ELSE replaced
  BY DEF Registered
<1>5. /\ r \in Record /\ r.tok = Base(p).tok /\ r.client = Base(p).client /\ r.there = Base(p).there
      /\ r.there => /\ r.ids[k] = l
                    /\ \A j \in Keys : j # k => r.ids[j] = Base(p).ids[j]
  BY <1>1, <1>2 DEF Record, WithClient
<1>6. replaced \subseteq replaced' /\ replaced' \subseteq Clients
  <2>1. replaced \subseteq Clients
    BY DEF Inv, LoginTypeOK
  <2>2. Base(p).ids[k] \in Clients
    BY <1>1, <1>2 DEF Record
  <2>3. QED
    BY <1>4, <2>1, <2>2
<1>7. r.there => \A j \in Keys : Base(p).ids[j] # 0 =>
        r.ids[j] # 0 /\ Base(p).ids[j] \in replaced' \cup {r.ids[j]}
  BY <1>1, <1>4, <1>5
<1> HIDE DEF r, now
<1>8. /\ logins' \in [Logins -> Login] /\ LoginsOK'
      /\ \A m \in Logins : /\ logins'[m].got = logins[m].got
                           /\ logins[m].got # 0 => logins'[m].client = logins[m].client
      /\ logins'[l].key = k /\ logins'[l].client = l
      /\ \A m \in Logins : m # l =>
           /\ logins'[m].step \in {logins[m].step, "end"}
           /\ logins'[m].key = logins[m].key /\ logins'[m].client = logins[m].client
  BY <1>1, <1>3, <1>4, PendsOK
<1>9. record' = r /\ (~disturbed' => ~disturbed /\ Base(p) = record)
  BY <1>1, <1>4, <1>5, Written
<1>10. ClientsOK'
  <2>1. SUFFICES ASSUME r.there, ~disturbed', NEW m \in Logins, logins'[m].step \in Running
                 PROVE  LET j == logins'[m].key
                            c == logins'[m].client
                        IN  j \in Keys /\ r.ids[j] # 0 /\ c \in replaced' \cup {r.ids[j]}
    BY <1>9 DEF ClientsOK, Registers
  <2>2. CASE m = l
    BY <1>1, <1>5, <1>8, <1>9, <2>1, <2>2 DEF Registers
  <2>3. CASE m # l
    <3>1. logins[m].step \in Running
      BY <1>8, <2>1, <2>3 DEF Running
    <3>2. Registers(record, logins[m].key, logins[m].client)
      BY <1>5, <1>9, <2>1, <3>1 DEF Inv, ClientsOK
    <3>3. QED
      BY <1>6, <1>7, <1>8, <1>9, <2>1, <2>3, <3>2 DEF Registers
  <2>4. QED
    BY <2>2, <2>3
<1>11. QED
  <2>1. troubles' \in 0 .. MaxTroubles
    BY <1>4 DEF Inv, LoginTypeOK
  <2>2. ~disturbed' /\ r.tok # 0 => \A j \in Keys : record.ids[j] # 0 =>
          r.ids[j] # 0 /\ record.ids[j] \in replaced' \cup {r.ids[j]}
    BY <1>2, <1>5, <1>7, <1>9
  <2>3. r.tok # 0 => r.there
    BY <1>2, <1>5
  <2>4. ~disturbed' /\ r.tok # 0 => r.tok = record.tok /\ r.client = record.client
    BY <1>5, <1>9
  <2>5. r.tok \in {0, Base(p).tok}
    BY <1>5
  <2>6. QED
    BY <1>1, <1>4, <1>5, <1>6, <1>8, <1>10, <2>1, <2>2, <2>3, <2>4, <2>5, ChangeStep

LEMMA NotStartedOK ==
    ASSUME Inv, NEW l \in Logins, NotStarted(l)
    PROVE  Inv'
<1> DEFINE y == [logins[l] EXCEPT !.step = "end", !.saw = NoIds]
<1>1. logins' = [logins EXCEPT ![l] = y]
  BY LoginNow DEF NotStarted
<1>2. /\ y \in Login /\ LoginOK(y) /\ y.got = logins[l].got /\ y.got = 0
      /\ y.view # "pending" /\ y.step = "end"
  <2>1. /\ logins[l] \in Login /\ LoginOK(logins[l]) /\ NoIds \in [Keys -> Clients]
        /\ logins[l].step \in {"discover", "register"}
    BY LoginNow, Bounds DEF NotStarted
  <2>2. /\ y \in Login /\ y.got = logins[l].got /\ y.step = "end" /\ y.view = logins[l].view
        /\ y.codes = logins[l].codes /\ y.proc = logins[l].proc
    BY <2>1 DEF Login
  <2> HIDE DEF y
  <2>3. QED
    BY <2>1, <2>2 DEF LoginOK, Running
<1> HIDE DEF y
<1>3. troubles' \in 0 .. MaxTroubles
  BY LoginNow DEF NotStarted
<1>4. QED
  BY <1>1, <1>2, <1>3, LoginStep DEF NotStarted, Running

\* A login that is over, or goes on behind an outcome that stands.
LEMMA OutcomeOK ==
    ASSUME Inv, NEW l \in Logins, NEW v \in {"done", "error"}, logins[l].step # "none",
           \/ /\ logins[l].step \notin {"discover", "register"}
              /\ logins' = [logins EXCEPT ![l] = Finished(logins[l], v)]
           \/ logins' = [logins EXCEPT ![l] = [Finished(logins[l], v) EXCEPT !.step = "end"]],
           UNCHANGED <<record, draft, issued, refreshers, disturbed, replaced>>,
           troubles' \in 0 .. MaxTroubles
    PROVE  Inv'
<1>1. PICK y \in Login : /\ logins' = [logins EXCEPT ![l] = y]
                         /\ LoginOK(y) /\ y.view # "pending" /\ y.step \in {logins[l].step, "end"}
                         /\ y.got = logins[l].got /\ y.proc = logins[l].proc
                         /\ y.key = logins[l].key /\ y.client = logins[l].client
  <2> DEFINE x == Finished(logins[l], v)
             z == [x EXCEPT !.step = "end"]
  <2>1. /\ x \in Login /\ x.view # "pending" /\ z \in Login
        /\ x.got = logins[l].got /\ x.proc = logins[l].proc
        /\ x.key = logins[l].key /\ x.client = logins[l].client
        /\ x.step \in {logins[l].step, "end"}
        /\ logins[l].step \notin {"discover", "register"} => LoginOK(x)
        /\ LoginOK(z)
    BY LoginNow, FinishedOK
  <2> HIDE DEF x
  <2>2. /\ z.view # "pending" /\ z.step = "end" /\ z.got = logins[l].got
        /\ z.proc = logins[l].proc /\ z.key = logins[l].key /\ z.client = logins[l].client
    BY <2>1 DEF Login
  <2> HIDE DEF z
  <2>3. QED
    BY <2>1, <2>2 DEF x, z
<1>2. record.there /\ ~disturbed /\ y.step \in Running => Registers(record, y.key, y.client)
  BY <1>1, LoginNow DEF Running
<1>3. QED
  BY <1>1, <1>2, LoginStep

LEMMA ComesOK ==
    ASSUME Inv, NEW l \in Logins, NEW withCode \in BOOLEAN, Comes(l, withCode)
    PROVE  Inv'
<1>1. /\ logins[l].view = "pending" /\ logins[l].step = "wait" /\ LoginOK(logins[l])
      /\ logins[l] \in Login /\ troubles' \in 0 .. MaxTroubles
  BY LoginNow DEF Comes, Awaited, LoginOK
<1>2. CASE withCode /\ record.there
  <2> DEFINE y == [logins[l] EXCEPT !.view = "exchanging", !.step = "exchange", !.codes = 1]
  <2>1. logins[l].codes = 0 /\ logins[l].proc \in Procs /\ logins[l].key \in Keys
    BY <1>1 DEF LoginOK, Running
  <2>2. logins' = [logins EXCEPT ![l] = y]
    BY <1>1, <1>2, <2>1, LoginNow DEF Comes
  <2>3. /\ y \in Login /\ y.got = logins[l].got /\ y.proc = logins[l].proc
        /\ y.key = logins[l].key /\ y.client = logins[l].client
        /\ y.view = "exchanging" /\ y.step = "exchange" /\ y.codes = 1
    BY <1>1 DEF Login
  <2> HIDE DEF y
  <2>4. LoginOK(y)
    BY <2>1, <2>3 DEF LoginOK
  <2>5. ~disturbed => Registers(record, y.key, y.client)
    BY <1>1, <1>2, <2>3, LoginNow DEF Running
  <2>6. QED
    BY <1>1, <2>2, <2>3, <2>4, <2>5, LoginStep DEF Comes
<1>3. CASE ~(withCode /\ record.there)
  <2>1. logins' = [logins EXCEPT ![l] = Finished(logins[l], "error")]
    BY <1>3, LoginNow DEF Comes
  <2>2. QED
    BY <1>1, <2>1, OutcomeOK DEF Comes
<1>4. QED
  BY <1>2, <1>3

LEMMA EndsOK ==
    ASSUME Inv, NEW l \in Logins,
           ExchangeFails(l) \/ Over(l) \/ \E b \in BOOLEAN : Probed(l, b)
    PROVE  Inv'
<1>1. logins \in [Logins -> Login]
  BY LoginNow
<1>2. CASE ExchangeFails(l)
  BY <1>1, <1>2, LoginNow, OutcomeOK DEF ExchangeFails
<1>3. CASE Over(l)
  <2>1. logins[l].step \notin {"none", "discover", "register"}
    BY <1>3, LoginNow DEF Over, LoginOK
  <2>2. QED
    BY <1>1, <1>3, <2>1, LoginNow, OutcomeOK DEF Over
<1>4. ASSUME NEW b \in BOOLEAN, Probed(l, b)
      PROVE  Inv'
  <2>1. CASE b
    BY <1>1, <1>4, <2>1, LoginNow, OutcomeOK DEF Probed
  <2>2. CASE ~b
    BY <1>1, <1>4, <2>2, LoginNow, OutcomeOK DEF Probed
  <2>3. QED
    BY <2>1, <2>2
<1>5. QED
  BY <1>2, <1>3, <1>4

-----------------------------------------------------------------------------
(* Tokens that are given out and stored.                                       *)

\* The provider's answer to an exchange.
LEMMA ExchangedOK ==
    ASSUME Inv, NEW l \in Logins, Exchanged(l)
    PROVE  Inv'
<1> DEFINE n == Len(issued')
           y == [logins[l] EXCEPT !.step = "save", !.got = n]
<1>1. /\ logins[l] \in Login /\ LoginOK(logins[l]) /\ logins[l].proc \in Procs
      /\ logins[l].step = "exchange" /\ logins[l].key \in Keys /\ logins[l].client \in Clients
      /\ record.there /\ ~disturbed => Registers(record, logins[l].key, logins[l].client)
  BY LoginNow DEF Exchanged, LoginOK, Running, Login
<1>2. /\ issued' \in Seq([to : Clients, good : BOOLEAN]) /\ Len(issued) \in Nat
      /\ n = Len(issued) + 1 /\ n <= MaxTokens
      /\ \A t \in 1 .. Len(issued) : issued'[t].to = issued[t].to
      /\ issued'[n] = [to |-> logins[l].client, good |-> TRUE]
  <2>1. LoginTypeOK /\ Issue(logins[l].client, 0)
    BY DEF Exchanged, Inv
  <2>2. QED
    BY <1>1, <2>1, IssueAdds, IssuedTyped
<1>3. \A t \in 1 .. Len(issued) : issued'[t].good = issued[t].good
  <2>1. \A t \in 1 .. Len(issued) : issued'[t].good = (issued[t].good /\ t # 0)
    BY <1>1, IssueAdds DEF Exchanged, Inv
  <2>2. \A t \in 1 .. Len(issued) : issued[t].good \in BOOLEAN /\ t # 0
    BY IssuedTyped DEF Inv
  <2>3. QED
    BY <2>1, <2>2
<1>4. /\ logins'[l] = y /\ logins' \in [Logins -> Login] /\ LoginsOK'
      /\ \A m \in Logins : m # l => logins'[m] = logins[m]
      /\ y.got = n /\ y.step = "save" /\ y.proc = logins[l].proc
      /\ y.key = logins[l].key /\ y.client = logins[l].client
  <2>1. logins' = [logins EXCEPT ![l] = y]
    BY LoginNow DEF Exchanged
  <2>2. n \in 0 .. MaxTokens
    BY <1>2, Bounds
  <2> HIDE DEF n
  <2>3. /\ y \in Login /\ y.got = n /\ y.step = "save" /\ y.proc = logins[l].proc
        /\ y.view = logins[l].view /\ y.codes = logins[l].codes
        /\ y.key = logins[l].key /\ y.client = logins[l].client
    BY <1>1, <2>2 DEF Login
  <2> HIDE DEF y
  <2>4. LoginOK(y) /\ y.view # "pending"
    BY <1>1, <1>2, <2>3 DEF LoginOK, n
  <2>5. QED
    BY <2>1, <2>3, <2>4, OneGoesOn
<1> HIDE DEF y, n
<1>5. UNCHANGED <<record, draft, refreshers, troubles, disturbed, replaced>> /\ Known' = Known
  BY DEF Exchanged, Known
<1>6. LoginTypeOK' /\ CopiesOK'
  BY <1>2, <1>4, <1>5 DEF Inv, LoginTypeOK, CopiesOK, n
<1>7. Given'
  <2>1. /\ Known \subseteq 0 .. n /\ n \in 1 .. n
        /\ \A t \in 0 .. Len(issued) : t \in 0 .. n /\ (t # 0 => issued'[t].to = issued[t].to)
    BY <1>2 DEF Inv, Given
  <2>2. /\ y.got \in 0 .. n /\ issued'[y.got].to = y.client
        /\ \A m \in Logins : m # l =>
             /\ logins[m].got \in 0 .. n
             /\ logins[m].got # 0 => issued'[logins[m].got].to = logins[m].client
    BY <1>2, <1>4, <2>1 DEF Inv, Given
  <2>3. \A p \in Refreshing : RefresherOK(refreshers[p], issued')
    BY <1>2, <2>1 DEF Inv, Given, RefresherOK, n
  <2>4. QED
    BY <1>4, <1>5, <2>1, <2>2, <2>3 DEF Given, n
<1>8. OnItsWay'
  BY <1>2, <1>4, <1>5 DEF Inv, OnItsWay, Given, RefresherOK, Rotated
<1>9. Honest'
  <2>1. \A m \in Logins : m # l /\ logins[m].got # 0 => logins[m].got \in 1 .. Len(issued)
    BY <1>2 DEF Inv, Given
  <2>2. \A p \in Refreshing : Rotated(p) => refreshers[p].got \in 1 .. Len(issued)
    BY <1>2 DEF Inv, Given, RefresherOK, Rotated
  <2>3. issued'[n].good
    BY <1>2
  <2>4. QED
    BY <1>3, <1>4, <1>5, <2>1, <2>2, <2>3 DEF Inv, Honest, Rotated
<1>10. TokensOK'
  <2>1. record.tok \in 0 .. Len(issued)
    BY DEF Inv, Given, Known
  <2>2. record.tok # 0 => record.tok \in 1 .. Len(issued)
    BY <1>2, <2>1
  <2>3. QED
    BY <1>2, <1>3, <1>5, <2>2 DEF Inv, TokensOK, Registers, Rotated
<1>11. ClientsOK'
  BY <1>1, <1>4, <1>5 DEF Inv, ClientsOK, Registers
<1>12. QED
  BY <1>4, <1>6, <1>7, <1>8, <1>9, <1>10, <1>11 DEF Inv

\* The token of a login is stored with the redirect it came through.
LEMMA SaveOK ==
    ASSUME Inv, NEW l \in Logins, Store(l)
    PROVE  Inv'
<1> DEFINE p == logins[l].proc
           n == logins[l].got
           r == Filled(Base(p), n, logins[l].key)
           y == [logins[l] EXCEPT !.step = "probe", !.got = 0]
<1>1. /\ logins[l] \in Login /\ LoginOK(logins[l]) /\ p \in Procs
      /\ n # 0 /\ logins[l].step = "save" /\ logins[l].key \in Keys /\ n \in 0 .. MaxTokens
      /\ record.there /\ ~disturbed => Registers(record, logins[l].key, logins[l].client)
      /\ troubles \in 0 .. MaxTroubles
      /\ UNCHANGED <<issued, refreshers, troubles, replaced>>
  BY LoginNow DEF Store, LoginOK, Running, Login
<1>2. CASE ~Base(p).there
  <2>1. logins' = [logins EXCEPT ![l] = [Finished(logins[l], "error") EXCEPT !.step = "end"]]
    BY <1>2, LoginNow DEF Store
  <2>2. UNCHANGED <<record, draft, disturbed>>
    BY <1>2 DEF Store
  <2>3. QED
    BY <1>1, <2>1, <2>2, OutcomeOK
<1>3. CASE Base(p).there
  <2>1. Base(p) \in Record
    BY <1>1, BaseNow
  <2>2. /\ r \in Record /\ r.tok = n /\ r.client = logins[l].key /\ r.there
        /\ r.ids = Base(p).ids
    BY <1>1, <1>3, <2>1 DEF Filled, Record
  <2>3. Writes(p, r, FALSE) /\ logins' = [logins EXCEPT ![l] = y]
    BY <1>3, LoginNow DEF Store
  <2>4. /\ y \in Login /\ y.got = 0 /\ y.step = "probe" /\ y.proc = logins[l].proc
        /\ y.view = logins[l].view /\ y.codes = logins[l].codes
        /\ y.key = logins[l].key /\ y.client = logins[l].client
    <3>1. 0 \in 0 .. MaxTokens /\ logins[l] \in Login
      BY <1>1, Bounds
    <3>2. QED
      BY <3>1 DEF Login
  <2> HIDE DEF y, r
  <2>5. LoginOK(y) /\ y.view # "pending"
    BY <1>1, <2>4 DEF LoginOK
  <2>6. /\ logins'[l] = y /\ logins' \in [Logins -> Login] /\ LoginsOK'
        /\ \A m \in Logins : m # l => logins'[m] = logins[m]
    BY <2>3, <2>4, <2>5, OneGoesOn
  <2>7. /\ record' = r /\ draft' \in [Procs -> Record]
        /\ \A q \in Procs : draft'[q].tok # 0 => draft'[q].there
        /\ Known' \subseteq Known \cup {0, n}
        /\ ~disturbed' => ~disturbed /\ Base(p) = record
    BY <1>1, <2>2, <2>3, Written
  <2>8. LoginTypeOK' /\ CopiesOK'
    BY <1>1, <2>2, <2>6, <2>7 DEF Inv, LoginTypeOK, CopiesOK
  <2>9. /\ n \in 1 .. Len(issued) /\ issued[n].to = logins[l].client
        /\ ~disturbed => issued[n].good
        /\ \A m \in Logins : m # l => logins[m].got # n
        /\ \A q \in Refreshing : Rotated(q) => refreshers[q].got # n
    BY <1>1 DEF Inv, Given, OnItsWay, Honest
  <2>10. Given'
    BY <1>1, <2>4, <2>6, <2>7, <2>9 DEF Inv, Given
  <2>11. OnItsWay'
    <3>1. \A q \in Refreshing : Rotated(q) => refreshers[q].got # 0
      BY DEF Inv, Given, RefresherOK, Rotated
    <3>2. QED
      BY <1>1, <2>4, <2>6, <2>7, <2>9, <3>1 DEF Inv, OnItsWay, Rotated
  <2>12. Honest'
    BY <1>1, <2>4, <2>6, <2>7 DEF Inv, Honest, Rotated
  <2>13. TokensOK'
    BY <1>1, <1>3, <2>2, <2>7, <2>9 DEF TokensOK, Registers
  <2>14. ClientsOK'
    <3>1. logins[l].step \in Running /\ y.step \in Running
      BY <1>1, <2>4 DEF Running
    <3>2. QED
      BY <1>1, <1>3, <2>2, <2>4, <2>6, <2>7, <3>1 DEF Inv, ClientsOK, Registers
  <2>15. QED
    BY <2>6, <2>8, <2>10, <2>11, <2>12, <2>13, <2>14 DEF Inv
<1>4. QED
  BY <1>2, <1>3

-----------------------------------------------------------------------------
(* Steps of one refresher.                                                     *)

\* What holds of a refresher before it moves.
LEMMA RefresherNow ==
    ASSUME Inv, NEW p \in Refreshing
    PROVE  /\ refreshers \in [Refreshing -> Refresher]
           /\ refreshers[p] \in Refresher /\ RefresherOK(refreshers[p], issued)
           /\ troubles \in 0 .. MaxTroubles
           /\ Trouble => troubles' \in 0 .. MaxTroubles
           /\ p \in Procs
  BY Bounds DEF Inv, LoginTypeOK, Given, Trouble

\* A refresher that is not given anything: it may know the token of the record, and what it
\* was given before is lost.
LEMMA RefresherStep ==
    ASSUME Inv, NEW p \in Refreshing, NEW r \in Refresher, RefresherOK(r, issued),
           refreshers' = [refreshers EXCEPT ![p] = r],
           r.at # "given", r.got \in {0, refreshers[p].got},
           r.tok \in {0, record.tok, refreshers[p].tok},
           UNCHANGED <<record, draft, issued, logins, replaced>>,
           troubles' \in 0 .. MaxTroubles,
           disturbed' <=> (disturbed \/ refreshers[p].at = "given")
    PROVE  Inv'
<1>1. /\ refreshers'[p] = r /\ refreshers' \in [Refreshing -> Refresher]
      /\ \A q \in Refreshing : q # p => refreshers'[q] = refreshers[q]
      /\ ~Rotated(p)'
      /\ \A q \in Refreshing : Rotated(q)' => Rotated(q) /\ refreshers'[q] = refreshers[q] /\ q # p
  BY DEF Inv, LoginTypeOK, Rotated
<1>2. LoginTypeOK' /\ CopiesOK'
  BY <1>1 DEF Inv, LoginTypeOK, CopiesOK
<1>3. LoginsOK' /\ Known' = Known
  BY DEF Inv, LoginsOK, Known
<1>4. Given'
  BY <1>1, <1>3 DEF Inv, Given
<1>5. OnItsWay'
  <2>1. \A l \in Logins : logins[l].got # 0 =>
          /\ logins[l].got \notin Known /\ logins[l].got # record.tok
          /\ \A q \in Refreshing : logins[l].got \notin {refreshers[q].tok, refreshers[q].got}
    BY DEF Inv, OnItsWay, Known
  <2>2. \A l \in Logins : logins[l].got # 0 =>
          \A q \in Refreshing : logins[l].got \notin {refreshers'[q].tok, refreshers'[q].got}
    BY <1>1, <2>1
  <2>3. \A q \in Refreshing : Rotated(q) =>
          refreshers[q].got \in 1 .. Len(issued) /\ refreshers[q].got # record.tok
    BY DEF Inv, OnItsWay, Given, RefresherOK, Rotated, Known
  <2>4. \A q \in Refreshing : Rotated(q)' =>
          \A o \in Refreshing : /\ refreshers'[o].tok # refreshers'[q].got
                                /\ o # q => refreshers'[o].got # refreshers'[q].got
    BY <1>1, <2>3 DEF Inv, OnItsWay
  <2>5. QED
    BY <1>1, <1>3, <2>2, <2>4 DEF Inv, OnItsWay
<1>6. Honest'
  BY <1>1 DEF Inv, Honest
<1>7. TokensOK'
  <2>1. ASSUME ~disturbed'
        PROVE  \A q \in Refreshing : Rotated(q) => Rotated(q)' /\ refreshers'[q] = refreshers[q]
    BY <1>1, <2>1 DEF Rotated
  <2>2. QED
    BY <2>1 DEF Inv, TokensOK, Registers
<1>8. ClientsOK'
  BY DEF Inv, ClientsOK, Registers
<1>9. QED
  BY <1>2, <1>3, <1>4, <1>5, <1>6, <1>7, <1>8 DEF Inv

\* The client a refresh uses is one of the record's.
LEMMA ClientOfTyped ==
    ASSUME Inv
    PROVE  ClientOf(record) \in Clients
<1>1. record.ids \in [Keys -> Clients]
  BY DEF Inv, LoginTypeOK, Record
<1>2. Id(record, record.client) \in Clients /\ Id(record, record.first) \in Clients
  BY <1>1, Bounds DEF Id
<1>3. QED
  BY <1>2 DEF ClientOf

LEMMA TickOK ==
    ASSUME Inv, NEW p \in Refreshing, Tick(p)
    PROVE  Inv'
<1> DEFINE r == [at |-> "due", tok |-> record.tok, client |-> ClientOf(record), got |-> 0]
<1>1. r \in Refresher /\ RefresherOK(r, issued)
  <2>1. /\ record.tok \in 0 .. MaxTokens /\ record.tok \in 0 .. Len(issued) /\ record.tok # 0
        /\ Len(issued) \in Nat /\ ClientOf(record) \in Clients
    BY ClientOfTyped, IssuedTyped DEF Tick, Inv, LoginTypeOK, Record, Given, Known
  <2>2. QED
    BY <2>1, Bounds DEF Refresher, RefresherOK
<1>2. refreshers' = [refreshers EXCEPT ![p] = r] /\ r.at = "due" /\ r.got = 0 /\ r.tok = record.tok
  BY DEF Tick
<1>3. /\ disturbed' <=> (disturbed \/ refreshers[p].at = "given")
      /\ troubles' \in 0 .. MaxTroubles
  BY RefresherNow DEF Tick
<1> HIDE DEF r
<1>4. UNCHANGED <<record, draft, issued, logins, replaced>>
  BY DEF Tick
<1>5. r.at # "given" /\ r.got \in {0, refreshers[p].got} /\ r.tok \in {0, record.tok, refreshers[p].tok}
  BY <1>2
<1>6. QED
  BY <1>1, <1>2, <1>3, <1>4, <1>5, RefresherStep

\* A refresher lets go of what it had.
LEMMA IdleOK ==
    ASSUME Inv, NEW p \in Refreshing, refreshers' = [refreshers EXCEPT ![p] = Idle],
           UNCHANGED <<record, draft, issued, logins, replaced>>,
           troubles' \in 0 .. MaxTroubles,
           disturbed' <=> (disturbed \/ refreshers[p].at = "given")
    PROVE  Inv'
<1>1. RefresherOK(Idle, issued)
  <2>1. Len(issued) \in Nat
    BY IssuedTyped DEF Inv
  <2>2. QED
    BY <2>1, Bounds DEF RefresherOK
<1>2. QED
  BY <1>1, Bounds, RefresherStep

LEMMA AskOK ==
    ASSUME Inv, NEW p \in Refreshing, Ask(p)
    PROVE  Inv'
<1>1. /\ refreshers[p].at = "due" /\ troubles' \in 0 .. MaxTroubles
      /\ disturbed' <=> (disturbed \/ refreshers[p].at = "given")
  BY RefresherNow DEF Ask
<1>2. CASE refreshers' = [refreshers EXCEPT ![p] = Idle]
  BY <1>1, <1>2, IdleOK DEF Ask
<1>3. CASE refreshers' = [refreshers EXCEPT ![p].at = "asked"]
  <2> DEFINE r == [refreshers[p] EXCEPT !.at = "asked"]
  <2>1. /\ r \in Refresher /\ r.at = "asked" /\ r.tok = refreshers[p].tok
        /\ r.got = refreshers[p].got
    BY RefresherNow DEF Refresher
  <2>2. refreshers' = [refreshers EXCEPT ![p] = r]
    BY <1>3, RefresherNow
  <2> HIDE DEF r
  <2>3. RefresherOK(r, issued)
    BY <1>1, <2>1, RefresherNow DEF RefresherOK
  <2>4. QED
    BY <1>1, <2>1, <2>2, <2>3, RefresherStep DEF Ask
<1>4. QED
  BY <1>2, <1>3 DEF Ask

LEMMA RefusedOK ==
    ASSUME Inv, NEW p \in Refreshing, Refused(p)
    PROVE  Inv'
<1>1. /\ refreshers[p].at = "asked" /\ troubles' \in 0 .. MaxTroubles
      /\ disturbed' <=> (disturbed \/ refreshers[p].at = "given")
  BY RefresherNow DEF Refused
<1>2. CASE refreshers' = [refreshers EXCEPT ![p] = Idle]
  BY <1>1, <1>2, IdleOK DEF Refused
<1>3. CASE refreshers' = [refreshers EXCEPT ![p].at = "refused"]
  <2> DEFINE r == [refreshers[p] EXCEPT !.at = "refused"]
  <2>1. /\ r \in Refresher /\ r.at = "refused" /\ r.tok = refreshers[p].tok
        /\ r.got = refreshers[p].got
    BY RefresherNow DEF Refresher
  <2>2. refreshers' = [refreshers EXCEPT ![p] = r]
    BY <1>3, RefresherNow
  <2> HIDE DEF r
  <2>3. RefresherOK(r, issued)
    BY <1>1, <2>1, RefresherNow DEF RefresherOK
  <2>4. QED
    BY <1>1, <2>1, <2>2, <2>3, RefresherStep DEF Refused
<1>4. QED
  BY <1>2, <1>3 DEF Refused

LEMMA UnansweredOK ==
    ASSUME Inv, NEW p \in Refreshing, Unanswered(p)
    PROVE  Inv'
  BY RefresherNow, IdleOK DEF Unanswered

\* The provider renews tokens: those the record holds may be void until they are replaced.
LEMMA RenewedOK ==
    ASSUME Inv, NEW p \in Refreshing, Renewed(p)
    PROVE  Inv'
<1>1. /\ refreshers[p] \in Refresher /\ RefresherOK(refreshers[p], issued)
      /\ refreshers[p].at = "asked" /\ refreshers[p].client \in Clients
      /\ refreshers[p].tok \in 1 .. Len(issued)
      /\ issued[refreshers[p].tok].to = refreshers[p].client
      /\ Len(issued) \in Nat /\ Len(issued) <= MaxTokens
      /\ UNCHANGED <<record, draft, logins, troubles, disturbed, replaced>> /\ Known' = Known
  BY RefresherNow, IssuedTyped
     DEF Renewed, Honoured, RefresherOK, Refresher, Inv, LoginTypeOK, Known
<1>2. PICK n : /\ refreshers' = [refreshers EXCEPT ![p].at = "given", ![p].got = n]
               /\ \/ Issue(refreshers[p].client, refreshers[p].tok) /\ n = Len(issued')
                  \/ UNCHANGED issued /\ n = refreshers[p].tok
  BY DEF Renewed
<1> DEFINE r == [refreshers[p] EXCEPT !.at = "given", !.got = n]
           k == refreshers[p].tok
<1>3. /\ issued' \in Seq([to : Clients, good : BOOLEAN]) /\ Len(issued') <= MaxTokens
      /\ Len(issued) <= Len(issued') /\ n \in 1 .. Len(issued') /\ Len(issued') \in Nat
      /\ \A t \in 1 .. Len(issued) : issued'[t].to = issued[t].to
      /\ \A t \in 1 .. Len(issued) : t # k => issued'[t].good = issued[t].good
      /\ n # k => n = Len(issued) + 1 /\ issued'[n].good
      /\ n = k => UNCHANGED issued
      /\ issued'[n].to = issued'[k].to
  <2>1. CASE UNCHANGED issued /\ n = k
    <3>1. issued \in Seq([to : Clients, good : BOOLEAN])
      BY DEF Inv, LoginTypeOK
    <3>2. QED
      BY <1>1, <2>1, <3>1
  <2>2. CASE Issue(refreshers[p].client, refreshers[p].tok) /\ n = Len(issued')
    <3>1. /\ issued' \in Seq([to : Clients, good : BOOLEAN])
          /\ Len(issued') = Len(issued) + 1 /\ Len(issued') <= MaxTokens
          /\ \A t \in 1 .. Len(issued) : /\ issued'[t].to = issued[t].to
                                         /\ issued'[t].good = (issued[t].good /\ t # k)
          /\ issued'[n] = [to |-> refreshers[p].client, good |-> TRUE]
      BY <1>1, <2>2, IssueAdds DEF Inv
    <3>2. \A t \in 1 .. Len(issued) : issued[t].good \in BOOLEAN
      BY IssuedTyped DEF Inv
    <3>3. \A t \in 1 .. Len(issued) : t # k => issued'[t].good = issued[t].good
      BY <3>1, <3>2
    <3>4. /\ n = Len(issued) + 1 /\ n # k /\ k \in 1 .. Len(issued)
          /\ issued'[n].good /\ issued'[n].to = refreshers[p].client
      BY <1>1, <2>2, <3>1
    <3>5. QED
      BY <1>1, <3>1, <3>3, <3>4
  <2>3. QED
    BY <1>2, <2>1, <2>2
<1>4. /\ r \in Refresher /\ r.at = "given" /\ r.got = n /\ r.tok = k /\ r.client = refreshers[p].client
  <2>1. n \in 0 .. MaxTokens
    BY <1>3, Bounds
  <2>2. QED
    BY <1>1, <2>1 DEF Refresher
<1> HIDE DEF r
<1>5. /\ refreshers'[p] = r /\ refreshers' \in [Refreshing -> Refresher]
      /\ \A q \in Refreshing : q # p => refreshers'[q] = refreshers[q]
      /\ \A q \in Refreshing : q # p => (Rotated(q)' <=> Rotated(q))
      /\ Rotated(p)' <=> n # k
      /\ ~Rotated(p)
  <2>1. refreshers' = [refreshers EXCEPT ![p] = r] /\ refreshers \in [Refreshing -> Refresher]
    BY <1>2 DEF Inv, LoginTypeOK, r
  <2>2. QED
    BY <1>1, <1>4, <2>1 DEF Rotated
<1>6. LoginTypeOK' /\ CopiesOK'
  BY <1>1, <1>3, <1>5 DEF Inv, LoginTypeOK, CopiesOK
<1>7. LoginsOK'
  BY <1>1 DEF Inv, LoginsOK
<1>8. Given'
  <2>1. \A t \in 0 .. Len(issued) : t \in 0 .. Len(issued') /\ (t # 0 => issued'[t].to = issued[t].to)
    BY <1>1, <1>3
  <2>2. Known \subseteq 0 .. Len(issued')
    BY <1>1, <2>1 DEF Inv, Given
  <2>3. \A l \in Logins : /\ logins[l].got \in 0 .. Len(issued')
                          /\ logins[l].got # 0 => issued'[logins[l].got].to = logins[l].client
    BY <2>1 DEF Inv, Given
  <2>4. \A q \in Refreshing : RefresherOK(refreshers[q], issued')
    BY <2>1 DEF Inv, Given, RefresherOK
  <2>5. RefresherOK(r, issued')
    BY <1>1, <1>3, <1>4 DEF RefresherOK
  <2>6. QED
    BY <1>1, <1>5, <2>2, <2>3, <2>4, <2>5 DEF Given
\* A token on its way is not the one that was renewed.
<1>9. /\ \A l \in Logins : logins[l].got # 0 => logins[l].got \in 1 .. Len(issued) /\ logins[l].got # k
      /\ \A q \in Refreshing : Rotated(q) => refreshers[q].got \in 1 .. Len(issued) /\ refreshers[q].got # k
      /\ \A q \in Refreshing : refreshers[q].tok \in 0 .. Len(issued) /\ refreshers[q].got \in 0 .. Len(issued)
      /\ Known \subseteq 0 .. Len(issued) /\ record.tok \in 0 .. Len(issued)
  BY DEF Inv, Given, OnItsWay, RefresherOK, Rotated, Known
<1>10. OnItsWay'
  <2>1. ASSUME NEW l \in Logins, logins[l].got # 0
        PROVE  /\ logins[l].got \notin Known
               /\ \A m \in Logins : m # l => logins[m].got # logins[l].got
               /\ \A q \in Refreshing : logins[l].got \notin {refreshers'[q].tok, refreshers'[q].got}
    <3>1. logins[l].got # n
      BY <1>1, <1>3, <1>9, <2>1
    <3>2. QED
      BY <1>4, <1>5, <1>9, <2>1, <3>1 DEF Inv, OnItsWay
  <2>2. ASSUME NEW q \in Refreshing, Rotated(q)', q # p
        PROVE  /\ refreshers'[q].got \notin Known
               /\ \A o \in Refreshing : /\ refreshers'[o].tok # refreshers'[q].got
                                        /\ o # q => refreshers'[o].got # refreshers'[q].got
    <3>1. Rotated(q) /\ refreshers'[q] = refreshers[q]
      BY <1>5, <2>2
    <3>2. refreshers[q].got # n
      BY <1>1, <1>3, <1>9, <3>1
    <3>3. QED
      BY <1>4, <1>5, <1>9, <2>2, <3>1, <3>2 DEF Inv, OnItsWay
  <2>3. ASSUME n # k
        PROVE  /\ n \notin Known
               /\ \A o \in Refreshing : /\ refreshers'[o].tok # n
                                        /\ o # p => refreshers'[o].got # n
    <3>1. n = Len(issued) + 1 /\ n \notin Known /\ k # n
      BY <1>1, <1>3, <1>9, <2>3
    <3>2. \A o \in Refreshing : refreshers[o].tok # n /\ refreshers[o].got # n
      BY <1>1, <1>9, <3>1
    <3>3. QED
      BY <1>4, <1>5, <3>1, <3>2
  <2>4. QED
    BY <1>1, <1>4, <1>5, <2>1, <2>2, <2>3 DEF OnItsWay
<1>11. Honest'
  BY <1>1, <1>3, <1>4, <1>5, <1>9 DEF Inv, Honest
<1>12. TokensOK' /\ ClientsOK'
  <2>1. \A q \in Refreshing : Rotated(q) => Rotated(q)' /\ refreshers'[q] = refreshers[q]
    BY <1>5
  <2>2. ASSUME record.tok # 0, ~disturbed
        PROVE  /\ issued'[record.tok].to = issued[record.tok].to
               /\ \/ issued'[record.tok].good
                  \/ \E q \in Refreshing : Rotated(q)' /\ refreshers'[q].tok = record.tok
    <3>1. CASE record.tok # k \/ n = k
      <4>1. /\ issued[record.tok].good
               \/ \E q \in Refreshing : Rotated(q) /\ refreshers[q].tok = record.tok
            /\ record.tok \in 1 .. Len(issued)
        BY <1>1, <1>9, <2>2 DEF Inv, TokensOK
      <4>2. issued'[record.tok].to = issued[record.tok].to
        BY <1>3, <4>1
      <4>3. issued'[record.tok].good <=> issued[record.tok].good
        BY <1>3, <3>1, <4>1
      <4>4. QED
        BY <2>1, <4>1, <4>2, <4>3
    <3>2. CASE record.tok = k /\ n # k
      BY <1>3, <1>4, <1>5, <1>9, <2>2, <3>2
    <3>3. QED
      BY <3>1, <3>2
  <2>3. QED
    BY <1>1, <2>2 DEF Inv, TokensOK, ClientsOK, Registers
<1>13. QED
  BY <1>6, <1>7, <1>8, <1>10, <1>11, <1>12 DEF Inv

\* The answer lands on the record the request was made for, or the run is disturbed.
LEMMA LandOK ==
    ASSUME Inv, NEW p \in Refreshing, Land(p)
    PROVE  Inv'
<1> DEFINE r == refreshers[p]
           b == Base(p)
           new == IF ~b.there THEN record
                  ELSE IF r.at = "given" THEN [b EXCEPT !.tok = r.got, !.dead = FALSE]
                  ELSE [b EXCEPT !.dead = TRUE]
           away == r.at = "given" /\ b.tok # r.tok
<1>1. /\ r \in Refresher /\ RefresherOK(r, issued) /\ r.at \in {"given", "refused"}
      /\ p \in Procs /\ b \in Record /\ (b.tok # 0 => b.there) /\ b.tok \in Known
      /\ ~b.there => b = record
      /\ UNCHANGED <<issued, logins, troubles, replaced>>
  BY RefresherNow, BaseNow DEF Land
<1>2. /\ refreshers'[p] = Idle /\ refreshers' \in [Refreshing -> Refresher]
      /\ \A q \in Refreshing : q # p => refreshers'[q] = refreshers[q]
      /\ Idle.at = "idle" /\ Idle.tok = 0 /\ Idle.got = 0
      /\ ~Rotated(p)'
      /\ \A q \in Refreshing : q # p => (Rotated(q)' <=> Rotated(q))
  <2>1. refreshers' = [refreshers EXCEPT ![p] = Idle] /\ refreshers \in [Refreshing -> Refresher]
    BY RefresherNow DEF Land
  <2>2. Idle.at = "idle" /\ Idle.tok = 0 /\ Idle.got = 0 /\ Idle \in Refresher
    BY Bounds
  <2>3. QED
    BY <2>1, <2>2 DEF Rotated
<1>3. Writes(p, new, away) /\ away \in BOOLEAN
  BY DEF Land
<1>4. /\ new \in Record /\ (new.there <=> b.there) /\ new.client = b.client /\ new.ids = b.ids
      /\ \/ new.tok = b.tok
         \/ new.tok = r.got /\ r.at = "given" /\ b.there
      /\ r.at = "given" /\ b.there => new.tok = r.got
  <2>1. CASE ~b.there
    BY <1>1, <2>1
  <2>2. CASE b.there /\ r.at = "refused"
    BY <1>1, <2>2 DEF Record
  <2>3. CASE b.there /\ r.at = "given"
    <3>1. new = [b EXCEPT !.tok = r.got, !.dead = FALSE] /\ r.got \in 0 .. MaxTokens
      BY <1>1, <2>3 DEF Refresher
    <3> HIDE DEF r, b, new
    <3>2. QED
      BY <1>1, <2>3, <3>1 DEF Record
  <2>4. QED
    BY <1>1, <2>1, <2>2, <2>3
<1> HIDE DEF new
<1>5. /\ record' = new /\ draft' \in [Procs -> Record]
      /\ \A q \in Procs : draft'[q].tok # 0 => draft'[q].there
      /\ Known' \subseteq Known \cup {0, new.tok}
      /\ ~disturbed' => ~disturbed /\ b = record /\ ~away
  BY <1>1, <1>3, <1>4, Written
<1>6. LoginTypeOK' /\ CopiesOK' /\ LoginsOK'
  BY <1>1, <1>2, <1>4, <1>5 DEF Inv, LoginTypeOK, CopiesOK, LoginsOK
<1>7. Known' \subseteq Known \cup {0, r.got} /\ (r.at # "given" => Known' \subseteq Known \cup {0})
  BY <1>1, <1>4, <1>5
<1>8. Given'
  <2>1. RefresherOK(Idle, issued) /\ Known' \subseteq 0 .. Len(issued)
    <3>1. Len(issued) \in Nat
      BY IssuedTyped DEF Inv
    <3>2. Known \subseteq 0 .. Len(issued) /\ r.got \in 0 .. Len(issued)
      BY <1>1 DEF Inv, Given, RefresherOK
    <3>3. RefresherOK(Idle, issued)
      BY <1>2, <3>1 DEF RefresherOK
    <3>4. Known' \subseteq 0 .. Len(issued)
      BY <1>7, <3>1, <3>2
    <3>5. QED
      BY <3>3, <3>4
  <2>2. QED
    BY <1>1, <1>2, <2>1 DEF Inv, Given
<1>9. OnItsWay'
  <2>1. ASSUME NEW l \in Logins, logins[l].got # 0
        PROVE  /\ logins[l].got \notin Known'
               /\ \A q \in Refreshing : logins[l].got \notin {refreshers'[q].tok, refreshers'[q].got}
    BY <1>2, <1>7, <2>1 DEF Inv, OnItsWay
  <2>2. ASSUME NEW q \in Refreshing, Rotated(q)'
        PROVE  /\ refreshers'[q].got \notin Known'
               /\ \A o \in Refreshing : /\ refreshers'[o].tok # refreshers'[q].got
                                        /\ o # q => refreshers'[o].got # refreshers'[q].got
    <3>1. Rotated(q) /\ refreshers'[q] = refreshers[q] /\ q # p
      BY <1>2, <2>2
    <3>2. refreshers[q].got # 0
      BY <3>1 DEF Inv, Given, RefresherOK, Rotated
    <3>3. QED
      BY <1>2, <1>7, <3>1, <3>2 DEF Inv, OnItsWay
  <2>3. QED
    BY <1>1, <2>1, <2>2 DEF Inv, OnItsWay
<1>10. Honest'
  BY <1>1, <1>2, <1>5 DEF Inv, Honest
<1>11. TokensOK'
  <2>1. SUFFICES ASSUME new.tok # 0, ~disturbed'
                 PROVE  /\ Registers(new, new.client, issued[new.tok].to)
                        /\ \/ issued[new.tok].good
                           \/ \E q \in Refreshing : Rotated(q)' /\ refreshers'[q].tok = new.tok
    BY <1>1, <1>5 DEF TokensOK, Registers
  <2>2. ~disturbed /\ b = record /\ (r.at = "given" => record.tok = r.tok)
    BY <1>5, <2>1
  <2>3. record.tok # 0 /\ record.there
    BY <1>1, <1>4, <2>1, <2>2 DEF RefresherOK
  <2>4. /\ Registers(record, record.client, issued[record.tok].to)
        /\ issued[record.tok].good \/ \E q \in Refreshing : Rotated(q) /\ refreshers[q].tok = record.tok
    BY <2>2, <2>3 DEF Inv, TokensOK
  <2>5. CASE new.tok = record.tok
    <3>1. \A q \in Refreshing : Rotated(q) /\ refreshers[q].tok = record.tok => q # p
      BY <1>4, <2>2, <2>3, <2>5 DEF Rotated
    <3>2. QED
      BY <1>2, <1>4, <2>2, <2>4, <2>5, <3>1 DEF Registers
  <2>6. CASE new.tok # record.tok
    <3>1. Rotated(p) /\ new.tok = r.got /\ record.tok = r.tok /\ r.at = "given"
      BY <1>4, <2>2, <2>6 DEF Rotated
    <3>2. issued[r.got].good
      BY <2>2, <3>1 DEF Inv, Honest
    <3>3. issued[r.got].to = issued[r.tok].to
      BY <1>1, <3>1 DEF RefresherOK
    <3>4. QED
      BY <1>4, <2>2, <2>4, <3>1, <3>2, <3>3 DEF Registers
  <2>7. QED
    BY <2>5, <2>6
<1>12. ClientsOK'
  BY <1>1, <1>4, <1>5 DEF Inv, ClientsOK, Registers
<1>13. QED
  BY <1>6, <1>8, <1>9, <1>10, <1>11, <1>12 DEF Inv

-----------------------------------------------------------------------------
(* By hand, at the provider, and the end of a process.                         *)

\* A change by hand leaves the tokens or forgets them, and leaves the clients or forgets all.
LEMMA ByHandStep ==
    ASSUME Inv, NEW p \in Procs, NEW r \in Record, ByHand(p, r), r.tok \in {0, Base(p).tok},
           r.tok # 0 => r.there /\ r.client = Base(p).client,
           r.there => r.ids = Base(p).ids
    PROVE  Inv'
<1>1. /\ Base(p).there /\ Writes(p, r, FALSE) /\ UNCHANGED <<issued, logins, refreshers, replaced>>
      /\ troubles' \in 0 .. MaxTroubles
  <2>1. troubles \in 0 .. MaxTroubles /\ MaxTroubles \in Nat
    BY Bounds DEF Inv, LoginTypeOK
  <2>2. Trouble \/ UNCHANGED troubles
    BY DEF ByHand
  <2>3. troubles' \in 0 .. MaxTroubles
    BY <2>1, <2>2 DEF Trouble
  <2>4. QED
    BY <2>3 DEF ByHand
<1>2. record' = r /\ (~disturbed' => ~disturbed /\ Base(p) = record)
  BY <1>1, Written
<1>3. /\ logins' \in [Logins -> Login] /\ LoginsOK' /\ replaced \subseteq replaced'
      /\ replaced' \subseteq Clients
  BY <1>1 DEF Inv, LoginTypeOK, LoginsOK
<1>4. ClientsOK'
  BY <1>1, <1>2 DEF Inv, ClientsOK, Registers
<1>5. QED
  BY <1>1, <1>2, <1>3, <1>4, ChangeStep

LEMMA ByHandOK ==
    ASSUME Inv, NEW p \in Procs,
           Logout(p) \/ RemoveServer(p) \/ \E off \in BOOLEAN : SetDisabled(p, off)
    PROVE  Inv'
<1>1. Base(p) \in Record /\ (Base(p).tok # 0 => Base(p).there)
  BY BaseNow
<1>2. CASE Logout(p)
  <2> DEFINE r == [Base(p) EXCEPT !.tok = 0, !.client = "none"]
  <2>1. r \in Record /\ r.tok = 0 /\ r.ids = Base(p).ids
    <3>1. 0 \in 0 .. MaxTokens
      BY Bounds
    <3>2. QED
      BY <1>1, <3>1 DEF Record
  <2>2. ByHand(p, r)
    BY <1>2 DEF Logout
  <2> HIDE DEF r
  <2>3. QED
    BY <2>1, <2>2, ByHandStep
<1>3. CASE RemoveServer(p)
  BY <1>3, Bounds, ByHandStep DEF RemoveServer
<1>4. ASSUME NEW off \in BOOLEAN, SetDisabled(p, off)
      PROVE  Inv'
  <2> DEFINE r == [Base(p) EXCEPT !.off = off]
  <2>1. /\ r \in Record /\ r.tok = Base(p).tok /\ r.client = Base(p).client
        /\ r.there = Base(p).there /\ r.ids = Base(p).ids
    BY <1>1 DEF Record
  <2>2. ByHand(p, r)
    BY <1>4 DEF SetDisabled
  <2> HIDE DEF r
  <2>3. QED
    BY <1>1, <2>1, <2>2, ByHandStep
<1>5. QED
  BY <1>2, <1>3, <1>4

\* What is read of the file is nothing new.
LEMMA ReadsOK ==
    ASSUME Inv, NEW p \in Procs, Reads(p)
    PROVE  Inv'
<1>1. /\ draft \in [Procs -> Record] /\ record \in Record /\ record.there /\ CopiesOK
      /\ draft' = [draft EXCEPT ![p] = record] /\ troubles' \in 0 .. MaxTroubles
      /\ UNCHANGED <<record, issued, logins, refreshers, disturbed, replaced>>
  BY Bounds DEF Reads, Trouble, Inv, LoginTypeOK
<1>2. /\ draft' \in [Procs -> Record]
      /\ \A q \in Procs : draft'[q] = IF q = p THEN record ELSE draft[q]
  BY <1>1
<1>3. LoginTypeOK' /\ CopiesOK' /\ LoginsOK'
  BY <1>1, <1>2 DEF Inv, LoginTypeOK, CopiesOK, LoginsOK
<1>4. Known' \subseteq Known
  BY <1>1, <1>2 DEF Known
<1>5. Given' /\ OnItsWay' /\ Honest'
  BY <1>1, <1>4, TokensStay
<1>6. TokensOK' /\ ClientsOK'
  BY <1>1 DEF Inv, TokensOK, ClientsOK, Registers, Rotated
<1>7. QED
  BY <1>3, <1>5, <1>6 DEF Inv

LEMMA RevokeOK ==
    ASSUME Inv, NEW t \in Tokens, Revoke(t)
    PROVE  Inv'
<1> DEFINE R == [to : Clients, good : BOOLEAN]
           y == [issued[t] EXCEPT !.good = FALSE]
<1>1. issued \in Seq(R) /\ t \in 1 .. Len(issued) /\ issued[t] \in R
  BY IssuedTyped DEF Tokens, Inv, LoginTypeOK
<1>2. y \in R /\ y.to = issued[t].to /\ issued' = [issued EXCEPT ![t] = y]
  BY <1>1 DEF Revoke
<1> HIDE DEF y, R
<1>3. /\ issued' \in Seq(R) /\ Len(issued') = Len(issued)
      /\ \A k \in 1 .. Len(issued) : issued'[k].to = issued[k].to
  BY <1>1, <1>2
<1>4. /\ UNCHANGED <<record, draft, logins, refreshers, replaced>> /\ disturbed' = TRUE
      /\ troubles' \in 0 .. MaxTroubles /\ Known' = Known
  BY Bounds DEF Revoke, Trouble, Inv, LoginTypeOK, Known
<1>5. LoginTypeOK' /\ CopiesOK'
  BY <1>3, <1>4 DEF Inv, LoginTypeOK, CopiesOK, R
<1>6. LoginsOK'
  BY <1>4 DEF Inv, LoginsOK
<1>7. Given'
  BY <1>3, <1>4 DEF Inv, Given, RefresherOK
<1>8. OnItsWay'
  BY <1>4 DEF Inv, OnItsWay, Rotated
<1>9. Honest' /\ TokensOK' /\ ClientsOK'
  BY <1>4 DEF Honest, TokensOK, ClientsOK
<1>10. QED
  BY <1>5, <1>6, <1>7, <1>8, <1>9 DEF Inv

LEMMA CrashOK ==
    ASSUME Inv, NEW p \in Procs, Crash(p)
    PROVE  Inv'
<1>1. /\ UNCHANGED <<record, issued, replaced>> /\ troubles' \in 0 .. MaxTroubles
      /\ disturbed' <=> (disturbed \/ (p \in Refreshing /\ refreshers[p].at = "given"))
  <2>1. UNCHANGED <<record, issued, replaced>> /\ Trouble
    BY DEF Crash
  <2>2. troubles' \in 0 .. MaxTroubles
    BY <2>1, Bounds DEF Trouble, Inv, LoginTypeOK
  <2>3. disturbed' <=> (disturbed \/ (p \in Refreshing /\ refreshers[p].at = "given"))
    BY DEF Crash
  <2>4. QED
    BY <2>1, <2>2, <2>3
<1>d. /\ draft' \in [Procs -> Record] /\ Known' \subseteq Known \cup {0}
      /\ \A q \in Procs : draft'[q].tok # 0 => draft'[q].there
  <2>1. draft \in [Procs -> Record] /\ CopiesOK /\ draft' = [draft EXCEPT ![p] = NoServer]
    BY DEF Crash, Inv, LoginTypeOK
  <2>2. /\ draft' \in [Procs -> Record]
        /\ \A q \in Procs : draft'[q] = IF q = p THEN NoServer ELSE draft[q]
    BY <2>1, Bounds
  <2>3. QED
    BY <1>1, <2>1, <2>2, Bounds DEF Known, CopiesOK
<1>2. /\ logins' \in [Logins -> Login] /\ \A l \in Logins : LoginOK(logins'[l])
      /\ \A l \in Logins : /\ logins'[l].got = logins[l].got /\ logins'[l].proc = logins[l].proc
                           /\ logins'[l].view = "pending" => logins[l].view = "pending"
                           /\ logins'[l].step \in {logins[l].step, "end"}
                           /\ logins'[l].key = logins[l].key /\ logins'[l].client = logins[l].client
  <2>1. ASSUME NEW l \in Logins
        PROVE  /\ logins'[l] \in Login /\ LoginOK(logins'[l])
               /\ logins'[l].got = logins[l].got /\ logins'[l].proc = logins[l].proc
               /\ logins'[l].view = "pending" => logins[l].view = "pending"
               /\ logins'[l].step \in {logins[l].step, "end"}
               /\ logins'[l].key = logins[l].key /\ logins'[l].client = logins[l].client
    <3>1. CASE logins[l].proc # p
      BY <3>1, LoginNow DEF Crash
    <3>2. CASE logins[l].proc = p
      <4> DEFINE x == Finished(logins[l], "error")
                 z == [x EXCEPT !.step = "end", !.saw = NoIds]
      <4>1. logins'[l] = z
        BY <3>2 DEF Crash
      <4>2. /\ x \in Login /\ x.got = logins[l].got /\ x.proc = logins[l].proc
            /\ x.view # "pending" /\ x.codes = logins[l].codes
            /\ x.key = logins[l].key /\ x.client = logins[l].client
        BY LoginNow DEF Finished, Login
      <4>3. logins[l].codes <= 1 /\ logins[l].proc \in Procs
        BY <3>2, LoginNow DEF LoginOK
      <4> HIDE DEF x
      <4>4. /\ z \in Login /\ z.got = logins[l].got /\ z.proc = logins[l].proc
            /\ z.view # "pending" /\ z.codes = logins[l].codes /\ z.step = "end"
            /\ z.key = logins[l].key /\ z.client = logins[l].client
        BY <4>2, Bounds DEF Login
      <4> HIDE DEF z
      <4>5. LoginOK(z)
        BY <4>3, <4>4 DEF LoginOK, Running
      <4>6. QED
        BY <4>1, <4>4, <4>5
    <3>3. QED
      BY <3>1, <3>2
  <2>2. logins' = [l \in Logins |-> logins'[l]]
    BY DEF Crash
  <2>3. QED
    BY <2>1, <2>2
<1>3. /\ refreshers' \in [Refreshing -> Refresher]
      /\ \A q \in Refreshing : refreshers'[q] = IF q = p THEN Idle ELSE refreshers[q]
      /\ Idle.at = "idle" /\ Idle.tok = 0 /\ Idle.got = 0
  <2>1. \A q \in Refreshing : refreshers'[q] = IF q = p THEN Idle ELSE refreshers[q]
    BY DEF Crash
  <2>2. refreshers \in [Refreshing -> Refresher] /\ Idle \in Refresher
    BY Bounds DEF Inv, LoginTypeOK
  <2>3. Idle.at = "idle" /\ Idle.tok = 0 /\ Idle.got = 0
    BY Bounds
  <2>4. refreshers' = [q \in Refreshing |-> refreshers'[q]]
    BY DEF Crash
  <2>5. QED
    BY <2>1, <2>2, <2>3, <2>4
<1>4. \A q \in Refreshing : Rotated(q)' => q # p /\ Rotated(q) /\ refreshers'[q] = refreshers[q]
  BY <1>3 DEF Rotated
<1>5. LoginTypeOK' /\ CopiesOK'
  BY <1>1, <1>d, <1>2, <1>3 DEF Inv, LoginTypeOK, CopiesOK
<1>6. LoginsOK'
  BY <1>2 DEF Inv, LoginsOK
<1>7. Given'
  <2>1. RefresherOK(Idle, issued)
    <3>1. Len(issued) \in Nat
      BY IssuedTyped DEF Inv
    <3>2. QED
      BY <1>3, <3>1 DEF RefresherOK
  <2>a. Known' \subseteq 0 .. Len(issued)
    BY <1>d, IssuedTyped DEF Inv, Given
  <2>2. QED
    BY <1>1, <1>d, <1>2, <1>3, <2>1, <2>a DEF Inv, Given
<1>8. OnItsWay'
  <2>1. ASSUME NEW q \in Refreshing, Rotated(q)'
        PROVE  /\ refreshers'[q].got \notin Known'
               /\ \A o \in Refreshing : /\ refreshers'[o].tok # refreshers'[q].got
                                        /\ o # q => refreshers'[o].got # refreshers'[q].got
    <3>1. q # p /\ Rotated(q) /\ refreshers'[q] = refreshers[q]
      BY <1>4, <2>1
    <3>2. refreshers[q].got # 0
      BY <3>1 DEF Inv, Given, RefresherOK, Rotated
    <3>3. QED
      BY <1>d, <1>3, <3>1, <3>2 DEF Inv, OnItsWay
  <2>2. QED
    BY <1>1, <1>d, <1>2, <1>3, <2>1 DEF Inv, OnItsWay
<1>9. Honest'
  BY <1>1, <1>2, <1>4 DEF Inv, Honest
<1>10. TokensOK'
  <2>1. ASSUME ~disturbed', NEW q \in Refreshing, Rotated(q)
        PROVE  Rotated(q)' /\ refreshers'[q] = refreshers[q]
    BY <1>1, <1>3, <2>1 DEF Rotated
  <2>2. QED
    BY <1>1, <1>2, <2>1 DEF Inv, TokensOK, Registers
<1>11. ClientsOK'
  BY <1>1, <1>2 DEF Inv, ClientsOK, Registers, Running
<1>12. QED
  BY <1>5, <1>6, <1>7, <1>8, <1>9, <1>10, <1>11 DEF Inv

-----------------------------------------------------------------------------
LEMMA InitOK == LoginInit => Inv
<1> SUFFICES ASSUME LoginInit PROVE Inv
  OBVIOUS
<1>1. /\ logins = [l \in Logins |-> NoLogin] /\ refreshers = [p \in Refreshing |-> Idle]
      /\ troubles = 0 /\ disturbed = FALSE /\ replaced = {} /\ draft = [p \in Procs |-> NoServer]
  BY DEF LoginInit
<1> DEFINE given == [to : Clients, good : BOOLEAN]
           Begun == /\ record \in Record /\ record.there
                    /\ issued \in Seq(given) /\ Len(issued) <= MaxTokens
                    /\ Len(issued) \in Nat /\ record.tok \in 0 .. Len(issued)
                    /\ record.tok # 0 => /\ record.client \in Keys
                                         /\ record.ids[record.client] # 0
                                         /\ issued[record.tok].to = record.ids[record.client]
                                         /\ issued[record.tok].good
<1>2. Begun
  <2>1. CASE record = [NoServer EXCEPT !.there = TRUE] /\ issued = <<>>
    <3>1. record \in Record /\ record.there /\ record.tok = 0
      BY <2>1, Bounds DEF Record
    <3>2. issued \in Seq(given) /\ Len(issued) = 0
      BY <2>1
    <3> HIDE DEF given
    <3>3. QED
      BY <3>1, <3>2, Bounds
  <2>2. ASSUME NEW k \in Keys,
               record = [NoServer EXCEPT !.there = TRUE, !.tok = 1, !.client = k,
                                         !.ids[k] = Earlier, !.first = k],
               issued = <<[to |-> Earlier, good |-> TRUE]>>
        PROVE  Begun
    <3> DEFINE g == [to |-> Earlier, good |-> TRUE]
               ids == [NoIds EXCEPT ![k] = Earlier]
    <3>1. ids \in [Keys -> Clients] /\ ids[k] = Earlier /\ Earlier # 0
      BY <2>2, Bounds DEF Earlier
    <3>2. record = [there |-> TRUE, tok |-> 1, client |-> k, ids |-> ids, first |-> k,
                    dead |-> FALSE, off |-> FALSE]
      BY <2>2 DEF NoServer
    <3> HIDE DEF ids
    <3>3. /\ record \in Record /\ record.there /\ record.tok = 1 /\ record.client = k
          /\ record.ids = ids
      <4>1. 1 \in 0 .. MaxTokens
        BY Bounds
      <4>2. k \in Keys
        BY <2>2
      <4>3. QED
        BY <3>1, <3>2, <4>1, <4>2 DEF Record
    <3>4. g \in given /\ g.to = Earlier /\ g.good
      BY Bounds
    <3> HIDE DEF g, given
    <3>5. issued = <<g>>
      BY <2>2 DEF g
    <3>6. issued \in Seq(given) /\ Len(issued) = 1 /\ issued[1] = g
      BY <3>4, <3>5
    <3>7. QED
      BY <2>2, <3>1, <3>3, <3>4, <3>6, Bounds
  <2>3. QED
    BY <2>1, <2>2 DEF LoginInit
<1>3. /\ NoLogin \in Login /\ LoginOK(NoLogin) /\ NoLogin.view = "none" /\ NoLogin.got = 0
      /\ NoLogin.step = "none"
  BY Bounds DEF NoLogin, Login, LoginOK, Running
<1>4. RefresherOK(Idle, issued)
  BY <1>2, Bounds DEF RefresherOK
<1>5. LoginTypeOK
  BY <1>1, <1>2, <1>3, Bounds DEF LoginTypeOK
<1>6. LoginsOK
  BY <1>1, <1>3 DEF LoginsOK
<1>7. CopiesOK /\ Known \subseteq 0 .. Len(issued)
  BY <1>1, <1>2, Bounds DEF CopiesOK, Known
<1>8. Given
  BY <1>1, <1>2, <1>3, <1>4, <1>7 DEF Given
<1>9. OnItsWay /\ Honest
  BY <1>1, <1>3, Bounds DEF OnItsWay, Honest, Rotated
<1>10. TokensOK
  BY <1>2 DEF TokensOK, Registers
<1>11. ClientsOK
  BY <1>1, <1>3 DEF ClientsOK, Running
<1>12. QED
  BY <1>5, <1>6, <1>7, <1>8, <1>9, <1>10, <1>11 DEF Inv

LEMMA NextOK == Inv /\ [LoginNext]_loginVars => Inv'
<1> SUFFICES ASSUME Inv, [LoginNext]_loginVars PROVE Inv'
  OBVIOUS
<1>1. CASE UNCHANGED loginVars
  <2>1. LoginTypeOK' /\ LoginsOK' /\ CopiesOK'
    BY <1>1 DEF loginVars, Inv, LoginTypeOK, LoginsOK, CopiesOK
  <2>2. Given' /\ OnItsWay' /\ Honest'
    BY <1>1 DEF loginVars, Inv, Given, OnItsWay, Honest, Known, Rotated
  <2>3. TokensOK' /\ ClientsOK'
    BY <1>1 DEF loginVars, Inv, TokensOK, ClientsOK, Registers, Rotated
  <2>4. QED
    BY <2>1, <2>2, <2>3 DEF Inv
<1>2. ASSUME NEW l \in Logins,
             \/ \E p \in Procs : Begin(l, p)
             \/ \E k \in Keys : Discovered(l, k)
             \/ \E b \in BOOLEAN : Comes(l, b) \/ Probed(l, b)
             \/ Registered(l) \/ NotStarted(l) \/ Exchanged(l) \/ ExchangeFails(l)
             \/ Store(l) \/ Over(l)
      PROVE  Inv'
  BY <1>2, BeginOK, ComesOK, EndsOK, DiscoveredOK, RegisteredOK, NotStartedOK, ExchangedOK, SaveOK
<1>3. ASSUME NEW p \in Refreshing,
             Tick(p) \/ Ask(p) \/ Renewed(p) \/ Refused(p) \/ Unanswered(p) \/ Land(p)
      PROVE  Inv'
  BY <1>3, TickOK, AskOK, RenewedOK, RefusedOK, UnansweredOK, LandOK
<1>4. ASSUME NEW p \in Procs,
             \/ Reads(p) \/ Crash(p) \/ Logout(p) \/ RemoveServer(p)
             \/ \E off \in BOOLEAN : SetDisabled(p, off)
      PROVE  Inv'
  BY <1>4, ReadsOK, CrashOK, ByHandOK
<1>5. QED
  BY <1>1, <1>2, <1>3, <1>4, RevokeOK DEF LoginNext

\* The strengthened invariant holds throughout.
LEMMA LoginInvariant == LoginSpec => []Inv
<1>1. LoginInit => Inv
  BY InitOK
<1>2. Inv /\ [LoginNext]_loginVars => Inv'
  BY NextOK
<1>3. QED
  BY <1>1, <1>2, PTL DEF LoginSpec

\* The server's record, what is read of it, the logins, the refreshers and the tokens keep
\* their types (store.ts, flow.ts, client.ts).
THEOREM TypeCorrect == LoginSpec => []LoginTypeOK
<1>1. Inv => LoginTypeOK
  BY DEF Inv
<1>2. QED
  BY <1>1, LoginInvariant, PTL

\* A process has one pending login of the server at a time, and the code of a login is
\* redeemed once (flow.ts startLogin, complete).
THEOREM LoginsAreSingle == LoginSpec => []OneLogin
<1>1. Inv => OneLogin
  BY DEF Inv, LoginsOK, LoginOK, OneLogin
<1>2. QED
  BY <1>1, LoginInvariant, PTL

\* The tokens stored are honoured with the client the next refresh will use, or that client
\* was overwritten by another registration under the same redirect (flow.ts clientFor), as
\* long as no answer is lost or lands on another record, nothing is revoked, and no process
\* writes over what the other wrote since it read (client.ts ensureFresh, flow.ts complete,
\* store.ts updateServer).
THEOREM GrantsAreKept == LoginSpec => []StoredTokenWorks
<1>1. ASSUME Inv PROVE StoredTokenWorks
  <2>1. SUFFICES ASSUME record.tok # 0, ~disturbed,
                        \A p \in Refreshing : refreshers[p].at # "given"
                 PROVE  /\ issued[record.tok].good
                        /\ issued[record.tok].to \in replaced \cup {ClientOf(record)}
    BY DEF StoredTokenWorks
  <2>2. /\ Registers(record, record.client, issued[record.tok].to)
        /\ issued[record.tok].good
    BY <1>1, <2>1 DEF Inv, TokensOK, Rotated
  <2>3. ClientOf(record) = record.ids[record.client]
    BY <2>2 DEF Registers, ClientOf, Id
  <2>4. QED
    BY <2>2, <2>3 DEF Registers
<1>2. QED
  BY <1>1, LoginInvariant, PTL

\* All of it together, as the run checks it: types, single logins, kept grants
\* (flow.ts startLogin and complete, client.ts ensureFresh).
THEOREM LoginsAreTrueAlways == LoginSpec => []LoginsAreTrue
<1>1. LoginTypeOK /\ OneLogin /\ StoredTokenWorks => LoginsAreTrue
  BY DEF LoginsAreTrue
<1>2. QED
  BY <1>1, TypeCorrect, LoginsAreSingle, GrantsAreKept, PTL
=============================================================================
