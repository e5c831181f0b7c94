---------------------------- MODULE Orchestrate ----------------------------
(***************************************************************************)
(* A run of `orchestrate` (agent-rs/src/coord.rs): the coordinator plans   *)
(* in one or two streams, each block of the plan starts its workers as it  *)
(* closes, their answers are written to the tree in order, and the result  *)
(* is checked: by the deterministic checks alone if the plan said it is    *)
(* FAST, else in rounds of gate, review and fixes.  Before each of these   *)
(* checks the run's own tools go over the whole tree.  A worker is what    *)
(* WorkerRace shows of it: it returns.  What models answer, what the tools *)
(* change, what the gate says of a tree and whether a write succeeds is    *)
(* anything.                                                               *)
(***************************************************************************)
EXTENDS Naturals, FiniteSets, Sequences

CONSTANTS
  Paths,     \* what plans name: files of the tree, and new ones
  Alone,     \* a task of at most so many files has one worker per file
  FastMost,  \* the most files of a FAST plan
  Reviews,   \* --fix-rounds
  MaxFaults, \* bound: writes that fail
  MaxTidied  \* bound: how often the tools write one file

Streams == 1..2

VARIABLES
  phase,   \* "plan", "collect", "checks", "gate", "regate", "back"
  stream,  \* per stream of the answer asked for: "none", "open" or "over" (or not listened to)
  owner,   \* the stream the workers follow, 0 if none
  units,   \* the workers started for it, in order: what file versions each read
  tree,    \* per path, how often a worker's answer was written to it
  status,  \* what the coordinator is told of each path
  targets, \* the files of all plans
  text,    \* the answer of the owner, "" if its stream broke
  path,    \* "full", "fast" or "fast->full"
  rounds,
  ok,      \* the gate as last seen
  fixing,  \* the answer asked for is a review
  lost,    \* files whose write failed
  tidied,  \* per path, how often the run's tools wrote it
  gated    \* history: what the tree held when the gate last ran

vars == <<phase, stream, owner, units, tree, status, targets, text, path, rounds, ok,
          fixing, lost, tidied, gated>>
asking == <<stream, owner, units, text>>
result == <<targets, path, rounds, ok, tidied, gated>>

(* What the tree holds of each path, as a version. *)
Content == [p \in Paths |-> tree[p] + tidied[p]]

Unit == [files: SUBSET Paths, from: Streams, read: SUBSET (Paths \X Nat)]
Statuses == {"", "changed", "unchanged", "failed"}

Init ==
  /\ phase = "plan" /\ fixing = FALSE
  /\ stream = [s \in Streams |-> IF s = 1 THEN "open" ELSE "none"]
  /\ owner = 0 /\ units = <<>> /\ text = ""
  /\ tree = [p \in Paths |-> 0] /\ status = [p \in Paths |-> ""] /\ targets = {}
  /\ path = "full" /\ rounds = 0 /\ ok = FALSE /\ lost = {}
  /\ tidied = [p \in Paths |-> 0]
  /\ gated = [p \in Paths |-> 0]

----------------------------------------------------------------------------
(* The coordinator's streams *)

Dispatched == UNION {units[i].files : i \in DOMAIN units}

(* A task's files, in runs: one worker each, or one for all. *)
Runs(P) == IF Cardinality(P) <= Alone THEN {{p} : p \in P} ELSE {P}

(* The workers of a block, in some order; each will read its files. *)
Workers(s, P) ==
  LET R == Runs(P)
      new(q) == [i \in 1..Cardinality(R) |->
                   [files |-> q[i], from |-> s, read |-> {}]]
  IN {new(q) : q \in {q \in [1..Cardinality(R) -> R] : \A i, j \in DOMAIN q : q[i] = q[j] => i = j}}

(* Faulty variant: any stream's tasks are given out. *)
FollowsAny(s) == TRUE

Follows(s) == owner \in {0, s}
Fresh(P) == P \ Dispatched

(* A block with a file nobody works on starts its workers. *)
Block(s, P) ==
  /\ phase = "plan" /\ stream[s] = "open" /\ Follows(s) /\ Fresh(P) # {}
  /\ owner' = s /\ \E w \in Workers(s, Fresh(P)) : units' = units \o w
  /\ UNCHANGED <<phase, stream, text, tree, status, fixing, lost, result>>

(* No task and no answer within COORD_HEDGE: a second stream is asked. *)
Hedge ==
  /\ phase = "plan" /\ owner = 0 /\ stream[2] = "none"
  /\ stream' = [stream EXCEPT ![2] = "open"]
  /\ UNCHANGED <<phase, owner, units, text, tree, status, fixing, lost, result>>

Others(s) == {o \in Streams \ {s} : stream[o] = "open"}

(* The answer is in.  A review without fixes ends the run, unless it broke   *)
(* and the gate fails, when it is asked again; else the workers are joined.   *)
Ends(t) ==
  /\ text' = t /\ stream' = [s \in Streams |-> "over"]
  /\ targets' = targets \cup Dispatched
  /\ status' = IF Dispatched = {} THEN status ELSE [p \in Paths |-> ""]
  /\ IF fixing /\ Dispatched = {}
     THEN IF t = "" /\ ~ok THEN phase' = "gate" /\ rounds' = rounds + 1
          ELSE phase' = "back" /\ UNCHANGED rounds
     ELSE phase' = "collect" /\ rounds' = IF fixing THEN rounds + 1 ELSE rounds

Goes == UNCHANGED <<text, targets, status, phase, rounds>>

(* A stream ends well: "fast" and "full" are the modes of a plan, "" says      *)
(* nothing.  If it is not the owner nothing comes of it.                       *)
Done(s, t) ==
  /\ phase = "plan" /\ stream[s] = "open"
  /\ \/ Follows(s) /\ owner' = s /\ Ends(t)
     \/ ~Follows(s) /\ stream' = [stream EXCEPT ![s] = "over"] /\ Goes /\ UNCHANGED owner
  /\ UNCHANGED <<units, tree, fixing, lost, tidied, path, ok, gated>>

(* A stream breaks.  The owner's failure ends the answer, with the workers it *)
(* started; else the other stream goes on, or is asked.                       *)
Breaks(s) ==
  /\ phase = "plan" /\ stream[s] = "open"
  /\ \/ /\ owner = s \/ (owner = 0 /\ Others(s) = {} /\ stream[2] # "none")
        /\ Ends("")
     \/ /\ owner = 0 /\ stream[2] = "none"
        /\ Goes /\ stream' = [stream EXCEPT ![1] = "over", ![2] = "open"]
     \/ /\ owner # s /\ Others(s) # {}
        /\ Goes /\ stream' = [stream EXCEPT ![s] = "over"]
  /\ UNCHANGED <<owner, units, tree, fixing, lost, tidied, path, ok, gated>>

----------------------------------------------------------------------------
(* The workers *)

(* A worker reads its files as it asks, with the edits that its answer is    *)
(* applied to.                                                               *)
Reads(i) ==
  /\ phase \in {"plan", "collect"} /\ units[i].read = {}
  /\ units' = [units EXCEPT ![i].read = {<<p, Content[p]>> : p \in units[i].files}]
  /\ UNCHANGED <<phase, stream, owner, text, tree, status, fixing, lost, result>>

Tell(P, w) == status' = [p \in Paths |-> IF p \in P THEN w[p] ELSE status[p]]

(* The workers are joined in the order they were started, and what each      *)
(* answered is written.  A write that fails is told as a change.             *)
Collect ==
  /\ phase = "collect" /\ units # <<>> /\ Head(units).read # {}
  /\ LET P == Head(units).files IN
     \/ /\ Tell(P, [p \in P |-> "failed"])
        /\ UNCHANGED <<tree, lost>>
     \/ \E w \in [P -> {"changed", "unchanged"}] :
        \E F \in SUBSET {p \in P : w[p] = "changed"} :
          /\ Cardinality(lost \cup F) <= MaxFaults
          /\ Tell(P, w) /\ lost' = lost \cup F
          /\ tree' = [p \in Paths |-> tree[p] + IF p \in P \ F /\ w[p] = "changed" THEN 1 ELSE 0]
  /\ units' = Tail(units)
  /\ UNCHANGED <<phase, stream, owner, text, fixing, result>>

(* Faulty variant: fixes that pass the gate of before them are taken. *)
JoinedUngated ==
  /\ phase = "collect" /\ units = <<>>
  /\ phase' = CASE ~fixing /\ text = "fast" -> "checks"
                [] ~fixing /\ text # "fast" -> "gate"
                [] fixing /\ ok -> "back"
                [] fixing /\ ~ok -> "regate"
  /\ UNCHANGED <<asking, tree, status, fixing, lost, result>>

Joined ==
  /\ phase = "collect" /\ units = <<>>
  /\ phase' = CASE fixing -> "regate"
                [] ~fixing /\ text = "fast" -> "checks"
                [] ~fixing /\ text # "fast" -> "gate"
  /\ UNCHANGED <<asking, tree, status, fixing, lost, result>>

----------------------------------------------------------------------------
(* What becomes of the result *)

(* gofmt: repair_go_imports and `gofmt -w` write what they will, any file of *)
(* the tree, planned or not, and tell nobody.                                *)
Tidies ==
  \E F \in SUBSET Paths :
    /\ \A p \in F : tidied[p] < MaxTidied
    /\ tidied' = [p \in Paths |-> tidied[p] + IF p \in F THEN 1 ELSE 0]
    /\ UNCHANGED tree

(* What fast_guard sees in the workers' answers. *)
GuardPasses ==
  /\ Cardinality(targets) \in 1..FastMost
  /\ \A p \in targets : status[p] = "changed"

(* named: every name of the orders is in its file; passes: the gate does.    *)
Checks(named, passes) ==
  /\ phase = "checks" /\ Tidies
  /\ LET ran == GuardPasses /\ named IN
     /\ gated' = IF ran THEN Content' ELSE gated
     /\ \/ ran /\ passes /\ phase' = "back" /\ path' = "fast" /\ ok' = TRUE
        \/ ~(ran /\ passes) /\ phase' = "gate" /\ path' = "fast->full" /\ UNCHANGED ok
  /\ UNCHANGED <<asking, status, targets, rounds, fixing, lost>>

(* The gate, and the review unless there were as many as allowed.            *)
Gate(passes) ==
  /\ phase = "gate" /\ Tidies
  /\ ok' = passes /\ gated' = Content'
  /\ \/ rounds >= Reviews /\ phase' = "back" /\ UNCHANGED <<asking, fixing>>
     \/ /\ rounds < Reviews /\ phase' = "plan" /\ fixing' = TRUE
        /\ stream' = [s \in Streams |-> IF s = 1 THEN "open" ELSE "none"]
        /\ owner' = 0 /\ units' = <<>> /\ text' = ""
  /\ UNCHANGED <<status, targets, path, rounds, lost>>

(* The gate after fixes: what passes is not reviewed again.                  *)
Regate(passes) ==
  /\ phase = "regate" /\ Tidies /\ gated' = Content'
  /\ \/ passes /\ phase' = "back" /\ ok' = TRUE
     \/ ~passes /\ phase' = "gate" /\ UNCHANGED ok
  /\ UNCHANGED <<asking, status, targets, path, rounds, fixing, lost>>

StreamEnds(s) == Breaks(s) \/ \E t \in {"", "fast", "full"} : Done(s, t)
RunGoes ==
  \/ (\E i \in DOMAIN units : Reads(i)) \/ Collect \/ Joined
  \/ \E passes \in BOOLEAN :
       Gate(passes) \/ Regate(passes) \/ \E named \in BOOLEAN : Checks(named, passes)

Next ==
  \/ \E s \in Streams : StreamEnds(s) \/ \E P \in SUBSET Paths \ {{}} : Block(s, P)
  \/ Hedge \/ RunGoes

Spec == Init /\ [][Next]_vars

(* A stream ends, a worker asks and returns (WorkerRace), and the run's own  *)
(* loop goes on.                                                             *)
Fairness == (\A s \in Streams : WF_vars(StreamEnds(s))) /\ WF_vars(RunGoes)

----------------------------------------------------------------------------
TypeOK ==
  /\ phase \in {"plan", "collect", "checks", "gate", "regate", "back"}
  /\ stream \in [Streams -> {"none", "open", "over"}]
  /\ owner \in {0} \cup Streams /\ \A i \in DOMAIN units : units[i] \in Unit
  /\ {tree, tidied} \subseteq [Paths -> Nat] /\ status \in [Paths -> Statuses]
  /\ targets \cup lost \subseteq Paths /\ text \in {"", "fast", "full"}
  /\ path \in {"full", "fast", "fast->full"} /\ rounds \in 0..Reviews
  /\ {ok, fixing} \subseteq BOOLEAN /\ gated \in [Paths -> Nat]

(* Workers never mix two plans, and never work on one file at a time: all    *)
(* follow one stream, and what a worker read of its files is what is there   *)
(* when its answer is written over them.                                     *)
WorkersApart ==
  /\ \A i \in DOMAIN units : units[i].from = owner
  /\ \A i \in DOMAIN units : \A r \in units[i].read : Content[r[1]] = r[2]

(* Success is said of the tree the gate has seen, with what the tools did to *)
(* it; the workers wrote nothing but the files the coordinator named, and on *)
(* the fast path each of these.                                              *)
SuccessIsGated ==
  /\ {p \in Paths : tree[p] > 0} \subseteq targets
  /\ phase = "back" /\ ok =>
       /\ gated = Content
       /\ path = "fast" => targets # {} /\ \A p \in targets \ lost : tree[p] > 0

(* The run comes back, whichever of its calls fail.                          *)
RunReturns == <>(phase = "back")
=============================================================================
