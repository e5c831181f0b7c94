-------------------------- MODULE WebClientProofs --------------------------
(***************************************************************************)
(* Proofs about the parts of the web client, for every bound on what       *)
(* happens: the transcript a tab follows, the voice recorder, the files of *)
(* a message and the note.  Each part has an invariant of its own, kept by *)
(* its steps and by the turns of the others; the theorems join them.       *)
(***************************************************************************)
EXTENDS MCWebClient, TLAPS, SequenceTheorems, FiniteSetTheorems

(* The transcript (SessionFeed) *)

FeedBounds == MaxLen \in Nat \ {0} /\ MaxRewrites \in Nat /\ MaxTrouble \in Nat

(* No frame tells more of an array than there is, and "gone" is told of a session that is. *)
FrameTrue(f) ==
  /\ f.gen <= gen /\ (f.gen = gen => f.upto <= len)
  /\ f.t = "delta" => f.from <= f.upto
  /\ f.t = "gone" => ~held

FramesTrue == \A i \in 1..Len(pipe) : FrameTrue(pipe[i])

CopyTrue == copy.gen <= gen /\ (copy.gen = gen => copy.upto <= len)

(* A delta continues the array of the frame before it. *)
PipeChained ==
  \A i \in 1..Len(pipe) : i > 1 /\ pipe[i].t = "delta" => pipe[i - 1].gen = pipe[i].gen

(* The subscriber will go on from the last frame, or from what the tab shows. *)
Continues == sub.on /\ ~sub.resync /\ conn = "open"

SubChained == Continues /\ pipe # <<>> => pipe[Len(pipe)].gen = sub.ref

ViewBound == \A i \in 1..Len(view) : view[i] <= gen

(* Unless a copy crossed the feed: what the tab shows is of one array, and what comes next *)
(* is of that array or starts anew.                                                        *)
ViewChained ==
  /\ \A i \in 1..Len(view) : view[i] = view[1]
  /\ view # <<>> /\ view[1] = gen => Len(view) <= len
  /\ view # <<>> /\ pipe # <<>> /\ pipe[1].t = "delta" => pipe[1].gen = view[1]
  /\ view # <<>> /\ pipe = <<>> /\ Continues => sub.ref = view[1]

(* A connection that is not there feeds nobody, a session it did not know is gone, and a   *)
(* subscriber that was forgotten only retries a whole transcript.                          *)
ConnTrue ==
  /\ sub.on \/ sub.timer => conn \in {"open", "dead"}
  /\ sub.timer /\ ~sub.on => sub.resync
  /\ conn = "unknown" => ~held

FeedInv ==
  /\ Feed!TypeOK /\ FramesTrue /\ CopyTrue /\ PipeChained /\ SubChained /\ ViewBound
  /\ adopted = "crossed" \/ ViewChained
  /\ ConnTrue /\ Feed!GoneIsGone

LEMMA FeedTypes ==
  ASSUME FeedBounds, Feed!TypeOK
  PROVE /\ gen \in Nat /\ len \in Nat /\ gen \in 0..MaxRewrites /\ len \in 0..MaxLen
        /\ pipe \in Seq(Feed!Frame) /\ Len(pipe) \in Nat /\ DOMAIN pipe = 1..Len(pipe)
        /\ \A i \in 1..Len(pipe) : pipe[i] \in Feed!Frame
        /\ view \in Seq(0..MaxRewrites) /\ Len(view) \in Nat /\ DOMAIN view = 1..Len(view)
        /\ \A i \in 1..Len(view) : view[i] \in 0..MaxRewrites
        /\ sub \in Feed!Subscriber /\ copy \in Feed!Copy
        /\ held \in BOOLEAN /\ asked \in BOOLEAN /\ got \in BOOLEAN /\ retry \in BOOLEAN
        /\ probe \in BOOLEAN
  BY DEF Feed!TypeOK, FeedBounds

LEMMA FeedWhole ==
  ASSUME NEW g, NEW n \in Nat
  PROVE /\ Len(Feed!Whole(g, n)) = n /\ DOMAIN Feed!Whole(g, n) = 1..n
        /\ \A i \in 1..n : Feed!Whole(g, n)[i] = g
        /\ g \in 0..MaxRewrites => Feed!Whole(g, n) \in Seq(0..MaxRewrites)
        /\ Feed!Whole(g, n) # <<>> => Feed!Whole(g, n)[1] = g
  <1>1. /\ Len(Feed!Whole(g, n)) = n /\ DOMAIN Feed!Whole(g, n) = 1..n
        /\ \A i \in 1..n : Feed!Whole(g, n)[i] = g
        /\ g \in 0..MaxRewrites => Feed!Whole(g, n) \in Seq(0..MaxRewrites)
    BY DEF Feed!Whole
  <1>2. Feed!Whole(g, n) \in Seq({g}) BY DEF Feed!Whole
  <1>3. Feed!Whole(g, n) # <<>> => 1 \in 1..n
    <2> HIDE DEF Feed!Whole
    <2> QED BY <1>1, <1>2
  <1> QED BY <1>1, <1>3

(* What a frame made of a subscriber's state is. *)
LEMMA FeedFrame ==
  ASSUME FeedBounds, Feed!TypeOK, NEW STATE s, s \in Feed!Subscriber
  PROVE /\ Feed!FrameOf(s) \in Feed!Frame /\ FrameTrue(Feed!FrameOf(s))
        /\ Feed!FrameOf(s).gen = gen
        /\ Feed!FrameOf(s).t = "delta" => ~s.resync /\ s.ref = gen
        /\ Feed!Sent(s) \in Feed!Subscriber /\ Feed!Sent(s).ref = gen /\ ~Feed!Sent(s).timer
        /\ Feed!NotSent(s) \in Feed!Subscriber /\ Feed!NotSent(s).resync
  <1>1. gen \in 0..MaxRewrites /\ len \in 0..MaxLen BY FeedTypes
  <1>2. s.sent \in 0..MaxLen /\ s.ref \in 0..MaxRewrites BY DEF Feed!Subscriber
  <1>3. Feed!Sent(s) \in Feed!Subscriber /\ Feed!Sent(s).ref = gen /\ ~Feed!Sent(s).timer
    BY <1>1 DEF Feed!Sent, Feed!Subscriber
  <1>4. Feed!NotSent(s) \in Feed!Subscriber /\ Feed!NotSent(s).resync
    BY DEF Feed!NotSent, Feed!Subscriber
  <1>5. CASE s.resync \/ s.ref # gen \/ len < s.sent
    <2>1. Feed!FrameOf(s) = [t |-> "snapshot", gen |-> gen, from |-> 0, upto |-> len]
      BY <1>5 DEF Feed!FrameOf
    <2>2. Feed!FrameOf(s) \in Feed!Frame BY <1>1, <2>1 DEF Feed!Frame, FeedBounds
    <2> QED BY <1>1, <1>3, <1>4, <2>1, <2>2 DEF FrameTrue
  <1>6. CASE ~(s.resync \/ s.ref # gen \/ len < s.sent)
    <2>1. Feed!FrameOf(s) = [t |-> "delta", gen |-> gen, from |-> s.sent, upto |-> len]
      BY <1>6 DEF Feed!FrameOf
    <2>2. Feed!FrameOf(s) \in Feed!Frame BY <1>1, <1>2, <2>1 DEF Feed!Frame
    <2> QED BY <1>1, <1>2, <1>3, <1>4, <1>6, <2>1, <2>2 DEF FrameTrue
  <1> QED BY <1>5, <1>6

(* The feed makes a frame of the subscriber it has, or of one that starts anew. *)
LEMMA FeedFlush ==
  ASSUME FeedBounds, FeedInv, NEW STATE s, s \in Feed!Subscriber,
         s.resync \/ (s = sub /\ sub.on /\ conn' = conn), conn' \in {"open", "dead"}, conn' = "dead" <=> conn = "dead",
         Feed!Flush(s), asked' \in BOOLEAN,
         UNCHANGED <<gen, len, held, link, got, retry, probe, view, copy, adopted>>
  PROVE FeedInv'
  <1> DEFINE F == Feed!FrameOf(s)
  <1>1. /\ F \in Feed!Frame /\ FrameTrue(F) /\ F.gen = gen
        /\ F.t = "delta" => ~s.resync /\ s.ref = gen
        /\ Feed!Sent(s) \in Feed!Subscriber /\ Feed!Sent(s).ref = gen /\ ~Feed!Sent(s).timer
        /\ Feed!NotSent(s) \in Feed!Subscriber /\ Feed!NotSent(s).resync
    BY FeedFrame DEF FeedInv
  <1>2. Feed!TypeOK /\ FramesTrue /\ PipeChained /\ SubChained BY DEF FeedInv
  <1>3. /\ pipe \in Seq(Feed!Frame) /\ Len(pipe) \in Nat
        /\ \A i \in 1..Len(pipe) : pipe[i] \in Feed!Frame
    BY <1>2, FeedTypes
  <1> HIDE DEF F
  <1>4. \/ /\ sub' = Feed!Sent(s) /\ conn' # "dead" /\ trouble' = trouble
           /\ pipe' = Append(pipe, F)
        \/ /\ sub' = Feed!Sent(s) /\ conn' = "dead" /\ trouble' = trouble
           /\ pipe' = pipe
        \/ /\ sub' = Feed!NotSent(s) /\ trouble' \in 0..MaxTrouble /\ pipe' = pipe
    BY <1>2 DEF Feed!Flush, Feed!Trouble, FeedBounds, Feed!TypeOK, F
  <1>5. /\ Len(Append(pipe, F)) = Len(pipe) + 1 /\ Append(pipe, F) # <<>>
        /\ Append(pipe, F)[Len(pipe) + 1] = F /\ Append(pipe, F) \in Seq(Feed!Frame)
        /\ \A i \in 1..Len(pipe) : Append(pipe, F)[i] = pipe[i]
    BY <1>1, <1>3
  <1>6. Feed!TypeOK'
    <2>1. sub' \in Feed!Subscriber /\ pipe' \in Seq(Feed!Frame) /\ trouble' \in 0..MaxTrouble
      BY <1>1, <1>2, <1>3, <1>4, <1>5 DEF Feed!TypeOK
    <2> QED BY <1>2, <2>1 DEF Feed!TypeOK, Feed!Subscriber, Feed!Frame, Feed!Copy
  <1>7. FramesTrue'
    <2>1. \A f : FrameTrue(f)' <=> FrameTrue(f) BY DEF FrameTrue
    <2> QED BY <1>1, <1>2, <1>3, <1>4, <1>5, <2>1 DEF FramesTrue
  <1>8. Continues /\ pipe # <<>> => pipe[Len(pipe)].gen = sub.ref BY <1>2 DEF SubChained
  <1>9. F.t = "delta" /\ conn' # "dead" => s = sub /\ Continues /\ sub.ref = gen
    BY <1>1 DEF Continues
  <1>10. PipeChained'
    <2>1. CASE pipe' = pipe BY <1>2, <2>1 DEF PipeChained
    <2>2. CASE conn' # "dead" /\ pipe' = Append(pipe, F)
      <3> SUFFICES ASSUME NEW i \in 1..Len(pipe'), i > 1, pipe'[i].t = "delta"
                   PROVE pipe'[i - 1].gen = pipe'[i].gen
        BY DEF PipeChained
      <3>1. CASE i \in 1..Len(pipe)
        <4>1. i - 1 \in 1..Len(pipe) BY <1>3, <3>1
        <4> QED BY <1>2, <1>5, <2>2, <3>1, <4>1 DEF PipeChained
      <3>2. CASE i = Len(pipe) + 1
        <4>1. i - 1 = Len(pipe) /\ Len(pipe) \in 1..Len(pipe) BY <1>3, <3>2
        <4>2. pipe'[i] = F /\ pipe'[i - 1] = pipe[Len(pipe)] /\ pipe # <<>>
          BY <1>3, <1>5, <2>2, <3>2, <4>1
        <4> QED BY <1>1, <1>8, <1>9, <2>2, <4>2
      <3> QED BY <1>3, <1>5, <2>2, <3>1, <3>2
    <2> QED BY <1>4, <2>1, <2>2
  <1>11. SubChained' BY <1>1, <1>3, <1>4, <1>5 DEF SubChained, Continues
  <1>12. ViewBound' /\ CopyTrue' BY DEF FeedInv, ViewBound, CopyTrue
  <1>13. (adopted = "crossed" \/ ViewChained)'
    <2>1. CASE adopted = "crossed" BY <2>1
    <2>2. CASE ViewChained
      <3>1. view # <<>> /\ pipe' # <<>> /\ pipe'[1].t = "delta" => pipe'[1].gen = view[1]
        <4>1. CASE pipe' = pipe BY <2>2, <4>1 DEF ViewChained
        <4>2. CASE pipe' = Append(pipe, F) /\ pipe = <<>> /\ conn' # "dead"
          <5>1. pipe'[1] = F BY <1>3, <1>5, <4>2
          <5> QED BY <1>1, <1>9, <2>2, <4>2, <5>1 DEF ViewChained
        <4>3. CASE pipe' = Append(pipe, F) /\ pipe # <<>>
          <5>1. 1 \in 1..Len(pipe) BY <1>3, <4>3
          <5>2. pipe'[1] = pipe[1] BY <1>5, <4>3, <5>1
          <5> QED BY <2>2, <4>3, <5>2 DEF ViewChained
        <4> QED BY <1>4, <4>1, <4>2, <4>3
      <3>2. ~(pipe' = <<>> /\ Continues') BY <1>1, <1>4, <1>5 DEF Continues
      <3> QED BY <2>2, <3>1, <3>2 DEF ViewChained
    <2> QED BY <2>1, <2>2 DEF FeedInv
  <1>14. ConnTrue' /\ Feed!GoneIsGone' BY <1>1, <1>4 DEF FeedInv, ConnTrue, Feed!GoneIsGone
  <1> QED BY <1>6, <1>7, <1>10, <1>11, <1>12, <1>13, <1>14 DEF FeedInv

LEMMA FeedGrow ==
  ASSUME FeedBounds, FeedInv, Feed!Grow \/ Feed!Rewrite
  PROVE FeedInv'
  <1>1. /\ Feed!TypeOK /\ FramesTrue /\ CopyTrue /\ PipeChained /\ SubChained /\ ViewBound
        /\ adopted = "crossed" \/ ViewChained
        /\ ConnTrue /\ Feed!GoneIsGone
    BY DEF FeedInv
  <1>2. /\ gen \in Nat /\ len \in Nat /\ gen \in 0..MaxRewrites /\ len \in 0..MaxLen
        /\ Len(pipe) \in Nat /\ \A i \in 1..Len(pipe) : pipe[i] \in Feed!Frame
        /\ Len(view) \in Nat /\ \A i \in 1..Len(view) : view[i] \in 0..MaxRewrites
        /\ view # <<>> => 1 \in 1..Len(view)
        /\ sub \in Feed!Subscriber /\ copy \in Feed!Copy
    BY <1>1, FeedTypes
  <1>3. /\ \/ gen' = gen /\ len' = len + 1 /\ len' \in 0..MaxLen
           \/ gen' = gen + 1 /\ gen' \in 0..MaxRewrites /\ len' \in 0..MaxLen
        /\ UNCHANGED <<held, conn, pipe, asked, link, got, retry, probe, view, copy, adopted, trouble>>
    BY <1>2 DEF Feed!Grow, Feed!Rewrite, Feed!tab, FeedBounds
  <1>4. sub' = IF sub.on THEN [sub EXCEPT !.timer = TRUE] ELSE sub
    BY DEF Feed!Grow, Feed!Rewrite, Feed!Publish
  <1>5. /\ sub' \in Feed!Subscriber /\ sub'.on = sub.on /\ sub'.ref = sub.ref
        /\ sub'.resync = sub.resync /\ (sub'.timer => sub.on \/ sub.timer)
    BY <1>2, <1>4 DEF Feed!Subscriber
  <1>6. Feed!TypeOK'
    BY <1>1, <1>3, <1>5, <1>2 DEF Feed!TypeOK, Feed!Subscriber, Feed!Frame, Feed!Copy
  <1>7. FramesTrue'
    <2> SUFFICES ASSUME NEW i \in 1..Len(pipe) PROVE FrameTrue(pipe[i])'
      BY <1>3 DEF FramesTrue
    <2>1. pipe[i].gen \in Nat /\ pipe[i].upto \in Nat BY <1>2 DEF Feed!Frame
    <2>2. FrameTrue(pipe[i]) BY <1>1 DEF FramesTrue
    <2> QED BY <1>2, <1>3, <2>1, <2>2 DEF FrameTrue
  <1>8. CopyTrue'
    <2>1. copy.gen \in Nat /\ copy.upto \in Nat BY <1>2 DEF Feed!Copy
    <2> QED BY <1>1, <1>2, <1>3, <2>1 DEF CopyTrue
  <1>9. ViewBound'
    <2> SUFFICES ASSUME NEW i \in 1..Len(view) PROVE view[i] <= gen'
      BY <1>3 DEF ViewBound
    <2>1. view[i] \in Nat BY <1>2 DEF FeedBounds
    <2> QED BY <1>1, <1>2, <1>3, <2>1 DEF ViewBound
  <1>10. PipeChained' /\ SubChained' BY <1>1, <1>3, <1>5 DEF PipeChained, SubChained, Continues
  <1>11. (adopted = "crossed" \/ ViewChained)'
    <2>1. CASE adopted = "crossed" BY <1>3, <2>1
    <2>2. CASE ViewChained
      <3>2. view # <<>> => view[1] \in Nat /\ view[1] <= gen BY <1>1, <1>2 DEF ViewBound, FeedBounds
      <3>3. view # <<>> /\ view[1] = gen' => Len(view) <= len'
        BY <1>2, <1>3, <2>2, <3>2 DEF ViewChained
      <3> QED BY <1>3, <1>5, <2>2, <3>3 DEF ViewChained, Continues
    <2> QED BY <1>1, <2>1, <2>2
  <1>12. ConnTrue' /\ Feed!GoneIsGone' BY <1>1, <1>3, <1>5 DEF ConnTrue, Feed!GoneIsGone
  <1> QED BY <1>6, <1>7, <1>8, <1>9, <1>10, <1>11, <1>12 DEF FeedInv

LEMMA FeedDelete ==
  ASSUME FeedBounds, FeedInv, Feed!Delete
  PROVE FeedInv'
  <1> DEFINE G == [t |-> "gone", gen |-> gen, from |-> 0, upto |-> 0]
  <1>1. /\ Feed!TypeOK /\ FramesTrue /\ CopyTrue /\ PipeChained /\ SubChained /\ ViewBound
        /\ adopted = "crossed" \/ ViewChained
        /\ ConnTrue
    BY DEF FeedInv
  <1>2. /\ gen \in Nat /\ len \in Nat /\ gen \in 0..MaxRewrites /\ len \in 0..MaxLen
        /\ pipe \in Seq(Feed!Frame) /\ Len(pipe) \in Nat
        /\ \A i \in 1..Len(pipe) : pipe[i] \in Feed!Frame
    BY <1>1, FeedTypes
  <1>3. /\ held' = FALSE /\ sub' = Feed!NoSub /\ trouble' \in 0..MaxTrouble
        /\ pipe' = pipe \/ pipe' = Append(pipe, G)
        /\ UNCHANGED <<gen, len, conn, asked, link, got, retry, probe, view, copy, adopted>>
    BY <1>1 DEF Feed!Delete, Feed!Trouble, Feed!tab, Feed!TypeOK, FeedBounds
  <1>4. G \in Feed!Frame /\ G.t = "gone" /\ G.gen = gen /\ G.upto = 0
    BY <1>2 DEF Feed!Frame, FeedBounds
  <1> HIDE DEF G
  <1>5. /\ Len(Append(pipe, G)) = Len(pipe) + 1
        /\ Append(pipe, G)[Len(pipe) + 1] = G /\ Append(pipe, G) \in Seq(Feed!Frame)
        /\ \A i \in 1..Len(pipe) : Append(pipe, G)[i] = pipe[i]
    BY <1>2, <1>4
  <1>6. Feed!NoSub \in Feed!Subscriber /\ ~Feed!NoSub.on /\ ~Feed!NoSub.timer
    BY DEF Feed!NoSub, Feed!Subscriber, FeedBounds
  <1>7. Feed!TypeOK'
    BY <1>1, <1>2, <1>3, <1>5, <1>6 DEF Feed!TypeOK, Feed!Subscriber, Feed!Frame, Feed!Copy
  <1>8. FramesTrue'
    <2> SUFFICES ASSUME NEW i \in 1..Len(pipe') PROVE FrameTrue(pipe[i])'
      BY DEF FramesTrue
    <2>1. CASE i \in 1..Len(pipe)
      <3>1. FrameTrue(pipe[i]) /\ pipe'[i] = pipe[i] BY <1>1, <1>3, <1>5, <2>1 DEF FramesTrue
      <3> QED BY <1>3, <3>1 DEF FrameTrue
    <2>2. CASE pipe'[i] = G BY <1>2, <1>3, <1>4, <2>2 DEF FrameTrue
    <2> QED BY <1>2, <1>3, <1>5, <2>1, <2>2
  <1>9. PipeChained'
    <2>1. CASE pipe' = pipe BY <1>1, <2>1 DEF PipeChained
    <2>2. CASE pipe' = Append(pipe, G)
      <3> SUFFICES ASSUME NEW i \in 1..Len(pipe'), i > 1, pipe'[i].t = "delta"
                   PROVE pipe'[i - 1].gen = pipe'[i].gen
        BY DEF PipeChained
      <3>1. i \in 1..Len(pipe) /\ i - 1 \in 1..Len(pipe) BY <1>2, <1>4, <1>5, <2>2
      <3> QED BY <1>1, <1>5, <2>2, <3>1 DEF PipeChained
    <2> QED BY <1>3, <2>1, <2>2
  <1>10. SubChained' /\ ~Continues' BY <1>3, <1>6 DEF SubChained, Continues
  <1>11. ViewBound' /\ CopyTrue' BY <1>1, <1>3 DEF ViewBound, CopyTrue
  <1>12. (adopted = "crossed" \/ ViewChained)'
    <2>1. CASE adopted = "crossed" BY <1>3, <2>1
    <2>2. CASE ViewChained
      <3>1. CASE pipe' = pipe BY <1>3, <1>10, <2>2, <3>1 DEF ViewChained
      <3>2. CASE pipe' = Append(pipe, G)
        <4>1. pipe'[1].t = "delta" => pipe # <<>> /\ pipe'[1] = pipe[1]
          <5>1. CASE pipe = <<>> BY <1>2, <1>4, <1>5, <3>2, <5>1
          <5>2. CASE pipe # <<>>
            <6>1. 1 \in 1..Len(pipe) BY <1>2, <5>2
            <6> QED BY <1>5, <3>2, <5>2, <6>1
          <5> QED BY <5>1, <5>2
        <4> QED BY <1>3, <1>10, <2>2, <4>1 DEF ViewChained
      <3> QED BY <1>3, <3>1, <3>2
    <2> QED BY <1>1, <2>1, <2>2
  <1>13. ConnTrue' /\ Feed!GoneIsGone' BY <1>3, <1>6 DEF ConnTrue, Feed!GoneIsGone
  <1> QED BY <1>7, <1>8, <1>9, <1>10, <1>11, <1>12, <1>13 DEF FeedInv

(* A connection goes, or is made anew: nothing is on its way any more, and nobody is fed. *)
LEMMA FeedCut ==
  ASSUME FeedBounds, FeedInv, pipe' = <<>>, sub' = Feed!NoSub \/ (sub' = sub /\ conn' = "dead"),
         conn' \in {"none", "opening", "open", "dead", "closed", "unknown"},
         trouble' \in 0..MaxTrouble, asked' \in BOOLEAN, got' \in BOOLEAN, retry' \in BOOLEAN,
         probe' \in BOOLEAN, link' \in {"up", "down", "gone"},
         view' = view \/ view' = <<>>, conn' = "unknown" => ~held, link' = "gone" => ~held,
         UNCHANGED <<gen, len, held, copy, adopted>>
  PROVE FeedInv'
  <1>1. Feed!NoSub \in Feed!Subscriber /\ ~Feed!NoSub.on /\ ~Feed!NoSub.timer
    BY DEF Feed!NoSub, Feed!Subscriber, FeedBounds
  <1>2. Feed!TypeOK /\ CopyTrue /\ ViewBound /\ (adopted = "crossed" \/ ViewChained) /\ ConnTrue
    BY DEF FeedInv
  <1>3. Feed!TypeOK'
    <2>1. sub' \in Feed!Subscriber BY <1>1, <1>2 DEF Feed!TypeOK
    <2>2. pipe' \in Seq(Feed!Frame) OBVIOUS
    <2>3. view \in Seq(0..MaxRewrites) BY <1>2 DEF Feed!TypeOK
    <2>4. view' \in Seq(0..MaxRewrites)
      <3>1. CASE view' = <<>> BY <3>1
      <3> QED BY <2>3, <3>1
    <2> QED BY <1>2, <2>1, <2>2, <2>4 DEF Feed!TypeOK, Feed!Subscriber, Feed!Frame, Feed!Copy
  <1>4. Len(pipe') = 0 OBVIOUS
  <1>5. ~Continues' BY <1>1 DEF Continues
  <1>6. FramesTrue' /\ PipeChained' /\ SubChained' BY <1>4, <1>5 DEF FramesTrue, PipeChained, SubChained
  <1>7. CopyTrue' /\ ViewBound' /\ (adopted = "crossed" \/ ViewChained)'
    BY <1>2, <1>5 DEF CopyTrue, ViewBound, ViewChained
  <1>8. ConnTrue' /\ Feed!GoneIsGone' BY <1>1, <1>2 DEF ConnTrue, Feed!GoneIsGone
  <1> QED BY <1>3, <1>6, <1>7, <1>8 DEF FeedInv

(* Steps that leave transcript, frames, copy and subscriber alone. *)
LEMMA FeedAside ==
  ASSUME FeedBounds, FeedInv, sub' = sub \/ sub' = Feed!NoSub,
         conn' \in {"none", "opening", "open", "dead", "closed", "unknown"},
         conn' = "open" => conn = "open", sub'.on \/ sub'.timer => conn' \in {"open", "dead"},
         trouble' \in 0..MaxTrouble, asked' \in BOOLEAN, got' \in BOOLEAN, retry' \in BOOLEAN,
         probe' \in BOOLEAN, link' \in {"up", "down", "gone"},
         conn' = "unknown" => ~held, link' = "gone" => ~held,
         copy' \in Feed!Copy, copy'.gen <= gen, copy'.gen = gen => copy'.upto <= len,
         UNCHANGED <<gen, len, held, pipe, view, adopted>>
  PROVE FeedInv'
  <1>1. Feed!NoSub \in Feed!Subscriber /\ ~Feed!NoSub.on /\ ~Feed!NoSub.timer
    BY DEF Feed!NoSub, Feed!Subscriber, FeedBounds
  <1>2. /\ Feed!TypeOK /\ FramesTrue /\ CopyTrue /\ PipeChained /\ SubChained /\ ViewBound
        /\ adopted = "crossed" \/ ViewChained
        /\ ConnTrue
    BY DEF FeedInv
  <1>3. Feed!TypeOK'
    <2>1. sub' \in Feed!Subscriber BY <1>1, <1>2 DEF Feed!TypeOK
    <2> QED BY <1>2, <2>1 DEF Feed!TypeOK, Feed!Subscriber, Feed!Frame, Feed!Copy
  <1>4. Continues' => Continues /\ sub' = sub BY <1>1 DEF Continues
  <1>5. FramesTrue' /\ PipeChained' /\ SubChained' BY <1>2, <1>4 DEF FramesTrue, FrameTrue, PipeChained, SubChained
  <1>6. CopyTrue' /\ ViewBound' BY <1>2 DEF CopyTrue, ViewBound
  <1>7. (adopted = "crossed" \/ ViewChained)' BY <1>2, <1>4 DEF ViewChained
  <1>8. ConnTrue' /\ Feed!GoneIsGone' BY <1>1, <1>2 DEF ConnTrue, Feed!GoneIsGone
  <1> QED BY <1>3, <1>5, <1>6, <1>7, <1>8 DEF FeedInv

(* The tab takes the next frame off the pipe: what follows continues it, or starts anew. *)
LEMMA FeedPipeTail ==
  ASSUME FeedBounds, FeedInv, pipe # <<>>, pipe' = Tail(pipe), UNCHANGED <<gen, len, held, sub, conn>>
  PROVE /\ pipe' \in Seq(Feed!Frame) /\ FramesTrue' /\ PipeChained' /\ SubChained'
        /\ pipe[1] \in Feed!Frame /\ Head(pipe) = pipe[1] /\ FrameTrue(pipe[1])
        /\ pipe' # <<>> /\ pipe'[1].t = "delta" => pipe'[1].gen = pipe[1].gen
        /\ pipe' = <<>> /\ Continues => sub.ref = pipe[1].gen
  <1>1. FramesTrue /\ PipeChained /\ SubChained /\ Feed!TypeOK BY DEF FeedInv
  <1>2. /\ pipe \in Seq(Feed!Frame) /\ Len(pipe) \in Nat
        /\ \A i \in 1..Len(pipe) : pipe[i] \in Feed!Frame
    BY <1>1, FeedTypes
  <1>3. /\ Len(pipe') = Len(pipe) - 1 /\ pipe' \in Seq(Feed!Frame) /\ Head(pipe) = pipe[1]
        /\ \A i \in 1..Len(pipe') : pipe'[i] = pipe[i + 1] /\ i + 1 \in 1..Len(pipe)
        /\ 1 \in 1..Len(pipe) /\ Len(pipe) \in 1..Len(pipe)
    BY <1>2
  <1>4. FramesTrue'
    <2> SUFFICES ASSUME NEW i \in 1..Len(pipe') PROVE FrameTrue(pipe[i])'
      BY DEF FramesTrue
    <2>1. FrameTrue(pipe[i + 1]) BY <1>1, <1>3 DEF FramesTrue
    <2> QED BY <1>3, <2>1 DEF FrameTrue
  <1>5. PipeChained'
    <2> SUFFICES ASSUME NEW i \in 1..Len(pipe'), i > 1, pipe'[i].t = "delta"
                 PROVE pipe'[i - 1].gen = pipe'[i].gen
      BY DEF PipeChained
    <2>1. i - 1 \in 1..Len(pipe') BY <1>2, <1>3
    <2>2. pipe'[i] = pipe[i + 1] /\ pipe'[i - 1] = pipe[i] BY <1>2, <1>3, <2>1
    <2>3. i + 1 > 1 /\ (i + 1) - 1 = i BY <1>2, <1>3
    <2> QED BY <1>1, <1>3, <2>2, <2>3 DEF PipeChained
  <1>6. SubChained'
    <2>1. pipe' # <<>> => pipe'[Len(pipe')] = pipe[Len(pipe)] BY <1>2, <1>3
    <2> QED BY <1>1, <2>1 DEF SubChained, Continues
  <1>7. pipe' # <<>> /\ pipe'[1].t = "delta" => pipe'[1].gen = pipe[1].gen
    <2>1. pipe' # <<>> => pipe'[1] = pipe[2] /\ 2 \in 1..Len(pipe) BY <1>2, <1>3
    <2> QED BY <1>1, <2>1 DEF PipeChained
  <1>8. pipe' = <<>> => Len(pipe) = 1
    <2>1. pipe' = <<>> => Len(pipe') = 0 OBVIOUS
    <2> QED BY <1>2, <1>3, <2>1
  <1> QED BY <1>1, <1>2, <1>3, <1>4, <1>5, <1>6, <1>7, <1>8 DEF SubChained, FramesTrue

LEMMA FeedOnFrame ==
  ASSUME FeedBounds, FeedInv, Feed!OnFrame
  PROVE FeedInv'
  <1> DEFINE f == pipe[1]
  <1>1. /\ Feed!TypeOK /\ FramesTrue /\ CopyTrue /\ PipeChained /\ SubChained /\ ViewBound
        /\ adopted = "crossed" \/ ViewChained
        /\ ConnTrue /\ Feed!GoneIsGone
    BY DEF FeedInv
  <1>2. /\ gen \in Nat /\ len \in Nat /\ gen \in 0..MaxRewrites /\ len \in 0..MaxLen
        /\ view \in Seq(0..MaxRewrites) /\ Len(view) \in Nat
        /\ \A i \in 1..Len(view) : view[i] \in 0..MaxRewrites
        /\ sub \in Feed!Subscriber /\ copy \in Feed!Copy
        /\ pipe \in Seq(Feed!Frame)
    BY <1>1, FeedTypes
  <1>3. /\ pipe # <<>> /\ conn = "open" /\ link = "up"
        /\ UNCHANGED <<gen, len, held, retry, probe, copy, trouble>>
    BY DEF Feed!OnFrame, Feed!server
  <1>4. Head(pipe) = f /\ f \in Feed!Frame /\ FrameTrue(f)
    <2>1. 1 \in 1..Len(pipe) /\ Head(pipe) = pipe[1] /\ pipe[1] \in Feed!Frame BY <1>2, <1>3
    <2> QED BY <1>1, <2>1 DEF FramesTrue
  <1>5. f.gen \in 0..MaxRewrites /\ f.gen \in Nat /\ f.upto \in Nat /\ f.from \in Nat
    BY <1>4 DEF Feed!Frame, FeedBounds
  <1> HIDE DEF f
  <1>6. \/ /\ f.t = "snapshot" /\ view' = Feed!Whole(f.gen, f.upto) /\ adopted' = "fits"
           /\ got' = TRUE /\ pipe' = Tail(pipe) /\ UNCHANGED <<link, asked, conn, sub>>
        \/ /\ f.t = "delta" /\ f.from = Len(view)
           /\ view' = view \o Feed!Whole(f.gen, f.upto - f.from) /\ pipe' = Tail(pipe)
           /\ UNCHANGED <<link, got, asked, conn, sub, adopted>>
        \/ /\ f.t = "delta" /\ asked' = TRUE /\ pipe' = Tail(pipe)
           /\ adopted' = IF adopted = "crossed" THEN "crossed" ELSE "fits"
           /\ UNCHANGED <<view, link, got, conn, sub>>
        \/ /\ f.t = "gone" /\ link' = "gone" /\ view' = <<>> /\ pipe' = <<>>
           /\ conn' = "none" /\ sub' = Feed!NoSub /\ UNCHANGED <<got, asked, adopted>>
    BY <1>4 DEF Feed!OnFrame, Feed!Placeable
  <1>7. CASE f.t = "gone" /\ link' = "gone" /\ view' = <<>> /\ pipe' = <<>> /\ conn' = "none"
             /\ sub' = Feed!NoSub /\ UNCHANGED <<got, asked, adopted>>
    <2>1. ~held BY <1>4, <1>7 DEF FrameTrue
    <2>2. /\ trouble' \in 0..MaxTrouble /\ asked' \in BOOLEAN /\ got' \in BOOLEAN
          /\ retry' \in BOOLEAN /\ probe' \in BOOLEAN
      BY <1>1, <1>3, <1>7, FeedTypes DEF Feed!TypeOK
    <2> QED BY <1>3, <1>7, <2>1, <2>2, FeedCut
  <1>8. CASE f.t # "gone" /\ pipe' = Tail(pipe) /\ UNCHANGED <<link, conn, sub>>
    <2>1. /\ pipe' \in Seq(Feed!Frame) /\ FramesTrue' /\ PipeChained' /\ SubChained'
          /\ pipe' # <<>> /\ pipe'[1].t = "delta" => pipe'[1].gen = f.gen
          /\ pipe' = <<>> /\ Continues => sub.ref = f.gen
      BY <1>3, <1>8, FeedPipeTail DEF f
    <2>2. ConnTrue' /\ Feed!GoneIsGone' /\ CopyTrue' /\ (Continues' <=> Continues)
      BY <1>1, <1>3, <1>8 DEF ConnTrue, Feed!GoneIsGone, CopyTrue, Continues
    <2>3. /\ view' \in Seq(0..MaxRewrites) /\ ViewBound' /\ (adopted = "crossed" \/ ViewChained)'
          /\ adopted' \in {"fits", "behind", "crossed"} /\ asked' \in BOOLEAN /\ got' \in BOOLEAN
      <3>1. CASE /\ f.t = "snapshot" /\ view' = Feed!Whole(f.gen, f.upto) /\ adopted' = "fits"
                 /\ got' = TRUE /\ asked' = asked
        <4>1. /\ Len(view') = f.upto /\ \A i \in 1..Len(view') : view'[i] = f.gen
              /\ view' \in Seq(0..MaxRewrites) /\ (view' # <<>> => view'[1] = f.gen)
          BY <1>5, <3>1, FeedWhole
        <4>2. ViewBound' BY <1>3, <1>4, <4>1 DEF ViewBound, FrameTrue
        <4>3. ViewChained'
          BY <1>3, <1>4, <2>1, <2>2, <1>8, <4>1 DEF ViewChained, FrameTrue
        <4>4. asked' \in BOOLEAN /\ got' \in BOOLEAN BY <1>1, <3>1, FeedTypes
        <4>5. adopted' \in {"fits", "behind", "crossed"} BY <3>1
        <4> QED BY <4>1, <4>2, <4>3, <4>4, <4>5
      <3>2. CASE /\ f.t = "delta" /\ f.from = Len(view) /\ UNCHANGED <<got, asked, adopted>>
                 /\ view' = view \o Feed!Whole(f.gen, f.upto - f.from)
        <4> DEFINE W == Feed!Whole(f.gen, f.upto - f.from)
        <4>1. f.upto - f.from \in Nat BY <1>4, <1>5, <3>2 DEF FrameTrue
        <4>2. /\ Len(W) = f.upto - f.from /\ W \in Seq(0..MaxRewrites)
              /\ \A i \in 1..Len(W) : W[i] = f.gen
          BY <1>5, <4>1, FeedWhole
        <4>3. view' = view \o W BY <3>2
        <4> HIDE DEF W
        <4>4. /\ view' \in Seq(0..MaxRewrites) /\ Len(view') = f.upto
              /\ \A i \in 1..Len(view') :
                   (i \in 1..Len(view) /\ view'[i] = view[i]) \/ view'[i] = f.gen
              /\ \A i \in 1..Len(view) : view'[i] = view[i]
          <5>1. Len(view') = f.upto
            <6>1. view \in Seq(0..MaxRewrites) /\ W \in Seq(0..MaxRewrites) BY <1>2, <4>2
            <6>2. Len(view') = Len(view) + Len(W) BY <4>3, <6>1
            <6>3. Len(view) \in Nat /\ Len(W) = f.upto - f.from BY <1>2, <4>2
            <6> QED BY <1>5, <3>2, <4>1, <6>2, <6>3
          <5>2. view' \in Seq(0..MaxRewrites) BY <1>2, <4>2, <4>3
          <5>3. \A i \in 1..Len(view) : view'[i] = view[i] BY <1>2, <4>2, <4>3
          <5>4. ASSUME NEW i \in 1..Len(view'), i \notin 1..Len(view) PROVE view'[i] = f.gen
            <6>1. i - Len(view) \in 1..Len(W) BY <1>2, <1>5, <3>2, <4>2, <5>1, <5>4
            <6>2. view'[i] = W[i - Len(view)] BY <1>2, <4>2, <4>3, <5>4, <6>1
            <6> QED BY <4>2, <6>1, <6>2
          <5> QED BY <5>1, <5>2, <5>3, <5>4
        <4>5. ViewBound' BY <1>1, <1>3, <1>4, <4>4 DEF ViewBound, FrameTrue
        <4>6. (adopted = "crossed" \/ ViewChained)'
          <5>1. CASE adopted = "crossed" BY <3>2, <5>1
          <5>2. CASE ViewChained
            <6>1. \A i \in 1..Len(view) : view[i] = f.gen
              <7>1. view # <<>> => f.gen = view[1] BY <1>3, <3>2, <5>2 DEF ViewChained, f
              <7> QED BY <1>2, <5>2, <7>1 DEF ViewChained
            <6>2. \A i \in 1..Len(view') : view'[i] = f.gen BY <4>4, <6>1
            <6>3. view' # <<>> => view'[1] = f.gen BY <1>5, <4>4, <6>2
            <6>4. view' # <<>> /\ view'[1] = gen' => Len(view') <= len'
              BY <1>3, <1>4, <4>4, <6>3 DEF FrameTrue
            <6>5. \A i \in 1..Len(view') : view'[i] = view'[1] BY <1>5, <4>4, <6>2
            <6> QED BY <1>8, <2>1, <2>2, <6>3, <6>4, <6>5 DEF ViewChained
          <5> QED BY <1>1, <5>1, <5>2
        <4> QED BY <1>1, <3>2, <4>4, <4>5, <4>6, FeedTypes DEF Feed!TypeOK
      <3>3. CASE /\ f.t = "delta" /\ asked' = TRUE /\ UNCHANGED <<view, got>>
                 /\ adopted' = IF adopted = "crossed" THEN "crossed" ELSE "fits"
        <4>1. ViewBound' BY <1>1, <1>3, <3>3 DEF ViewBound
        <4>2. (adopted = "crossed" \/ ViewChained)'
          <5>1. CASE adopted = "crossed" BY <3>3, <5>1
          <5>2. CASE ViewChained
            <6>1. view # <<>> => f.gen = view[1] BY <1>3, <3>3, <5>2 DEF ViewChained, f
            <6> QED BY <1>3, <1>8, <2>1, <2>2, <3>3, <5>2, <6>1 DEF ViewChained
          <5> QED BY <1>1, <5>1, <5>2
        <4> QED BY <1>1, <1>2, <3>3, <4>1, <4>2, FeedTypes
      <3> QED BY <1>6, <1>8, <3>1, <3>2, <3>3
    <2>4. Feed!TypeOK'
      BY <1>1, <1>3, <1>8, <2>1, <2>3 DEF Feed!TypeOK, Feed!Subscriber, Feed!Frame, Feed!Copy
    <2> QED BY <2>1, <2>2, <2>3, <2>4 DEF FeedInv
  <1> QED BY <1>6, <1>7, <1>8

LEMMA FeedAdopt ==
  ASSUME FeedBounds, FeedInv, Feed!Adopt
  PROVE FeedInv'
  <1>1. /\ Feed!TypeOK /\ FramesTrue /\ CopyTrue /\ PipeChained /\ SubChained
        /\ ConnTrue /\ Feed!GoneIsGone
    BY DEF FeedInv
  <1>2. /\ gen \in Nat /\ len \in Nat /\ copy \in Feed!Copy /\ Len(pipe) \in Nat /\ pipe \in Seq(Feed!Frame)
    BY <1>1, FeedTypes
  <1>3. copy.gen \in 0..MaxRewrites /\ copy.gen \in Nat /\ copy.upto \in Nat
    BY <1>2 DEF Feed!Copy, FeedBounds
  <1>4. /\ view' = Feed!Whole(copy.gen, copy.upto) /\ copy' = [copy EXCEPT !.t = "adopted"]
        /\ UNCHANGED <<gen, len, held, sub, conn, pipe, asked, link, got, retry, probe, trouble>>
    BY DEF Feed!Adopt, Feed!server, Feed!tab
  <1>5. \/ adopted' = "fits" /\ Feed!Feeds \subseteq {copy.gen}
        \/ adopted' = "behind" /\ Feed!Feeds \subseteq {copy.gen}
        \/ adopted' = "crossed"
    <2> HIDE DEF Feed!Feeds, Feed!Baseline
    <2>1. CASE Feed!Feeds = {} BY <2>1 DEF Feed!Adopt
    <2>2. CASE Feed!Feeds # {} /\ Feed!Feeds # {copy.gen} BY <2>2 DEF Feed!Adopt
    <2>3. CASE Feed!Feeds = {copy.gen} BY <2>3 DEF Feed!Adopt
    <2> QED BY <2>1, <2>2, <2>3
  <1>6. /\ Len(view') = copy.upto /\ \A i \in 1..Len(view') : view'[i] = copy.gen
        /\ view' \in Seq(0..MaxRewrites) /\ (view' # <<>> => view'[1] = copy.gen)
    BY <1>3, <1>4, FeedWhole
  <1>7. copy' \in Feed!Copy /\ copy'.gen = copy.gen /\ copy'.upto = copy.upto
    BY <1>2, <1>4 DEF Feed!Copy
  <1>8. Feed!TypeOK'
    <2>1. adopted' \in {"fits", "behind", "crossed"} BY <1>5
    <2>2. view' \in Seq(0..MaxRewrites) /\ copy' \in Feed!Copy BY <1>6, <1>7
    <2> QED BY <1>1, <1>4, <2>1, <2>2 DEF Feed!TypeOK, Feed!Subscriber, Feed!Frame, Feed!Copy
  <1>9. FramesTrue' /\ PipeChained' /\ SubChained' /\ ConnTrue' /\ Feed!GoneIsGone'
    BY <1>1, <1>4
    DEF FramesTrue, FrameTrue, PipeChained, SubChained, ConnTrue, Feed!GoneIsGone, Continues
  <1>10. CopyTrue' /\ ViewBound' BY <1>1, <1>4, <1>6, <1>7 DEF CopyTrue, ViewBound
  <1>11. ASSUME Feed!Feeds \subseteq {copy.gen} PROVE ViewChained'
    <2>1. pipe # <<>> => pipe[1].gen = copy.gen
      <3>1. pipe # <<>> => 1 \in 1..Len(pipe) BY <1>2
      <3> QED BY <1>11, <3>1 DEF Feed!Feeds
    <2>2. sub.on => sub.ref = copy.gen BY <1>11 DEF Feed!Feeds
    <2> QED BY <1>1, <1>4, <1>6, <2>1, <2>2 DEF ViewChained, CopyTrue, Continues
  <1> QED BY <1>5, <1>8, <1>9, <1>10, <1>11 DEF FeedInv

LEMMA FeedInitial ==
  ASSUME FeedBounds, Feed!Init
  PROVE FeedInv
  <1>1. Len(pipe) = 0 /\ Len(view) = 0 /\ ~sub.on /\ ~sub.timer BY DEF Feed!Init, Feed!NoSub
  <1>2. pipe \in Seq(Feed!Frame) /\ view \in Seq(0..MaxRewrites) BY DEF Feed!Init
  <1>3. sub \in Feed!Subscriber /\ copy \in Feed!Copy
    BY DEF Feed!Init, Feed!NoSub, Feed!NoCopy, Feed!Subscriber, Feed!Copy, FeedBounds
  <1>4. Feed!TypeOK
    <2>1. {asked, got, retry, probe} \subseteq BOOLEAN BY DEF Feed!Init
    <2>2. gen \in 0..MaxRewrites /\ len \in 0..MaxLen /\ trouble \in 0..MaxTrouble
      BY DEF Feed!Init, FeedBounds
    <2> QED BY <1>2, <1>3, <2>1, <2>2 DEF Feed!Init, Feed!TypeOK
  <1>5. CopyTrue BY DEF Feed!Init, Feed!NoCopy, CopyTrue, FeedBounds
  <1> QED BY <1>1, <1>4, <1>5
    DEF FeedInv, Feed!Init, FramesTrue, PipeChained, SubChained, ViewBound, ViewChained, ConnTrue,
        Feed!GoneIsGone, Continues

LEMMA FeedNext ==
  ASSUME FeedBounds, FeedInv, Feed!Next
  PROVE FeedInv'
  <1>1. Feed!TypeOK /\ ConnTrue /\ Feed!GoneIsGone /\ CopyTrue BY DEF FeedInv
  <1>2. /\ gen \in Nat /\ len \in Nat /\ gen \in 0..MaxRewrites /\ len \in 0..MaxLen
        /\ sub \in Feed!Subscriber /\ copy \in Feed!Copy /\ held \in BOOLEAN
        /\ asked \in BOOLEAN /\ got \in BOOLEAN /\ retry \in BOOLEAN /\ probe \in BOOLEAN
    BY <1>1, FeedTypes
  <1>3. /\ trouble \in 0..MaxTrouble /\ link \in {"up", "down", "gone"}
        /\ conn \in {"none", "opening", "open", "dead", "closed", "unknown"}
        /\ Feed!Trouble => trouble' \in 0..MaxTrouble
    BY <1>1 DEF Feed!TypeOK, Feed!Trouble, FeedBounds
  <1>4. ~Feed!NoSub.on /\ ~Feed!NoSub.timer BY DEF Feed!NoSub
  <1>5. copy.gen <= gen /\ (copy.gen = gen => copy.upto <= len) BY <1>1 DEF CopyTrue
  <1>6. CASE Feed!Grow \/ Feed!Rewrite BY <1>6, FeedGrow
  <1>7. CASE Feed!Delete BY <1>7, FeedDelete
  <1>8. CASE Feed!Breaks
    BY <1>1, <1>2, <1>3, <1>8, FeedCut DEF Feed!Breaks, Feed!server, Feed!tab, Feed!GoneIsGone
  <1>9. CASE Feed!Freezes
    BY <1>1, <1>2, <1>3, <1>9, FeedCut DEF Feed!Freezes, Feed!server, Feed!tab, Feed!GoneIsGone
  <1>10. CASE Feed!RetryFires \/ Feed!Poke
    BY <1>1, <1>2, <1>3, <1>10, FeedCut DEF Feed!RetryFires, Feed!Poke, Feed!Connect, Feed!server
  <1>11. CASE Feed!FetchCopy
    <2>1. copy' = [t |-> "fetched", gen |-> gen, upto |-> len] BY <1>11 DEF Feed!FetchCopy
    <2>2. copy' \in Feed!Copy /\ copy'.gen = gen /\ copy'.upto = len BY <1>2, <2>1 DEF Feed!Copy
    <2>3. UNCHANGED <<gen, len, held, sub, conn, pipe, asked, link, got, retry, probe, view, adopted, trouble>>
      BY <1>11 DEF Feed!FetchCopy, Feed!server, Feed!tab
    <2> QED BY <1>1, <1>2, <1>3, <2>2, <2>3, FeedAside DEF ConnTrue, Feed!GoneIsGone
  <1>12. CASE Feed!Adopt BY <1>12, FeedAdopt
  <1>13. CASE Feed!TimerFires
    <2>1. /\ sub.on \/ sub.resync
          /\ Feed!Flush(sub) /\ conn \in {"open", "dead"}
          /\ asked' \in BOOLEAN
      BY <1>1, <1>2, <1>13 DEF Feed!TimerFires, ConnTrue
    <2> QED BY <1>2, <1>13, <2>1, FeedFlush DEF Feed!TimerFires, Feed!server, Feed!tab
  <1>14. CASE Feed!Subscribe
    <2> DEFINE s == [Feed!NoSub EXCEPT !.on = TRUE, !.ref = gen, !.resync = TRUE]
    <2> HIDE DEF Feed!NoSub
    <2>1. s \in Feed!Subscriber /\ s.resync
      <3>1. Feed!NoSub \in Feed!Subscriber BY DEF Feed!NoSub, Feed!Subscriber, FeedBounds
      <3> QED BY <1>2, <3>1 DEF Feed!Subscriber
    <2>2. /\ conn = "opening" /\ ~sub.on /\ ~sub.timer
          /\ UNCHANGED <<gen, len, held, asked, link, got, retry, probe, view, copy, adopted>>
      BY <1>1, <1>14 DEF Feed!Subscribe, Feed!server, Feed!tab, ConnTrue
    <2>3. CASE conn' = "open" /\ Feed!Flush(s)
      <3> HIDE DEF s
      <3> QED BY <1>2, <2>1, <2>2, <2>3, FeedFlush
    <2>4. CASE /\ conn' \in {"closed", "unknown"} /\ (conn' = "unknown" => ~held)
               /\ UNCHANGED <<sub, pipe>> /\ trouble' \in 0..MaxTrouble
      BY <1>1, <1>2, <1>3, <1>5, <2>2, <2>4, FeedAside DEF Feed!GoneIsGone, ConnTrue
    <2> QED BY <1>3, <1>14, <2>3, <2>4 DEF Feed!Subscribe
  <1>15. CASE Feed!ServeResync
    <2> DEFINE s == [sub EXCEPT !.resync = TRUE]
    <2>1. s \in Feed!Subscriber /\ s.resync BY <1>2 DEF Feed!Subscriber
    <2>2. /\ conn = "open" /\ asked' = FALSE /\ Feed!Flush(s)
          /\ UNCHANGED <<gen, len, held, conn, link, got, retry, probe, view, copy, adopted>>
      BY <1>15 DEF Feed!ServeResync, Feed!server, Feed!tab
    <2> HIDE DEF s
    <2> QED BY <2>1, <2>2, FeedFlush
  <1>16. CASE Feed!Recycle
    BY <1>1, <1>2, <1>3, <1>4, <1>5, <1>16, FeedAside DEF Feed!Recycle, Feed!server
  <1>17. CASE Feed!OnClose
    <2>1. /\ conn \in {"closed", "unknown"} /\ conn' = "none" /\ ~sub.on /\ ~sub.timer
          /\ link' = IF conn = "unknown" THEN "gone" ELSE "down"
          /\ UNCHANGED <<gen, len, held, sub, pipe, asked, got, view, copy, adopted, trouble>>
      BY <1>1, <1>17 DEF Feed!OnClose, Feed!server, ConnTrue
    <2>2. retry' \in BOOLEAN /\ probe' \in BOOLEAN BY <1>17 DEF Feed!OnClose
    <2>3. link' \in {"up", "down", "gone"} /\ (link' = "gone" => ~held)
      BY <1>1, <2>1 DEF ConnTrue
    <2> QED BY <1>2, <1>3, <1>5, <2>1, <2>2, <2>3, FeedAside
  <1>18. CASE Feed!Probed
    <2>1. /\ probe' = FALSE /\ UNCHANGED <<gen, len, held, asked, got, view, copy, adopted>>
          /\ trouble' \in 0..MaxTrouble
          /\ \/ UNCHANGED <<link, retry, conn, sub, pipe>>
             \/ /\ link' = "gone" /\ retry' = FALSE /\ ~held
                /\ conn' = "none" /\ sub' = Feed!NoSub /\ pipe' = <<>>
             \/ retry' = TRUE /\ UNCHANGED <<link, conn, sub, pipe>>
      BY <1>3, <1>18 DEF Feed!Probed, Feed!server, Feed!Verdict
    <2>2. CASE UNCHANGED <<link, conn, sub, pipe>> /\ retry' \in BOOLEAN
      BY <1>1, <1>2, <1>3, <1>5, <2>1, <2>2, FeedAside DEF ConnTrue, Feed!GoneIsGone
    <2>3. CASE /\ link' = "gone" /\ retry' = FALSE /\ ~held
               /\ conn' = "none" /\ sub' = Feed!NoSub /\ pipe' = <<>>
      BY <1>2, <1>3, <2>1, <2>3, FeedCut
    <2> QED BY <1>2, <2>1, <2>2, <2>3
  <1>19. CASE Feed!OnFrame BY <1>19, FeedOnFrame
  <1> QED
    BY <1>6, <1>7, <1>8, <1>9, <1>10, <1>11, <1>12, <1>13, <1>14, <1>15, <1>16, <1>17, <1>18, <1>19
    DEF Feed!Next

(* The other parts' steps leave the feed alone. *)
LEMMA FeedStutter ==
  ASSUME FeedInv, UNCHANGED feedVars
  PROVE FeedInv'
  <1>1. /\ UNCHANGED <<gen, len, held, sub, conn, pipe, asked, link, got>>
        /\ UNCHANGED <<retry, probe, view, copy, adopted, trouble>>
    BY DEF feedVars
  <1>2. Feed!TypeOK'
    BY <1>1 DEF FeedInv, Feed!TypeOK, Feed!Subscriber, Feed!Frame, Feed!Copy
  <1>3. FramesTrue' /\ CopyTrue' /\ PipeChained' /\ SubChained' /\ ViewBound'
    BY <1>1
    DEF FeedInv, FramesTrue, FrameTrue, CopyTrue, PipeChained, SubChained, ViewBound, Continues
  <1>4. (adopted = "crossed" \/ ViewChained)' BY <1>1 DEF FeedInv, ViewChained, Continues
  <1>5. ConnTrue' /\ Feed!GoneIsGone' BY <1>1 DEF FeedInv, ConnTrue, Feed!GoneIsGone
  <1> QED BY <1>2, <1>3, <1>4, <1>5 DEF FeedInv

LEMMA FeedStepKeeps ==
  ASSUME FeedBounds
  PROVE FeedInv /\ [Next]_vars => FeedInv'
  <1> SUFFICES ASSUME FeedInv, [Next]_vars PROVE FeedInv' OBVIOUS
  <1>1. CASE FeedStep BY <1>1, FeedNext DEF FeedStep
  <1>2. CASE NotesStep BY <1>2, FeedStutter DEF NotesStep
  <1>3. CASE RecorderStep BY <1>3, FeedStutter DEF RecorderStep
  <1>4. CASE FilesStep BY <1>4, FeedStutter DEF FilesStep
  <1>5. CASE UNCHANGED vars BY <1>5, FeedStutter DEF vars
  <1> QED BY <1>1, <1>2, <1>3, <1>4, <1>5 DEF Next

(* The transcript a tab shows has no hole and is never made of two arrays, except where an *)
(* adopted copy crossed the feed; and a tab gives a session up only when it is gone,       *)
(* whatever frames are dropped and connections break (feed.ts #flush, sessions.svelte.ts   *)
(* applyFrame, session-socket.ts).                                                         *)
THEOREM TranscriptIsTrueAlways ==
  ASSUME FeedBounds
  PROVE Spec => []TranscriptIsTrue
  <1>1. Init => FeedInv BY FeedInitial DEF Init
  <1>2. FeedInv => TranscriptIsTrue
    <2> SUFFICES ASSUME FeedInv PROVE TranscriptIsTrue OBVIOUS
    <2>1. adopted = "crossed" \/ ViewChained BY DEF FeedInv
    <2>2. Len(view) \in Nat /\ (view # <<>> => 1 \in 1..Len(view)) BY FeedTypes DEF FeedInv
    <2>3. Feed!WholeTranscript
      BY <2>1, <2>2 DEF Feed!WholeTranscript, ViewChained
    <2> QED BY <2>3 DEF TranscriptIsTrue, FeedInv
  <1> QED BY <1>1, <1>2, FeedStepKeeps, PTL DEF Spec

----------------------------------------------------------------------------

(* The voice recorder *)
RecBounds == MaxRequests \in Nat /\ MaxTroubles \in Nat

(* A recorder listens to the microphone the controller holds, and a destroyed one to none. *)
EngineHeld == engine \subseteq {c.stream} /\ engine \subseteq {c.rec} /\ (c.destroyed => engine = {})

(* A microphone that is open is the controller's, or was never given to a recorder. *)
MicHeld == \A n \in mics : n \in refused \/ (n = c.stream /\ ~c.destroyed)

(* The controller holds none while it asks for one, and otherwise only while it records. *)
StreamShown ==
  /\ c.req \in asking /\ ~c.destroyed => c.stream = 0
  /\ c.stream # 0 /\ ~c.destroyed =>
       c.ui = "recording" \/ (late /\ c.ui \in {"recorded", "submitting"})

(* Until an older request is refused late, the bar does one thing at a time. *)
OneTake ==
  /\ c.req \in asking => c.ui = "requesting" /\ ~c.destroyed
  /\ c.take # 0 /\ ~c.destroyed => c.ui \in {"recorded", "submitting"}
  /\ sending # {} =>
       /\ ended = {} /\ \A m, n \in sending : m = n
       /\ \/ sending = {c.take} /\ (c.destroyed \/ c.ui = "submitting")
          \/ c.destroyed /\ c.take = 0
  /\ ended # {} =>
       /\ sending = {} /\ c.take = 0 /\ engine = {} /\ \A m, n \in ended : m = n
       /\ c.destroyed \/ c.ui \in {"recording", "idle"}

AskedBefore == \A n \in asking : n <= c.req

RecInv ==
  /\ Recorder!TypeOK /\ AskedBefore /\ EngineHeld /\ MicHeld /\ StreamShown
  /\ late \/ OneTake

LEMMA RecTypes ==
  ASSUME RecBounds, Recorder!TypeOK
  PROVE /\ c \in Recorder!Controller /\ asking \subseteq 1..MaxRequests
        /\ mics \subseteq 1..MaxRequests /\ engine \subseteq 1..MaxRequests
        /\ ended \subseteq 1..MaxRequests /\ sending \subseteq 1..MaxRequests
        /\ discarded \subseteq 1..MaxRequests /\ refused \subseteq 1..MaxRequests
        /\ disabled \in BOOLEAN /\ late \in BOOLEAN /\ troubles \in 0..MaxTroubles
  BY DEF Recorder!TypeOK, Recorder!Requests

LEMMA RecTyped ==
  ASSUME c' \in Recorder!Controller, asking' \subseteq 1..MaxRequests,
         mics' \subseteq 1..MaxRequests, engine' \subseteq 1..MaxRequests,
         ended' \subseteq 1..MaxRequests, sending' \subseteq 1..MaxRequests,
         discarded' \subseteq 1..MaxRequests, refused' \subseteq 1..MaxRequests,
         disabled' \in BOOLEAN, late' \in BOOLEAN, troubles' \in 0..MaxTroubles
  PROVE Recorder!TypeOK'
  <1>1. UNION {asking', mics', engine', ended', sending', discarded', refused'} \subseteq 1..MaxRequests
    OBVIOUS
  <1> QED BY <1>1 DEF Recorder!TypeOK, Recorder!Requests, Recorder!Controller, Recorder!States, Recorder!Takes

(* The fields of a controller. *)
LEMMA RecFields ==
  ASSUME RecBounds, RecInv
  PROVE /\ c.ui \in {"idle", "requesting", "recording", "recorded", "submitting", "error"}
        /\ c \in Recorder!Controller /\ c.req \in Nat /\ c.stream \in Recorder!Takes
        /\ c.rec \in Recorder!Takes /\ c.take \in Recorder!Takes /\ c.chunks \in Recorder!Takes
        /\ 0 \in Recorder!Takes /\ \A n \in 1..MaxRequests : n \in Recorder!Takes
        /\ {"idle", "requesting", "recording", "recorded", "submitting", "error"} = Recorder!States
        /\ 0 \notin engine /\ 0 \notin mics /\ 0 \notin asking /\ c.req + 1 \notin asking
  <1>1. c \in Recorder!Controller /\ asking \subseteq 1..MaxRequests /\ engine \subseteq 1..MaxRequests
        /\ mics \subseteq 1..MaxRequests
    BY RecTypes DEF RecInv
  <1>2. c.req \in Nat BY <1>1 DEF Recorder!Controller
  <1>3. c.req + 1 \notin asking BY <1>2 DEF RecInv, AskedBefore
  <1>4. 0 \notin 1..MaxRequests OBVIOUS
  <1> QED BY <1>1, <1>3, <1>4 DEF Recorder!Controller, Recorder!States, Recorder!Takes, Recorder!Requests

LEMMA RecStart ==
  ASSUME RecBounds, RecInv, Recorder!Start
  PROVE RecInv'
  <1>1. /\ Recorder!TypeOK /\ AskedBefore /\ EngineHeld /\ MicHeld /\ StreamShown
        /\ late \/ OneTake
    BY DEF RecInv
  <1>2. /\ ended = {} /\ ~c.destroyed /\ c.ui \in {"idle", "error"} /\ c.req < MaxRequests
        /\ asking' = asking \union {c.req + 1}
        /\ UNCHANGED <<mics, engine, ended, sending, disabled, troubles, discarded, refused, late>>
    BY DEF Recorder!Start, Recorder!facts
  <1>3. /\ c' \in Recorder!Controller
        /\ c'.ui = "requesting" /\ c'.req = c.req + 1 /\ c'.take = 0
        /\ c'.stream = c.stream /\ c'.rec = c.rec /\ c'.destroyed = c.destroyed
    <2>1. c \in Recorder!Controller /\ c.req + 1 \in Nat /\ "requesting" \in Recorder!States /\ 0 \in Recorder!Takes
      BY RecFields
    <2>2. c' = [c EXCEPT !.ui = "requesting", !.req = @ + 1, !.take = 0] BY DEF Recorder!Start
    <2> QED BY <2>1, <2>2 DEF Recorder!Controller
  <1>4. c.stream = 0 BY <1>1, <1>2 DEF StreamShown
  <1>5. Recorder!TypeOK'
    <2>1. c.req + 1 \in 1..MaxRequests BY <1>2, RecFields DEF RecBounds
    <2> QED BY <1>1, <1>2, <1>3, <2>1, RecTypes, RecTyped
  <1>6. AskedBefore' BY <1>1, <1>2, <1>3, RecFields, RecTypes DEF AskedBefore
  <1>7. EngineHeld' /\ MicHeld' /\ StreamShown'
    BY <1>1, <1>2, <1>3, <1>4 DEF EngineHeld, MicHeld, StreamShown
  <1>8. (late \/ OneTake)'
    <2>1. sending # {} => late BY <1>1, <1>2 DEF OneTake
    <2> QED BY <1>1, <1>2, <1>3, <2>1 DEF OneTake
  <1> QED BY <1>5, <1>6, <1>7, <1>8 DEF RecInv

(* Closing the microphone at hand ends the recorder that listens to it, and no other listens. *)
LEMMA RecClosed ==
  ASSUME RecBounds, RecInv, Recorder!CloseMics({c.stream})
  PROVE /\ mics' \subseteq 1..MaxRequests /\ engine' = {} /\ ended' \subseteq 1..MaxRequests
        /\ ended' = ended \union engine
        /\ \A n \in mics' : n \in refused
        /\ engine # {} => ~c.destroyed /\ c.rec \in engine /\ engine = {c.rec} /\ c.stream # 0
        /\ late \/ (engine # {} => ended = {} /\ sending = {} /\ c.ui = "recording" /\ c.take = 0)
  <1>1. /\ EngineHeld /\ MicHeld /\ StreamShown /\ Recorder!TypeOK
        /\ late \/ OneTake
    BY DEF RecInv
  <1>2. /\ mics' = mics \ {c.stream} /\ engine' = engine \ {c.stream}
        /\ ended' = ended \union (engine \cap {c.stream})
    BY DEF Recorder!CloseMics
  <1>3. engine' = {} /\ ended' = ended \union engine BY <1>1, <1>2 DEF EngineHeld
  <1>4. engine # {} => ~c.destroyed /\ c.rec \in engine /\ engine = {c.rec} /\ c.stream # 0
    BY <1>1, RecFields DEF EngineHeld
  <1>5. \A n \in mics' : n \in refused BY <1>1, <1>2 DEF MicHeld
  <1>6. late \/ (engine # {} => ended = {} /\ sending = {} /\ c.ui = "recording" /\ c.take = 0)
    BY <1>1, <1>4 DEF StreamShown, OneTake
  <1> QED BY <1>1, <1>2, <1>3, <1>4, <1>5, <1>6, RecTypes

LEMMA RecCancel ==
  ASSUME RecBounds, RecInv
  PROVE /\ Recorder!Cancelled(c) \in Recorder!Controller
        /\ Recorder!Cancelled(c).req = c.req + 1 /\ Recorder!Cancelled(c).take = 0
        /\ Recorder!Cancelled(c).stream = 0
        /\ Recorder!Cancelled(c).destroyed = c.destroyed
        /\ engine # {} => Recorder!Cancelled(c).ui = c.ui
        /\ engine = {} => Recorder!Cancelled(c).ui = "idle"
  <1> DEFINE next == [c EXCEPT !.req = @ + 1, !.take = 0, !.stream = 0]
  <1>1. c \in Recorder!Controller /\ c.req + 1 \in Nat /\ 0 \in Recorder!Takes /\ "idle" \in Recorder!States
    BY RecFields
  <1>2. next \in Recorder!Controller /\ next.req = c.req + 1 /\ next.take = 0 /\ next.stream = 0
        /\ next.destroyed = c.destroyed /\ next.ui = c.ui
    BY <1>1 DEF Recorder!Controller
  <1>3. c.rec \in engine <=> engine # {} BY DEF RecInv, EngineHeld
  <1>4. Recorder!Cancelled(c) =
          IF c.rec \in engine THEN [next EXCEPT !.discard = TRUE, !.stopping = TRUE]
          ELSE Recorder!Idle(Recorder!Released(next))
    BY DEF Recorder!Cancelled
  <1> HIDE DEF next
  <1>5. CASE engine # {}
    <2>1. Recorder!Cancelled(c) = [next EXCEPT !.discard = TRUE, !.stopping = TRUE]
      BY <1>3, <1>4, <1>5
    <2> QED BY <1>2, <1>5, <2>1 DEF Recorder!Controller
  <1>6. CASE engine = {}
    <2> DEFINE r == Recorder!Released(next)
    <2>1. r \in Recorder!Controller /\ r.req = c.req + 1 /\ r.stream = 0 /\ r.destroyed = c.destroyed
      BY <1>1, <1>2 DEF Recorder!Controller, Recorder!Released
    <2>2. Recorder!Cancelled(c) = Recorder!Idle(r) BY <1>3, <1>4, <1>6
    <2> HIDE DEF r
    <2> DEFINE i == [r EXCEPT !.ui = "idle", !.take = 0]
    <2>3. /\ i \in Recorder!Controller /\ i.req = c.req + 1 /\ i.stream = 0 /\ i.take = 0
          /\ i.destroyed = c.destroyed /\ i.ui = "idle"
      BY <1>1, <2>1 DEF Recorder!Controller
    <2>4. Recorder!Cancelled(c) = i BY <2>2 DEF Recorder!Idle
    <2> HIDE DEF i
    <2> QED BY <1>6, <2>3, <2>4
  <1> QED BY <1>5, <1>6

LEMMA RecFail ==
  ASSUME RecBounds, RecInv
  PROVE /\ Recorder!Fails(c) \in Recorder!Controller
        /\ Recorder!Fails(c).ui = "error" /\ Recorder!Fails(c).req = c.req
        /\ Recorder!Fails(c).take = 0 /\ Recorder!Fails(c).stream = 0
        /\ Recorder!Fails(c).rec = 0 /\ Recorder!Fails(c).destroyed = c.destroyed
  <1> DEFINE r == Recorder!Released(c)
  <1>1. r \in Recorder!Controller /\ r.req = c.req /\ r.rec = 0 /\ r.destroyed = c.destroyed
    BY RecFields DEF Recorder!Controller, Recorder!Released
  <1>2. Recorder!Fails(c) = [r EXCEPT !.ui = "error", !.stream = 0, !.take = 0] BY DEF Recorder!Fails
  <1>3. "error" \in Recorder!States /\ 0 \in Recorder!Takes BY RecFields
  <1> HIDE DEF r
  <1> QED BY <1>1, <1>2, <1>3 DEF Recorder!Controller

(* Whoever lets go of the microphone: the request is outdated, and no take is at hand. *)
LEMMA RecLetGo ==
  ASSUME RecBounds, RecInv, Recorder!CloseMics({c.stream}),
         c' \in Recorder!Controller, c'.req = c.req + 1, c'.take = 0, c'.stream = 0,
         \/ c'.destroyed
         \/ /\ ~c.destroyed /\ ~c'.destroyed /\ c.ui \in {"requesting", "recording"}
            /\ engine # {} => c'.ui = c.ui
            /\ engine = {} => c'.ui = "idle",
         discarded' \subseteq 1..MaxRequests, disabled' \in BOOLEAN,
         UNCHANGED <<asking, sending, troubles, refused, late>>
  PROVE RecInv'
  <1>1. /\ Recorder!TypeOK /\ AskedBefore /\ EngineHeld /\ MicHeld /\ StreamShown
        /\ late \/ OneTake
    BY DEF RecInv
  <1>2. /\ engine' = {} /\ ended' = ended \union engine /\ \A n \in mics' : n \in refused
        /\ engine # {} => engine = {c.rec}
        /\ late \/ (engine # {} => ended = {} /\ sending = {} /\ c.ui = "recording" /\ c.take = 0)
    BY RecClosed
  <1>3. Recorder!TypeOK' BY <1>1, RecTypes, RecTyped, RecClosed
  <1>4. AskedBefore' BY <1>1, RecFields, RecTypes DEF AskedBefore
  <1>5. EngineHeld' /\ MicHeld' /\ StreamShown' BY <1>2 DEF EngineHeld, MicHeld, StreamShown
  <1>6. ASSUME ~late PROVE OneTake'
    <2>1. c'.req \notin asking BY RecFields
    <2>2. sending # {} => /\ ended = {} /\ engine = {} /\ (c.destroyed \/ c.ui = "submitting")
                          /\ \A m, n \in sending : m = n
      BY <1>1, <1>2, <1>6 DEF OneTake
    <2>3. sending # {} => ended' = {} /\ c'.destroyed /\ \A m, n \in sending : m = n
      BY <1>2, <2>2
    <2>4. ended' # {} => /\ sending = {} /\ \A m, n \in ended' : m = n
                         /\ c'.destroyed \/ c'.ui \in {"recording", "idle"}
      <3>1. CASE engine = {} BY <1>1, <1>2, <1>6, <3>1 DEF OneTake
      <3>2. CASE engine # {} BY <1>2, <1>6, <3>2
      <3> QED BY <3>1, <3>2
    <2> QED BY <1>2, <2>1, <2>3, <2>4 DEF OneTake
  <1> QED BY <1>3, <1>4, <1>5, <1>6 DEF RecInv

LEMMA RecDiscard ==
  ASSUME RecBounds, RecInv, Recorder!Discard \/ Recorder!ClosePanel \/ Recorder!Disable
  PROVE RecInv'
  <1> DEFINE k == Recorder!Cancelled(c)
  <1>1. /\ k \in Recorder!Controller /\ k.req = c.req + 1 /\ k.take = 0 /\ k.stream = 0
        /\ k.destroyed = c.destroyed
        /\ engine # {} => k.ui = c.ui
        /\ engine = {} => k.ui = "idle"
    BY RecCancel
  <1> HIDE DEF k
  <1>2. /\ 0 \in Recorder!Takes /\ "idle" \in Recorder!States /\ Recorder!TypeOK
        /\ c.take \in Recorder!Takes /\ c.chunks \in Recorder!Takes
    BY RecFields DEF RecInv, Recorder!Controller
  <1>3. Recorder!InHand \subseteq 1..MaxRequests
    BY <1>2 DEF Recorder!InHand, Recorder!Takes, Recorder!Requests
  <1>4. /\ UNCHANGED <<asking, sending, troubles, refused, late>>
        /\ disabled' \in BOOLEAN /\ discarded' \subseteq 1..MaxRequests /\ ~c.destroyed
    BY <1>2, <1>3, RecTypes DEF Recorder!Discard, Recorder!ClosePanel, Recorder!Disable, Recorder!facts
  <1>5. CASE Recorder!Discard
    <2> DEFINE r == Recorder!Released(k)
    <2>1. r \in Recorder!Controller /\ r.req = c.req + 1 /\ r.stream = 0
      BY <1>1, <1>2 DEF Recorder!Controller, Recorder!Released
    <2>2. c' = Recorder!Destroyed(Recorder!Idle(r)) /\ Recorder!CloseMics({c.stream})
      BY <1>5 DEF Recorder!Discard, k
    <2> HIDE DEF r
    <2> DEFINE i == [r EXCEPT !.ui = "idle", !.take = 0]
    <2>3. i \in Recorder!Controller /\ i.req = c.req + 1 /\ i.stream = 0 /\ i.take = 0
      BY <1>2, <2>1 DEF Recorder!Controller
    <2>4. c' = [i EXCEPT !.destroyed = TRUE] BY <2>2 DEF Recorder!Destroyed, Recorder!Idle
    <2> HIDE DEF i
    <2>5. /\ c' \in Recorder!Controller /\ c'.req = c.req + 1 /\ c'.take = 0 /\ c'.stream = 0
          /\ c'.destroyed
      BY <2>3, <2>4 DEF Recorder!Controller
    <2> QED BY <1>4, <2>2, <2>5, RecLetGo
  <1>6. CASE Recorder!ClosePanel
    <2>1. c' = [k EXCEPT !.destroyed = TRUE] /\ Recorder!CloseMics({c.stream})
      BY <1>6 DEF Recorder!ClosePanel, Recorder!Destroyed, k
    <2>2. /\ c' \in Recorder!Controller /\ c'.req = c.req + 1 /\ c'.take = 0 /\ c'.stream = 0
          /\ c'.destroyed
      BY <1>1, <2>1 DEF Recorder!Controller
    <2> QED BY <1>4, <2>1, <2>2, RecLetGo
  <1>7. CASE Recorder!Disable /\ c.ui \in {"requesting", "recording"}
    <2>1. c' = k /\ Recorder!CloseMics({c.stream}) BY <1>7 DEF Recorder!Disable, k
    <2> QED BY <1>1, <1>4, <1>7, <2>1, RecLetGo
  <1>8. CASE Recorder!Disable /\ c.ui \notin {"requesting", "recording"}
    <2>1. UNCHANGED <<c, mics, engine, ended, discarded>> BY <1>8 DEF Recorder!Disable, Recorder!facts
    <2>2. Recorder!TypeOK' BY <1>2, <1>4, <2>1, RecTypes, RecTyped DEF Recorder!Controller, Recorder!States, Recorder!Takes, Recorder!Requests
    <2> QED BY <1>4, <2>1, <2>2
      DEF RecInv, AskedBefore, EngineHeld, MicHeld, StreamShown, OneTake
  <1> QED BY <1>5, <1>6, <1>7, <1>8

LEMMA RecStops ==
  ASSUME RecBounds, RecInv, NEW b \in BOOLEAN, Recorder!Stops(b), c.ui = "recording"
  PROVE RecInv'
  <1>1. /\ Recorder!TypeOK /\ AskedBefore /\ EngineHeld /\ MicHeld /\ StreamShown
        /\ late \/ OneTake
    BY DEF RecInv
  <1>2. /\ c.rec \in engine /\ engine' = engine \ {c.rec} /\ ended' = ended \union {c.rec}
        /\ UNCHANGED <<asking, mics, sending, disabled, troubles, discarded, refused, late>>
    BY DEF Recorder!Stops, Recorder!facts
  <1>3. /\ c' \in Recorder!Controller /\ c'.ui = c.ui /\ c'.req = c.req /\ c'.take = c.take
        /\ c'.stream = c.stream /\ c'.rec = c.rec /\ c'.destroyed = c.destroyed
    <2>1. c' = [c EXCEPT !.discard = FALSE, !.stopping = TRUE, !.submit = b]
      BY DEF Recorder!Stops
    <2> QED BY <2>1, RecFields DEF Recorder!Controller
  <1>4. engine' = {} /\ ~c.destroyed BY <1>1, <1>2 DEF EngineHeld
  <1>5. Recorder!TypeOK' BY <1>1, <1>2, <1>3, RecTypes, RecTyped
  <1>6. AskedBefore' /\ EngineHeld' /\ MicHeld' /\ StreamShown'
    BY <1>1, <1>2, <1>3, <1>4 DEF AskedBefore, EngineHeld, MicHeld, StreamShown
  <1>7. (late \/ OneTake)' BY <1>1, <1>2, <1>3, <1>4 DEF OneTake
  <1> QED BY <1>5, <1>6, <1>7 DEF RecInv

LEMMA RecSubmitTake ==
  ASSUME RecBounds, RecInv, Recorder!SubmitTake
  PROVE RecInv'
  <1>1. /\ Recorder!TypeOK /\ AskedBefore /\ EngineHeld /\ MicHeld /\ StreamShown
        /\ late \/ OneTake
    BY DEF RecInv
  <1>2. /\ ~c.destroyed /\ c.ui = "recorded" /\ c.take # 0 /\ sending' = sending \union {c.take}
        /\ UNCHANGED <<asking, mics, engine, ended, disabled, troubles, discarded, refused, late>>
    BY DEF Recorder!SubmitTake, Recorder!facts
  <1>3. /\ c' \in Recorder!Controller /\ c'.ui = "submitting" /\ c'.req = c.req /\ c'.take = c.take
        /\ c'.stream = c.stream /\ c'.rec = c.rec /\ c'.destroyed = c.destroyed
    <2>1. c' = [c EXCEPT !.ui = "submitting"] BY DEF Recorder!SubmitTake, Recorder!Handed
    <2>2. "submitting" \in Recorder!States BY RecFields
    <2> QED BY <2>1, <2>2, RecFields DEF Recorder!Controller
  <1>4. c.take \in 1..MaxRequests BY <1>2, RecFields DEF Recorder!Takes, Recorder!Requests
  <1>5. Recorder!TypeOK' BY <1>1, <1>2, <1>3, <1>4, RecTypes, RecTyped
  <1>6. AskedBefore' /\ EngineHeld' /\ MicHeld' /\ StreamShown'
    BY <1>1, <1>2, <1>3 DEF AskedBefore, EngineHeld, MicHeld, StreamShown
  <1>7. (late \/ OneTake)' BY <1>1, <1>2, <1>3 DEF OneTake
  <1> QED BY <1>5, <1>6, <1>7 DEF RecInv

LEMMA RecGranted ==
  ASSUME RecBounds, RecInv, NEW n \in 1..MaxRequests, Recorder!Granted(n)
  PROVE RecInv'
  <1>1. /\ Recorder!TypeOK /\ AskedBefore /\ EngineHeld /\ MicHeld /\ StreamShown
        /\ late \/ OneTake
    BY DEF RecInv
  <1>2. /\ n \in asking /\ asking' = asking \ {n} /\ ended' = ended
        /\ UNCHANGED <<sending, disabled, discarded, late>>
    BY DEF Recorder!Granted
  <1>3. CASE UNCHANGED <<c, mics, engine, refused, troubles>>
    <2>1. Recorder!TypeOK'
      <3>1. c' \in Recorder!Controller BY <1>1, <1>3, RecTypes DEF Recorder!Controller, Recorder!States, Recorder!Takes, Recorder!Requests
      <3> QED BY <1>1, <1>2, <1>3, <3>1, RecTypes, RecTyped
    <2>2. AskedBefore' /\ EngineHeld' /\ MicHeld' /\ StreamShown'
      BY <1>1, <1>2, <1>3 DEF AskedBefore, EngineHeld, MicHeld, StreamShown
    <2>3. (late \/ OneTake)' BY <1>1, <1>2, <1>3 DEF OneTake
    <2> QED BY <2>1, <2>2, <2>3 DEF RecInv
  <1>4. CASE ~Recorder!Stale(n) /\ ~(UNCHANGED <<c, mics, engine, refused, troubles>>)
    <2>1. ~c.destroyed /\ n = c.req BY <1>4 DEF Recorder!Stale
    <2>2. c.stream = 0 /\ engine = {} BY <1>1, <1>2, <2>1, RecFields DEF StreamShown, EngineHeld
    <2>3. \A m \in mics : m \in refused BY <1>1, <2>2, RecFields DEF MicHeld
    <2>4. late \/ (c.ui = "requesting" /\ c.take = 0 /\ sending = {} /\ ended = {})
      BY <1>1, <1>2, <2>1 DEF OneTake
    <2>5. CASE /\ mics' = mics \union {n} /\ engine' = engine \union {n}
               /\ c' = [c EXCEPT !.ui = "recording", !.stream = n, !.rec = n, !.chunks = n]
               /\ UNCHANGED <<refused, troubles>>
      <3>1. /\ c' \in Recorder!Controller /\ c'.ui = "recording" /\ c'.req = c.req
            /\ c'.take = c.take /\ c'.stream = n /\ c'.rec = n /\ c'.destroyed = c.destroyed
        <4>1. "recording" \in Recorder!States /\ n \in Recorder!Takes BY RecFields
        <4> QED BY <2>5, <4>1, RecFields DEF Recorder!Controller
      <3>2. Recorder!TypeOK' BY <1>1, <1>2, <2>5, <3>1, RecTypes, RecTyped
      <3>3. AskedBefore' /\ EngineHeld' /\ MicHeld' /\ StreamShown'
        BY <1>1, <1>2, <2>1, <2>2, <2>3, <2>5, <3>1 DEF AskedBefore, EngineHeld, MicHeld, StreamShown
      <3>4. (late \/ OneTake)' BY <1>2, <2>1, <2>2, <2>4, <2>5, <3>1 DEF OneTake
      <3> QED BY <3>2, <3>3, <3>4 DEF RecInv
    <2>6. CASE /\ mics' = mics \union {n} /\ refused' = refused \union {n}
               /\ c' = Recorder!Fails(c) /\ engine' = engine /\ Recorder!Trouble
      <3>1. /\ c' \in Recorder!Controller /\ c'.ui = "error" /\ c'.req = c.req
            /\ c'.take = 0 /\ c'.stream = 0 /\ c'.rec = 0 /\ c'.destroyed = c.destroyed
        BY <2>6, RecFail
      <3>2. troubles' \in 0..MaxTroubles BY <1>1, <2>6, RecTypes DEF Recorder!Trouble, RecBounds
      <3>3. Recorder!TypeOK' BY <1>1, <1>2, <2>6, <3>1, <3>2, RecTypes, RecTyped
      <3>4. AskedBefore' /\ EngineHeld' /\ MicHeld' /\ StreamShown'
        BY <1>1, <1>2, <2>1, <2>2, <2>3, <2>6, <3>1 DEF AskedBefore, EngineHeld, MicHeld, StreamShown
      <3>5. (late \/ OneTake)' BY <1>2, <2>1, <2>2, <2>4, <2>6, <3>1 DEF OneTake
      <3> QED BY <3>3, <3>4, <3>5 DEF RecInv
    <2> QED BY <1>4, <2>5, <2>6 DEF Recorder!Granted
  <1> QED BY <1>3, <1>4 DEF Recorder!Granted

LEMMA RecDenied ==
  ASSUME RecBounds, RecInv, NEW n \in 1..MaxRequests, Recorder!Denied(n)
  PROVE RecInv'
  <1>1. /\ Recorder!TypeOK /\ AskedBefore /\ EngineHeld /\ MicHeld /\ StreamShown
        /\ late \/ OneTake
    BY DEF RecInv
  <1>2. /\ n \in asking /\ asking' = asking \ {n} /\ Recorder!Trouble
        /\ c' = Recorder!Fails(c) /\ Recorder!CloseMics({c.stream})
        /\ late' = (late \/ n # c.req)
        /\ UNCHANGED <<sending, disabled, discarded, refused>>
    BY DEF Recorder!Denied
  <1>3. /\ c' \in Recorder!Controller /\ c'.ui = "error" /\ c'.req = c.req
        /\ c'.take = 0 /\ c'.stream = 0 /\ c'.rec = 0 /\ c'.destroyed = c.destroyed
    BY <1>2, RecFail
  <1>4. /\ engine' = {} /\ ended' = ended \union engine /\ \A m \in mics' : m \in refused
        /\ mics' \subseteq 1..MaxRequests /\ ended' \subseteq 1..MaxRequests
        /\ late \/ (engine # {} => ended = {} /\ sending = {} /\ c.ui = "recording" /\ c.take = 0)
    BY <1>2, RecClosed
  <1>5. troubles' \in 0..MaxTroubles BY <1>1, <1>2, RecTypes DEF Recorder!Trouble, RecBounds
  <1>6. late' \in BOOLEAN BY <1>2
  <1>7. Recorder!TypeOK' BY <1>1, <1>2, <1>3, <1>4, <1>5, <1>6, RecTypes, RecTyped
  <1>8. AskedBefore' /\ EngineHeld' /\ MicHeld' /\ StreamShown'
    BY <1>1, <1>2, <1>3, <1>4 DEF AskedBefore, EngineHeld, MicHeld, StreamShown
  <1>9. ASSUME ~late' PROVE OneTake'
    <2>1. ~late /\ n = c.req BY <1>2, <1>9
    <2>2. c.ui = "requesting" /\ ~c.destroyed BY <1>1, <1>2, <2>1 DEF OneTake
    <2>3. engine = {} /\ ended = {} /\ sending = {} BY <1>1, <1>4, <2>1, <2>2 DEF OneTake
    <2> QED BY <1>2, <1>3, <1>4, <2>1, <2>3 DEF OneTake
  <1> QED BY <1>7, <1>8, <1>9 DEF RecInv

LEMMA RecUnplugged ==
  ASSUME RecBounds, RecInv, Recorder!Unplugged
  PROVE RecInv'
  <1>1. /\ Recorder!TypeOK /\ AskedBefore /\ EngineHeld /\ MicHeld /\ StreamShown
        /\ late \/ OneTake
    BY DEF RecInv
  <1>2. /\ c.stream \in engine /\ Recorder!Trouble /\ Recorder!CloseMics({c.stream})
        /\ UNCHANGED <<c, asking, sending, disabled, discarded, refused, late>>
    BY DEF Recorder!Unplugged, Recorder!facts
  <1>3. /\ engine' = {} /\ ended' = ended \union engine /\ \A m \in mics' : m \in refused
        /\ mics' \subseteq 1..MaxRequests /\ ended' \subseteq 1..MaxRequests
        /\ engine = {c.rec}
        /\ late \/ (engine # {} => ended = {} /\ sending = {} /\ c.ui = "recording" /\ c.take = 0)
    BY <1>2, RecClosed
  <1>4. troubles' \in 0..MaxTroubles BY <1>1, <1>2, RecTypes DEF Recorder!Trouble, RecBounds
  <1>5. Recorder!TypeOK'
    <2>1. c' \in Recorder!Controller BY <1>1, <1>2, RecTypes DEF Recorder!Controller, Recorder!States, Recorder!Takes, Recorder!Requests
    <2> QED BY <1>1, <1>2, <1>3, <1>4, <2>1, RecTypes, RecTyped
  <1>6. AskedBefore' /\ EngineHeld' /\ MicHeld' /\ StreamShown'
    BY <1>1, <1>2, <1>3 DEF AskedBefore, EngineHeld, MicHeld, StreamShown
  <1>7. (late \/ OneTake)' BY <1>1, <1>2, <1>3 DEF OneTake
  <1> QED BY <1>5, <1>6, <1>7 DEF RecInv

LEMMA RecOnStop ==
  ASSUME RecBounds, RecInv, NEW n \in 1..MaxRequests, Recorder!OnStop(n)
  PROVE RecInv'
  <1> DEFINE k == Recorder!Stopped(c)
  <1>1. /\ Recorder!TypeOK /\ AskedBefore /\ EngineHeld /\ MicHeld /\ StreamShown
        /\ late \/ OneTake
    BY DEF RecInv
  <1>2. /\ n \in ended /\ mics' = mics \ {c.stream} /\ engine' = engine \ {c.stream}
        /\ ended' = (ended \ {n}) \union (engine \cap {c.stream})
        /\ UNCHANGED <<asking, disabled, troubles, discarded, refused, late>>
    BY DEF Recorder!OnStop, Recorder!facts
  <1>3. /\ k \in Recorder!Controller /\ k.ui = c.ui /\ k.req = c.req /\ k.stream = 0
        /\ k.take = c.take /\ k.destroyed = c.destroyed
    <2> DEFINE r == Recorder!Released(c)
    <2>1. /\ r \in Recorder!Controller /\ r.ui = c.ui /\ r.req = c.req /\ r.take = c.take
          /\ r.destroyed = c.destroyed
      BY RecFields DEF Recorder!Controller, Recorder!Released
    <2>2. k = [r EXCEPT !.stream = 0, !.discard = FALSE, !.stopping = FALSE, !.submit = FALSE]
      BY DEF Recorder!Stopped
    <2> HIDE DEF r, k
    <2> QED BY <2>1, <2>2, RecFields DEF Recorder!Controller
  <1>4. \/ c' = [k EXCEPT !.ui = "idle", !.take = 0] /\ sending' = sending
        \/ c' = Recorder!Handed([k EXCEPT !.take = n]) /\ sending' = sending \union {n}
        \/ c' = [k EXCEPT !.ui = "recorded", !.take = n] /\ sending' = sending
    BY DEF Recorder!OnStop, Recorder!Idle
  <1> HIDE DEF k
  <1>5. /\ n \in Recorder!Takes /\ 0 \in Recorder!Takes
        /\ {"idle", "recorded", "submitting"} \subseteq Recorder!States
    BY RecFields
  <1>6. /\ c' \in Recorder!Controller /\ c'.req = c.req /\ c'.stream = 0
        /\ c'.destroyed = c.destroyed
        /\ \/ c'.ui = "idle" /\ c'.take = 0 /\ sending' = sending
           \/ c'.ui = "submitting" /\ c'.take = n /\ sending' = sending \union {n}
           \/ c'.ui = "recorded" /\ c'.take = n /\ sending' = sending
    <2>1. CASE c' = [k EXCEPT !.ui = "idle", !.take = 0] /\ sending' = sending
      BY <1>3, <1>5, <2>1 DEF Recorder!Controller
    <2>2. CASE c' = Recorder!Handed([k EXCEPT !.take = n]) /\ sending' = sending \union {n}
      <3> DEFINE t == [k EXCEPT !.take = n]
      <3>1. /\ t \in Recorder!Controller /\ t.ui = c.ui /\ t.req = c.req /\ t.stream = 0
            /\ t.take = n /\ t.destroyed = c.destroyed
        BY <1>3, <1>5 DEF Recorder!Controller
      <3>2. c' = [t EXCEPT !.ui = "submitting"] BY <2>2 DEF Recorder!Handed
      <3> HIDE DEF t
      <3> QED BY <1>5, <2>2, <3>1, <3>2 DEF Recorder!Controller
    <2>3. CASE c' = [k EXCEPT !.ui = "recorded", !.take = n] /\ sending' = sending
      BY <1>3, <1>5, <2>3 DEF Recorder!Controller
    <2> QED BY <1>4, <2>1, <2>2, <2>3
  <1>7. engine' = {} BY <1>1, <1>2 DEF EngineHeld
  <1>8. Recorder!TypeOK' BY <1>1, <1>2, <1>6, RecTypes, RecTyped
  <1>9. AskedBefore' /\ EngineHeld' /\ MicHeld' /\ StreamShown'
    BY <1>1, <1>2, <1>6, <1>7 DEF AskedBefore, EngineHeld, MicHeld, StreamShown
  <1>10. ASSUME ~late PROVE OneTake'
    <2>1. /\ sending = {} /\ c.take = 0 /\ engine = {} /\ ended = {n}
          /\ c.destroyed \/ c.ui \in {"recording", "idle"}
      BY <1>1, <1>2, <1>10 DEF OneTake
    <2>2. c.req \notin asking BY <1>1, <1>10, <2>1 DEF OneTake
    <2> QED BY <1>2, <1>6, <2>1, <2>2 DEF OneTake
  <1> QED BY <1>2, <1>8, <1>9, <1>10 DEF RecInv

LEMMA RecUploads ==
  ASSUME RecBounds, RecInv, NEW n \in 1..MaxRequests, Recorder!Uploads(n)
  PROVE RecInv'
  <1>1. /\ Recorder!TypeOK /\ AskedBefore /\ EngineHeld /\ MicHeld /\ StreamShown
        /\ late \/ OneTake
    BY DEF RecInv
  <1>2. /\ n \in sending /\ sending' = sending \ {n}
        /\ UNCHANGED <<asking, disabled, discarded, refused, late>>
    BY DEF Recorder!Uploads, Recorder!facts
  <1>3. late \/ /\ ended = {} /\ engine = {} /\ sending = {n}
                /\ c.destroyed \/ (c.ui = "submitting" /\ c.req \notin asking /\ c.stream = 0)
    <2> SUFFICES ASSUME ~late
                 PROVE /\ ended = {} /\ engine = {} /\ sending = {n}
                       /\ c.destroyed \/ (c.ui = "submitting" /\ c.req \notin asking /\ c.stream = 0)
      OBVIOUS
    <2>1. ended = {} /\ sending = {n} /\ (c.destroyed \/ c.ui = "submitting")
      BY <1>1, <1>2 DEF OneTake
    <2>2. c.destroyed \/ (c.req \notin asking /\ c.stream = 0) BY <1>1, <2>1 DEF OneTake, StreamShown
    <2>3. engine = {} BY <1>1, <2>1, <2>2, RecFields DEF EngineHeld
    <2> QED BY <2>1, <2>2, <2>3
  <1>4. late \/ c.req \notin asking BY <1>1, <1>3 DEF OneTake
  <1>5. n \in Recorder!Takes /\ 0 \in Recorder!Takes /\ "idle" \in Recorder!States
        /\ "recorded" \in Recorder!States
    BY RecFields
  <1>6. CASE c' = Recorder!Destroyed(Recorder!Idle(c)) /\ Recorder!CloseMics({c.stream}) /\ troubles' = troubles
    <2> DEFINE i == [c EXCEPT !.ui = "idle", !.take = 0]
    <2>1. i \in Recorder!Controller /\ i.req = c.req /\ i.stream = c.stream /\ i.take = 0
      BY <1>5, RecFields DEF Recorder!Controller
    <2>2. c' = [i EXCEPT !.destroyed = TRUE] BY <1>6 DEF Recorder!Destroyed, Recorder!Idle
    <2> HIDE DEF i
    <2>3. c' \in Recorder!Controller /\ c'.req = c.req /\ c'.stream = c.stream /\ c'.take = 0 /\ c'.destroyed
      BY <2>1, <2>2 DEF Recorder!Controller
    <2>4. /\ engine' = {} /\ ended' = ended \union engine /\ \A m \in mics' : m \in refused
          /\ mics' \subseteq 1..MaxRequests /\ ended' \subseteq 1..MaxRequests
      BY <1>6, RecClosed
    <2>5. Recorder!TypeOK' BY <1>1, <1>2, <1>6, <2>3, <2>4, RecTypes, RecTyped
    <2>6. AskedBefore' /\ EngineHeld' /\ MicHeld' /\ StreamShown'
      BY <1>1, <1>2, <2>3, <2>4 DEF AskedBefore, EngineHeld, MicHeld, StreamShown
    <2>7. (late \/ OneTake)' BY <1>2, <1>3, <1>4, <2>3, <2>4 DEF OneTake
    <2> QED BY <2>5, <2>6, <2>7 DEF RecInv
  <1>7. CASE /\ Recorder!Trouble /\ c' = [c EXCEPT !.ui = "recorded", !.take = n]
             /\ UNCHANGED <<mics, engine, ended>>
    <2>1. /\ c' \in Recorder!Controller /\ c'.ui = "recorded" /\ c'.req = c.req /\ c'.take = n
          /\ c'.stream = c.stream /\ c'.rec = c.rec /\ c'.destroyed = c.destroyed
      BY <1>5, <1>7, RecFields DEF Recorder!Controller
    <2>2. troubles' \in 0..MaxTroubles BY <1>1, <1>7, RecTypes DEF Recorder!Trouble, RecBounds
    <2>3. Recorder!TypeOK' BY <1>1, <1>2, <1>7, <2>1, <2>2, RecTypes, RecTyped
    <2>4. AskedBefore' /\ EngineHeld' /\ MicHeld' /\ StreamShown'
      BY <1>1, <1>2, <1>3, <1>7, <2>1 DEF AskedBefore, EngineHeld, MicHeld, StreamShown
    <2>5. (late \/ OneTake)' BY <1>2, <1>3, <1>4, <1>7, <2>1 DEF OneTake
    <2> QED BY <2>3, <2>4, <2>5 DEF RecInv
  <1> QED BY <1>6, <1>7 DEF Recorder!Uploads

LEMMA RecStutter ==
  ASSUME RecBounds, RecInv, disabled' \in BOOLEAN,
         UNCHANGED <<c, asking, mics, engine, ended, sending, troubles, discarded, refused, late>>
  PROVE RecInv'
  <1>1. c' \in Recorder!Controller
    BY RecTypes DEF RecInv, Recorder!Controller, Recorder!States, Recorder!Takes, Recorder!Requests
  <1>2. Recorder!TypeOK' BY <1>1, RecTypes, RecTyped DEF RecInv
  <1> QED BY <1>2 DEF RecInv, AskedBefore, EngineHeld, MicHeld, StreamShown, OneTake

LEMMA RecInitial ==
  ASSUME RecBounds, Recorder!Init
  PROVE RecInv
  <1>1. Recorder!Fresh \in Recorder!Controller
    BY DEF Recorder!Fresh, Recorder!Controller, Recorder!States, Recorder!Takes
  <1>2. c = Recorder!Fresh BY DEF Recorder!Init
  <1>3. c.ui = "idle" /\ c.stream = 0 /\ c.take = 0 /\ ~c.destroyed BY <1>2 DEF Recorder!Fresh
  <1>4. UNION {asking, mics, engine, ended, sending, discarded, refused} = {} BY DEF Recorder!Init
  <1>5. Recorder!TypeOK
    <2>1. UNION {asking, mics, engine, ended, sending, discarded, refused} \subseteq Recorder!Requests
      BY <1>4
    <2>2. disabled \in BOOLEAN /\ late \in BOOLEAN BY DEF Recorder!Init
    <2>3. troubles \in 0..MaxTroubles BY DEF Recorder!Init, RecBounds
    <2> QED BY <1>1, <1>2, <2>1, <2>2, <2>3 DEF Recorder!TypeOK
  <1> QED BY <1>3, <1>5
    DEF Recorder!Init, RecInv, AskedBefore, EngineHeld, MicHeld, StreamShown, OneTake

LEMMA RecNext ==
  ASSUME RecBounds, RecInv, Recorder!Next
  PROVE RecInv'
  <1>1. CASE Recorder!Start BY <1>1, RecStart
  <1>2. CASE Recorder!SubmitLive \/ Recorder!TooLong
    BY <1>2, RecStops DEF Recorder!SubmitLive, Recorder!TooLong
  <1>3. CASE Recorder!SubmitTake BY <1>3, RecSubmitTake
  <1>4. CASE Recorder!Discard \/ Recorder!ClosePanel \/ Recorder!Disable BY <1>4, RecDiscard
  <1>5. CASE Recorder!Enable BY <1>5, RecStutter DEF Recorder!Enable, Recorder!facts
  <1>6. CASE Recorder!Unplugged BY <1>6, RecUnplugged
  <1>7. ASSUME NEW n \in Recorder!Requests,
               Recorder!Granted(n) \/ Recorder!Denied(n) \/ Recorder!OnStop(n) \/ Recorder!Uploads(n)
        PROVE RecInv'
    <2>1. n \in 1..MaxRequests BY DEF Recorder!Requests
    <2> QED BY <1>7, <2>1, RecGranted, RecDenied, RecOnStop, RecUploads
  <1> QED BY <1>1, <1>2, <1>3, <1>4, <1>5, <1>6, <1>7 DEF Recorder!Next

LEMMA RecStepKeeps ==
  ASSUME RecBounds
  PROVE RecInv /\ [Next]_vars => RecInv'
  <1> SUFFICES ASSUME RecInv, [Next]_vars PROVE RecInv' OBVIOUS
  <1>1. ASSUME UNCHANGED recorderVars PROVE RecInv'
    <2>1. disabled' \in BOOLEAN BY <1>1, RecTypes DEF recorderVars, RecInv
    <2> QED BY <1>1, <2>1, RecStutter DEF recorderVars
  <1>2. CASE FeedStep BY <1>1, <1>2 DEF FeedStep
  <1>3. CASE NotesStep BY <1>1, <1>3 DEF NotesStep
  <1>4. CASE RecorderStep BY <1>4, RecNext DEF RecorderStep
  <1>5. CASE FilesStep BY <1>1, <1>5 DEF FilesStep
  <1>6. CASE UNCHANGED vars BY <1>1, <1>6 DEF vars
  <1> QED BY <1>2, <1>3, <1>4, <1>5, <1>6 DEF Next

LEMMA RecShown ==
  ASSUME RecBounds, RecInv
  PROVE Recorder!MicIsShown
  <1> QED BY RecFields DEF RecInv, MicHeld, StreamShown, Recorder!MicIsShown

(* What a step may do to a finished take. *)
TakeKept == late' \/ c.take = 0 \/ c'.take = c.take \/ c.take \in discarded' \/ c.take \in sending

LEMMA RecKept ==
  ASSUME RecBounds, RecInv, Recorder!Next
  PROVE TakeKept
  <1> SUFFICES ASSUME ~late', c.take # 0, c.take \notin sending, c.take \notin discarded'
               PROVE c'.take = c.take
    BY DEF TakeKept
  <1>1. Recorder!TypeOK BY DEF RecInv
  <1>2. late' = FALSE => ~late
    BY DEF Recorder!Next, Recorder!Start, Recorder!SubmitLive, Recorder!TooLong, Recorder!Stops,
           Recorder!SubmitTake, Recorder!Discard, Recorder!ClosePanel, Recorder!Disable, Recorder!Enable,
           Recorder!Unplugged, Recorder!Granted, Recorder!Denied, Recorder!OnStop, Recorder!Uploads,
           Recorder!facts
  <1>3. ~late /\ OneTake
    <2>1. late' \in BOOLEAN BY RecNext, RecTypes DEF RecInv, Recorder!TypeOK
    <2> QED BY <1>2, <2>1 DEF RecInv
  <1>4. c \in Recorder!Controller BY RecFields
  <1>5. ended = {} /\ (sending # {} => c.destroyed /\ c.take = 0) /\ sending = {}
    BY <1>3 DEF OneTake
  <1>6. ~c.destroyed => c.ui \in {"recorded", "submitting"} BY <1>3 DEF OneTake
  <1>7. c.take \in Recorder!InHand BY DEF Recorder!InHand
  <1>8. CASE Recorder!Start BY <1>6, <1>8 DEF Recorder!Start
  <1>9. CASE Recorder!SubmitLive \/ Recorder!TooLong
    <2>1. c' = [c EXCEPT !.discard = FALSE, !.stopping = TRUE, !.submit = TRUE] \/
          c' = [c EXCEPT !.discard = FALSE, !.stopping = TRUE, !.submit = FALSE]
      BY <1>9 DEF Recorder!SubmitLive, Recorder!TooLong, Recorder!Stops
    <2> QED BY <1>4, <2>1 DEF Recorder!Controller
  <1>10. CASE Recorder!SubmitTake
    BY <1>4, <1>10 DEF Recorder!SubmitTake, Recorder!Handed, Recorder!Controller
  <1>11. CASE Recorder!Discard \/ Recorder!ClosePanel
    BY <1>7, <1>11 DEF Recorder!Discard, Recorder!ClosePanel
  <1>12. CASE Recorder!Disable BY <1>6, <1>12 DEF Recorder!Disable
  <1>13. CASE Recorder!Enable \/ Recorder!Unplugged BY <1>13 DEF Recorder!Enable, Recorder!Unplugged
  <1>14. ASSUME NEW n \in Recorder!Requests, Recorder!Granted(n) PROVE c'.take = c.take
    <2>1. n \in asking /\ (c' = c \/ ~Recorder!Stale(n)) BY <1>14 DEF Recorder!Granted
    <2>2. Recorder!Stale(n)
      <3>1. c.req \in asking => c.ui = "requesting" /\ ~c.destroyed BY <1>3 DEF OneTake
      <3> QED BY <1>6, <2>1, <3>1 DEF Recorder!Stale
    <2> QED BY <2>1, <2>2
  <1>15. ASSUME NEW n \in Recorder!Requests, Recorder!Denied(n) PROVE FALSE
    <2>1. n \in asking /\ n = c.req BY <1>15 DEF Recorder!Denied
    <2> QED BY <1>3, <1>6, <2>1 DEF OneTake
  <1>16. ASSUME NEW n \in Recorder!Requests, Recorder!OnStop(n) \/ Recorder!Uploads(n) PROVE FALSE
    BY <1>5, <1>16 DEF Recorder!OnStop, Recorder!Uploads
  <1> QED BY <1>8, <1>9, <1>10, <1>11, <1>12, <1>13, <1>14, <1>15, <1>16 DEF Recorder!Next

----------------------------------------------------------------------------

(* The files of a message *)
FilesBounds ==
  /\ MaxPicks \in Nat /\ PerPick \in Nat /\ Limit \in Nat /\ MaxSends \in Nat
  /\ MaxUpsets \in Nat

MessageSet == [step : Files!Steps, refs : Seq(Files!Files), to : Nat]

FilesTyped ==
  /\ Files!TypeOK /\ picks \in 0..MaxPicks /\ mounted \in BOOLEAN
  /\ attachments \in Seq(Files!Files) /\ message \in MessageSet
  /\ sends \in 0..MaxSends /\ indexLoaded \in BOOLEAN /\ draft \in Nat

(* A chat is made for a message that was posted, so there are no more than messages. *)
ChatsFit ==
  /\ chats <= sends + 1 /\ (message.step = "posted" => chats <= sends)
  /\ chat <= chats /\ main <= chats /\ message.to <= chats

(* A loop that was cut has reached its cut, and one whose composer is gone was cut; *)
(* the others upload for the chat on screen.                                        *)
LoopTrue(p) ==
  /\ p > picks => loops[p].at = 1 /\ loops[p].of = 0
  /\ loops[p].cut # 0 => loops[p].at >= loops[p].cut
  /\ loops[p].gone => loops[p].cut # 0
  /\ Files!InFlight(p) => loops[p].gone \/ (mounted /\ (loops[p].cut # 0 \/ loops[p].picked = main))
  /\ Files!InFlight(p) /\ loops[p].reply = "stored" => Files!File(p) \in index.ids \union index.glued

LoopsTrue == \A p \in Files!Picks : LoopTrue(p)

(* A file on the bar, or in a message, was uploaded: its loop is past it and the index has it. *)
Uploaded(f) == f[2] < loops[f[1]].at /\ f \in index.ids \union index.glued

OnBar(f) == \E i \in 1..Len(attachments) : attachments[i] = f
InMessage(f) == \E i \in 1..Len(message.refs) : message.refs[i] = f

FilesUploaded == \A f \in Files!Files : OnBar(f) \/ InMessage(f) => Uploaded(f)

(* An accepted message leaves nothing owed of its files. *)
NothingOwed == message.step = "accepted" => \A f \in owed : ~InMessage(f)

FilesInv ==
  /\ FilesTyped /\ ChatsFit /\ LoopsTrue /\ FilesUploaded /\ NothingOwed
  /\ Files!FilesArrive /\ Files!IndexIsServed

LEMMA FileTypes ==
  ASSUME FilesBounds, FilesTyped
  PROVE /\ loops \in [Files!Picks -> Files!Loop]
        /\ \A p \in Files!Picks : loops[p] \in Files!Loop
        /\ attachments \in Seq(Files!Files) /\ Len(attachments) \in Nat
        /\ DOMAIN attachments = 1..Len(attachments)
        /\ \A i \in 1..Len(attachments) : attachments[i] \in Files!Files
        /\ message \in MessageSet /\ message.refs \in Seq(Files!Files)
        /\ Len(message.refs) \in Nat /\ DOMAIN message.refs = 1..Len(message.refs)
        /\ \A i \in 1..Len(message.refs) : message.refs[i] \in Files!Files
        /\ message.step \in Files!Steps /\ message.to \in Nat
        /\ picks \in 0..MaxPicks /\ sends \in 0..MaxSends /\ draft \in Nat
        /\ mounted \in BOOLEAN /\ indexLoaded \in BOOLEAN
        /\ main \in Files!Chats /\ chat \in Files!Chats /\ chats \in Files!Chats
        /\ main \in Nat /\ chat \in Nat /\ chats \in Nat
        /\ index \in Files!Index /\ byId \subseteq Files!Ids
        /\ shadowed \subseteq Files!Ids /\ owed \subseteq Files!Files
        /\ \A i, j \in 1..Len(attachments) : attachments[i] = attachments[j] => i = j
  <1>1. /\ attachments \in Seq(Files!Files) /\ message \in MessageSet /\ picks \in 0..MaxPicks
        /\ sends \in 0..MaxSends /\ draft \in Nat /\ mounted \in BOOLEAN /\ indexLoaded \in BOOLEAN
    BY DEF FilesTyped
  <1>2. /\ loops \in [Files!Picks -> Files!Loop] /\ main \in Files!Chats /\ chat \in Files!Chats
        /\ chats \in Files!Chats /\ index \in Files!Index /\ byId \subseteq Files!Ids
        /\ shadowed \subseteq Files!Ids /\ owed \subseteq Files!Files
        /\ Files!IsInjective(attachments)
    BY DEF FilesTyped, Files!TypeOK
  <1>3. message.refs \in Seq(Files!Files) /\ message.step \in Files!Steps /\ message.to \in Nat
    BY <1>1 DEF MessageSet
  <1>4. main \in Nat /\ chat \in Nat /\ chats \in Nat BY <1>2 DEF FilesBounds, Files!Chats
  <1>5. \A p \in Files!Picks : loops[p] \in Files!Loop BY <1>2
  <1>6. /\ Len(attachments) \in Nat /\ DOMAIN attachments = 1..Len(attachments)
        /\ \A i \in 1..Len(attachments) : attachments[i] \in Files!Files
    BY <1>1
  <1>7. /\ Len(message.refs) \in Nat /\ DOMAIN message.refs = 1..Len(message.refs)
        /\ \A i \in 1..Len(message.refs) : message.refs[i] \in Files!Files
    BY <1>3
  <1>8. \A i, j \in 1..Len(attachments) : attachments[i] = attachments[j] => i = j
    BY <1>2, <1>6 DEF Files!IsInjective
  <1> QED BY <1>1, <1>2, <1>3, <1>4, <1>5, <1>6, <1>7, <1>8

LEMMA FileTyped ==
  ASSUME FilesBounds,
         loops' \in [Files!Picks -> Files!Loop], attachments' \in Seq(Files!Files),
         \A i, j \in 1..Len(attachments') : attachments'[i] = attachments'[j] => i = j,
         message' \in MessageSet, picks' \in 0..MaxPicks, sends' \in 0..MaxSends,
         draft' \in Nat, mounted' \in BOOLEAN, indexLoaded' \in BOOLEAN,
         main' \in Files!Chats, chat' \in Files!Chats, chats' \in Files!Chats,
         index' \in Files!Index, byId' \subseteq Files!Ids,
         shadowed' \subseteq Files!Ids, owed' \subseteq Files!Files
  PROVE FilesTyped'
  <1>1. message'.refs \in Seq(Files!Files) /\ message'.step \in Files!Steps BY DEF MessageSet
  <1>2. Files!Range(attachments') \subseteq Files!Files /\ Files!Range(message'.refs) \subseteq Files!Files
    BY <1>1 DEF Files!Range
  <1>3. Files!IsInjective(attachments') BY DEF Files!IsInjective
  <1>4. Files!TypeOK'
    BY <1>1, <1>2, <1>3 DEF Files!TypeOK, Files!Loop, Files!Places, Files!Counts, Files!Replies,
       Files!Steps, Files!Index, Files!Chats, Files!Ids, Files!Files, Files!Picks, Files!Image
  <1> QED BY <1>4 DEF FilesTyped, MessageSet, Files!Steps, Files!Files, Files!Picks

(* The next file of a loop. *)
LEMMA LoopBegins ==
  ASSUME FilesBounds, NEW l \in Files!Loop, l.at <= l.of, NEW d \in Nat
  PROVE /\ Files!Begins(l, d) \in Files!Loop
        /\ Files!Begins(l, d).at = l.at + 1 /\ l.at + 1 \in Files!Places
        /\ Files!Begins(l, d).of = l.of /\ Files!Begins(l, d).picked = l.picked
        /\ Files!Begins(l, d).gone = l.gone /\ Files!Begins(l, d).cut = l.cut
        /\ Files!Begins(l, d).draft = d /\ Files!Begins(l, d).reply = "none"
  <1>1. l.at \in Files!Places /\ l.of \in Files!Counts BY DEF Files!Loop
  <1>2. l.at + 1 \in Files!Places BY <1>1 DEF FilesBounds, Files!Places, Files!Counts
  <1>3. "none" \in Files!Replies BY DEF Files!Replies
  <1> QED BY <1>2, <1>3 DEF Files!Begins, Files!Loop

LEMMA LoopFields ==
  ASSUME FilesBounds, NEW l \in Files!Loop
  PROVE /\ l.at \in Nat /\ l.at >= 1 /\ l.of \in Nat /\ l.cut \in Nat /\ l.gone \in BOOLEAN
        /\ l.draft \in Nat /\ l.picked \in Nat /\ l.of <= PerPick
  <1>1. /\ l.at \in Files!Places /\ l.of \in Files!Counts /\ l.cut \in Files!Places \union {0}
        /\ l.gone \in BOOLEAN /\ l.draft \in Nat /\ l.picked \in Files!Chats
    BY DEF Files!Loop
  <1> QED BY <1>1 DEF FilesBounds, Files!Places, Files!Counts, Files!Chats

LEMMA FilesGoOn ==
  ASSUME FilesBounds, FilesInv, NEW p \in Files!Picks, Files!InFlight(p), Files!GoesOn(p),
         UNCHANGED <<picks, mounted, main, index>>
  PROVE /\ loops' \in [Files!Picks -> Files!Loop] /\ LoopsTrue'
        /\ loops'[p].at = loops[p].at + 1
        /\ \A q \in Files!Picks : loops'[q].at >= loops[q].at
  <1>1. /\ loops \in [Files!Picks -> Files!Loop] /\ loops[p] \in Files!Loop /\ draft \in Nat
    BY FileTypes DEF FilesInv
  <1> DEFINE d == IF loops[p].gone THEN loops[p].draft ELSE draft
             e == Files!Begins(loops[p], d)
  <1>2. d \in Nat BY <1>1, LoopFields
  <1>3. loops[p].at <= loops[p].of BY DEF Files!InFlight
  <1>4. /\ e \in Files!Loop /\ e.at = loops[p].at + 1 /\ e.of = loops[p].of
        /\ e.picked = loops[p].picked /\ e.gone = loops[p].gone /\ e.cut = loops[p].cut
        /\ e.reply = "none"
    BY <1>1, <1>2, <1>3, LoopBegins
  <1>5. loops' = [loops EXCEPT ![p] = e] BY DEF Files!GoesOn
  <1> HIDE DEF e, d
  <1>6. loops' \in [Files!Picks -> Files!Loop] BY <1>1, <1>4, <1>5
  <1>7. loops'[p] = e /\ \A q \in Files!Picks : q # p => loops'[q] = loops[q] BY <1>1, <1>5
  <1>8. LoopTrue(p) BY DEF FilesInv, LoopsTrue
  <1>9. LoopTrue(p)'
    <2>3. p \in Nat /\ picks \in Nat BY FileTypes DEF FilesInv, Files!Picks, FilesBounds
    <2>1. p <= picks
      <3>1. p > picks => loops[p].at = 1 /\ loops[p].of = 0 BY <1>8 DEF LoopTrue
      <3> QED BY <1>3, <2>3, <3>1
    <2>2. e.at >= e.cut \/ e.cut = 0 BY <1>1, <1>4, <1>8, LoopFields DEF LoopTrue
    <2> QED BY <2>1, <2>2, <2>3, <1>4, <1>7, <1>8 DEF LoopTrue, Files!InFlight
  <1>10. ASSUME NEW q \in Files!Picks, q # p PROVE LoopTrue(q)'
    <2>1. LoopTrue(q) BY DEF FilesInv, LoopsTrue
    <2> QED BY <2>1, <1>7, <1>10 DEF LoopTrue, Files!InFlight, Files!File
  <1>11. LoopsTrue' BY <1>9, <1>10 DEF LoopsTrue, Files!Picks
  <1>12. \A q \in Files!Picks : loops'[q].at >= loops[q].at BY <1>1, <1>4, <1>7, LoopFields
  <1> QED BY <1>4, <1>6, <1>7, <1>11, <1>12

LEMMA FilesAbandoned ==
  ASSUME FilesBounds, FilesInv, NEW d \in Nat, NEW leaving \in BOOLEAN,
         loops' = Files!Abandoned(d, leaving), UNCHANGED <<picks, index>>,
         leaving \/ (mounted /\ mounted')
  PROVE /\ loops' \in [Files!Picks -> Files!Loop] /\ LoopsTrue'
        /\ \A q \in Files!Picks : loops'[q].at >= loops[q].at
  <1>1. /\ loops \in [Files!Picks -> Files!Loop] /\ \A q \in Files!Picks : loops[q] \in Files!Loop
    BY FileTypes DEF FilesInv
  <1>2. ASSUME NEW q \in Files!Picks
        PROVE loops'[q] \in Files!Loop /\ LoopTrue(q)' /\ loops'[q].at >= loops[q].at
    <2>1. LoopTrue(q) BY DEF FilesInv, LoopsTrue
    <2>2. CASE q \notin Files!Uploading
      <3>1. loops'[q] = loops[q] BY <2>2 DEF Files!Abandoned
      <3>2. Files!InFlight(q) => loops[q].gone BY <2>2 DEF Files!Uploading
      <3> QED BY <1>1, <2>1, <3>1, <3>2, LoopFields DEF LoopTrue, Files!InFlight, Files!File
    <2>3. CASE q \in Files!Uploading
      <3>1. loops[q].at <= loops[q].of /\ ~loops[q].gone BY <2>3 DEF Files!Uploading, Files!InFlight
      <3> DEFINE b == Files!Begins(loops[q], d)
                 e == [b EXCEPT !.gone = leaving, !.cut = IF @ = 0 THEN loops[q].at + 1 ELSE @]
      <3>2. /\ b \in Files!Loop /\ b.at = loops[q].at + 1 /\ loops[q].at + 1 \in Files!Places
            /\ b.of = loops[q].of /\ b.picked = loops[q].picked /\ b.cut = loops[q].cut
            /\ b.reply = "none"
        BY <1>1, <3>1, LoopBegins
      <3>3. loops'[q] = e BY <2>3 DEF Files!Abandoned
      <3> HIDE DEF b
      <3>4. /\ e \in Files!Loop /\ e.at = b.at /\ e.of = b.of /\ e.gone = leaving
            /\ e.cut = (IF b.cut = 0 THEN loops[q].at + 1 ELSE b.cut) /\ e.reply = "none"
        BY <3>2 DEF Files!Loop
      <3> HIDE DEF e
      <3>5. loops[q].at \in Nat /\ loops[q].of \in Nat /\ loops[q].cut \in Nat BY <1>1, LoopFields
      <3>a. picks \in 0..MaxPicks BY FileTypes DEF FilesInv
      <3>b. q \in Nat /\ picks \in Nat BY <3>a DEF Files!Picks, FilesBounds
      <3>6. q <= picks BY <2>1, <3>1, <3>5, <3>b DEF LoopTrue
      <3>7. e.cut # 0 /\ e.at >= e.cut /\ e.at >= loops[q].at
        BY <2>1, <3>2, <3>4, <3>5 DEF LoopTrue
      <3>9. LoopTrue(q)' BY <3>3, <3>4, <3>6, <3>7, <3>b DEF LoopTrue
      <3> QED BY <3>3, <3>4, <3>7, <3>9
    <2> QED BY <2>2, <2>3
  <1>3. loops' = [q \in Files!Picks |-> loops'[q]] BY DEF Files!Abandoned
  <1> QED BY <1>2, <1>3 DEF LoopsTrue, Files!Picks

LEMMA FilesStay ==
  ASSUME FilesBounds, FilesInv, loops' \in [Files!Picks -> Files!Loop],
         \A q \in Files!Picks : loops'[q].at >= loops[q].at,
         index.ids \union index.glued \subseteq index'.ids \union index'.glued,
         NEW f \in Files!Files, Uploaded(f)
  PROVE Uploaded(f)'
  <1>1. f[1] \in Files!Picks /\ f[2] \in Nat BY DEF Files!Files, FilesBounds
  <1>2. loops[f[1]].at \in Nat /\ loops'[f[1]].at \in Nat BY <1>1, FileTypes, LoopFields DEF FilesInv
  <1> QED BY <1>1, <1>2 DEF Uploaded

(* The file in flight is on no bar and in no message yet. *)
LEMMA FileIsNew ==
  ASSUME FilesBounds, FilesInv, NEW p \in Files!Picks, Files!InFlight(p)
  PROVE /\ Files!File(p) \in Files!Files /\ Files!File(p)[1] = p /\ Files!File(p)[2] = loops[p].at
        /\ ~OnBar(Files!File(p)) /\ ~InMessage(Files!File(p))
  <1>1. loops[p] \in Files!Loop BY FileTypes DEF FilesInv
  <1>2. /\ loops[p].at \in Nat /\ loops[p].of \in Nat /\ loops[p].at >= 1 /\ loops[p].of <= PerPick
    BY <1>1, LoopFields
  <1>3. loops[p].at \in 1..PerPick BY <1>2 DEF Files!InFlight, FilesBounds
  <1>4. Files!File(p) \in Files!Files /\ Files!File(p)[1] = p /\ Files!File(p)[2] = loops[p].at
    BY <1>3 DEF Files!File, Files!Files
  <1>5. ~Uploaded(Files!File(p)) BY <1>2, <1>4 DEF Uploaded
  <1> QED BY <1>4, <1>5 DEF FilesInv, FilesUploaded

LEMMA FilesJoin ==
  ASSUME FilesBounds, FilesInv, NEW p \in Files!Picks, Files!Joins(p)
  PROVE FilesInv'
  <1>1. /\ Files!InFlight(p) /\ loops[p].reply = "stored" /\ Files!GoesOn(p)
        /\ UNCHANGED <<picks, draft, mounted, main, message, sends, index, byId, indexLoaded,
                       shadowed, chat, chats, upsets>>
        /\ \/ attachments' = Append(attachments, Files!File(p)) /\ owed' = owed \union {Files!File(p)}
           \/ UNCHANGED <<attachments, owed>>
    BY DEF Files!Joins, Files!server, Files!store
  <1>2. /\ loops' \in [Files!Picks -> Files!Loop] /\ LoopsTrue'
        /\ loops'[p].at = loops[p].at + 1
        /\ \A q \in Files!Picks : loops'[q].at >= loops[q].at
    BY <1>1, FilesGoOn
  <1>3. /\ Files!File(p) \in Files!Files /\ Files!File(p)[1] = p /\ Files!File(p)[2] = loops[p].at
        /\ ~OnBar(Files!File(p)) /\ ~InMessage(Files!File(p))
    BY <1>1, FileIsNew
  <1>4. PICK f \in Files!Files : f = Files!File(p) BY <1>3
  <1>5. /\ Uploaded(f)' /\ ~OnBar(f) /\ ~InMessage(f)
        /\ \/ attachments' = Append(attachments, f) /\ owed' = owed \union {f}
           \/ UNCHANGED <<attachments, owed>>
    <2>1. f \in index.ids \union index.glued
      BY <1>1, <1>4 DEF FilesInv, LoopsTrue, LoopTrue
    <2>2. loops[p].at \in Nat BY FileTypes, LoopFields DEF FilesInv
    <2>3. f[1] = p /\ f[2] = loops[p].at BY <1>3, <1>4
    <2>4. Uploaded(f)' BY <1>1, <1>2, <2>1, <2>2, <2>3 DEF Uploaded
    <2> QED BY <1>1, <1>3, <1>4, <2>4
  <1>6. /\ attachments \in Seq(Files!Files) /\ Len(attachments) \in Nat
        /\ \A i \in 1..Len(attachments) : attachments[i] \in Files!Files
        /\ \A i, j \in 1..Len(attachments) : attachments[i] = attachments[j] => i = j
        /\ owed \subseteq Files!Files
    BY FileTypes DEF FilesInv
  <1>7. FilesTyped'
    <2>1. attachments' \in Seq(Files!Files) /\ owed' \subseteq Files!Files BY <1>5, <1>6
    <2>2. \A i, j \in 1..Len(attachments') : attachments'[i] = attachments'[j] => i = j
      <3>1. CASE attachments' = Append(attachments, f)
        <4>1. /\ Len(attachments') = Len(attachments) + 1 /\ attachments'[Len(attachments) + 1] = f
              /\ \A i \in 1..Len(attachments) : attachments'[i] = attachments[i]
          BY <1>6, <3>1
        <4>2. \A i \in 1..Len(attachments) : attachments[i] # f BY <1>5 DEF OnBar
        <4> QED BY <1>6, <4>1, <4>2
      <3> QED BY <1>5, <1>6, <3>1
    <2> QED BY <1>1, <1>2, <2>1, <2>2, FileTypes, FileTyped DEF FilesInv
  <1>8. ChatsFit' BY <1>1 DEF FilesInv, ChatsFit
  <1>9. FilesUploaded'
    <2>1. ASSUME NEW g \in Files!Files, (OnBar(g) \/ InMessage(g))' PROVE Uploaded(g)'
      <3>1. CASE g = f BY <1>5, <3>1
      <3>2. CASE g # f
        <4>1. OnBar(g) \/ InMessage(g) BY <1>1, <1>5, <1>6, <2>1, <3>2 DEF OnBar, InMessage
        <4>2. Uploaded(g) BY <4>1 DEF FilesInv, FilesUploaded
        <4> QED BY <1>1, <1>2, <4>2, FilesStay
      <3> QED BY <3>1, <3>2
    <2> QED BY <2>1 DEF FilesUploaded, Files!Files, Files!Picks
  <1>10. NothingOwed' BY <1>1, <1>5 DEF FilesInv, NothingOwed, InMessage
  <1>11. Files!FilesArrive'
    <2>1. Files!FilesArrive BY DEF FilesInv
    <2>2. CASE attachments' = Append(attachments, f) /\ owed' = owed \union {f}
      <3>1. DOMAIN attachments' = 1..(Len(attachments) + 1) /\ attachments'[Len(attachments) + 1] = f
            /\ \A i \in 1..Len(attachments) : attachments'[i] = attachments[i]
        BY <2>2, <1>6
      <3>2. Files!Range(attachments) \subseteq Files!Range(attachments')
        BY <1>6, <3>1 DEF Files!Range
      <3>3. f \in Files!Range(attachments') BY <1>6, <3>1 DEF Files!Range
      <3> QED BY <2>1, <2>2, <3>2, <3>3 DEF Files!FilesArrive
    <2> QED BY <1>5, <2>1, <2>2 DEF Files!FilesArrive
  <1>12. Files!IndexIsServed' BY <1>1 DEF FilesInv, Files!IndexIsServed
  <1> QED BY <1>2, <1>7, <1>8, <1>9, <1>10, <1>11, <1>12 DEF FilesInv

(* A step that leaves bar, messages and debts alone, and neither takes from the index nor back a file. *)
LEMMA FilesQuiet ==
  ASSUME FilesBounds, FilesInv, loops' \in [Files!Picks -> Files!Loop], LoopsTrue',
         \A q \in Files!Picks : loops'[q].at >= loops[q].at,
         index.ids \union index.glued \subseteq index'.ids \union index'.glued,
         UNCHANGED <<attachments, owed>>, 
         message' = message \/ message' = Files!NoMessage
  PROVE FilesUploaded' /\ NothingOwed' /\ Files!FilesArrive'
  <1>1. /\ Len(message'.refs) \in Nat
        /\ message' = message \/ Len(message'.refs) = 0
    BY FileTypes DEF Files!NoMessage, FilesInv
  <1>2. FilesUploaded'
    <2>1. ASSUME NEW g \in Files!Files, (OnBar(g) \/ InMessage(g))' PROVE Uploaded(g)'
      <3>1. OnBar(g) \/ InMessage(g) BY <1>1, <2>1 DEF OnBar, InMessage
      <3> QED BY <3>1, FilesStay DEF FilesInv, FilesUploaded
    <2> QED BY <2>1 DEF FilesUploaded, Files!Files, Files!Picks
  <1>3. NothingOwed' BY <1>1 DEF FilesInv, NothingOwed, InMessage, Files!NoMessage
  <1> QED BY <1>2, <1>3 DEF FilesInv, Files!FilesArrive

LEMMA FilesFail ==
  ASSUME FilesBounds, FilesInv, NEW p \in Files!Picks, Files!Fails(p) \/ Files!Deadline(p)
  PROVE FilesInv'
  <1>1. /\ Files!InFlight(p) /\ Files!GoesOn(p)
        /\ UNCHANGED <<picks, draft, mounted, attachments, main, message, sends, index, byId,
                       indexLoaded, shadowed, chat, chats, upsets, owed>>
    BY DEF Files!Fails, Files!Deadline, Files!server, Files!store
  <1>2. /\ loops' \in [Files!Picks -> Files!Loop] /\ LoopsTrue'
        /\ \A q \in Files!Picks : loops'[q].at >= loops[q].at
    BY <1>1, FilesGoOn
  <1>3. FilesTyped' BY <1>1, <1>2, FileTypes, FileTyped DEF FilesInv
  <1>4. FilesUploaded' /\ NothingOwed' /\ Files!FilesArrive' BY <1>1, <1>2, FilesQuiet
  <1>5. ChatsFit' /\ Files!IndexIsServed' BY <1>1 DEF FilesInv, ChatsFit, Files!IndexIsServed
  <1> QED BY <1>2, <1>3, <1>4, <1>5 DEF FilesInv

(* A pick is not longer than what was picked. *)
LEMMA TakenFits ==
  ASSUME FilesBounds, FilesInv, NEW n \in 1..PerPick, Files!Taken(n) > 0
  PROVE Files!Taken(n) \in Files!Counts
  <1> DEFINE u == Len(attachments) + Cardinality(Files!Uploading)
  <1>1. u \in Nat
    <2>1. IsFiniteSet(Files!Picks) BY FS_Interval DEF FilesBounds, Files!Picks
    <2>2. Files!Uploading \subseteq Files!Picks BY DEF Files!Uploading
    <2>3. Cardinality(Files!Uploading) \in Nat BY <2>1, <2>2, FS_Subset, FS_CardinalityType
    <2> QED BY <2>3, FileTypes DEF FilesInv
  <1>2. Files!Taken(n) = LET used == u IN
                         IF used <= Limit THEN (IF n <= Limit - used THEN n ELSE Limit - used)
                         ELSE IF n > used - Limit THEN n - (used - Limit) ELSE 0
    <2>1. Files!Cardinality(Files!Uploading) = Cardinality(Files!Uploading)
      BY DEF Files!Cardinality, Cardinality
    <2> QED BY <2>1 DEF Files!Taken
  <1> HIDE DEF u
  <1>3. Files!Taken(n) \in Int /\ Files!Taken(n) <= n
    <2>1. CASE u <= Limit BY <1>1, <1>2, <2>1 DEF FilesBounds
    <2>2. CASE ~(u <= Limit) BY <1>1, <1>2, <2>2 DEF FilesBounds
    <2> QED BY <2>1, <2>2
  <1> QED BY <1>3 DEF FilesBounds, Files!Counts

LEMMA FilesPick ==
  ASSUME FilesBounds, FilesInv, NEW n \in 1..PerPick, Files!Pick(n)
  PROVE FilesInv'
  <1> DEFINE e == [Files!Fresh EXCEPT !.of = Files!Taken(n), !.draft = draft, !.picked = main]
  <1>1. /\ mounted /\ picks < MaxPicks /\ Files!Taken(n) > 0 /\ picks' = picks + 1
        /\ loops' = [loops EXCEPT ![picks + 1] = e]
        /\ UNCHANGED <<draft, mounted, attachments, main, message, sends, index, byId,
                       indexLoaded, shadowed, chat, chats, upsets, owed>>
    BY DEF Files!Pick, Files!server, Files!store
  <1>2. /\ e \in Files!Loop /\ e.at = 1 /\ e.gone = FALSE /\ e.cut = 0 /\ e.reply = "none" /\ e.picked = main
    <2>1. 1 \in Files!Places BY DEF Files!Places, FilesBounds
    <2>2. Files!Taken(n) \in Files!Counts BY <1>1, TakenFits
    <2>3. draft \in Nat /\ main \in Files!Chats BY FileTypes DEF FilesInv
    <2>4. "none" \in Files!Replies BY DEF Files!Replies
    <2> QED BY <2>1, <2>2, <2>3, <2>4 DEF Files!Fresh, Files!Loop
  <1> HIDE DEF e
  <1>3. /\ picks \in Nat /\ picks + 1 \in Files!Picks /\ picks + 1 \in 0..MaxPicks
        /\ loops \in [Files!Picks -> Files!Loop]
    <2>1. picks \in 0..MaxPicks /\ MaxPicks \in Nat BY DEF FilesInv, FilesTyped, FilesBounds
    <2>2. loops \in [Files!Picks -> Files!Loop] BY FileTypes DEF FilesInv
    <2> QED BY <1>1, <2>1, <2>2 DEF Files!Picks
  <1>4. /\ loops' \in [Files!Picks -> Files!Loop] /\ loops'[picks + 1] = e
        /\ \A q \in Files!Picks : q # picks + 1 => loops'[q] = loops[q]
    BY <1>1, <1>2, <1>3
  <1>5. \A q \in Files!Picks : loops'[q].at >= loops[q].at
    <2>1. loops[picks + 1].at = 1 BY <1>3 DEF FilesInv, LoopsTrue, LoopTrue
    <2> QED BY <1>2, <1>3, <1>4, <2>1, LoopFields
  <1>6. LoopsTrue'
    <2>1. ASSUME NEW q \in Files!Picks, q = picks + 1 PROVE LoopTrue(q)'
      BY <1>1, <1>2, <1>3, <1>4, <2>1 DEF LoopTrue
    <2>2. ASSUME NEW q \in Files!Picks, q # picks + 1 PROVE LoopTrue(q)'
      <3>1. LoopTrue(q) /\ q \in Nat BY DEF FilesInv, LoopsTrue, Files!Picks
      <3> QED BY <1>1, <1>3, <1>4, <2>2, <3>1 DEF LoopTrue, Files!InFlight, Files!File
    <2> QED BY <2>1, <2>2 DEF LoopsTrue, Files!Picks
  <1>7. FilesTyped' BY <1>1, <1>3, <1>4, FileTypes, FileTyped DEF FilesInv
  <1>8. FilesUploaded' /\ NothingOwed' /\ Files!FilesArrive' BY <1>1, <1>4, <1>5, <1>6, FilesQuiet
  <1>9. ChatsFit' /\ Files!IndexIsServed' BY <1>1 DEF FilesInv, ChatsFit, Files!IndexIsServed
  <1> QED BY <1>6, <1>7, <1>8, <1>9 DEF FilesInv

LEMMA FilesAppended ==
  ASSUME FilesBounds, FilesInv, NEW f \in Files!Ids
  PROVE /\ Files!Appended(f) \in Files!Index
        /\ Files!Appended(f).ids \union Files!Appended(f).glued = index.ids \union index.glued \union {f}
        /\ Files!Appended(f).ids \subseteq index.ids \union {f}
  <1>1. index \in Files!Index BY FileTypes DEF FilesInv
  <1> QED BY <1>1 DEF Files!Appended, Files!Index

LEMMA FileIds ==
  ASSUME FilesBounds, FilesInv
  PROVE /\ Files!Files \subseteq Files!Ids /\ Files!Image \in Files!Ids
        /\ Files!Loaded \subseteq Files!Ids
  <1>1. index.ids \subseteq Files!Ids /\ byId \subseteq Files!Ids
    BY FileTypes DEF FilesInv, Files!Index
  <1> QED BY <1>1 DEF Files!Loaded, Files!Ids

(* The answers of the server change no loop but for its reply. *)
LEMMA FilesAnswered ==
  ASSUME FilesBounds, FilesInv, NEW p \in Files!Picks, NEW r \in Files!Replies,
         loops' = [loops EXCEPT ![p].reply = r], UNCHANGED <<picks, mounted, main>>,
         index.ids \union index.glued \subseteq index'.ids \union index'.glued,
         r = "stored" => Files!File(p) \in index'.ids \union index'.glued
  PROVE /\ loops' \in [Files!Picks -> Files!Loop] /\ LoopsTrue'
        /\ \A q \in Files!Picks : loops'[q].at >= loops[q].at
  <1>1. loops \in [Files!Picks -> Files!Loop] /\ loops[p] \in Files!Loop BY FileTypes DEF FilesInv
  <1> DEFINE e == [loops[p] EXCEPT !.reply = r]
  <1>2. /\ e \in Files!Loop /\ e.at = loops[p].at /\ e.of = loops[p].of /\ e.gone = loops[p].gone
        /\ e.cut = loops[p].cut /\ e.picked = loops[p].picked /\ e.reply = r
    BY <1>1 DEF Files!Loop
  <1>3. loops' = [loops EXCEPT ![p] = e] BY <1>1
  <1> HIDE DEF e
  <1>4. /\ loops' \in [Files!Picks -> Files!Loop] /\ loops'[p] = e
        /\ \A q \in Files!Picks : q # p => loops'[q] = loops[q]
    BY <1>1, <1>2, <1>3
  <1>5. \A q \in Files!Picks : loops'[q].at >= loops[q].at
    <2>1. \A q \in Files!Picks : loops'[q].at = loops[q].at BY <1>2, <1>4
    <2>2. \A q \in Files!Picks : loops[q].at \in Nat BY <1>1, LoopFields
    <2> QED BY <2>1, <2>2
  <1>6. ASSUME NEW q \in Files!Picks PROVE LoopTrue(q)'
    <2>1. LoopTrue(q) BY DEF FilesInv, LoopsTrue
    <2>2. CASE q = p BY <1>2, <1>4, <2>1, <2>2 DEF LoopTrue, Files!InFlight, Files!File
    <2>3. CASE q # p BY <1>4, <2>1, <2>3 DEF LoopTrue, Files!InFlight, Files!File
    <2> QED BY <2>2, <2>3
  <1> QED BY <1>4, <1>5, <1>6 DEF LoopsTrue, Files!Picks

LEMMA FilesSave ==
  ASSUME FilesBounds, FilesInv, NEW p \in Files!Picks, Files!Save(p)
  PROVE FilesInv'
  <1>1. /\ Files!InFlight(p) /\ Files!Write(Files!File(p))
        /\ loops' = [loops EXCEPT ![p].reply = "stored"]
        /\ UNCHANGED <<picks, draft, mounted, attachments, main, message, sends, chat, chats,
                       upsets, owed>>
    BY DEF Files!Save, Files!Waits
  <1>2. PICK f \in Files!Files : f = Files!File(p) BY <1>1, FileIsNew
  <1>3. /\ index' = Files!Appended(f) /\ indexLoaded' = TRUE /\ byId' = byId \union {f}
        /\ shadowed' = IF indexLoaded THEN shadowed ELSE index.ids
    BY <1>1, <1>2 DEF Files!Write
  <1>4. /\ index' \in Files!Index /\ index'.ids \subseteq index.ids \union {f}
        /\ index'.ids \union index'.glued = index.ids \union index.glued \union {f}
    BY <1>3, FileIds, FilesAppended
  <1>5. /\ loops' \in [Files!Picks -> Files!Loop] /\ LoopsTrue'
        /\ \A q \in Files!Picks : loops'[q].at >= loops[q].at
    <2>1. "stored" \in Files!Replies BY DEF Files!Replies
    <2> QED BY <1>1, <1>2, <1>4, <2>1, FilesAnswered
  <1>6. FilesTyped'
    <2>1. index.ids \subseteq Files!Ids BY FileTypes DEF FilesInv, Files!Index
    <2>2. byId' \subseteq Files!Ids /\ shadowed' \subseteq Files!Ids
      BY <1>3, <2>1, FileIds, FileTypes DEF FilesInv
    <2> QED BY <1>1, <1>3, <1>4, <1>5, <2>2, FileTypes, FileTyped DEF FilesInv
  <1>7. FilesUploaded' /\ NothingOwed' /\ Files!FilesArrive' BY <1>1, <1>4, <1>5, FilesQuiet
  <1>8. Files!IndexIsServed' BY <1>3, <1>4 DEF FilesInv, Files!IndexIsServed
  <1>9. ChatsFit' BY <1>1 DEF FilesInv, ChatsFit
  <1> QED BY <1>5, <1>6, <1>7, <1>8, <1>9 DEF FilesInv

LEMMA FilesRefuse ==
  ASSUME FilesBounds, FilesInv, NEW p \in Files!Picks, Files!Refuse(p)
  PROVE FilesInv'
  <1>1. /\ loops' = [loops EXCEPT ![p].reply = "failed"]
        /\ UNCHANGED <<picks, draft, mounted, attachments, main, message, sends, index, byId,
                       indexLoaded, shadowed, chat, chats, owed>>
    BY DEF Files!Refuse, Files!store
  <1>2. /\ loops' \in [Files!Picks -> Files!Loop] /\ LoopsTrue'
        /\ \A q \in Files!Picks : loops'[q].at >= loops[q].at
    <2>1. "failed" \in Files!Replies BY DEF Files!Replies
    <2> QED BY <1>1, <2>1, FilesAnswered
  <1>3. FilesTyped' BY <1>1, <1>2, FileTypes, FileTyped DEF FilesInv
  <1>4. FilesUploaded' /\ NothingOwed' /\ Files!FilesArrive' BY <1>1, <1>2, FilesQuiet
  <1>5. ChatsFit' /\ Files!IndexIsServed' BY <1>1 DEF FilesInv, ChatsFit, Files!IndexIsServed
  <1> QED BY <1>2, <1>3, <1>4, <1>5 DEF FilesInv

LEMMA NoMessageTyped ==
  /\ Files!NoMessage \in MessageSet /\ Files!NoMessage.step = "none" /\ Files!NoMessage.to = 0
  /\ Files!NoMessage.refs = <<>>
  <1>1. "none" \in Files!Steps /\ <<>> \in Seq(Files!Files) /\ 0 \in Nat BY DEF Files!Steps
  <1> QED BY <1>1 DEF MessageSet, Files!NoMessage

LEMMA FilesRestart ==
  ASSUME FilesBounds, FilesInv, NEW tears \in BOOLEAN, Files!Restart(tears)
  PROVE FilesInv'
  <1>1. /\ index' = [index EXCEPT !.torn = @ \/ tears]
        /\ byId' = {} /\ indexLoaded' = FALSE /\ shadowed' = {}
        /\ loops' = [p \in Files!Picks |-> IF Files!Waits(p) THEN [loops[p] EXCEPT !.reply = "failed"]
                                                             ELSE loops[p]]
        /\ message' = IF message.step = "posted" THEN Files!NoMessage ELSE message
        /\ UNCHANGED <<picks, draft, mounted, attachments, main, sends, chat, chats, owed>>
    BY DEF Files!Restart
  <1>2. index' \in Files!Index /\ index'.ids = index.ids /\ index'.glued = index.glued
    <2>1. index \in Files!Index BY FileTypes DEF FilesInv
    <2> QED BY <1>1, <2>1 DEF Files!Index
  <1>3. ASSUME NEW q \in Files!Picks
        PROVE /\ loops'[q] \in Files!Loop /\ LoopTrue(q)' /\ loops'[q].at >= loops[q].at
    <2>1. LoopTrue(q) /\ loops[q] \in Files!Loop /\ loops[q].at \in Nat
      BY FileTypes, LoopFields DEF FilesInv, LoopsTrue
    <2>2. CASE Files!Waits(q)
      <3>1. loops'[q] = [loops[q] EXCEPT !.reply = "failed"] BY <1>1, <2>2
      <3>2. "failed" \in Files!Replies BY DEF Files!Replies
      <3> QED BY <1>1, <1>2, <2>1, <3>1, <3>2 DEF Files!Loop, LoopTrue, Files!InFlight, Files!File
    <2>3. CASE ~Files!Waits(q)
      BY <1>1, <1>2, <2>1, <2>3 DEF LoopTrue, Files!InFlight, Files!File
    <2> QED BY <2>2, <2>3
  <1>4. loops' \in [Files!Picks -> Files!Loop]
    <2>1. loops' = [q \in Files!Picks |-> loops'[q]] BY <1>1
    <2> QED BY <1>3, <2>1
  <1>5. LoopsTrue' BY <1>3 DEF LoopsTrue, Files!Picks
  <1>6. message' = message \/ message' = Files!NoMessage BY <1>1
  <1>7. FilesTyped'
    <2>1. message' \in MessageSet BY <1>6, NoMessageTyped, FileTypes DEF FilesInv
    <2> QED BY <1>1, <1>2, <1>4, <2>1, FileTypes, FileTyped DEF FilesInv
  <1>8. FilesUploaded' /\ NothingOwed' /\ Files!FilesArrive'
    BY <1>1, <1>2, <1>3, <1>4, <1>5, <1>6, FilesQuiet
  <1>9. ChatsFit'
    <2>1. message'.step = "posted" => message' = message BY <1>6 DEF Files!NoMessage
    <2>2. message'.to = message.to \/ message'.to = 0 BY <1>6 DEF Files!NoMessage
    <2> QED BY <1>1, <1>6, <2>1, <2>2, FileTypes DEF FilesInv, ChatsFit
  <1>10. Files!IndexIsServed' BY <1>1 DEF Files!IndexIsServed
  <1> QED BY <1>5, <1>7, <1>8, <1>9, <1>10 DEF FilesInv

(* Steps that leave the loops alone. *)
LEMMA LoopsSame ==
  ASSUME FilesBounds, FilesInv, UNCHANGED <<loops, picks>>,
         (UNCHANGED <<mounted, main>>) \/ ~mounted,
         index.ids \union index.glued \subseteq index'.ids \union index'.glued
  PROVE /\ loops' \in [Files!Picks -> Files!Loop] /\ LoopsTrue'
        /\ \A q \in Files!Picks : loops'[q].at >= loops[q].at
  <1>1. /\ loops \in [Files!Picks -> Files!Loop]
        /\ \A q \in Files!Picks : loops[q].at \in Nat
    BY FileTypes, LoopFields DEF FilesInv
  <1>2. ASSUME NEW q \in Files!Picks PROVE LoopTrue(q)'
    <2>1. LoopTrue(q) BY DEF FilesInv, LoopsTrue
    <2> QED BY <2>1 DEF LoopTrue, Files!InFlight, Files!File
  <1> QED BY <1>1, <1>2 DEF LoopsTrue, Files!Picks

(* ... and the store. *)
LEMMA FilesCalm ==
  ASSUME FilesBounds, FilesInv, UNCHANGED <<loops, picks, draft, attachments, sends, owed>>,
         UNCHANGED <<index, byId, indexLoaded, shadowed>>,
         (UNCHANGED <<mounted, main>>) \/ ~mounted, mounted' \in BOOLEAN, main' = main,
         chat' \in 0..chats, chats' = chats,
         message' = message \/ message' = Files!NoMessage
  PROVE FilesInv'
  <1>1. /\ loops' \in [Files!Picks -> Files!Loop] /\ LoopsTrue'
        /\ \A q \in Files!Picks : loops'[q].at >= loops[q].at
    BY LoopsSame
  <1>2. FilesUploaded' /\ NothingOwed' /\ Files!FilesArrive' BY <1>1, FilesQuiet
  <1>3. message' \in MessageSet BY NoMessageTyped, FileTypes DEF FilesInv
  <1>4. chats \in Nat /\ chat' \in Files!Chats
    BY FileTypes DEF FilesInv, Files!Chats, FilesBounds
  <1>5. FilesTyped' BY <1>1, <1>3, <1>4, FileTypes, FileTyped DEF FilesInv
  <1>6. ChatsFit'
    <2>1. ChatsFit BY DEF FilesInv
    <2>2. message'.step = "posted" => message' = message BY NoMessageTyped
    <2>3. message'.to = message.to \/ message'.to = 0 BY NoMessageTyped
    <2> QED BY <1>4, <2>1, <2>2, <2>3 DEF ChatsFit
  <1>7. Files!IndexIsServed' BY DEF FilesInv, Files!IndexIsServed
  <1> QED BY <1>1, <1>2, <1>5, <1>6, <1>7 DEF FilesInv

LEMMA FilesReturn ==
  ASSUME FilesBounds, FilesInv, Files!Return \/ Files!SendFails \/ Files!NewChat
  PROVE FilesInv'
  <1>1. chat \in Nat /\ chats \in Nat /\ chat <= chats
    BY FileTypes DEF FilesInv, ChatsFit
  <1>2. mounted \in BOOLEAN BY FileTypes DEF FilesInv
  <1>3. CASE Files!Return
    <2>1. /\ ~mounted /\ mounted' = TRUE
          /\ UNCHANGED <<loops, picks, draft, attachments, main, message, sends>>
          /\ UNCHANGED <<index, byId, indexLoaded, shadowed, chat, chats, owed>>
      BY <1>3 DEF Files!Return, Files!server, Files!store
    <2> QED BY <1>1, <2>1, FilesCalm
  <1>4. CASE Files!SendFails
    <2>1. /\ message' = Files!NoMessage
          /\ UNCHANGED <<loops, picks, draft, mounted, attachments, main, sends, owed>>
          /\ UNCHANGED <<index, byId, indexLoaded, shadowed, chat, chats>>
      BY <1>4 DEF Files!SendFails, Files!store
    <2> QED BY <1>1, <1>2, <2>1, FilesCalm
  <1>5. CASE Files!NewChat
    <2>1. /\ chat' = 0
          /\ UNCHANGED <<loops, picks, draft, mounted, attachments, main, message, sends, owed>>
          /\ UNCHANGED <<index, byId, indexLoaded, shadowed, chats>>
      BY <1>5 DEF Files!NewChat, Files!tab, Files!store
    <2> QED BY <1>1, <1>2, <2>1, FilesCalm
  <1> QED BY <1>3, <1>4, <1>5

LEMMA FilesLoad ==
  ASSUME FilesBounds, FilesInv, Files!Register \/ Files!Get
  PROVE FilesInv'
  <1>1. /\ UNCHANGED <<loops, picks, draft, mounted, attachments, main, message, sends>>
        /\ UNCHANGED <<shadowed, chat, chats, owed>> /\ indexLoaded' = TRUE
        /\ \/ index' = Files!Appended(Files!Image) /\ byId' = Files!Loaded \union {Files!Image}
           \/ index' = index /\ byId' = Files!Loaded
    BY DEF Files!Register, Files!Get, Files!LoadIndex, Files!tab
  <1>2. /\ index' \in Files!Index /\ index'.ids \subseteq index.ids \union (byId' \cap {Files!Image})
        /\ index.ids \union index.glued \subseteq index'.ids \union index'.glued
    BY <1>1, FileTypes, FileIds, FilesAppended DEF FilesInv
  <1>3. /\ loops' \in [Files!Picks -> Files!Loop] /\ LoopsTrue'
        /\ \A q \in Files!Picks : loops'[q].at >= loops[q].at
    BY <1>1, <1>2, LoopsSame
  <1>4. FilesTyped' BY <1>1, <1>2, <1>3, FileIds, FileTypes, FileTyped DEF FilesInv
  <1>5. FilesUploaded' /\ NothingOwed' /\ Files!FilesArrive' BY <1>1, <1>2, <1>3, FilesQuiet
  <1>6. Files!IndexIsServed'
    <2>1. index.ids \subseteq Files!Loaded \union shadowed BY DEF FilesInv, Files!IndexIsServed, Files!Loaded
    <2>2. Files!Loaded \subseteq byId' BY <1>1
    <2> QED BY <1>1, <1>2, <2>1, <2>2 DEF Files!IndexIsServed
  <1>7. ChatsFit' BY <1>1 DEF FilesInv, ChatsFit
  <1> QED BY <1>3, <1>4, <1>5, <1>6, <1>7 DEF FilesInv

LEMMA FilesSend ==
  ASSUME FilesBounds, FilesInv, Files!Send
  PROVE FilesInv'
  <1>1. /\ message' = [step |-> "posted", refs |-> attachments, to |-> 0]
        /\ sends' = sends + 1 /\ sends < MaxSends
        /\ UNCHANGED <<loops, picks, draft, mounted, attachments, main, owed>>
        /\ UNCHANGED <<index, byId, indexLoaded, shadowed, chat, chats>>
    BY DEF Files!Send, Files!server, Files!store
  <1>2. /\ loops' \in [Files!Picks -> Files!Loop] /\ LoopsTrue'
        /\ \A q \in Files!Picks : loops'[q].at >= loops[q].at
    BY <1>1, LoopsSame
  <1>3. message' \in MessageSet /\ message'.refs = attachments /\ message'.step = "posted" /\ message'.to = 0
    <2>1. "posted" \in Files!Steps /\ 0 \in Nat BY DEF Files!Steps
    <2> QED BY <1>1, <2>1, FileTypes DEF FilesInv, MessageSet
  <1>4. sends \in Nat /\ sends' \in 0..MaxSends BY <1>1, FileTypes DEF FilesInv, FilesBounds
  <1>5. FilesTyped' BY <1>1, <1>2, <1>3, <1>4, FileTypes, FileTyped DEF FilesInv
  <1>6. FilesUploaded'
    <2>1. ASSUME NEW g \in Files!Files, (OnBar(g) \/ InMessage(g))' PROVE Uploaded(g)'
      <3>1. OnBar(g) BY <1>1, <1>3, <2>1 DEF OnBar, InMessage
      <3> QED BY <1>1, <1>2, <3>1, FilesStay DEF FilesInv, FilesUploaded
    <2> QED BY <2>1 DEF FilesUploaded, Files!Files, Files!Picks
  <1>7. NothingOwed' BY <1>3 DEF NothingOwed
  <1>8. ChatsFit'
    <2>1. ChatsFit BY DEF FilesInv
    <2> QED BY <1>1, <1>3, <1>4, <2>1, FileTypes DEF FilesInv, ChatsFit
  <1>9. Files!FilesArrive' /\ Files!IndexIsServed' BY <1>1 DEF FilesInv, Files!FilesArrive, Files!IndexIsServed
  <1> QED BY <1>2, <1>5, <1>6, <1>7, <1>8, <1>9 DEF FilesInv

LEMMA Joined ==
  ASSUME NEW S, NEW s \in Seq(S), NEW r \in Seq(S)
  PROVE /\ s \o r \in Seq(S) /\ Len(s \o r) = Len(s) + Len(r) /\ Len(s) \in Nat /\ Len(r) \in Nat
        /\ \A i \in 1..Len(s) : (s \o r)[i] = s[i]
        /\ \A i \in 1..Len(r) : (s \o r)[Len(s) + i] = r[i]
        /\ \A i \in 1..Len(s \o r) : i \in 1..Len(s) \/ \E k \in 1..Len(r) : i = Len(s) + k
  <1>1. /\ s \o r \in Seq(S) /\ Len(s \o r) = Len(s) + Len(r) /\ Len(s) \in Nat /\ Len(r) \in Nat
        /\ \A i \in 1..Len(s) : (s \o r)[i] = s[i]
        /\ \A i \in 1..Len(r) : (s \o r)[Len(s) + i] = r[i]
    OBVIOUS
  <1>2. ASSUME NEW i \in 1..Len(s \o r), i \notin 1..Len(s) PROVE \E k \in 1..Len(r) : i = Len(s) + k
    <2>1. i - Len(s) \in 1..Len(r) /\ i = Len(s) + (i - Len(s)) BY <1>1, <1>2
    <2> QED BY <2>1
  <1> QED BY <1>1, <1>2

LEMMA Removed ==
  ASSUME NEW S, NEW s \in Seq(S), NEW i \in 1..Len(s)
  PROVE /\ Files!RemoveAt(s, i) \in Seq(S) /\ Len(Files!RemoveAt(s, i)) = Len(s) - 1
        /\ \A j \in 1..(Len(s) - 1) : Files!RemoveAt(s, i)[j] = IF j < i THEN s[j] ELSE s[j + 1]
  <1> DEFINE a == SubSeq(s, 1, i - 1)
             b == SubSeq(s, i + 1, Len(s))
  <1>1. /\ a \in Seq(S) /\ Len(a) = i - 1 /\ \A j \in 1..(i - 1) : a[j] = s[j]
    OBVIOUS
  <1>2. /\ b \in Seq(S) /\ Len(b) = Len(s) - i /\ \A j \in 1..(Len(s) - i) : b[j] = s[i + j]
    <2>1. b \in Seq(S) OBVIOUS
    <2>2. Len(b) = Len(s) - i OBVIOUS
    <2>3. \A j \in 1..(Len(s) - i) : b[j] = s[i + j] OBVIOUS
    <2> QED BY <2>1, <2>2, <2>3
  <1>3. Files!RemoveAt(s, i) = a \o b BY DEF Files!RemoveAt
  <1> HIDE DEF a, b
  <1>4. Len(s) \in Nat /\ i \in Nat /\ i >= 1 /\ i <= Len(s) OBVIOUS
  <1>5. a \o b \in Seq(S) /\ Len(a \o b) = Len(s) - 1
    <2>1. a \in Seq(S) /\ b \in Seq(S) /\ Len(a) = i - 1 /\ Len(b) = Len(s) - i BY <1>1, <1>2
    <2>2. a \o b \in Seq(S) /\ Len(a \o b) = Len(a) + Len(b) BY <2>1, Joined
    <2> QED BY <1>4, <2>1, <2>2
  <1>6. ASSUME NEW j \in 1..(Len(s) - 1) PROVE (a \o b)[j] = IF j < i THEN s[j] ELSE s[j + 1]
    <2>1. CASE j < i BY <1>1, <1>2, <1>4, <2>1
    <2>2. CASE ~(j < i)
      <3>1. j - (i - 1) \in 1..(Len(s) - i) BY <1>4, <2>2
      <3>2. (a \o b)[j] = b[j - (i - 1)] BY <1>1, <1>2, <1>4, <2>2, <3>1
      <3>3. b[j - (i - 1)] = s[i + (j - (i - 1))] BY <1>2, <3>1
      <3>4. i + (j - (i - 1)) = j + 1 BY <1>4
      <3> QED BY <2>2, <3>2, <3>3, <3>4
    <2> QED BY <2>1, <2>2
  <1> QED BY <1>3, <1>5, <1>6

LEMMA FilesRemove ==
  ASSUME FilesBounds, FilesInv, NEW i \in 1..Len(attachments), Files!RemoveAttachment(i)
  PROVE FilesInv'
  <1>1. /\ attachments' = Files!RemoveAt(attachments, i) /\ owed' = owed \ {attachments[i]}
        /\ UNCHANGED <<loops, picks, draft, mounted, main, message, sends>>
        /\ UNCHANGED <<index, byId, indexLoaded, shadowed, chat, chats>>
    BY DEF Files!RemoveAttachment, Files!store
  <1>2. /\ attachments \in Seq(Files!Files) /\ Len(attachments) \in Nat
        /\ \A j, k \in 1..Len(attachments) : attachments[j] = attachments[k] => j = k
        /\ owed \subseteq Files!Files
    BY FileTypes DEF FilesInv
  <1>3. /\ attachments' \in Seq(Files!Files) /\ Len(attachments') = Len(attachments) - 1
        /\ \A j \in 1..(Len(attachments) - 1) :
             attachments'[j] = IF j < i THEN attachments[j] ELSE attachments[j + 1]
    BY <1>1, <1>2, Removed
  <1>4. /\ loops' \in [Files!Picks -> Files!Loop] /\ LoopsTrue'
        /\ \A q \in Files!Picks : loops'[q].at >= loops[q].at
    BY <1>1, LoopsSame
  <1>5. FilesTyped'
    <2>1. ASSUME NEW j \in 1..Len(attachments'), NEW k \in 1..Len(attachments'),
                 attachments'[j] = attachments'[k]
          PROVE j = k
      <3>1. j \in 1..(Len(attachments) - 1) /\ k \in 1..(Len(attachments) - 1) BY <1>3
      <3>2. PICK x \in 1..Len(attachments) : x = (IF j < i THEN j ELSE j + 1) BY <1>2, <3>1
      <3>3. PICK y \in 1..Len(attachments) : y = (IF k < i THEN k ELSE k + 1) BY <1>2, <3>1
      <3>4. attachments'[j] = attachments[x] /\ attachments'[k] = attachments[y]
        BY <1>3, <3>1, <3>2, <3>3
      <3>5. x = y BY <1>2, <2>1, <3>4
      <3> QED BY <1>2, <3>1, <3>2, <3>3, <3>5
    <2>2. owed' \subseteq Files!Files BY <1>1, <1>2
    <2> QED BY <1>1, <1>3, <1>4, <2>1, <2>2, FileTypes, FileTyped DEF FilesInv
  <1>6. FilesUploaded'
    <2>1. ASSUME NEW g \in Files!Files, (OnBar(g) \/ InMessage(g))' PROVE Uploaded(g)'
      <3>1. OnBar(g) \/ InMessage(g)
        <4>1. CASE InMessage(g)' BY <1>1, <4>1 DEF InMessage
        <4>2. CASE OnBar(g)'
          <5>1. PICK j \in 1..(Len(attachments) - 1) : attachments'[j] = g BY <1>3, <4>2 DEF OnBar
          <5>2. j \in 1..Len(attachments) /\ j + 1 \in 1..Len(attachments) BY <1>2, <5>1
          <5>3. attachments[j] = g \/ attachments[j + 1] = g BY <1>3, <5>1
          <5> QED BY <5>2, <5>3 DEF OnBar
        <4> QED BY <2>1, <4>1, <4>2
      <3> QED BY <1>1, <1>4, <3>1, FilesStay DEF FilesInv, FilesUploaded
    <2> QED BY <2>1 DEF FilesUploaded, Files!Files, Files!Picks
  <1>7. NothingOwed' BY <1>1 DEF FilesInv, NothingOwed, InMessage
  <1>8. Files!FilesArrive'
    <2>1. ASSUME NEW f \in owed' PROVE f \in Files!Range(attachments')
      <3>1. f \in Files!Range(attachments) /\ f # attachments[i]
        BY <1>1, <2>1 DEF FilesInv, Files!FilesArrive
      <3>2. PICK k \in 1..Len(attachments) : attachments[k] = f /\ k # i
        BY <1>2, <3>1 DEF Files!Range
      <3>3. PICK j \in 1..(Len(attachments) - 1) : j = (IF k < i THEN k ELSE k - 1) BY <1>2, <3>2
      <3>4. attachments'[j] = f BY <1>2, <1>3, <3>2, <3>3
      <3>5. DOMAIN attachments' = 1..(Len(attachments) - 1) BY <1>3
      <3> QED BY <3>3, <3>4, <3>5 DEF Files!Range
    <2> QED BY <2>1 DEF Files!FilesArrive
  <1>9. ChatsFit' /\ Files!IndexIsServed' BY <1>1 DEF FilesInv, ChatsFit, Files!IndexIsServed
  <1> QED BY <1>4, <1>5, <1>6, <1>7, <1>8, <1>9 DEF FilesInv

LEMMA FilesLeave ==
  ASSUME FilesBounds, FilesInv, Files!Leave
  PROVE FilesInv'
  <1>1. /\ mounted' = FALSE /\ loops' = Files!Abandoned(draft, TRUE)
        /\ UNCHANGED <<picks, draft, attachments, main, message, sends, owed>>
        /\ UNCHANGED <<index, byId, indexLoaded, shadowed, chat, chats>>
    BY DEF Files!Leave, Files!store
  <1>2. /\ loops' \in [Files!Picks -> Files!Loop] /\ LoopsTrue'
        /\ \A q \in Files!Picks : loops'[q].at >= loops[q].at
    <2>1. draft \in Nat BY FileTypes DEF FilesInv
    <2> QED BY <1>1, <2>1, FilesAbandoned
  <1>3. FilesTyped' BY <1>1, <1>2, FileTypes, FileTyped DEF FilesInv
  <1>4. FilesUploaded' /\ NothingOwed' /\ Files!FilesArrive' BY <1>1, <1>2, FilesQuiet
  <1>5. ChatsFit' /\ Files!IndexIsServed' BY <1>1 DEF FilesInv, ChatsFit, Files!IndexIsServed
  <1> QED BY <1>2, <1>3, <1>4, <1>5 DEF FilesInv

(* The chat on screen may change, and the uploads are cut with it. *)
LEMMA FilesShown ==
  ASSUME FilesBounds, FilesInv, NEW m, Files!Shows(m),
         UNCHANGED <<picks, mounted, index>>
  PROVE /\ loops' \in [Files!Picks -> Files!Loop] /\ LoopsTrue' /\ draft' \in Nat /\ main' = m
        /\ \A q \in Files!Picks : loops'[q].at >= loops[q].at
  <1>1. draft \in Nat /\ draft + 1 \in Nat BY FileTypes DEF FilesInv
  <1>2. main' = m BY DEF Files!Shows
  <1>3. CASE mounted /\ m # main
    <2>1. loops' = Files!Abandoned(draft + 1, FALSE) /\ draft' = draft + 1 BY <1>3 DEF Files!Shows
    <2> QED BY <1>1, <1>2, <1>3, <2>1, FilesAbandoned
  <1>4. CASE ~(mounted /\ m # main)
    <2>1. UNCHANGED <<draft, loops>> BY <1>4 DEF Files!Shows
    <2> QED BY <1>1, <1>2, <1>4, <2>1, LoopsSame
  <1> QED BY <1>3, <1>4

LEMMA FilesHear ==
  ASSUME FilesBounds, FilesInv, Files!Hear
  PROVE FilesInv'
  <1>1. /\ Files!Shows(chat)
        /\ UNCHANGED <<picks, mounted, attachments, message, sends, owed>>
        /\ UNCHANGED <<index, byId, indexLoaded, shadowed, chat, chats>>
    BY DEF Files!Hear, Files!server, Files!store
  <1>2. /\ loops' \in [Files!Picks -> Files!Loop] /\ LoopsTrue' /\ draft' \in Nat /\ main' = chat
        /\ \A q \in Files!Picks : loops'[q].at >= loops[q].at
    BY <1>1, FilesShown
  <1>3. FilesTyped' BY <1>1, <1>2, FileTypes, FileTyped DEF FilesInv
  <1>4. FilesUploaded' /\ NothingOwed' /\ Files!FilesArrive' BY <1>1, <1>2, FilesQuiet
  <1>5. ChatsFit' /\ Files!IndexIsServed' BY <1>1, <1>2 DEF FilesInv, ChatsFit, Files!IndexIsServed
  <1> QED BY <1>2, <1>3, <1>4, <1>5 DEF FilesInv

LEMMA FilesSent ==
  ASSUME FilesBounds, FilesInv, Files!Sent
  PROVE FilesInv'
  <1>1. /\ message.step = "accepted" /\ message' = Files!NoMessage /\ attachments' = <<>>
        /\ owed' = owed \ (Files!Range(attachments) \ Files!Range(message.refs))
        /\ Files!Shows(message.to)
        /\ UNCHANGED <<picks, mounted, sends, index, byId, indexLoaded, shadowed, chat, chats>>
    BY DEF Files!Sent, Files!server, Files!store
  <1>2. /\ loops' \in [Files!Picks -> Files!Loop] /\ LoopsTrue' /\ draft' \in Nat /\ main' = message.to
        /\ \A q \in Files!Picks : loops'[q].at >= loops[q].at
    BY <1>1, FilesShown
  <1>3. owed' = {}
    <2>1. owed \subseteq Files!Range(attachments) BY DEF FilesInv, Files!FilesArrive
    <2>2. \A f \in owed : f \notin Files!Range(message.refs)
      BY <1>1, FileTypes DEF FilesInv, NothingOwed, InMessage, Files!Range
    <2> QED BY <1>1, <2>1, <2>2
  <1>4. message.to \in Files!Chats
    <2>1. /\ message.to \in Nat /\ message.to <= chats /\ chats \in Files!Chats /\ chats \in Nat
      BY FileTypes DEF FilesInv, ChatsFit
    <2> QED BY <2>1 DEF Files!Chats, FilesBounds
  <1>5. FilesTyped'
    <2>1. attachments' \in Seq(Files!Files) /\ Len(attachments') = 0 BY <1>1
    <2>2. message' \in MessageSet BY <1>1, NoMessageTyped
    <2> QED BY <1>1, <1>2, <1>3, <1>4, <2>1, <2>2, FileTypes, FileTyped DEF FilesInv
  <1>6. FilesUploaded'
    <2>1. ASSUME NEW g \in Files!Files PROVE ~(OnBar(g) \/ InMessage(g))'
      BY <1>1, NoMessageTyped DEF OnBar, InMessage
    <2> QED BY <2>1 DEF FilesUploaded, Files!Files, Files!Picks
  <1>7. NothingOwed' /\ Files!FilesArrive' BY <1>3 DEF NothingOwed, Files!FilesArrive
  <1>8. ChatsFit'
    <2>1. ChatsFit BY DEF FilesInv
    <2> QED BY <1>1, <1>2, <2>1, NoMessageTyped, FileTypes DEF FilesInv, ChatsFit
  <1>9. Files!IndexIsServed' BY <1>1 DEF FilesInv, Files!IndexIsServed
  <1> QED BY <1>2, <1>5, <1>6, <1>7, <1>8, <1>9 DEF FilesInv

LEMMA FilesAccept ==
  ASSUME FilesBounds, FilesInv, Files!Accept
  PROVE FilesInv'
  <1>1. /\ message.step = "posted"
        /\ chat' = (IF chat = 0 THEN chats + 1 ELSE chat)
        /\ chats' = (IF chat = 0 THEN chats + 1 ELSE chats)
        /\ message' = [message EXCEPT !.step = "accepted", !.to = chat']
        /\ \/ message.refs = <<>> /\ UNCHANGED <<indexLoaded, byId>>
           \/ indexLoaded' = TRUE /\ byId' = Files!Loaded
        /\ owed' = owed \ ((Files!Looked \cap Files!Loaded) \union Files!LeftOut)
        /\ UNCHANGED <<loops, picks, draft, mounted, attachments, main, sends, index, shadowed>>
    BY DEF Files!Accept, Files!LoadIndex
  <1>2. /\ chats \in Nat /\ chat \in Nat /\ sends \in Nat /\ sends <= MaxSends /\ message \in MessageSet
        /\ chats <= sends /\ chat <= chats /\ main <= chats /\ main \in Nat
    BY <1>1, FileTypes DEF FilesInv, ChatsFit, FilesBounds
  <1>3. /\ chat' \in Nat /\ chats' \in Nat /\ chat' <= chats' /\ chats' <= sends + 1 /\ chats <= chats'
    BY <1>1, <1>2
  <1>4. /\ message' \in MessageSet /\ message'.refs = message.refs /\ message'.step = "accepted"
        /\ message'.to = chat'
    <2>1. "accepted" \in Files!Steps BY DEF Files!Steps
    <2> QED BY <1>1, <1>2, <1>3, <2>1 DEF MessageSet
  <1>5. /\ loops' \in [Files!Picks -> Files!Loop] /\ LoopsTrue'
        /\ \A q \in Files!Picks : loops'[q].at >= loops[q].at
    BY <1>1, LoopsSame
  <1>6. FilesTyped'
    <2>1. chat' \in Files!Chats /\ chats' \in Files!Chats
      BY <1>2, <1>3 DEF Files!Chats, FilesBounds
    <2>2. owed' \subseteq Files!Files /\ byId' \subseteq Files!Ids /\ indexLoaded' \in BOOLEAN
      BY <1>1, FileTypes, FileIds DEF FilesInv
    <2> QED BY <1>1, <1>4, <1>5, <2>1, <2>2, FileTypes, FileTyped DEF FilesInv
  <1>7. FilesUploaded'
    <2>1. ASSUME NEW g \in Files!Files, (OnBar(g) \/ InMessage(g))' PROVE Uploaded(g)'
      <3>1. OnBar(g) \/ InMessage(g) BY <1>1, <1>4, <2>1 DEF OnBar, InMessage
      <3> QED BY <1>1, <1>5, <3>1, FilesStay DEF FilesInv, FilesUploaded
    <2> QED BY <2>1 DEF FilesUploaded, Files!Files, Files!Picks
  <1>8. NothingOwed'
    <2>1. ASSUME NEW f \in owed', InMessage(f) PROVE FALSE
      <3>1. f \in Files!Files BY <1>1, <2>1, FileTypes DEF FilesInv
      <3>2. f \in index.ids \union index.glued BY <2>1, <3>1 DEF FilesInv, FilesUploaded, Uploaded
      <3>3. f \in Files!Range(message.refs) BY <2>1, FileTypes DEF FilesInv, InMessage, Files!Range
      <3>4. f \in Files!Looked BY <1>1, <2>1, <3>3 DEF Files!LeftOut
      <3>5. index.ids \subseteq Files!Loaded \union shadowed
        BY DEF FilesInv, Files!IndexIsServed, Files!Loaded
      <3>6. f \in Files!Loaded \/ f \in shadowed \union index.glued BY <3>2, <3>5
      <3> QED BY <1>1, <2>1, <3>4, <3>6 DEF Files!LeftOut
    <2> QED BY <1>1, <1>4, <2>1 DEF NothingOwed, InMessage
  <1>9. Files!FilesArrive' BY <1>1 DEF FilesInv, Files!FilesArrive
  <1>10. Files!IndexIsServed' BY <1>1 DEF FilesInv, Files!IndexIsServed, Files!Loaded
  <1>11. ChatsFit' BY <1>1, <1>2, <1>3, <1>4 DEF ChatsFit
  <1> QED BY <1>5, <1>6, <1>7, <1>8, <1>9, <1>10, <1>11 DEF FilesInv

LEMMA FilesInitial ==
  ASSUME FilesBounds, Files!Init
  PROVE FilesInv
  <1>1. /\ loops = [p \in Files!Picks |-> Files!Fresh] /\ picks = 0 /\ draft = 1 /\ mounted = TRUE
        /\ attachments = <<>> /\ main = 1 /\ message = Files!NoMessage /\ sends = 0
        /\ index = [ids |-> {}, torn |-> FALSE, glued |-> {}]
        /\ byId = {} /\ indexLoaded = FALSE /\ chat = 1 /\ chats = 1
        /\ shadowed = {} /\ owed = {}
    BY DEF Files!Init
  <1>2. /\ Files!Fresh \in Files!Loop /\ Files!Fresh.at = 1 /\ Files!Fresh.of = 0
        /\ Files!Fresh.cut = 0 /\ Files!Fresh.gone = FALSE
    <2>1. /\ 1 \in Files!Places /\ 0 \in Files!Counts /\ 0 \in Files!Chats /\ "none" \in Files!Replies
      BY DEF Files!Places, Files!Counts, Files!Chats, Files!Replies, FilesBounds
    <2> QED BY <2>1 DEF Files!Fresh, Files!Loop
  <1>3. loops \in [Files!Picks -> Files!Loop] /\ \A q \in Files!Picks : loops[q] = Files!Fresh
    BY <1>1, <1>2
  <1>4. LoopsTrue BY <1>2, <1>3 DEF LoopsTrue, LoopTrue, Files!InFlight
  <1>5. Len(attachments) = 0 /\ Len(message.refs) = 0 /\ message.step = "none" /\ message.to = 0
    BY <1>1, NoMessageTyped
  <1>6. FilesTyped
    <2>1. Files!IsInjective(attachments) /\ Files!Range(attachments) = {} /\ Files!Range(message.refs) = {}
      BY <1>1, NoMessageTyped DEF Files!IsInjective, Files!Range
    <2>2. 1 \in Files!Chats BY DEF Files!Chats, FilesBounds
    <2>3. index \in Files!Index BY <1>1 DEF Files!Index
    <2>4. message \in MessageSet /\ message.step \in Files!Steps BY <1>1, NoMessageTyped DEF Files!Steps
    <2>5. Files!TypeOK BY <1>1, <1>3, <2>1, <2>2, <2>3, <2>4 DEF Files!TypeOK
    <2>6. attachments \in Seq(Files!Files) BY <1>1
    <2>8. mounted \in BOOLEAN /\ indexLoaded \in BOOLEAN BY <1>1
    <2>7. picks \in 0..MaxPicks /\ sends \in 0..MaxSends /\ draft \in Nat BY <1>1 DEF FilesBounds
    <2> QED BY <2>4, <2>5, <2>6, <2>7, <2>8 DEF FilesTyped
  <1>7. ChatsFit BY <1>1, <1>5 DEF ChatsFit
  <1>8. FilesUploaded /\ NothingOwed BY <1>5 DEF FilesUploaded, OnBar, InMessage, NothingOwed
  <1>9. Files!FilesArrive /\ Files!IndexIsServed BY <1>1 DEF Files!FilesArrive, Files!IndexIsServed
  <1> QED BY <1>4, <1>6, <1>7, <1>8, <1>9 DEF FilesInv

LEMMA FilesNext ==
  ASSUME FilesBounds, FilesInv, Files!Next
  PROVE FilesInv'
  <1>1. CASE \E n \in 1..PerPick : Files!Pick(n) BY <1>1, FilesPick
  <1>2. CASE \E p \in Files!Picks :
               Files!Joins(p) \/ Files!Fails(p) \/ Files!Deadline(p) \/ Files!Save(p) \/ Files!Refuse(p)
    BY <1>2, FilesJoin, FilesFail, FilesSave, FilesRefuse
  <1>3. CASE \E i \in 1..Len(attachments) : Files!RemoveAttachment(i) BY <1>3, FilesRemove
  <1>4. CASE Files!Leave \/ Files!Hear \/ Files!Sent BY <1>4, FilesLeave, FilesHear, FilesSent
  <1>5. CASE Files!Return \/ Files!SendFails \/ Files!NewChat BY <1>5, FilesReturn
  <1>6. CASE Files!Send \/ Files!Accept BY <1>6, FilesSend, FilesAccept
  <1>7. CASE Files!Register \/ Files!Get BY <1>7, FilesLoad
  <1>8. CASE \E tears \in BOOLEAN : Files!Restart(tears) BY <1>8, FilesRestart
  <1> QED BY <1>1, <1>2, <1>3, <1>4, <1>5, <1>6, <1>7, <1>8 DEF Files!Next

LEMMA FilesStutter ==
  ASSUME FilesBounds, FilesInv, UNCHANGED filesVars
  PROVE FilesInv'
  <1>1. /\ UNCHANGED <<loops, picks, draft, attachments, sends, owed, mounted, main, message>>
        /\ UNCHANGED <<index, byId, indexLoaded, shadowed, chat, chats>>
    BY DEF filesVars
  <1>2. chat' \in 0..chats /\ mounted' \in BOOLEAN
    BY <1>1, FileTypes DEF FilesInv, ChatsFit
  <1> QED BY <1>1, <1>2, FilesCalm

LEMMA FilesStepKeeps ==
  ASSUME FilesBounds
  PROVE FilesInv /\ [Next]_vars => FilesInv'
  <1> SUFFICES ASSUME FilesInv, [Next]_vars PROVE FilesInv' OBVIOUS
  <1>1. CASE FeedStep BY <1>1, FilesStutter DEF FeedStep
  <1>2. CASE NotesStep BY <1>2, FilesStutter DEF NotesStep
  <1>3. CASE RecorderStep BY <1>3, FilesStutter DEF RecorderStep
  <1>4. CASE FilesStep BY <1>4, FilesNext DEF FilesStep
  <1>5. CASE UNCHANGED vars BY <1>5, FilesStutter DEF vars
  <1> QED BY <1>1, <1>2, <1>3, <1>4, <1>5 DEF Next

(* What a step may add to what is owed. *)
LEMMA FilesOwed ==
  ASSUME FilesBounds, FilesInv, Files!Next, NEW q \in Files!Picks, Files!File(q) \in owed' \ owed
  PROVE loops[q].picked = main \/ (loops[q].cut # 0 /\ loops[q].at >= loops[q].cut)
  <1>1. ASSUME NEW p \in Files!Picks, Files!Joins(p)
        PROVE loops[q].picked = main \/ (loops[q].cut # 0 /\ loops[q].at >= loops[q].cut)
    <2>1. Files!InFlight(p) /\ owed' \subseteq owed \union {Files!File(p)} BY <1>1 DEF Files!Joins
    <2>2. q = p BY <2>1 DEF Files!File
    <2>3. LoopTrue(q) BY DEF FilesInv, LoopsTrue
    <2> QED BY <2>1, <2>2, <2>3 DEF LoopTrue
  <1>2. ASSUME NEW p \in Files!Picks, Files!Fails(p) \/ Files!Deadline(p) \/ Files!Save(p) \/ Files!Refuse(p)
        PROVE FALSE
    BY <1>2 DEF Files!Fails, Files!Deadline, Files!Save, Files!Refuse
  <1>3. ASSUME NEW n \in 1..PerPick, Files!Pick(n) PROVE FALSE BY <1>3 DEF Files!Pick
  <1>4. ASSUME NEW i \in 1..Len(attachments), Files!RemoveAttachment(i) PROVE FALSE
    BY <1>4 DEF Files!RemoveAttachment
  <1>5. CASE Files!Leave \/ Files!Return \/ Files!Send \/ Files!SendFails \/ Files!NewChat \/ Files!Hear
    BY <1>5 DEF Files!Leave, Files!Return, Files!Send, Files!SendFails, Files!NewChat, Files!Hear
  <1>6. CASE Files!Accept \/ Files!Sent BY <1>6 DEF Files!Accept, Files!Sent
  <1>7. CASE Files!Register \/ Files!Get BY <1>7 DEF Files!Register, Files!Get
  <1>8. ASSUME NEW tears \in BOOLEAN, Files!Restart(tears) PROVE FALSE BY <1>8 DEF Files!Restart
  <1> QED BY <1>1, <1>2, <1>3, <1>4, <1>5, <1>6, <1>7, <1>8 DEF Files!Next


----------------------------------------------------------------------------
(* The note *)
NoteBounds == MaxTyped \in Nat /\ MaxOthers \in Nat /\ MaxNudges \in Nat /\ MaxMishaps \in Nat

(* What the server is asked, and what the tab is told. *)
Asked == Notes!Saves \union {Notes!Watch}
Pushes == [t : {"note"}, note : Notes!Notes]
Answers == [t : {"answer"}, save : Notes!Saves, ok : BOOLEAN, note : Notes!Notes]
Told == Pushes \union Answers

IsAnswer(m, s) == m.t = "answer" /\ m.save = s

NoteTyped ==
  /\ Notes!TypeOK
  /\ queue \in Seq(Notes!Saves) /\ waiting \in Seq(Notes!Texts)
  /\ toServer \in Seq(Asked) /\ stray \in Seq(Asked) /\ toTab \in Seq(Told)
  /\ req \in Nat /\ typed \in 0..MaxTyped /\ others \in 0..MaxOthers
  /\ watched \in BOOLEAN /\ up \in BOOLEAN /\ timer \in BOOLEAN /\ misled \in BOOLEAN
  /\ past \subseteq Notes!Notes /\ seen \subseteq Notes!Texts

(* A version names one note. *)
PastTrue ==
  /\ store \in past /\ Notes!Empty \in past
  /\ \A n \in past : n.ver <= clock /\ (n.ver = 0 => n = Notes!Empty)
  /\ \A m, n \in past : m.ver = n.ver => m = n

(* The user was shown what the store held at version v. *)
SeenAt(v) == \E n \in past : n.ver = v /\ n.body \in seen

EditorTrue ==
  /\ 0 \in seen /\ ed.body \in seen /\ ed.saved \in seen /\ ed.theirs.body \in seen
  /\ Notes!Note(ed.saved, ed.base) \in past /\ ed.theirs \in past /\ SeenAt(ed.landed)
  /\ ed.kind = "loading" => ed.body = ed.saved

(* A save carries a text the user was shown, and starts from a note the user was shown. *)
SaveTrue(m) == m.t = "save" => m.text \in seen /\ SeenAt(m.from) /\ m.req <= req

SavesTrue ==
  /\ \A s \in pending : SaveTrue(s)
  /\ \A i \in 1..Len(queue) : SaveTrue(queue[i])
  /\ \A i \in 1..Len(toServer) : SaveTrue(toServer[i])
  /\ \A i \in 1..Len(stray) : SaveTrue(stray[i])

PushedBefore(n, i) == \E j \in 1..(i - 1) : toTab[j].t = "note" /\ toTab[j].note = n

(* The note an answer tells of was shown, or its push comes first. *)
FairlyTold(m, i) ==
  /\ m.note \in past
  /\ m.t = "answer" => /\ SaveTrue(m.save)
                       /\ m.ok => m.note.body = m.save.text
                       /\ m.note.body \in seen \/ PushedBefore(m.note, i)

ToldTrue == \A i \in 1..Len(toTab) : FairlyTold(toTab[i], i)

WatchTrue ==
  /\ watched => store.body \in seen \/ PushedBefore(store, Len(toTab) + 1)
  /\ ~watched => toServer = <<>> \/ toServer[1].t = "watch"
  /\ up /\ ~watched => toServer # <<>>
  /\ ~up => toServer = <<>> /\ toTab = <<>> /\ ~watched

(* The saves that are pending were made together, and the last of them is in flight. *)
Book ==
  /\ inflight = 0 => pending = {} /\ waiting = <<>>
  /\ inflight # 0 => \E s \in pending : s.req = inflight
  /\ \A s \in pending : s.req <= inflight
  /\ \A r, s \in pending : s.text = r.text /\ (s.req = r.req => s = r)

(* On every way they are in the order they were made. *)
InLine(s, r) ==
  /\ \A i \in 1..Len(toTab) :
       IsAnswer(toTab[i], r) => \E j \in 1..(i - 1) : IsAnswer(toTab[j], s)
  /\ \A i \in 1..Len(toServer) :
       toServer[i] = r => \/ \E j \in 1..(i - 1) : toServer[j] = s
                          \/ \E j \in 1..Len(toTab) : IsAnswer(toTab[j], s)
  /\ \A i \in 1..Len(queue) : queue[i] = r => \E j \in 1..(i - 1) : queue[j] = s

Line == \A s, r \in pending : s.req < r.req => InLine(s, r)

(* Text that is not stored waits for a timer, or for the save in flight: it is what that save *)
(* carries, or somebody waits for it.                                                         *)
Pursuit ==
  \/ misled \/ ed.body = ed.saved \/ ed.kind = "conflict" \/ timer
  \/ ed.kind = "error" /\ inflight = 0
  \/ inflight # 0 /\ (waiting # <<>> \/ \E s \in pending : s.req = inflight /\ s.text = ed.body)

NoteInv ==
  /\ NoteTyped /\ PastTrue /\ EditorTrue /\ SavesTrue /\ ToldTrue /\ WatchTrue
  /\ Book /\ Line /\ Pursuit

LEMMA NoteTypes ==
  ASSUME NoteBounds, NoteTyped
  PROVE /\ store \in Notes!Notes /\ clock \in Nat /\ ed \in Notes!Editor /\ pending \subseteq Notes!Saves
        /\ inflight \in 0..req /\ inflight \in Nat /\ req \in Nat /\ \A s \in pending : s.req \in 1..req
        /\ queue \in Seq(Notes!Saves) /\ waiting \in Seq(Notes!Texts)
        /\ toServer \in Seq(Asked) /\ stray \in Seq(Asked) /\ toTab \in Seq(Told)
        /\ typed \in 0..MaxTyped /\ others \in 0..MaxOthers
        /\ watched \in BOOLEAN /\ up \in BOOLEAN /\ timer \in BOOLEAN /\ misled \in BOOLEAN
        /\ past \subseteq Notes!Notes /\ seen \subseteq Notes!Texts
        /\ Len(queue) \in Nat /\ Len(waiting) \in Nat /\ Len(toServer) \in Nat /\ Len(stray) \in Nat
        /\ Len(toTab) \in Nat
        /\ \A i \in 1..Len(queue) : queue[i] \in Notes!Saves
        /\ \A i \in 1..Len(toServer) : toServer[i] \in Asked
        /\ \A i \in 1..Len(stray) : stray[i] \in Asked
        /\ \A i \in 1..Len(toTab) : toTab[i] \in Told
        /\ \A i \in 1..Len(waiting) : waiting[i] \in Notes!Texts
  <1>1. /\ store \in Notes!Notes /\ clock \in Nat /\ ed \in Notes!Editor /\ pending \subseteq Notes!Saves
        /\ inflight \in 0..req /\ \A s \in pending : s.req \in 1..req
    BY DEF NoteTyped, Notes!TypeOK
  <1>2. /\ queue \in Seq(Notes!Saves) /\ waiting \in Seq(Notes!Texts)
        /\ toServer \in Seq(Asked) /\ stray \in Seq(Asked) /\ toTab \in Seq(Told)
        /\ req \in Nat /\ typed \in 0..MaxTyped /\ others \in 0..MaxOthers
        /\ watched \in BOOLEAN /\ up \in BOOLEAN /\ timer \in BOOLEAN /\ misled \in BOOLEAN
        /\ past \subseteq Notes!Notes /\ seen \subseteq Notes!Texts
    BY DEF NoteTyped
  <1>3. /\ Len(queue) \in Nat /\ Len(waiting) \in Nat /\ Len(toServer) \in Nat /\ Len(stray) \in Nat
        /\ Len(toTab) \in Nat
    BY <1>2
  <1>4. \A i \in 1..Len(queue) : queue[i] \in Notes!Saves BY <1>2
  <1>5. \A i \in 1..Len(toServer) : toServer[i] \in Asked BY <1>2
  <1>6. \A i \in 1..Len(stray) : stray[i] \in Asked BY <1>2
  <1>7. \A i \in 1..Len(toTab) : toTab[i] \in Told BY <1>2
  <1>8. \A i \in 1..Len(waiting) : waiting[i] \in Notes!Texts BY <1>2
  <1> QED BY <1>1, <1>2, <1>3, <1>4, <1>5, <1>6, <1>7, <1>8

LEMMA NoteTypedNext ==
  ASSUME store' \in Notes!Notes, clock' \in Nat, ed' \in Notes!Editor, pending' \subseteq Notes!Saves,
         inflight' \in 0..req', \A s \in pending' : s.req \in 1..req',
         queue' \in Seq(Notes!Saves), waiting' \in Seq(Notes!Texts),
         toServer' \in Seq(Asked), stray' \in Seq(Asked), toTab' \in Seq(Told),
         req' \in Nat, typed' \in 0..MaxTyped, others' \in 0..MaxOthers,
         watched' \in BOOLEAN, up' \in BOOLEAN, timer' \in BOOLEAN, misled' \in BOOLEAN,
         past' \subseteq Notes!Notes, seen' \subseteq Notes!Texts
  PROVE NoteTyped'
  <1>1. {watched', up', timer'} \subseteq BOOLEAN OBVIOUS
  <1>2. Notes!TypeOK'
    BY <1>1 DEF Notes!TypeOK, Notes!Notes, Notes!Editor, Notes!Saves, Notes!Kinds, Notes!Texts
  <1> QED BY <1>2 DEF NoteTyped, Asked, Told, Pushes, Answers, Notes!Notes, Notes!Saves,
                 Notes!Texts, Notes!Watch

LEMMA MessageTypes ==
  /\ \A m \in Asked : m.t \in {"save", "watch"} /\ (m.t = "save" => m \in Notes!Saves)
  /\ \A m \in Told : /\ m.t \in {"note", "answer"} /\ m.note \in Notes!Notes
                     /\ m.t = "answer" => m.save \in Notes!Saves /\ m.ok \in BOOLEAN
  /\ \A m \in Notes!Saves : m.t = "save" /\ m.req \in Nat /\ m.text \in Notes!Texts
                            /\ m.from \in Nat /\ m.wanted \in Notes!Texts /\ m \in Asked
  /\ Notes!Watch \in Asked /\ Notes!Watch.t = "watch"
  <1>1. Notes!Watch.t = "watch" BY DEF Notes!Watch
  <1>2. \A m \in Notes!Saves : m.t = "save" /\ m.req \in Nat /\ m.text \in Notes!Texts
                               /\ m.from \in Nat /\ m.wanted \in Notes!Texts
    BY DEF Notes!Saves
  <1>3. \A m \in Told : /\ m.t \in {"note", "answer"} /\ m.note \in Notes!Notes
                        /\ m.t = "answer" => m.save \in Notes!Saves /\ m.ok \in BOOLEAN
    <2>1. \A m \in Pushes : m.t = "note" /\ m.note \in Notes!Notes BY DEF Pushes
    <2>2. \A m \in Answers : m.t = "answer" /\ m.note \in Notes!Notes /\ m.save \in Notes!Saves /\ m.ok \in BOOLEAN
      BY DEF Answers
    <2> QED BY <2>1, <2>2 DEF Told
  <1> QED BY <1>1, <1>2, <1>3 DEF Asked

----------------------------------------------------------------------------
(* What the editor may become, before it is shown. *)
Sound(e) ==
  /\ e \in Notes!Editor
  /\ e.saved \in seen \union {e.body} /\ (e.theirs.body \in seen \/ e.kind = "conflict")
  /\ Notes!Note(e.saved, e.base) \in past /\ e.theirs \in past
  /\ SeenAt(e.landed) \/ \E n \in past : n.ver = e.landed /\ n.body = e.body
  /\ e.kind = "loading" => e.body = e.saved

LEMMA EditorFields ==
  ASSUME NEW e \in Notes!Editor
  PROVE /\ e.body \in Notes!Texts /\ e.saved \in Notes!Texts /\ e.base \in Nat /\ e.landed \in Nat
        /\ e.kind \in Notes!Kinds /\ e.theirs \in Notes!Notes
        /\ e.theirs.body \in Notes!Texts /\ e.theirs.ver \in Nat
  <1>1. e.theirs \in Notes!Notes BY DEF Notes!Editor
  <1>2. e.theirs.body \in Notes!Texts /\ e.theirs.ver \in Nat BY <1>1 DEF Notes!Notes
  <1> QED BY <1>1, <1>2 DEF Notes!Editor

LEMMA KindsAre ==
  Notes!Kinds = {"loading", "saved", "dirty", "saving", "error", "conflict"}
  BY DEF Notes!Kinds

LEMMA NoteFields ==
  ASSUME NEW n \in Notes!Notes
  PROVE n.body \in Notes!Texts /\ n.ver \in Nat /\ Notes!Note(n.body, n.ver) = n
  BY DEF Notes!Notes, Notes!Note

(* The editor as it is. *)
LEMMA EdSound ==
  ASSUME NoteBounds, NoteInv
  PROVE Sound(ed)
  BY NoteTypes DEF NoteInv, EditorTrue, Sound

LEMMA EdAbsorbs ==
  ASSUME NoteBounds, NoteInv, NEW e, Sound(e), e.theirs.body \in seen, NEW n \in past
  PROVE /\ Sound(Notes!Absorb(e, n)) /\ Notes!Absorb(e, n).body = Notes!Absorb(e, n).saved
        /\ Notes!Absorb(e, n).body = n.body /\ Notes!Absorb(e, n).kind = "saved"
  <1>1. n \in Notes!Notes BY NoteTypes DEF NoteInv
  <1>2. n.body \in Notes!Texts /\ n.ver \in Nat /\ Notes!Note(n.body, n.ver) = n BY <1>1, NoteFields
  <1>3. e \in Notes!Editor BY DEF Sound
  <1> DEFINE a == Notes!Absorb(e, n)
  <1>4. /\ a \in Notes!Editor /\ a.body = n.body /\ a.saved = n.body /\ a.base = n.ver
        /\ a.landed = n.ver /\ a.kind = "saved" /\ a.theirs = e.theirs
    <2>1. "saved" \in Notes!Kinds BY KindsAre
    <2> QED BY <1>2, <1>3, <2>1 DEF Notes!Absorb, Notes!Editor
  <1> HIDE DEF a
  <1>5. Sound(a) BY <1>2, <1>4 DEF Sound
  <1> QED BY <1>4, <1>5 DEF a

LEMMA EdInConflict ==
  ASSUME NoteBounds, NoteInv, NEW e, Sound(e), NEW n \in past
  PROVE /\ Sound(Notes!InConflict(e, n)) /\ Notes!InConflict(e, n).kind = "conflict"
        /\ Notes!InConflict(e, n).body = e.body /\ Notes!InConflict(e, n).saved = e.saved
        /\ Notes!InConflict(e, n).theirs = n
  <1>1. n \in Notes!Notes BY NoteTypes DEF NoteInv
  <1>2. e \in Notes!Editor BY DEF Sound
  <1> DEFINE a == Notes!InConflict(e, n)
  <1>3. /\ a \in Notes!Editor /\ a.body = e.body /\ a.saved = e.saved /\ a.base = e.base
        /\ a.landed = e.landed /\ a.kind = "conflict" /\ a.theirs = n
    <2>1. "conflict" \in Notes!Kinds BY KindsAre
    <2> QED BY <1>1, <1>2, <2>1 DEF Notes!InConflict, Notes!Editor
  <1> HIDE DEF a
  <1>4. Sound(a) BY <1>3 DEF Sound
  <1> QED BY <1>3, <1>4 DEF a

(* Steps of the editor that change its verdict only. *)
LEMMA EdVerdict ==
  ASSUME NEW e, Sound(e), e.theirs.body \in seen, NEW k \in Notes!Kinds, k # "loading"
  PROVE /\ Sound([e EXCEPT !.kind = k]) /\ [e EXCEPT !.kind = k].kind = k
        /\ [e EXCEPT !.kind = k].body = e.body /\ [e EXCEPT !.kind = k].saved = e.saved
        /\ [e EXCEPT !.kind = k].landed = e.landed
  <1>1. e \in Notes!Editor BY DEF Sound
  <1> DEFINE a == [e EXCEPT !.kind = k]
  <1>2. /\ a \in Notes!Editor /\ a.body = e.body /\ a.saved = e.saved /\ a.base = e.base
        /\ a.landed = e.landed /\ a.kind = k /\ a.theirs = e.theirs
    BY <1>1 DEF Notes!Editor
  <1> HIDE DEF a
  <1>3. Sound(a) BY <1>2 DEF Sound
  <1> QED BY <1>2, <1>3 DEF a

LEMMA EdRemote ==
  ASSUME NoteBounds, NoteInv, NEW n \in past
  PROVE LET e == Notes!ApplyRemote(ed, n) IN
        /\ Sound(e)
        /\ e = ed \/ e.body = e.saved \/ e.kind = "conflict"
        /\ n.body \in seen \/ n.body = e.body \/ (e.kind = "conflict" /\ e.theirs = n)
  <1>1. Sound(ed) /\ ed.theirs.body \in seen BY EdSound DEF NoteInv, EditorTrue
  <1>2. Notes!Note(ed.saved, ed.base) \in past /\ ed.saved \in seen /\ n \in Notes!Notes
        /\ \A m \in past : m.ver = n.ver => m = n
    BY NoteTypes DEF NoteInv, EditorTrue, PastTrue
  <1>3. Notes!ApplyRemote(ed, n) = Notes!Absorb(ed, n) \/ Notes!ApplyRemote(ed, n) = Notes!InConflict(ed, n)
        \/ (Notes!ApplyRemote(ed, n) = ed /\ n.ver = ed.base)
    BY DEF Notes!ApplyRemote
  <1>4. n.ver = ed.base => n.body \in seen
    <2>1. Notes!Note(ed.saved, ed.base).ver = ed.base /\ Notes!Note(ed.saved, ed.base).body = ed.saved
      BY DEF Notes!Note
    <2> QED BY <1>2, <2>1
  <1>5. CASE Notes!ApplyRemote(ed, n) = Notes!Absorb(ed, n) BY <1>1, <1>5, EdAbsorbs
  <1>6. CASE Notes!ApplyRemote(ed, n) = Notes!InConflict(ed, n) BY <1>1, <1>6, EdInConflict
  <1>7. CASE Notes!ApplyRemote(ed, n) = ed /\ n.ver = ed.base BY <1>1, <1>4, <1>7
  <1> QED BY <1>3, <1>5, <1>6, <1>7

LEMMA EdRefused ==
  ASSUME NoteBounds, NoteInv, NEW n \in past, NEW text
  PROVE LET e == Notes!Refused(ed, text, n) IN
        Sound(e) /\ (e.body = e.saved \/ e.kind = "conflict")
  <1>1. Sound(ed) /\ ed.theirs.body \in seen BY EdSound DEF NoteInv, EditorTrue
  <1>2. Notes!Refused(ed, text, n) = Notes!Absorb(ed, n) \/ Notes!Refused(ed, text, n) = Notes!InConflict(ed, n)
    BY DEF Notes!Refused
  <1>3. CASE Notes!Refused(ed, text, n) = Notes!Absorb(ed, n) BY <1>1, <1>3, EdAbsorbs
  <1>4. CASE Notes!Refused(ed, text, n) = Notes!InConflict(ed, n) BY <1>1, <1>4, EdInConflict
  <1> QED BY <1>2, <1>3, <1>4

LEMMA EdLanded ==
  ASSUME NoteBounds, NoteInv, NEW n \in past, n.body \in seen
  PROVE LET e == Notes!Landed(ed, n.body, n.ver) IN
        Sound(e) /\ (e.body = e.saved \/ e.kind = "dirty")
  <1> DEFINE e == Notes!Landed(ed, n.body, n.ver)
  <1>1. ed \in Notes!Editor /\ n \in Notes!Notes /\ ed.theirs.body \in seen /\ ed.theirs \in past
    BY NoteTypes DEF NoteInv, EditorTrue
  <1>2. n.body \in Notes!Texts /\ n.ver \in Nat /\ Notes!Note(n.body, n.ver) = n BY <1>1, NoteFields
  <1>3. "saved" \in Notes!Kinds /\ "dirty" \in Notes!Kinds BY KindsAre
  <1>4. /\ e \in Notes!Editor /\ e.body = ed.body /\ e.saved = n.body /\ e.base = n.ver
        /\ e.landed = n.ver /\ e.theirs = ed.theirs
        /\ e.kind = IF ed.body = n.body THEN "saved" ELSE "dirty"
    BY <1>1, <1>2, <1>3 DEF Notes!Landed, Notes!Editor
  <1> HIDE DEF e
  <1>5. SeenAt(e.landed) BY <1>4 DEF SeenAt
  <1>6. Sound(e) BY <1>1, <1>2, <1>4, <1>5 DEF Sound
  <1>7. e.body = e.saved \/ e.kind = "dirty" BY <1>4
  <1> QED BY <1>6, <1>7 DEF e

LEMMA EdLate ==
  ASSUME NoteBounds, NoteInv, NEW n \in past, n.body \in seen, NEW ok \in BOOLEAN
  PROVE LET e == Notes!ApplyLate(ed, n, ok) IN
        /\ Sound(e)
        /\ \/ e.body = e.saved \/ e.kind = "conflict" \/ e.kind = "dirty"
           \/ e.body = ed.body /\ e.saved = ed.saved /\ e.kind = ed.kind
  <1> DEFINE told == [ed EXCEPT !.landed = n.ver]
             moved == [told EXCEPT !.saved = n.body, !.base = n.ver, !.kind = "dirty"]
  <1>1. ed \in Notes!Editor /\ n \in Notes!Notes /\ ed.theirs.body \in seen /\ Sound(ed)
    BY NoteTypes, EdSound DEF NoteInv, EditorTrue
  <1>2. n.body \in Notes!Texts /\ n.ver \in Nat /\ Notes!Note(n.body, n.ver) = n BY <1>1, NoteFields
  <1>3. /\ told \in Notes!Editor /\ told.body = ed.body /\ told.saved = ed.saved /\ told.base = ed.base
        /\ told.landed = n.ver /\ told.theirs = ed.theirs /\ told.kind = ed.kind
    BY <1>1, <1>2 DEF Notes!Editor
  <1>4. \/ Notes!ApplyLate(ed, n, ok) = told \/ Notes!ApplyLate(ed, n, ok) = Notes!Absorb(ed, n)
        \/ Notes!ApplyLate(ed, n, ok) = moved \/ Notes!ApplyLate(ed, n, ok) = Notes!InConflict(told, n)
    BY DEF Notes!ApplyLate
  <1>5. SeenAt(n.ver) BY DEF SeenAt
  <1> HIDE DEF told
  <1>6. Sound(told) /\ told.theirs.body \in seen BY <1>1, <1>3, <1>5 DEF Sound
  <1>7. Sound(moved) /\ moved.kind = "dirty"
    <2>1. "dirty" \in Notes!Kinds BY KindsAre
    <2>2. /\ moved \in Notes!Editor /\ moved.body = told.body /\ moved.saved = n.body /\ moved.base = n.ver
          /\ moved.landed = told.landed /\ moved.theirs = told.theirs /\ moved.kind = "dirty"
      BY <1>2, <1>3, <2>1 DEF Notes!Editor
    <2> HIDE DEF moved
    <2> QED BY <1>1, <1>2, <1>3, <1>5, <1>6, <2>2 DEF Sound
  <1>8. CASE Notes!ApplyLate(ed, n, ok) = told BY <1>3, <1>6, <1>8
  <1>9. CASE Notes!ApplyLate(ed, n, ok) = moved BY <1>7, <1>9
  <1>10. CASE Notes!ApplyLate(ed, n, ok) = Notes!Absorb(ed, n) BY <1>1, <1>10, EdAbsorbs
  <1>11. CASE Notes!ApplyLate(ed, n, ok) = Notes!InConflict(told, n) BY <1>6, <1>11, EdInConflict
  <1> QED BY <1>4, <1>8, <1>9, <1>10, <1>11

LEMMA EdFailed ==
  ASSUME NoteBounds, NoteInv, NEW text
  PROVE LET e == Notes!Failed(ed, text) IN
        /\ Sound(e) /\ e.body = ed.body /\ e.saved = ed.saved
        /\ e.kind \in {"saved", "dirty", "error"}
        /\ e.kind = "saved" => text = ed.saved
        /\ e.kind = "error" => text = ed.body
  <1> DEFINE k == CASE text = ed.saved -> "saved"
                    [] text # ed.saved /\ text # ed.body -> "dirty"
                    [] text # ed.saved /\ text = ed.body -> "error"
  <1>1. /\ k \in {"saved", "dirty", "error"} /\ (k = "saved" => text = ed.saved)
        /\ k = "error" => text = ed.body
    OBVIOUS
  <1>2. Notes!Failed(ed, text) = [ed EXCEPT !.kind = k] BY DEF Notes!Failed
  <1> HIDE DEF k
  <1>3. k \in Notes!Kinds /\ k # "loading" BY <1>1, KindsAre
  <1>4. Sound(ed) /\ ed.theirs.body \in seen BY EdSound DEF NoteInv, EditorTrue
  <1>5. /\ Sound([ed EXCEPT !.kind = k]) /\ [ed EXCEPT !.kind = k].kind = k
        /\ [ed EXCEPT !.kind = k].body = ed.body /\ [ed EXCEPT !.kind = k].saved = ed.saved
    BY <1>3, <1>4, EdVerdict
  <1> QED BY <1>1, <1>2, <1>5

LEMMA EdTyped ==
  ASSUME NoteBounds, NoteInv, NEW text \in Notes!Texts, ed.kind # "loading",
         NEW k \in Notes!Kinds, k # "loading"
  PROVE /\ Sound([ed EXCEPT !.body = text]) /\ [ed EXCEPT !.body = text].kind = ed.kind
        /\ Sound([ed EXCEPT !.body = text, !.kind = k])
  <1> DEFINE a == [ed EXCEPT !.body = text]
             b == [a EXCEPT !.kind = k]
  <1>1. ed \in Notes!Editor /\ ed.theirs.body \in seen /\ Sound(ed) /\ ed.saved \in seen /\ SeenAt(ed.landed)
    BY NoteTypes, EdSound DEF NoteInv, EditorTrue
  <1>2. /\ a \in Notes!Editor /\ a.body = text /\ a.saved = ed.saved /\ a.base = ed.base
        /\ a.landed = ed.landed /\ a.theirs = ed.theirs /\ a.kind = ed.kind
    BY <1>1 DEF Notes!Editor
  <1>3. [ed EXCEPT !.body = text, !.kind = k] = b OBVIOUS
  <1>4. a = [ed EXCEPT !.body = text] OBVIOUS
  <1> HIDE DEF a
  <1>5. Sound(a) /\ a.theirs.body \in seen BY <1>1, <1>2 DEF Sound
  <1>6. Sound(b) BY <1>5, EdVerdict
  <1> QED BY <1>2, <1>3, <1>4, <1>5, <1>6

LEMMA EdKeepsMine ==
  ASSUME NoteBounds, NoteInv
  PROVE LET e == [ed EXCEPT !.base = ed.theirs.ver, !.landed = ed.theirs.ver,
                            !.saved = ed.theirs.body, !.kind = "dirty"] IN
        Sound(e) /\ e.kind = "dirty"
  <1> DEFINE e == [ed EXCEPT !.base = ed.theirs.ver, !.landed = ed.theirs.ver,
                             !.saved = ed.theirs.body, !.kind = "dirty"]
  <1>1. ed \in Notes!Editor /\ ed.theirs.body \in seen /\ Sound(ed) /\ ed.theirs \in past
    BY NoteTypes, EdSound DEF NoteInv, EditorTrue
  <1>2. /\ ed.theirs.body \in Notes!Texts /\ ed.theirs.ver \in Nat
        /\ Notes!Note(ed.theirs.body, ed.theirs.ver) = ed.theirs
    BY <1>1, EditorFields, NoteFields
  <1>3. "dirty" \in Notes!Kinds BY KindsAre
  <1>4. /\ e \in Notes!Editor /\ e.body = ed.body /\ e.saved = ed.theirs.body /\ e.base = ed.theirs.ver
        /\ e.landed = ed.theirs.ver /\ e.theirs = ed.theirs /\ e.kind = "dirty"
    BY <1>1, <1>2, <1>3 DEF Notes!Editor
  <1> HIDE DEF e
  <1>5. SeenAt(e.landed) BY <1>1, <1>4 DEF SeenAt
  <1>6. Sound(e) BY <1>1, <1>2, <1>4, <1>5 DEF Sound
  <1> QED BY <1>4, <1>6 DEF e

----------------------------------------------------------------------------
(* What is shown. *)
LEMMA ShowTrue ==
  ASSUME NoteBounds, NoteInv, NEW e, Sound(e), Notes!Show(e), past' = past
  PROVE /\ ed' = e /\ ed' \in Notes!Editor /\ EditorTrue'
        /\ seen \subseteq seen' /\ seen' \subseteq Notes!Texts
        /\ e.body \in seen' /\ (e.kind = "conflict" => e.theirs.body \in seen')
  <1>1. /\ ed' = e
        /\ seen' = seen \union {e.body} \union (IF e.kind = "conflict" THEN {e.theirs.body} ELSE {})
    BY DEF Notes!Show
  <1>2. e \in Notes!Editor /\ e.body \in Notes!Texts /\ e.theirs.body \in Notes!Texts
    BY EditorFields DEF Sound
  <1>3. seen \subseteq Notes!Texts /\ 0 \in seen BY NoteTypes DEF NoteInv, EditorTrue
  <1>4. seen \subseteq seen' /\ seen' \subseteq Notes!Texts /\ e.body \in seen' /\ e.theirs.body \in seen'
    BY <1>1, <1>2, <1>3 DEF Sound
  <1>5. SeenAt(ed.landed)'
    BY <1>1, <1>4 DEF Sound, SeenAt
  <1>6. EditorTrue' BY <1>1, <1>3, <1>4, <1>5 DEF Sound, EditorTrue, Notes!Note
  <1> QED BY <1>1, <1>2, <1>4, <1>6

LEMMA SeenKept ==
  ASSUME past \subseteq past', seen \subseteq seen', req \in Nat, req' \in Nat, req <= req'
  PROVE /\ \A v : SeenAt(v) => SeenAt(v)'
        /\ \A m : SaveTrue(m) /\ (m.t = "save" => m.req \in Nat) => SaveTrue(m)'
  BY DEF SeenAt, SaveTrue

LEMMA SendsNone ==
  ASSUME NoteBounds, NoteInv, NEW e, NEW ws \in Seq(Notes!Texts), Len(ws) = 0, NEW open,
         NEW rest \in Seq(Notes!Saves), NEW running, Notes!Send(e, ws, open, rest, running)
  PROVE /\ req' = req /\ pending' = open /\ inflight' = running /\ toServer' = toServer
        /\ queue' = rest /\ Notes!Show(e)
  <1> DEFINE saves == [k \in 1..Len(ws) |-> Notes!Save(req + k, e, ws[k])]
  <1>1. /\ req' = req + Len(ws)
        /\ pending' = open \union {saves[k] : k \in 1..Len(ws)}
        /\ inflight' = (IF Len(ws) > 0 THEN req + Len(ws) ELSE running)
        /\ toServer' = (IF up THEN toServer \o saves ELSE toServer)
        /\ queue' = (IF up THEN rest ELSE rest \o saves)
        /\ Notes!Show(IF Len(ws) > 0 THEN [e EXCEPT !.kind = "saving"] ELSE e)
    BY DEF Notes!Send
  <1>2. 1..Len(ws) = {} OBVIOUS
  <1>3. saves = <<>> BY <1>2
  <1>4. req \in Nat /\ toServer \in Seq(Asked) BY NoteTypes DEF NoteInv
  <1>5. toServer \o <<>> = toServer /\ rest \o <<>> = rest BY <1>4
  <1> HIDE DEF saves
  <1> QED BY <1>1, <1>2, <1>3, <1>4, <1>5

(* The saves of one round. *)
LEMMA RoundOf ==
  ASSUME NoteBounds, NoteInv, NEW e \in Notes!Editor, NEW ws \in Seq(Notes!Texts)
  PROVE LET saves == [k \in 1..Len(ws) |-> Notes!Save(req + k, e, ws[k])] IN
        /\ saves \in Seq(Notes!Saves) /\ Len(saves) = Len(ws)
        /\ \A k \in 1..Len(ws) : /\ saves[k] \in Notes!Saves /\ saves[k].t = "save"
                                 /\ saves[k].req = req + k
                                 /\ saves[k].text = e.body /\ saves[k].from = e.landed
  <1> DEFINE saves == [k \in 1..Len(ws) |-> Notes!Save(req + k, e, ws[k])]
  <1>1. Len(ws) \in Nat /\ \A k \in 1..Len(ws) : ws[k] \in Notes!Texts OBVIOUS
  <1>2. e.body \in Notes!Texts /\ e.landed \in Nat /\ req \in Nat
    BY EditorFields, NoteTypes DEF NoteInv
  <1>3. ASSUME NEW k \in 1..Len(ws)
        PROVE /\ saves[k] \in Notes!Saves /\ saves[k].t = "save" /\ saves[k].req = req + k
              /\ saves[k].text = e.body /\ saves[k].from = e.landed
    <2>1. saves[k] = Notes!Save(req + k, e, ws[k]) BY <1>3
    <2>2. ws[k] \in Notes!Texts /\ req + k \in Nat BY <1>1, <1>2, <1>3
    <2> HIDE DEF saves
    <2> QED BY <1>2, <2>1, <2>2 DEF Notes!Save, Notes!Saves
  <1>4. saves \in Seq(Notes!Saves) /\ Len(saves) = Len(ws)
    <2>1. saves \in [1..Len(ws) -> Notes!Saves] BY <1>3
    <2> QED BY <1>1, <2>1
  <1> QED BY <1>3, <1>4

LEMMA SendsSome ==
  ASSUME NoteBounds, NoteInv, NEW e, Sound(e), NEW ws \in Seq(Notes!Texts), Len(ws) > 0, NEW open,
         NEW rest \in Seq(Notes!Saves), NEW running, Notes!Send(e, ws, open, rest, running),
         Notes!Sendable(e), open = {}, past' = past, up' = up,
         \A i \in 1..Len(rest) : SaveTrue(rest[i])
  PROVE \E saves \in Seq(Notes!Saves) :
        /\ Len(saves) > 0 /\ Len(saves) \in Nat
        /\ req' = req + Len(saves) /\ inflight' = req + Len(saves)
        /\ pending' = {saves[k] : k \in 1..Len(saves)}
        /\ toServer' = (IF up THEN toServer \o saves ELSE toServer)
        /\ queue' = (IF up THEN rest ELSE rest \o saves)
        /\ \A k \in 1..Len(saves) : /\ saves[k] \in Notes!Saves /\ saves[k].req = req + k
                                    /\ saves[k].text = e.body /\ SaveTrue(saves[k])'
        /\ ed'.body = e.body /\ ed'.saved = e.saved
        /\ ed' \in Notes!Editor /\ EditorTrue' /\ seen \subseteq seen' /\ seen' \subseteq Notes!Texts
  <1> DEFINE saves == [k \in 1..Len(ws) |-> Notes!Save(req + k, e, ws[k])]
             f == [e EXCEPT !.kind = "saving"]
  <1>1. /\ req' = req + Len(ws)
        /\ pending' = open \union {saves[k] : k \in 1..Len(ws)}
        /\ inflight' = (IF Len(ws) > 0 THEN req + Len(ws) ELSE running)
        /\ toServer' = (IF up THEN toServer \o saves ELSE toServer)
        /\ queue' = (IF up THEN rest ELSE rest \o saves)
        /\ Notes!Show(IF Len(ws) > 0 THEN f ELSE e)
    BY DEF Notes!Send
  <1>2. e \in Notes!Editor /\ e.kind # "conflict" BY DEF Sound, Notes!Sendable
  <1>3. PICK r \in Seq(Notes!Saves) :
          /\ r = saves /\ Len(r) = Len(ws)
          /\ \A k \in 1..Len(ws) : /\ r[k] \in Notes!Saves /\ r[k].t = "save" /\ r[k].req = req + k
                                   /\ r[k].text = e.body /\ r[k].from = e.landed
    BY <1>2, RoundOf
  <1>4. Len(ws) \in Nat /\ req \in Nat BY NoteTypes DEF NoteInv
  <1>5. Sound(f) /\ f.body = e.body /\ f.saved = e.saved /\ f.landed = e.landed
    <2>1. "saving" \in Notes!Kinds /\ "saving" # "loading" BY KindsAre
    <2>2. e.theirs.body \in seen BY <1>2 DEF Sound
    <2> QED BY <2>1, <2>2, EdVerdict
  <1> HIDE DEF saves
  <1>6. /\ req' = req + Len(r) /\ inflight' = req + Len(r) /\ pending' = {r[k] : k \in 1..Len(r)}
        /\ toServer' = (IF up THEN toServer \o r ELSE toServer)
        /\ queue' = (IF up THEN rest ELSE rest \o r) /\ Notes!Show(f)
    BY <1>1, <1>3
  <1> HIDE DEF f
  <1>7. /\ ed' = f /\ ed' \in Notes!Editor /\ EditorTrue'
        /\ seen \subseteq seen' /\ seen' \subseteq Notes!Texts
    BY <1>5, <1>6, ShowTrue
  <1>8. e.body \in seen' /\ SeenAt(e.landed)' BY <1>5, <1>7 DEF EditorTrue
  <1>9. ASSUME NEW k \in 1..Len(r) PROVE SaveTrue(r[k])'
    <2>1. r[k].text \in seen' /\ r[k].req <= req' BY <1>3, <1>4, <1>6, <1>8
    <2>2. SeenAt(r[k].from)' BY <1>3, <1>8
    <2> QED BY <2>1, <2>2 DEF SaveTrue
  <1> QED BY <1>3, <1>4, <1>5, <1>6, <1>7, <1>9

----------------------------------------------------------------------------
(* The ways *)

LEMMA TailOf ==
  ASSUME NEW S, NEW s \in Seq(S), s # <<>>
  PROVE /\ Tail(s) \in Seq(S) /\ Len(Tail(s)) = Len(s) - 1 /\ Len(s) \in Nat /\ Len(s) >= 1
        /\ \A i \in 1..(Len(s) - 1) : Tail(s)[i] = s[i + 1] /\ i + 1 \in 1..Len(s)
        /\ Head(s) = s[1] /\ 1 \in 1..Len(s) /\ s[1] \in S
  <1>1. Len(s) \in Nat /\ Len(s) >= 1 OBVIOUS
  <1>2. Tail(s) \in Seq(S) /\ Len(Tail(s)) = Len(s) - 1 BY <1>1
  <1>3. \A i \in 1..(Len(s) - 1) : Tail(s)[i] = s[i + 1] /\ i + 1 \in 1..Len(s) BY <1>1
  <1> QED BY <1>1, <1>2, <1>3

LEMMA TabSame ==
  ASSUME NoteBounds, NoteInv, toTab' = toTab, past \subseteq past', seen \subseteq seen',
         req' \in Nat, req <= req'
  PROVE /\ ToldTrue' /\ toTab' \in Seq(Told)
        /\ \A n : PushedBefore(n, Len(toTab) + 1) => PushedBefore(n, Len(toTab) + 1)'
        /\ \A i \in 1..Len(toTab') : toTab'[i] = toTab[i] /\ i \in 1..Len(toTab)
  <1>1. req \in Nat /\ toTab \in Seq(Told) /\ \A i \in 1..Len(toTab) : toTab[i] \in Told
    BY NoteTypes DEF NoteInv
  <1>2. ASSUME NEW m \in Told, m.t = "answer", SaveTrue(m.save) PROVE SaveTrue(m.save)'
    BY <1>1, <1>2, SeenKept, MessageTypes
  <1>3. ToldTrue'
    <2>1. ASSUME NEW i \in 1..Len(toTab) PROVE \E m \in Told : m = toTab[i] /\ FairlyTold(m, i)'
      <3>1. PICK m \in Told : m = toTab[i] BY <1>1
      <3>2. FairlyTold(m, i) BY <3>1 DEF NoteInv, ToldTrue
      <3> QED BY <1>2, <3>1, <3>2 DEF FairlyTold, PushedBefore
    <2> QED BY <2>1 DEF ToldTrue, FairlyTold, PushedBefore, SaveTrue, SeenAt
  <1>4. \A n : PushedBefore(n, Len(toTab) + 1) => PushedBefore(n, Len(toTab) + 1)' BY DEF PushedBefore
  <1> QED BY <1>1, <1>3, <1>4

(* The tab has heard the first message, and was shown the note if it is a push. *)
LEMMA TabHeard ==
  ASSUME NoteBounds, NoteInv, toTab # <<>>, toTab' = Tail(toTab),
         past \subseteq past', seen \subseteq seen', req' \in Nat, req <= req',
         toTab[1].t = "note" => toTab[1].note.body \in seen'
  PROVE /\ ToldTrue' /\ toTab' \in Seq(Told)
        /\ \A n : PushedBefore(n, Len(toTab) + 1) => PushedBefore(n, Len(toTab) + 1)' \/ n.body \in seen'
        /\ \A i \in 1..Len(toTab') : toTab'[i] = toTab[i + 1] /\ i + 1 \in 1..Len(toTab)
  <1>1. req \in Nat /\ toTab \in Seq(Told) /\ \A i \in 1..Len(toTab) : toTab[i] \in Told
    BY NoteTypes DEF NoteInv
  <1>2. /\ toTab' \in Seq(Told) /\ Len(toTab') = Len(toTab) - 1 /\ Len(toTab) \in Nat /\ Len(toTab) >= 1
        /\ \A i \in 1..(Len(toTab) - 1) : toTab'[i] = toTab[i + 1] /\ i + 1 \in 1..Len(toTab)
        /\ 1 \in 1..Len(toTab)
    BY <1>1, TailOf
  <1>3. ASSUME NEW n, NEW i \in 1..(Len(toTab) + 1), PushedBefore(n, i), n.body \notin seen'
        PROVE \E j \in 1..(i - 2) : toTab'[j].t = "note" /\ toTab'[j].note = n
    <2>1. PICK j \in 1..(i - 1) : toTab[j].t = "note" /\ toTab[j].note = n BY <1>3 DEF PushedBefore
    <2>2. j # 1 BY <1>3, <2>1
    <2>3. j - 1 \in 1..(i - 2) /\ j - 1 \in 1..(Len(toTab) - 1) /\ (j - 1) + 1 = j BY <1>2, <2>2
    <2> QED BY <1>2, <2>1, <2>3
  <1>4. ASSUME NEW m \in Told, m.t = "answer", SaveTrue(m.save) PROVE SaveTrue(m.save)'
    BY <1>1, <1>4, SeenKept, MessageTypes
  <1>5. ASSUME NEW i \in 1..Len(toTab') PROVE \E m \in Told : m = toTab'[i] /\ FairlyTold(m, i)'
    <2>1. PICK m \in Told : m = toTab[i + 1] /\ m = toTab'[i] BY <1>1, <1>2, <1>5
    <2>2. i + 1 \in 1..Len(toTab) /\ (i + 1) - 2 = i - 1 BY <1>2, <1>5
    <2>3. /\ m.note \in past
          /\ m.t = "answer" => /\ SaveTrue(m.save) /\ (m.ok => m.note.body = m.save.text)
                               /\ m.note.body \in seen \/ PushedBefore(m.note, i + 1)
      BY <2>1, <2>2 DEF NoteInv, ToldTrue, FairlyTold
    <2>4. m.t = "answer" => m.note.body \in seen' \/ \E j \in 1..(i - 1) : toTab'[j].t = "note" /\ toTab'[j].note = m.note
      BY <1>2, <1>3, <2>2, <2>3
    <2>5. m.t = "answer" => SaveTrue(m.save)' BY <1>4, <2>3
    <2>6. m.t = "answer" => m.note.body \in seen' \/ PushedBefore(m.note, i)' BY <2>4 DEF PushedBefore
    <2> QED BY <2>1, <2>3, <2>5, <2>6 DEF FairlyTold
  <1>6. ToldTrue' BY <1>5 DEF ToldTrue, FairlyTold, PushedBefore, SaveTrue, SeenAt
  <1>7. ASSUME NEW n, PushedBefore(n, Len(toTab) + 1), n.body \notin seen'
        PROVE PushedBefore(n, Len(toTab) + 1)'
    <2>1. Len(toTab) + 1 \in 1..(Len(toTab) + 1) BY <1>2
    <2>2. \E j \in 1..((Len(toTab) + 1) - 2) : toTab'[j].t = "note" /\ toTab'[j].note = n BY <1>3, <1>7, <2>1
    <2>3. (Len(toTab) + 1) - 2 = (Len(toTab') + 1) - 1 BY <1>2
    <2> QED BY <2>2, <2>3 DEF PushedBefore
  <1> QED BY <1>2, <1>6, <1>7

(* The server hears no less, and the tab is told what it was. *)
LEMMA WatchKept ==
  ASSUME NoteBounds, NoteInv, UNCHANGED <<watched, up, store>>, seen \subseteq seen',
         \A n : PushedBefore(n, Len(toTab) + 1) => PushedBefore(n, Len(toTab) + 1)' \/ n.body \in seen',
         toTab = <<>> => toTab' = <<>>,
         toServer' = toServer \/ (up /\ \E r \in Seq(Notes!Saves) : toServer' = toServer \o r)
  PROVE WatchTrue'
  <1>1. /\ watched => store.body \in seen \/ PushedBefore(store, Len(toTab) + 1)
        /\ ~watched => toServer = <<>> \/ toServer[1].t = "watch"
        /\ up /\ ~watched => toServer # <<>>
        /\ ~up => toServer = <<>> /\ toTab = <<>> /\ ~watched
    BY DEF NoteInv, WatchTrue
  <1>2. toServer \in Seq(Asked) BY NoteTypes DEF NoteInv
  <1>3. PICK n : n = store OBVIOUS
  <1>4. watched => n.body \in seen' \/ PushedBefore(n, Len(toTab) + 1)' BY <1>1, <1>3
  <1>5. up /\ ~watched => toServer' # <<>> /\ toServer'[1].t = "watch"
    <2>1. CASE toServer' = toServer BY <1>1, <2>1
    <2>2. ASSUME NEW r \in Seq(Notes!Saves), toServer' = toServer \o r, toServer # <<>>
          PROVE toServer' # <<>> /\ toServer'[1] = toServer[1]
      <3>1. r \in Seq(Asked) BY MessageTypes
      <3>2. 1 \in 1..Len(toServer) /\ Len(toServer) >= 1 BY <1>2, <2>2
      <3> QED BY <1>2, <2>2, <3>1, <3>2, Joined
    <2> QED BY <1>1, <2>1, <2>2
  <1> QED BY <1>1, <1>3, <1>4, <1>5 DEF WatchTrue

----------------------------------------------------------------------------
(* Steps that keep the ways *)

(* All but where unsaved text waits. *)
NoteCore ==
  /\ NoteTyped /\ PastTrue /\ EditorTrue /\ SavesTrue /\ ToldTrue /\ WatchTrue
  /\ Book /\ Line

OldSave(m) ==
  \/ m \in pending
  \/ \E k \in 1..Len(queue) : queue[k] = m
  \/ \E k \in 1..Len(toServer) : toServer[k] = m
  \/ \E k \in 1..Len(stray) : stray[k] = m

LEMMA OldSaves ==
  ASSUME NoteBounds, NoteInv, past \subseteq past', seen \subseteq seen', req' \in Nat, req <= req',
         NEW m, OldSave(m)
  PROVE m \in Asked /\ SaveTrue(m) /\ SaveTrue(m)'
  <1>1. /\ pending \subseteq Notes!Saves /\ req \in Nat
        /\ \A i \in 1..Len(queue) : queue[i] \in Notes!Saves
        /\ \A i \in 1..Len(toServer) : toServer[i] \in Asked
        /\ \A i \in 1..Len(stray) : stray[i] \in Asked
    BY NoteTypes DEF NoteInv
  <1>2. m \in Asked /\ SaveTrue(m) BY <1>1, MessageTypes DEF OldSave, NoteInv, SavesTrue
  <1>3. m.t = "save" => m.req \in Nat BY <1>2, MessageTypes
  <1> QED BY <1>1, <1>2, <1>3, SeenKept

LEMMA SavesKept ==
  ASSUME NoteBounds, NoteInv, past \subseteq past', seen \subseteq seen', req' \in Nat, req <= req',
         \A s \in pending' : OldSave(s) \/ SaveTrue(s)',
         \A i \in 1..Len(queue') : \E m : m = queue'[i] /\ (OldSave(m) \/ SaveTrue(m)'),
         \A i \in 1..Len(toServer') : \E m : m = toServer'[i] /\ (OldSave(m) \/ SaveTrue(m)'),
         \A i \in 1..Len(stray') : \E m : m = stray'[i] /\ (OldSave(m) \/ SaveTrue(m)')
  PROVE SavesTrue'
  <1>1. \A m : OldSave(m) => SaveTrue(m)' BY OldSaves
  <1>2. \A s \in pending' : SaveTrue(s)' BY <1>1
  <1>3. \A i \in 1..Len(queue') : \E m : m = queue'[i] /\ SaveTrue(m)' BY <1>1
  <1>4. \A i \in 1..Len(toServer') : \E m : m = toServer'[i] /\ SaveTrue(m)' BY <1>1
  <1>5. \A i \in 1..Len(stray') : \E m : m = stray'[i] /\ SaveTrue(m)' BY <1>1
  <1> QED BY <1>2, <1>3, <1>4, <1>5 DEF SavesTrue, SaveTrue, SeenAt

(* What the tab hears of its saves. *)
TabKept(open) ==
  /\ ToldTrue' /\ toTab' \in Seq(Told)
  /\ \A n : PushedBefore(n, Len(toTab) + 1) => PushedBefore(n, Len(toTab) + 1)' \/ n.body \in seen'
  /\ toTab = <<>> => toTab' = <<>>
  /\ \A i \in 1..Len(toTab') : \E k \in 1..Len(toTab) : toTab'[i] = toTab[k]
  /\ \A s, r \in open : s.req < r.req =>
       \A i \in 1..Len(toTab') :
         IsAnswer(toTab'[i], r) => \E j \in 1..(i - 1) : IsAnswer(toTab'[j], s)
  /\ \A s \in open : \A j \in 1..Len(toTab) :
       IsAnswer(toTab[j], s) => \E k \in 1..Len(toTab') : IsAnswer(toTab'[k], s)

Heard(open) ==
  /\ toTab # <<>> /\ toTab' = Tail(toTab)
  /\ \/ toTab[1].t = "answer" /\ toTab[1].save \notin open
     \/ toTab[1].t = "note" /\ toTab[1].note.body \in seen'

LEMMA TabGoes ==
  ASSUME NoteBounds, NoteInv, NEW open \in SUBSET pending, past' = past, seen \subseteq seen',
         req' \in Nat, req <= req', toTab' = toTab \/ Heard(open)
  PROVE TabKept(open)
  <1>1. \A s, r \in open : s.req < r.req =>
          \A i \in 1..Len(toTab) : IsAnswer(toTab[i], r) => \E j \in 1..(i - 1) : IsAnswer(toTab[j], s)
    BY DEF NoteInv, Line, InLine
  <1>2. toTab \in Seq(Told) /\ Len(toTab) \in Nat BY NoteTypes DEF NoteInv
  <1>3. CASE toTab' = toTab
    <2>1. /\ ToldTrue' /\ toTab' \in Seq(Told)
          /\ \A n : PushedBefore(n, Len(toTab) + 1) => PushedBefore(n, Len(toTab) + 1)'
      BY <1>3, TabSame
    <2> QED BY <1>1, <1>3, <2>1 DEF TabKept
  <1>4. CASE Heard(open)
    <2>1. /\ toTab # <<>> /\ toTab' = Tail(toTab)
          /\ \A s \in open : ~IsAnswer(toTab[1], s)
          /\ toTab[1].t = "note" => toTab[1].note.body \in seen'
      BY <1>4 DEF Heard, IsAnswer
    <2>2. /\ ToldTrue' /\ toTab' \in Seq(Told)
          /\ \A n : PushedBefore(n, Len(toTab) + 1) => PushedBefore(n, Len(toTab) + 1)' \/ n.body \in seen'
          /\ \A i \in 1..Len(toTab') : toTab'[i] = toTab[i + 1] /\ i + 1 \in 1..Len(toTab)
      BY <2>1, TabHeard
    <2>3. Len(toTab') = Len(toTab) - 1 BY <1>2, <2>1, TailOf
    <2>4. ASSUME NEW s \in open, NEW r \in open, s.req < r.req, NEW i \in 1..Len(toTab'),
                 IsAnswer(toTab'[i], r)
          PROVE \E j \in 1..(i - 1) : IsAnswer(toTab'[j], s)
      <3>1. toTab'[i] = toTab[i + 1] /\ i + 1 \in 1..Len(toTab) BY <2>2
      <3>2. PICK j \in 1..((i + 1) - 1) : IsAnswer(toTab[j], s) BY <1>1, <2>4, <3>1
      <3>3. j # 1 BY <2>1, <3>2
      <3>4. j - 1 \in 1..(i - 1) /\ j - 1 \in 1..Len(toTab') /\ (j - 1) + 1 = j
        BY <1>2, <2>3, <3>3
      <3> QED BY <2>2, <3>2, <3>4
    <2>5. ASSUME NEW s \in open, NEW j \in 1..Len(toTab), IsAnswer(toTab[j], s)
          PROVE \E k \in 1..Len(toTab') : IsAnswer(toTab'[k], s)
      <3>1. j # 1 BY <2>1, <2>5
      <3>2. j - 1 \in 1..Len(toTab') /\ (j - 1) + 1 = j BY <1>2, <2>3, <3>1
      <3> QED BY <2>2, <2>5, <3>2
    <2> QED BY <2>1, <2>2, <2>4, <2>5 DEF TabKept
  <1> QED BY <1>3, <1>4

RestKept(open, rest) ==
  /\ \A i \in 1..Len(rest) : \E k \in 1..Len(queue) : rest[i] = queue[k]
  /\ \A s, r \in open : s.req < r.req =>
       \A i \in 1..Len(rest) : rest[i] = r => \E j \in 1..(i - 1) : rest[j] = s

LEMMA QueueRest ==
  ASSUME NoteInv
  PROVE RestKept(pending, queue)
  BY DEF NoteInv, Line, InLine, RestKept

(* What a step of the tab leaves alone. *)
Around ==
  /\ UNCHANGED <<store, clock, watched, up, stray, past>>
  /\ typed' \in 0..MaxTyped /\ others' \in 0..MaxOthers /\ timer' \in BOOLEAN /\ misled' \in BOOLEAN
  /\ waiting' \in Seq(Notes!Texts)

(* No save goes out. *)
LEMMA NoneGoes ==
  ASSUME NoteBounds, NoteInv, NEW e, Sound(e), Notes!Show(e), NEW open \in SUBSET pending,
         NEW rest \in Seq(Notes!Saves), RestKept(open, rest), Around, toTab' = toTab \/ Heard(open),
         req' = req, pending' = open, toServer' = toServer, queue' = rest, inflight' \in {0, inflight},
         inflight' = 0 => open = {} /\ waiting' = <<>>,
         inflight' # 0 => \E s \in open : s.req = inflight'
  PROVE NoteCore' /\ ed' = e
  <1>1. UNCHANGED <<store, clock, watched, up, stray, past>> BY DEF Around
  <1>2. /\ ed' = e /\ ed' \in Notes!Editor /\ EditorTrue' /\ seen \subseteq seen' /\ seen' \subseteq Notes!Texts
    BY <1>1, ShowTrue
  <1>3. /\ req \in Nat /\ inflight \in 0..req /\ pending \subseteq Notes!Saves
        /\ \A s \in pending : s.req \in 1..req
        /\ stray \in Seq(Asked) /\ toServer \in Seq(Asked) /\ store \in Notes!Notes /\ clock \in Nat
        /\ watched \in BOOLEAN /\ up \in BOOLEAN /\ past \subseteq Notes!Notes
    BY NoteTypes DEF NoteInv
  <1>4. TabKept(open) BY <1>1, <1>2, <1>3, TabGoes
  <1>5. NoteTyped'
    <2>1. toTab' \in Seq(Told) BY <1>4 DEF TabKept
    <2>2. inflight' \in 0..req' BY <1>3
    <2>3. pending' \subseteq Notes!Saves /\ \A s \in pending' : s.req \in 1..req' BY <1>3
    <2>4. /\ store' \in Notes!Notes /\ clock' \in Nat /\ stray' \in Seq(Asked) /\ toServer' \in Seq(Asked)
          /\ watched' \in BOOLEAN /\ up' \in BOOLEAN /\ past' \subseteq Notes!Notes
          /\ queue' \in Seq(Notes!Saves) /\ req' \in Nat
      BY <1>1, <1>3
    <2>5. /\ typed' \in 0..MaxTyped /\ others' \in 0..MaxOthers /\ timer' \in BOOLEAN
          /\ misled' \in BOOLEAN /\ waiting' \in Seq(Notes!Texts)
      BY DEF Around
    <2> QED BY <1>2, <2>1, <2>2, <2>3, <2>4, <2>5, NoteTypedNext
  <1>6. PastTrue' BY <1>1 DEF NoteInv, PastTrue, Notes!Empty, Notes!Note
  <1>7. SavesTrue'
    <2>1. \A s \in pending' : OldSave(s) BY DEF OldSave
    <2>2. \A i \in 1..Len(queue') : \E m : m = queue'[i] /\ OldSave(m)
      BY DEF RestKept, OldSave
    <2>3. \A i \in 1..Len(toServer') : \E m : m = toServer'[i] /\ OldSave(m) BY DEF OldSave
    <2>4. \A i \in 1..Len(stray') : \E m : m = stray'[i] /\ OldSave(m) BY <1>1 DEF OldSave
    <2> QED BY <1>1, <1>2, <1>3, <2>1, <2>2, <2>3, <2>4, SavesKept
  <1>8. WatchTrue' BY <1>1, <1>2, <1>4, WatchKept DEF TabKept
  <1>9. Book' BY DEF NoteInv, Book
  <1>10. Line'
    <2>1. ASSUME NEW s \in open, NEW r \in open, s.req < r.req PROVE InLine(s, r)'
      <3>1. \A i \in 1..Len(toServer) :
              toServer[i] = r => \/ \E j \in 1..(i - 1) : toServer[j] = s
                                 \/ \E j \in 1..Len(toTab) : IsAnswer(toTab[j], s)
        BY <2>1 DEF NoteInv, Line, InLine
      <3>2. \A i \in 1..Len(toServer') :
              toServer'[i] = r => \/ \E j \in 1..(i - 1) : toServer'[j] = s
                                  \/ \E j \in 1..Len(toTab') : IsAnswer(toTab'[j], s)
        BY <1>4, <3>1 DEF TabKept
      <3>3. \A i \in 1..Len(toTab') :
              IsAnswer(toTab'[i], r) => \E j \in 1..(i - 1) : IsAnswer(toTab'[j], s)
        BY <1>4, <2>1 DEF TabKept
      <3>4. \A i \in 1..Len(queue') : queue'[i] = r => \E j \in 1..(i - 1) : queue'[j] = s
        BY <2>1 DEF RestKept
      <3> QED BY <3>2, <3>3, <3>4 DEF InLine, IsAnswer
    <2> QED BY <2>1 DEF Line
  <1>11. ToldTrue' BY <1>4 DEF TabKept
  <1> QED BY <1>2, <1>5, <1>6, <1>7, <1>8, <1>9, <1>10, <1>11 DEF NoteCore

NumberedFrom(r, n) == \A k \in 1..Len(r) : r[k].req = n + k

Apart(x, r) == \A i \in 1..Len(x), k \in 1..Len(r) : x[i] # r[k]

InOrder(z, s, q) == \A i \in 1..Len(z) : z[i] = q => \E j \in 1..(i - 1) : z[j] = s

(* New saves stand behind the old ones, in the order they were made. *)
LEMMA Behind ==
  ASSUME NEW S, NEW x \in Seq(S), NEW r \in Seq(S), NEW n \in Nat,
         NumberedFrom(r, n), Apart(x, r), NEW a \in 1..Len(r), NEW b \in 1..Len(r), a < b
  PROVE InOrder(x \o r, r[a], r[b])
  <1> SUFFICES ASSUME NEW i \in 1..Len(x \o r), (x \o r)[i] = r[b]
               PROVE \E j \in 1..(i - 1) : (x \o r)[j] = r[a]
    BY DEF InOrder
  <1>1. /\ Len(x) \in Nat /\ Len(r) \in Nat
        /\ \A j \in 1..Len(x) : (x \o r)[j] = x[j]
        /\ \A j \in 1..Len(r) : (x \o r)[Len(x) + j] = r[j]
        /\ i \in 1..Len(x) \/ \E k \in 1..Len(r) : i = Len(x) + k
    BY Joined
  <1>2. i \notin 1..Len(x) BY <1>1 DEF Apart
  <1>3. PICK k \in 1..Len(r) : i = Len(x) + k BY <1>1, <1>2
  <1>4. r[k] = r[b] BY <1>1, <1>3
  <1>5. n + k = n + b BY <1>4 DEF NumberedFrom
  <1>6. k = b BY <1>5
  <1>7. Len(x) + a \in 1..(i - 1) BY <1>1, <1>3, <1>6
  <1> QED BY <1>1, <1>7

(* What is pending or on a way already is older than what goes out now. *)
LEMMA OldIsOlder ==
  ASSUME NoteBounds, NoteInv, NEW m, m.t = "save",
         OldSave(m) \/ \E i \in 1..Len(toTab) : IsAnswer(toTab[i], m)
  PROVE m.req <= req
  <1>1. req \in Nat BY NoteTypes DEF NoteInv
  <1>2. CASE OldSave(m) BY <1>1, <1>2 DEF OldSave, NoteInv, SavesTrue, SaveTrue
  <1>3. ASSUME NEW i \in 1..Len(toTab), IsAnswer(toTab[i], m) PROVE m.req <= req
    BY <1>3 DEF IsAnswer, NoteInv, ToldTrue, FairlyTold, SaveTrue
  <1> QED BY <1>2, <1>3

(* A round of saves goes out, when none is pending. *)
LEMMA SomeGo ==
  ASSUME NoteBounds, NoteInv, NEW e, Sound(e), Notes!Sendable(e),
         NEW ws \in Seq(Notes!Texts), Len(ws) > 0, NEW rest \in Seq(Notes!Saves), NEW running,
         \A i \in 1..Len(rest) : \E k \in 1..Len(queue) : rest[i] = queue[k],
         Notes!Send(e, ws, {}, rest, running), Around, toTab' = toTab \/ Heard({})
  PROVE /\ NoteCore' /\ inflight' # 0
        /\ \E s \in pending' : s.req = inflight' /\ s.text = ed'.body
  <1>1. UNCHANGED <<store, clock, watched, up, stray, past>> BY DEF Around
  <1>2. /\ req \in Nat /\ inflight \in 0..req /\ pending \subseteq Notes!Saves
        /\ stray \in Seq(Asked) /\ toServer \in Seq(Asked) /\ store \in Notes!Notes /\ clock \in Nat
        /\ watched \in BOOLEAN /\ up \in BOOLEAN /\ past \subseteq Notes!Notes
    BY NoteTypes DEF NoteInv
  <1>3. \A i \in 1..Len(rest) : SaveTrue(rest[i]) BY DEF NoteInv, SavesTrue
  <1>4. PICK r \in Seq(Notes!Saves) :
        /\ Len(r) > 0 /\ Len(r) \in Nat
        /\ req' = req + Len(r) /\ inflight' = req + Len(r)
        /\ pending' = {r[k] : k \in 1..Len(r)}
        /\ toServer' = (IF up THEN toServer \o r ELSE toServer)
        /\ queue' = (IF up THEN rest ELSE rest \o r)
        /\ \A k \in 1..Len(r) : /\ r[k] \in Notes!Saves /\ r[k].req = req + k
                                /\ r[k].text = e.body /\ SaveTrue(r[k])'
        /\ ed'.body = e.body /\ ed'.saved = e.saved
        /\ ed' \in Notes!Editor /\ EditorTrue' /\ seen \subseteq seen' /\ seen' \subseteq Notes!Texts
    BY <1>1, <1>3, SendsSome
  <1>5. req' \in Nat /\ req <= req' /\ inflight' \in 0..req' /\ inflight' # 0 BY <1>2, <1>4
  <1>6. TabKept({}) BY <1>1, <1>4, <1>5, TabGoes
  <1>7. r \in Seq(Asked) BY <1>4, MessageTypes
  <1>8. NoteTyped'
    <2>1. toTab' \in Seq(Told) BY <1>6 DEF TabKept
    <2>2. pending' \subseteq Notes!Saves BY <1>4
    <2>3. ASSUME NEW s \in pending' PROVE s.req \in 1..req'
      <3>1. PICK k \in 1..Len(r) : s = r[k] BY <1>4, <2>3
      <3>2. s.req = req + k BY <1>4, <3>1
      <3> QED BY <1>2, <1>4, <3>2
    <2>4. /\ store' \in Notes!Notes /\ clock' \in Nat /\ stray' \in Seq(Asked)
          /\ watched' \in BOOLEAN /\ up' \in BOOLEAN /\ past' \subseteq Notes!Notes
      BY <1>1, <1>2
    <2>5. /\ typed' \in 0..MaxTyped /\ others' \in 0..MaxOthers /\ timer' \in BOOLEAN
          /\ misled' \in BOOLEAN /\ waiting' \in Seq(Notes!Texts)
      BY DEF Around
    <2>6. toServer \o r \in Seq(Asked) /\ rest \o r \in Seq(Notes!Saves) BY <1>2, <1>7, Joined
    <2>7. toServer' \in Seq(Asked) /\ queue' \in Seq(Notes!Saves) BY <1>2, <1>4, <2>6
    <2> QED BY <1>4, <1>5, <2>1, <2>2, <2>3, <2>4, <2>5, <2>7, NoteTypedNext
  <1>9. PastTrue' BY <1>1 DEF NoteInv, PastTrue, Notes!Empty, Notes!Note
  <1>10. SavesTrue'
    <2>1. \A s \in pending' : SaveTrue(s)' BY <1>4
    <2>2. \A i \in 1..Len(rest) : OldSave(rest[i])
      BY DEF OldSave
    <2>6. /\ \A i \in 1..Len(rest) : (rest \o r)[i] = rest[i]
          /\ \A k \in 1..Len(r) : (rest \o r)[Len(rest) + k] = r[k]
          /\ \A i \in 1..Len(rest \o r) : i \in 1..Len(rest) \/ \E k \in 1..Len(r) : i = Len(rest) + k
      BY Joined
    <2>7. /\ \A i \in 1..Len(toServer) : (toServer \o r)[i] = toServer[i]
          /\ \A k \in 1..Len(r) : (toServer \o r)[Len(toServer) + k] = r[k]
          /\ \A i \in 1..Len(toServer \o r) : i \in 1..Len(toServer) \/ \E k \in 1..Len(r) : i = Len(toServer) + k
      BY <1>2, <1>7, Joined
    <2>3. ASSUME NEW i \in 1..Len(queue') PROVE \E m : m = queue'[i] /\ (OldSave(m) \/ SaveTrue(m)')
      <3>1. CASE up BY <1>4, <2>2, <2>3, <3>1
      <3>2. CASE ~up
        <4>1. queue' = rest \o r BY <1>4, <3>2
        <4>2. CASE i \in 1..Len(rest)
          <5>1. queue'[i] = rest[i] BY <2>6, <4>1, <4>2
          <5> QED BY <2>2, <4>2, <5>1
        <4>3. ASSUME NEW k \in 1..Len(r), i = Len(rest) + k
              PROVE \E m : m = queue'[i] /\ SaveTrue(m)'
          <5>1. queue'[i] = r[k] BY <2>6, <4>1, <4>3
          <5> QED BY <1>4, <5>1
        <4>4. i \in 1..Len(rest) \/ \E k \in 1..Len(r) : i = Len(rest) + k
          BY <2>3, <2>6, <4>1
        <4> QED BY <4>2, <4>3, <4>4
      <3> QED BY <3>1, <3>2
    <2>4. ASSUME NEW i \in 1..Len(toServer') PROVE \E m : m = toServer'[i] /\ (OldSave(m) \/ SaveTrue(m)')
      <3>1. CASE ~up BY <1>4, <2>4, <3>1 DEF OldSave
      <3>2. CASE up
        <4>1. toServer' = toServer \o r BY <1>4, <3>2
        <4>2. CASE i \in 1..Len(toServer)
          <5>1. toServer'[i] = toServer[i] BY <2>7, <4>1, <4>2
          <5> QED BY <4>2, <5>1 DEF OldSave
        <4>3. ASSUME NEW k \in 1..Len(r), i = Len(toServer) + k
              PROVE \E m : m = toServer'[i] /\ SaveTrue(m)'
          <5>1. toServer'[i] = r[k] BY <2>7, <4>1, <4>3
          <5> QED BY <1>4, <5>1
        <4>4. i \in 1..Len(toServer) \/ \E k \in 1..Len(r) : i = Len(toServer) + k
          BY <2>4, <2>7, <4>1
        <4> QED BY <4>2, <4>3, <4>4
      <3> QED BY <3>1, <3>2
    <2>5. \A i \in 1..Len(stray') : \E m : m = stray'[i] /\ OldSave(m) BY <1>1 DEF OldSave
    <2> QED BY <1>1, <1>4, <1>5, <2>1, <2>3, <2>4, <2>5, SavesKept
  <1>11. WatchTrue'
    <2>1. toServer' = toServer \/ (up /\ toServer' = toServer \o r) BY <1>4
    <2> QED BY <1>1, <1>4, <1>6, <2>1, WatchKept DEF TabKept
  <1>12. Book'
    <2>1. ASSUME NEW s \in pending' PROVE s.req <= inflight' /\ s.text = e.body
      <3>1. PICK k \in 1..Len(r) : s = r[k] BY <1>4, <2>1
      <3>2. s.req = req + k /\ s.text = e.body BY <1>4, <3>1
      <3>3. req \in Nat /\ Len(r) \in Nat /\ inflight' = req + Len(r) BY <1>2, <1>4
      <3> QED BY <3>2, <3>3
    <2>2. ASSUME NEW s \in pending', NEW q \in pending', s.req = q.req PROVE s = q
      <3>1. PICK k \in 1..Len(r), l \in 1..Len(r) : s = r[k] /\ q = r[l] BY <1>4, <2>2
      <3>2. req + k = req + l BY <1>4, <2>2, <3>1
      <3>3. k = l BY <1>2, <3>2
      <3> QED BY <3>1, <3>3
    <2>3. r[Len(r)] \in pending' /\ r[Len(r)].req = inflight' BY <1>4
    <2> QED BY <1>5, <2>1, <2>2, <2>3 DEF Book
  <1>13. Line'
    <2>1. \A k \in 1..Len(r) : r[k].t = "save" /\ ~(r[k].req <= req) BY <1>2, <1>4, MessageTypes
    <2>2. \A k \in 1..Len(r) : ~OldSave(r[k]) /\ \A i \in 1..Len(toTab) : ~IsAnswer(toTab[i], r[k])
      BY <2>1, OldIsOlder
    <2>5. NumberedFrom(r, req) BY <1>4 DEF NumberedFrom
    <2>3. ASSUME NEW a \in 1..Len(r), NEW b \in 1..Len(r), a < b PROVE InLine(r[a], r[b])'
      <3>1. PICK s, q : s = r[a] /\ q = r[b] OBVIOUS
      <3>2. ASSUME NEW i \in 1..Len(toTab'), IsAnswer(toTab'[i], q) PROVE FALSE
        <4>1. PICK k \in 1..Len(toTab) : toTab'[i] = toTab[k] BY <1>6 DEF TabKept
        <4>2. IsAnswer(toTab[k], q) BY <3>2, <4>1
        <4> QED BY <2>2, <3>1, <4>2
      <3>3. \A i \in 1..Len(toServer') : toServer'[i] = q => \E j \in 1..(i - 1) : toServer'[j] = s
        <4>1. \A i \in 1..Len(toServer), k \in 1..Len(r) : toServer[i] # r[k] BY <2>2 DEF OldSave
        <4>2. CASE ~up BY <1>4, <3>1, <4>1, <4>2
        <4>3. CASE up
          <5>1. InOrder(toServer \o r, r[a], r[b])
            <6>1. toServer \in Seq(Asked) /\ r \in Seq(Asked) /\ req \in Nat BY <1>2, <1>7
            <6>2. Apart(toServer, r) BY <4>1 DEF Apart
            <6> QED BY <2>3, <2>5, <6>1, <6>2, Behind
          <5> QED BY <1>4, <3>1, <4>3, <5>1 DEF InOrder
        <4> QED BY <4>2, <4>3
      <3>4. \A i \in 1..Len(queue') : queue'[i] = q => \E j \in 1..(i - 1) : queue'[j] = s
        <4>1. \A i \in 1..Len(rest), k \in 1..Len(r) : rest[i] # r[k] BY <2>2 DEF OldSave
        <4>2. CASE up BY <1>4, <3>1, <4>1, <4>2
        <4>3. CASE ~up
          <5>1. InOrder(rest \o r, r[a], r[b])
            <6>1. r \in Seq(Notes!Saves) /\ req \in Nat BY <1>2
            <6>2. Apart(rest, r) BY <4>1 DEF Apart
            <6> QED BY <2>3, <2>5, <6>1, <6>2, Behind
          <5> QED BY <1>4, <3>1, <4>3, <5>1 DEF InOrder
        <4> QED BY <4>2, <4>3
      <3>5. InLine(s, q)' BY <3>2, <3>3, <3>4 DEF InLine, IsAnswer
      <3> QED BY <3>1, <3>5 DEF InLine, IsAnswer
    <2>4. ASSUME NEW s \in pending', NEW q \in pending', s.req < q.req PROVE InLine(s, q)'
      <3>1. PICK a \in 1..Len(r), b \in 1..Len(r) : s = r[a] /\ q = r[b] BY <1>4, <2>4
      <3>2. req + a < req + b BY <1>4, <2>4, <3>1
      <3>3. a < b BY <1>2, <3>2
      <3>4. InLine(r[a], r[b])' BY <2>3, <3>3
      <3> QED BY <3>1, <3>4 DEF InLine, IsAnswer
    <2> QED BY <2>4 DEF Line
  <1>14. ToldTrue' BY <1>6 DEF TabKept
  <1>15. \E s \in pending' : s.req = inflight' /\ s.text = ed'.body
    <2>1. r[Len(r)] \in pending' /\ r[Len(r)].req = inflight' /\ r[Len(r)].text = ed'.body BY <1>4
    <2> QED BY <2>1
  <1> QED BY <1>4, <1>5, <1>8, <1>9, <1>10, <1>11, <1>12, <1>13, <1>14, <1>15 DEF NoteCore

----------------------------------------------------------------------------
(* Flushes, and saves that are over *)

LEMMA Without ==
  ASSUME NEW S, NEW s \in Seq(S), NEW i \in 1..Len(s)
  PROVE /\ Notes!RemoveAt(s, i) \in Seq(S) /\ Len(Notes!RemoveAt(s, i)) = Len(s) - 1
        /\ \A j \in 1..(Len(s) - 1) : Notes!RemoveAt(s, i)[j] = IF j < i THEN s[j] ELSE s[j + 1]
  <1>1. Notes!RemoveAt(s, i) = Files!RemoveAt(s, i) BY DEF Notes!RemoveAt, Files!RemoveAt
  <1> QED BY <1>1, Removed

LEMMA WithdrawnKeeps ==
  ASSUME NoteBounds, NoteInv, NEW s
  PROVE Notes!Withdrawn(s) \in Seq(Notes!Saves) /\ RestKept(pending \ {s}, Notes!Withdrawn(s))
  <1>1. queue \in Seq(Notes!Saves) /\ Len(queue) \in Nat BY NoteTypes DEF NoteInv
  <1>2. RestKept(pending, queue) BY QueueRest
  <1>3. CASE ~\E i \in 1..Len(queue) : queue[i] = s
    <2>1. Notes!Withdrawn(s) = queue BY <1>3 DEF Notes!Withdrawn
    <2> QED BY <1>1, <1>2, <2>1 DEF RestKept
  <1>4. CASE \E i \in 1..Len(queue) : queue[i] = s
    <2>1. PICK n \in 1..Len(queue) : queue[n] = s /\ Notes!Withdrawn(s) = Notes!RemoveAt(queue, n)
      BY <1>4 DEF Notes!Withdrawn
    <2> DEFINE w == Notes!Withdrawn(s)
    <2>2. /\ w \in Seq(Notes!Saves) /\ Len(w) = Len(queue) - 1
          /\ \A j \in 1..(Len(queue) - 1) : w[j] = IF j < n THEN queue[j] ELSE queue[j + 1]
      BY <1>1, <2>1, Without
    <2> HIDE DEF w
    <2>3. \A i \in 1..Len(w) : \E k \in 1..Len(queue) : w[i] = queue[k]
      <3> SUFFICES ASSUME NEW i \in 1..Len(w) PROVE \E k \in 1..Len(queue) : w[i] = queue[k] OBVIOUS
      <3>1. i \in 1..Len(queue) /\ i + 1 \in 1..Len(queue) /\ i \in 1..(Len(queue) - 1) BY <1>1, <2>2
      <3> QED BY <2>2, <3>1
    <2>4. ASSUME NEW q \in pending \ {s}, NEW r \in pending \ {s}, q.req < r.req,
                 NEW i \in 1..Len(w), w[i] = r
          PROVE \E j \in 1..(i - 1) : w[j] = q
      <3>1. i \in 1..(Len(queue) - 1) /\ i \in Nat /\ n \in Nat /\ Len(queue) \in Nat BY <1>1, <2>2
      <3> DEFINE k == IF i < n THEN i ELSE i + 1
      <3>2. k \in 1..Len(queue) /\ queue[k] = r BY <2>2, <2>4, <3>1
      <3>3. PICK j \in 1..(k - 1) : queue[j] = q BY <1>2, <2>4, <3>2 DEF RestKept
      <3>4. j # n BY <2>1, <2>4, <3>3
      <3>5. CASE j < n
        <4>1. j \in 1..(i - 1) /\ j \in 1..(Len(queue) - 1) BY <3>1, <3>2, <3>5
        <4> QED BY <2>2, <3>3, <3>5, <4>1
      <3>6. CASE j > n
        <4>1. /\ j - 1 \in 1..(i - 1) /\ j - 1 \in 1..(Len(queue) - 1) /\ ~(j - 1 < n)
              /\ (j - 1) + 1 = j
          BY <3>1, <3>2, <3>6
        <4> QED BY <2>2, <3>3, <4>1
      <3> QED BY <3>1, <3>3, <3>4, <3>5, <3>6
    <2> QED BY <2>2, <2>3, <2>4 DEF RestKept, w
  <1> QED BY <1>3, <1>4

(* Either the text is stored, or it may be sent, or somebody was told that it is not stored. *)
LEMMA NotSendable ==
  ASSUME NEW e, Sound(e), ~Notes!Sendable(e)
  PROVE e.body = e.saved \/ e.kind = "conflict"
  BY DEF Sound, Notes!Sendable

LEMMA FlushKeeps ==
  ASSUME NoteBounds, NoteInv, NEW e, Sound(e), Notes!Flush(e),
         UNCHANGED <<store, clock, watched, up, toTab, stray, past, misled>>,
         typed' \in 0..MaxTyped, others' \in 0..MaxOthers
  PROVE NoteInv'
  <1> DEFINE fresh == inflight = 0 /\ Notes!Sendable(e)
  <1>1. /\ timer' = FALSE
        /\ waiting' = (IF inflight # 0 THEN Append(waiting, e.body) ELSE waiting)
        /\ Notes!Send(e, IF fresh THEN <<e.body>> ELSE <<>>, pending, queue, inflight)
    BY DEF Notes!Flush
  <1>2. /\ e.body \in Notes!Texts /\ waiting \in Seq(Notes!Texts) /\ queue \in Seq(Notes!Saves)
        /\ misled \in BOOLEAN
    BY NoteTypes, EditorFields DEF NoteInv, Sound
  <1>3. waiting' \in Seq(Notes!Texts) /\ (inflight # 0 => waiting' # <<>>)
    <2>1. Append(waiting, e.body) \in Seq(Notes!Texts) /\ Len(Append(waiting, e.body)) = Len(waiting) + 1
      BY <1>2
    <2>2. Len(waiting) \in Nat /\ Len(<<>>) = 0 BY <1>2
    <2>3. Append(waiting, e.body) # <<>> BY <2>1, <2>2
    <2> QED BY <1>1, <1>2, <2>1, <2>3
  <1>4. Around BY <1>1, <1>2, <1>3 DEF Around
  <1>5. RestKept(pending, queue) BY QueueRest
  <1>6. CASE fresh
    <2>1. pending = {} BY <1>6 DEF NoteInv, Book
    <2>2. Notes!Send(e, <<e.body>>, {}, queue, inflight) BY <1>1, <1>6, <2>1
    <2>3. <<e.body>> \in Seq(Notes!Texts) /\ Len(<<e.body>>) > 0 BY <1>2
    <2>4. \A i \in 1..Len(queue) : \E k \in 1..Len(queue) : queue[i] = queue[k] OBVIOUS
    <2>5. /\ NoteCore' /\ inflight' # 0
          /\ \E s \in pending' : s.req = inflight' /\ s.text = ed'.body
      BY <1>2, <1>4, <1>6, <2>2, <2>3, <2>4, SomeGo
    <2> QED BY <2>5 DEF NoteCore, NoteInv, Pursuit
  <1>7. CASE ~fresh
    <2>1. Notes!Send(e, <<>>, pending, queue, inflight) BY <1>1, <1>7
    <2>2. <<>> \in Seq(Notes!Texts) /\ Len(<<>>) = 0 OBVIOUS
    <2>3. /\ req' = req /\ pending' = pending /\ inflight' = inflight /\ toServer' = toServer
          /\ queue' = queue /\ Notes!Show(e)
      BY <1>2, <2>1, <2>2, SendsNone
    <2>4. /\ inflight = 0 => pending = {} /\ waiting = <<>>
          /\ inflight # 0 => \E s \in pending : s.req = inflight
      BY DEF NoteInv, Book
    <2>5. inflight = 0 => waiting' = <<>> BY <1>1, <2>4
    <2>6. NoteCore' /\ ed' = e
      BY <1>2, <1>4, <1>5, <2>3, <2>4, <2>5, NoneGoes
    <2>7. Pursuit'
      <3>1. CASE inflight # 0 BY <1>3, <2>3, <3>1 DEF Pursuit
      <3>2. CASE inflight = 0
        <4>1. e.body = e.saved \/ e.kind = "conflict" BY <1>7, <3>2, NotSendable
        <4> QED BY <2>6, <4>1 DEF Pursuit
      <3> QED BY <3>1, <3>2
    <2> QED BY <2>6, <2>7 DEF NoteCore, NoteInv
  <1> QED BY <1>6, <1>7

(* A save is over. *)
LEMMA SettleKeeps ==
  ASSUME NoteBounds, NoteInv, NEW s \in pending, \A other \in pending : s.req <= other.req,
         NEW e, Sound(e), NEW armed \in BOOLEAN, Notes!Settle(s, e, armed),
         toTab' = toTab \/ Heard(pending \ {s}),
         UNCHANGED <<store, clock, watched, up, stray, past>>,
         typed' \in 0..MaxTyped, others' \in 0..MaxOthers, misled' \in BOOLEAN
  PROVE /\ NoteCore'
        /\ \/ inflight' # 0 /\ \E r \in pending' : r.req = inflight' /\ r.text = ed'.body
           \/ /\ ed' = e /\ pending' = pending \ {s} /\ (armed => timer')
              /\ \/ inflight' = inflight /\ waiting' = waiting /\ s.req # inflight
                 \/ /\ inflight' = 0 /\ s.req = inflight
                    /\ waiting = <<>> \/ e.body = e.saved \/ e.kind = "conflict"
  <1> DEFINE last == s.req = inflight
             ws == IF last /\ Notes!Sendable(e) THEN waiting ELSE <<>>
             running == IF last THEN 0 ELSE inflight
             open == pending \ {s}
             rest == Notes!Withdrawn(s)
  <1>1. /\ timer' = (armed \/ (e.body # s.wanted /\ e.body # e.saved))
        /\ waiting' = (IF last THEN <<>> ELSE waiting)
        /\ Notes!Send(e, ws, open, rest, running)
    BY DEF Notes!Settle
  <1>2. rest \in Seq(Notes!Saves) /\ RestKept(open, rest) BY WithdrawnKeeps
  <1>3. /\ waiting \in Seq(Notes!Texts) /\ inflight \in Nat /\ pending \subseteq Notes!Saves
        /\ \A r \in pending : r.req \in Nat
    BY NoteTypes, MessageTypes DEF NoteInv
  <1>4. timer' \in BOOLEAN BY <1>1
  <1>5. waiting' \in Seq(Notes!Texts) /\ ws \in Seq(Notes!Texts) BY <1>1, <1>3
  <1>6. Around BY <1>4, <1>5 DEF Around
  <1>7. /\ inflight # 0 /\ \E r \in pending : r.req = inflight
        /\ \A r \in pending : r.req <= inflight
        /\ \A r, q \in pending : q.text = r.text /\ (q.req = r.req => q = r)
    BY DEF NoteInv, Book
  <1>8. last => open = {}
    <2> SUFFICES ASSUME last, NEW r \in open PROVE FALSE OBVIOUS
    <2>1. r.req <= s.req /\ s.req <= r.req /\ r.req \in Nat /\ s.req \in Nat BY <1>3, <1>7
    <2>2. r.req = s.req BY <2>1
    <2> QED BY <1>7, <2>2
  <1> HIDE DEF ws, rest
  <1>9. CASE Len(ws) > 0
    <2>1. last /\ Notes!Sendable(e) /\ open = {}
      <3>1. Len(<<>>) = 0 OBVIOUS
      <3>2. last /\ Notes!Sendable(e) BY <1>9, <3>1 DEF ws
      <3> QED BY <1>8, <3>2
    <2>2. Notes!Send(e, ws, {}, rest, running) BY <1>1, <2>1
    <2>3. \A i \in 1..Len(rest) : \E k \in 1..Len(queue) : rest[i] = queue[k] BY <1>2 DEF RestKept
    <2>4. toTab' = toTab \/ Heard({}) BY <2>1
    <2>5. /\ NoteCore' /\ inflight' # 0
          /\ \E r \in pending' : r.req = inflight' /\ r.text = ed'.body
      BY <1>2, <1>5, <1>6, <1>9, <2>1, <2>2, <2>3, <2>4, SomeGo
    <2> QED BY <2>5
  <1>10. CASE ~(Len(ws) > 0)
    <2>1. Len(ws) = 0 BY <1>5, <1>10
    <2>2. /\ req' = req /\ pending' = open /\ inflight' = running /\ toServer' = toServer
          /\ queue' = rest /\ Notes!Show(e)
      BY <1>1, <1>2, <1>5, <2>1, SendsNone
    <2>3. open \in SUBSET pending /\ inflight' \in {0, inflight} BY <2>2
    <2>4. inflight' = 0 => open = {} /\ waiting' = <<>> BY <1>1, <1>7, <1>8, <2>2
    <2>5. inflight' # 0 => \E r \in open : r.req = inflight' BY <1>7, <2>2
    <2>6. NoteCore' /\ ed' = e BY <1>2, <1>6, <2>2, <2>3, <2>4, <2>5, NoneGoes
    <2>7. last => waiting = <<>> \/ e.body = e.saved \/ e.kind = "conflict"
      <3> SUFFICES ASSUME last, Notes!Sendable(e) PROVE waiting = <<>> BY NotSendable
      <3>1. ws = waiting BY DEF ws
      <3> QED BY <1>3, <2>1, <3>1
    <2>8. armed => timer' BY <1>1
    <2> QED BY <1>1, <1>7, <2>2, <2>6, <2>7, <2>8
  <1> QED BY <1>9, <1>10

(* Only what is shown changes, and perhaps one message is heard. *)
LEMMA ShownKeeps ==
  ASSUME NoteBounds, NoteInv, NEW e, Sound(e), Notes!Show(e), toTab' = toTab \/ Heard(pending),
         UNCHANGED <<store, clock, watched, up, stray, past, toServer, queue>>,
         UNCHANGED <<pending, inflight, waiting, req>>,
         typed' \in 0..MaxTyped, others' \in 0..MaxOthers, timer' \in BOOLEAN, misled' \in BOOLEAN
  PROVE NoteCore' /\ ed' = e
  <1>1. RestKept(pending, queue) BY QueueRest
  <1>2. queue \in Seq(Notes!Saves) /\ waiting \in Seq(Notes!Texts) BY NoteTypes DEF NoteInv
  <1>3. Around BY <1>2 DEF Around
  <1>4. /\ inflight' = 0 => pending = {} /\ waiting' = <<>>
        /\ inflight' # 0 => \E s \in pending : s.req = inflight'
    BY DEF NoteInv, Book
  <1>5. pending \in SUBSET pending /\ inflight' \in {0, inflight} OBVIOUS
  <1> QED BY <1>1, <1>2, <1>3, <1>4, <1>5, NoneGoes

LEMMA NoteType ==
  ASSUME NoteBounds, NoteInv, Notes!Type
  PROVE NoteInv'
  <1>1. PICK text \in {0, typed + 1} :
          \/ ed.kind = "conflict" /\ Notes!Show([ed EXCEPT !.body = text]) /\ UNCHANGED timer
          \/ /\ ed.kind # "conflict"
             /\ Notes!Show([ed EXCEPT !.body = text, !.kind = IF text = ed.saved THEN "saved" ELSE "dirty"])
             /\ timer' = TRUE
    BY DEF Notes!Type
  <1>2. /\ typed < MaxTyped /\ typed' = typed + 1 /\ ed.kind # "loading"
        /\ UNCHANGED <<store, clock, watched, up, toServer, toTab, stray, queue>>
        /\ UNCHANGED <<pending, inflight, waiting, req, others, past, misled>>
    BY DEF Notes!Type, Notes!net, Notes!book
  <1>3. /\ typed \in 0..MaxTyped /\ others \in 0..MaxOthers /\ timer \in BOOLEAN /\ misled \in BOOLEAN
        /\ ed \in Notes!Editor
    BY NoteTypes DEF NoteInv
  <1>4. typed' \in 0..MaxTyped /\ others' \in 0..MaxOthers /\ misled' \in BOOLEAN /\ text \in Notes!Texts
    BY <1>2, <1>3 DEF Notes!Texts, NoteBounds
  <1>5. CASE ed.kind = "conflict"
    <2> DEFINE e == [ed EXCEPT !.body = text]
    <2>1. Notes!Show(e) /\ UNCHANGED timer BY <1>1, <1>5
    <2>2. "saved" \in Notes!Kinds /\ "saved" # "loading" BY KindsAre
    <2>3. Sound(e) /\ e.kind = ed.kind BY <1>2, <1>4, <2>2, EdTyped
    <2> HIDE DEF e
    <2>4. NoteCore' /\ ed' = e BY <1>2, <1>3, <1>4, <2>1, <2>3, ShownKeeps
    <2> QED BY <1>5, <2>3, <2>4 DEF NoteInv, NoteCore, Pursuit
  <1>6. CASE ed.kind # "conflict"
    <2> DEFINE k == IF text = ed.saved THEN "saved" ELSE "dirty"
               e == [ed EXCEPT !.body = text, !.kind = k]
    <2>1. Notes!Show(e) /\ timer' = TRUE BY <1>1, <1>6
    <2>2. k \in Notes!Kinds /\ k # "loading" BY KindsAre
    <2> HIDE DEF k
    <2>3. Sound(e) BY <1>2, <1>4, <2>2, EdTyped
    <2> HIDE DEF e
    <2>4. NoteCore' /\ ed' = e BY <1>2, <1>3, <1>4, <2>1, <2>3, ShownKeeps
    <2> QED BY <2>1, <2>4 DEF NoteInv, NoteCore, Pursuit
  <1> QED BY <1>5, <1>6

LEMMA NoteTakeTheirs ==
  ASSUME NoteBounds, NoteInv, Notes!TakeTheirs
  PROVE NoteInv'
  <1> DEFINE e == Notes!Absorb(ed, ed.theirs)
  <1>1. /\ Notes!Show(e) /\ misled' = (misled \/ ed.theirs # store)
        /\ UNCHANGED <<store, clock, watched, up, toServer, toTab, stray, queue>>
        /\ UNCHANGED <<pending, inflight, waiting, req, timer, typed, others, past>>
    BY DEF Notes!TakeTheirs, Notes!net, Notes!book, Notes!bounds
  <1>2. /\ typed \in 0..MaxTyped /\ others \in 0..MaxOthers /\ timer \in BOOLEAN /\ misled \in BOOLEAN
        /\ ed.theirs \in past /\ ed.theirs.body \in seen /\ Sound(ed)
    BY NoteTypes, EdSound DEF NoteInv, EditorTrue
  <1>3. Sound(e) /\ e.body = e.saved BY <1>2, EdAbsorbs
  <1>4. misled' \in BOOLEAN BY <1>1, <1>2
  <1> HIDE DEF e
  <1>5. NoteCore' /\ ed' = e BY <1>1, <1>2, <1>3, <1>4, ShownKeeps
  <1> QED BY <1>3, <1>5 DEF NoteInv, NoteCore, Pursuit

LEMMA NoteOnNote ==
  ASSUME NoteBounds, NoteInv, Notes!OnNote
  PROVE NoteInv'
  <1>1. /\ toTab # <<>> /\ Head(toTab).t = "note" /\ toTab' = Tail(toTab)
        /\ Notes!Show(Notes!ApplyRemote(ed, Head(toTab).note))
        /\ UNCHANGED <<store, clock, watched, up, toServer, stray, queue>>
        /\ UNCHANGED <<pending, inflight, waiting, req, timer, typed, others, past, misled>>
    BY DEF Notes!OnNote, Notes!book, Notes!bounds
  <1>2. /\ typed \in 0..MaxTyped /\ others \in 0..MaxOthers /\ timer \in BOOLEAN /\ misled \in BOOLEAN
        /\ toTab \in Seq(Told)
    BY NoteTypes DEF NoteInv
  <1>3. Head(toTab) = toTab[1] /\ 1 \in 1..Len(toTab) BY <1>1, <1>2, TailOf
  <1>4. PICK n : n = toTab[1].note OBVIOUS
  <1>5. n \in past BY <1>3, <1>4 DEF NoteInv, ToldTrue, FairlyTold
  <1> DEFINE e == Notes!ApplyRemote(ed, n)
  <1>6. /\ Sound(e)
        /\ e = ed \/ e.body = e.saved \/ e.kind = "conflict"
        /\ n.body \in seen \/ n.body = e.body \/ (e.kind = "conflict" /\ e.theirs = n)
    BY <1>5, EdRemote
  <1>7. Notes!Show(e) BY <1>1, <1>3, <1>4
  <1> HIDE DEF e
  <1>8. n.body \in seen' BY <1>1, <1>6, <1>7, ShowTrue
  <1>9. Heard(pending) BY <1>1, <1>3, <1>4, <1>8 DEF Heard
  <1>10. NoteCore' /\ ed' = e BY <1>1, <1>2, <1>6, <1>7, <1>9, ShownKeeps
  <1>11. Pursuit' BY <1>1, <1>6, <1>10 DEF NoteInv, Pursuit
  <1> QED BY <1>10, <1>11 DEF NoteInv, NoteCore

LEMMA NoteOnAnswer ==
  ASSUME NoteBounds, NoteInv, Notes!OnAnswer
  PROVE NoteInv'
  <1>1. PICK a : a = Head(toTab) OBVIOUS
  <1>2. PICK s : s = a.save OBVIOUS
  <1>3. PICK n : n = a.note OBVIOUS
  <1> DEFINE e == IF a.ok THEN Notes!Landed(ed, s.text, n.ver) ELSE Notes!Refused(ed, s.text, n)
             told == Notes!ApplyLate(ed, n, a.ok)
  <1>4. /\ toTab # <<>> /\ a.t = "answer" /\ toTab' = Tail(toTab)
        /\ UNCHANGED <<store, clock, watched, up, stray, typed, others, past, misled>>
        /\ \/ s \in pending /\ Notes!Settle(s, e, timer \/ e.kind = "dirty")
           \/ /\ s \notin pending /\ Notes!Show(told) /\ timer' = (timer \/ told.kind = "dirty")
              /\ UNCHANGED <<toServer, queue>> /\ UNCHANGED <<pending, inflight, waiting, req>>
    BY <1>1, <1>2, <1>3 DEF Notes!OnAnswer, Notes!book, Notes!bounds
  <1>5. /\ typed \in 0..MaxTyped /\ others \in 0..MaxOthers /\ timer \in BOOLEAN /\ misled \in BOOLEAN
        /\ toTab \in Seq(Told) /\ pending \subseteq Notes!Saves
    BY NoteTypes DEF NoteInv
  <1>6. a = toTab[1] /\ 1 \in 1..Len(toTab) /\ a \in Told BY <1>1, <1>4, <1>5, TailOf
  <1>7. FairlyTold(a, 1) BY <1>6 DEF NoteInv, ToldTrue
  <1>8. /\ n \in past /\ SaveTrue(s) /\ (a.ok => n.body = s.text) /\ a.ok \in BOOLEAN
        /\ n.body \in seen /\ s \in Notes!Saves
    <2>1. n \in past /\ SaveTrue(s) /\ (a.ok => n.body = s.text)
          /\ (n.body \in seen \/ PushedBefore(n, 1))
      BY <1>2, <1>3, <1>4, <1>7 DEF FairlyTold
    <2>2. ~PushedBefore(n, 1) BY DEF PushedBefore
    <2>3. a.ok \in BOOLEAN /\ s \in Notes!Saves BY <1>2, <1>4, <1>6, MessageTypes
    <2> QED BY <2>1, <2>2, <2>3
  <1>9. CASE s \in pending /\ Notes!Settle(s, e, timer \/ e.kind = "dirty")
    <2>1. Sound(e) /\ (e.body = e.saved \/ e.kind = "conflict" \/ e.kind = "dirty")
      <3>1. CASE a.ok
        <4>1. e = Notes!Landed(ed, n.body, n.ver) BY <1>8, <3>1
        <4> QED BY <1>8, <4>1, EdLanded
      <3>2. CASE ~a.ok
        <4>1. e = Notes!Refused(ed, s.text, n) BY <3>2
        <4> QED BY <1>8, <4>1, EdRefused
      <3> QED BY <3>1, <3>2
    <2> HIDE DEF e
    <2>2. \A other \in pending : s.req <= other.req
      <3> SUFFICES ASSUME NEW r \in pending, ~(s.req <= r.req) PROVE FALSE OBVIOUS
      <3>1. r.req \in Nat /\ s.req \in Nat BY <1>5, <1>8, MessageTypes
      <3>2. InLine(r, s) BY <1>9, <3>1 DEF NoteInv, Line
      <3>3. IsAnswer(toTab[1], s) BY <1>2, <1>4, <1>6 DEF IsAnswer
      <3>4. \E j \in 1..(1 - 1) : IsAnswer(toTab[j], r) BY <1>6, <3>2, <3>3 DEF InLine
      <3> QED BY <3>4
    <2>3. Heard(pending \ {s}) BY <1>2, <1>4, <1>6 DEF Heard
    <2>4. (timer \/ (e.kind = "dirty")) \in BOOLEAN BY <1>5
    <2>5. /\ NoteCore'
          /\ \/ inflight' # 0 /\ \E r \in pending' : r.req = inflight' /\ r.text = ed'.body
             \/ ed' = e /\ ((timer \/ e.kind = "dirty") => timer')
      BY <1>4, <1>5, <1>9, <2>1, <2>2, <2>3, <2>4, SettleKeeps
    <2>6. Pursuit' BY <2>1, <2>5 DEF Pursuit
    <2> QED BY <2>5, <2>6 DEF NoteInv, NoteCore
  <1>10. CASE /\ s \notin pending /\ Notes!Show(told) /\ timer' = (timer \/ told.kind = "dirty")
              /\ UNCHANGED <<toServer, queue>> /\ UNCHANGED <<pending, inflight, waiting, req>>
    <2>1. /\ Sound(told)
          /\ \/ told.body = told.saved \/ told.kind = "conflict" \/ told.kind = "dirty"
             \/ told.body = ed.body /\ told.saved = ed.saved /\ told.kind = ed.kind
      BY <1>8, EdLate
    <2> HIDE DEF told
    <2>2. Heard(pending) BY <1>2, <1>4, <1>6, <1>10 DEF Heard
    <2>3. timer' \in BOOLEAN BY <1>10
    <2>4. NoteCore' /\ ed' = told BY <1>4, <1>5, <1>10, <2>1, <2>2, <2>3, ShownKeeps
    <2>5. Pursuit' BY <1>4, <1>10, <2>1, <2>4 DEF NoteInv, Pursuit
    <2> QED BY <2>4, <2>5 DEF NoteInv, NoteCore
  <1> QED BY <1>4, <1>9, <1>10

LEMMA NoteGivesUp ==
  ASSUME NoteBounds, NoteInv, NEW s \in Notes!Due, Notes!GiveUp(s)
  PROVE NoteInv'
  <1> DEFINE e == Notes!Failed(ed, s.text)
             armed == timer \/ e.kind = "dirty"
  <1>1. /\ Notes!Settle(s, e, armed) /\ misled' = (misled \/ ed.kind = "conflict")
        /\ UNCHANGED <<store, clock, watched, up, toTab, stray, typed, others, past>>
    BY DEF Notes!GiveUp
  <1>2. s \in pending /\ \A other \in pending : s.req <= other.req BY DEF Notes!Due
  <1>3. /\ typed \in 0..MaxTyped /\ others \in 0..MaxOthers /\ timer \in BOOLEAN /\ misled \in BOOLEAN
    BY NoteTypes DEF NoteInv
  <1>4. /\ Sound(e) /\ e.body = ed.body /\ e.saved = ed.saved
        /\ e.kind \in {"saved", "dirty", "error"}
        /\ e.kind = "saved" => s.text = ed.saved
        /\ e.kind = "error" => s.text = ed.body
    BY EdFailed
  <1>5. armed \in BOOLEAN /\ misled' \in BOOLEAN BY <1>1, <1>3
  <1> HIDE DEF e
  <1>6. /\ NoteCore'
        /\ \/ inflight' # 0 /\ \E r \in pending' : r.req = inflight' /\ r.text = ed'.body
           \/ /\ ed' = e /\ pending' = pending \ {s} /\ (armed => timer')
              /\ \/ inflight' = inflight /\ waiting' = waiting /\ s.req # inflight
                 \/ /\ inflight' = 0 /\ s.req = inflight
                    /\ waiting = <<>> \/ e.body = e.saved \/ e.kind = "conflict"
    BY <1>1, <1>2, <1>3, <1>4, <1>5, SettleKeeps
  <1>7. /\ inflight # 0 /\ \A r, q \in pending : r.req = q.req => r = q
    BY <1>2 DEF NoteInv, Book
  <1>8. \/ misled \/ ed.body = ed.saved \/ ed.kind = "conflict" \/ timer
        \/ waiting # <<>> \/ \E r \in pending : r.req = inflight /\ r.text = ed.body
    BY <1>7 DEF NoteInv, Pursuit
  <1>9. Pursuit'
    <2>1. CASE inflight' # 0 /\ \E r \in pending' : r.req = inflight' /\ r.text = ed'.body
      BY <2>1 DEF Pursuit
    <2>2. CASE misled \/ ed.kind = "conflict" BY <1>1, <2>2 DEF Pursuit
    <2>3. CASE /\ ed' = e /\ pending' = pending \ {s} /\ (armed => timer')
               /\ ~misled /\ ed.kind # "conflict"
      <3>1. CASE timer \/ ed.body = ed.saved \/ e.kind = "dirty" BY <1>4, <2>3, <3>1 DEF Pursuit
      <3>2. CASE inflight' = inflight /\ waiting' = waiting /\ s.req # inflight
        <4>1. CASE waiting # <<>> BY <1>7, <3>2, <4>1 DEF Pursuit
        <4>2. ASSUME NEW r \in pending, r.req = inflight, r.text = ed.body PROVE Pursuit'
          <5>1. r \in pending' /\ r.req = inflight' /\ r.text = ed'.body BY <1>4, <2>3, <3>2, <4>2
          <5> QED BY <1>7, <3>2, <5>1 DEF Pursuit
        <4> QED BY <1>8, <2>3, <3>1, <4>1, <4>2
      <3>3. CASE /\ inflight' = 0 /\ s.req = inflight
                 /\ waiting = <<>> \/ e.body = e.saved \/ e.kind = "conflict"
        <4>1. CASE e.body = e.saved \/ e.kind = "conflict" BY <1>4, <3>1, <4>1
        <4>2. CASE e.kind = "error" BY <2>3, <3>3, <4>2 DEF Pursuit
        <4>3. ASSUME NEW r \in pending, r.req = inflight, r.text = ed.body, e.kind = "saved" PROVE Pursuit'
          <5>1. r = s BY <1>2, <1>7, <3>3, <4>3
          <5>2. e.body = e.saved BY <1>4, <4>3, <5>1
          <5> QED BY <4>1, <5>2
        <4> QED BY <1>4, <1>8, <2>3, <3>1, <3>3, <4>1, <4>2, <4>3
      <3> QED BY <1>6, <2>1, <3>2, <3>3
    <2> QED BY <1>6, <2>1, <2>2, <2>3
  <1> QED BY <1>6, <1>9 DEF NoteInv, NoteCore

LEMMA NoteFlushes ==
  ASSUME NoteBounds, NoteInv, Notes!TimerFires \/ Notes!Nudge \/ Notes!KeepMine
  PROVE NoteInv'
  <1>1. /\ UNCHANGED <<store, clock, watched, up, toTab, stray, past, misled>>
        /\ UNCHANGED <<typed, others>>
    BY DEF Notes!TimerFires, Notes!Nudge, Notes!KeepMine, Notes!bounds
  <1>2. typed \in 0..MaxTyped /\ others \in 0..MaxOthers BY NoteTypes DEF NoteInv
  <1>3. CASE Notes!TimerFires \/ Notes!Nudge
    <2>1. Notes!Flush(ed) BY <1>3 DEF Notes!TimerFires, Notes!Nudge
    <2>2. Sound(ed) BY EdSound
    <2> QED BY <1>1, <1>2, <2>1, <2>2, FlushKeeps
  <1>4. CASE Notes!KeepMine
    <2> DEFINE e == [ed EXCEPT !.base = ed.theirs.ver, !.landed = ed.theirs.ver,
                               !.saved = ed.theirs.body, !.kind = "dirty"]
    <2>1. Notes!Flush(e) BY <1>4 DEF Notes!KeepMine
    <2>2. Sound(e) BY EdKeepsMine
    <2> HIDE DEF e
    <2> QED BY <1>1, <1>2, <2>1, <2>2, FlushKeeps
  <1> QED BY <1>3, <1>4

----------------------------------------------------------------------------
(* The server and the others *)

LEMMA WriteTrue ==
  ASSUME NoteBounds, NoteInv, NEW text \in Notes!Texts, Notes!Write(text)
  PROVE /\ PastTrue' /\ past \subseteq past' /\ past' \subseteq Notes!Notes
        /\ store' \in Notes!Notes /\ clock' \in Nat
        /\ store' = Notes!Written(text) /\ Notes!Written(text) \in past'
        /\ Notes!Written(text) \in Notes!Notes /\ Notes!Written(text).body = text
  <1> DEFINE w == Notes!Written(text)
  <1>1. store' = w /\ clock' = clock + 1 /\ past' = past \union {w} BY DEF Notes!Write
  <1>2. clock \in Nat /\ past \subseteq Notes!Notes BY NoteTypes DEF NoteInv
  <1>3. /\ Notes!Empty \in past /\ \A n \in past : n.ver <= clock /\ (n.ver = 0 => n = Notes!Empty)
        /\ \A m, n \in past : m.ver = n.ver => m = n
    BY DEF NoteInv, PastTrue
  <1>4. /\ w \in Notes!Notes /\ w.body = text
        /\ w = Notes!Empty \/ w.ver = clock + 1
        /\ Notes!Empty \in Notes!Notes /\ Notes!Empty.ver = 0
    BY <1>2 DEF Notes!Written, Notes!Empty, Notes!Note, Notes!Notes, Notes!Texts, NoteBounds
  <1> HIDE DEF w
  <1>5. \A n \in past : n.ver \in Nat BY <1>2 DEF Notes!Notes
  <1>6. \A n \in past' : n.ver <= clock' /\ (n.ver = 0 => n = Notes!Empty)
    BY <1>1, <1>2, <1>3, <1>4, <1>5
  <1>7. \A m, n \in past' : m.ver = n.ver => m = n
    BY <1>1, <1>2, <1>3, <1>4, <1>5
  <1>8. PastTrue' BY <1>1, <1>3, <1>6, <1>7 DEF PastTrue, Notes!Empty, Notes!Note
  <1> QED BY <1>1, <1>2, <1>4, <1>8 DEF w

(* One more message on the way to the tab. *)
LEMMA TabTold ==
  ASSUME NoteBounds, NoteInv, NEW m \in Told, toTab' = Append(toTab, m),
         past \subseteq past', seen' = seen, req' = req, m.note \in past',
         m.t = "answer" => /\ SaveTrue(m.save) /\ (m.ok => m.note.body = m.save.text)
                           /\ m.note.body \in seen \/ PushedBefore(m.note, Len(toTab) + 1)
  PROVE /\ ToldTrue' /\ toTab' \in Seq(Told) /\ Len(toTab') = Len(toTab) + 1
        /\ \A i \in 1..Len(toTab) : toTab'[i] = toTab[i]
        /\ toTab'[Len(toTab) + 1] = m
        /\ \A i \in 1..Len(toTab') : i \in 1..Len(toTab) \/ i = Len(toTab) + 1
        /\ \A n : PushedBefore(n, Len(toTab) + 1) => PushedBefore(n, Len(toTab) + 1)'
        /\ m.t = "note" => PushedBefore(m.note, Len(toTab) + 1)'
  <1>1. req \in Nat /\ toTab \in Seq(Told) /\ \A i \in 1..Len(toTab) : toTab[i] \in Told
    BY NoteTypes DEF NoteInv
  <1>2. /\ toTab' \in Seq(Told) /\ Len(toTab') = Len(toTab) + 1 /\ Len(toTab) \in Nat
        /\ \A i \in 1..Len(toTab) : toTab'[i] = toTab[i]
        /\ toTab'[Len(toTab) + 1] = m
    BY <1>1
  <1>3. \A i \in 1..Len(toTab') : i \in 1..Len(toTab) \/ i = Len(toTab) + 1 BY <1>2
  <1>4. ASSUME NEW n, NEW i \in 1..(Len(toTab) + 1), PushedBefore(n, i)
        PROVE \E j \in 1..(i - 1) : toTab'[j].t = "note" /\ toTab'[j].note = n
    <2>1. PICK j \in 1..(i - 1) : toTab[j].t = "note" /\ toTab[j].note = n BY <1>4 DEF PushedBefore
    <2>2. j \in 1..Len(toTab) BY <1>2, <2>1
    <2> QED BY <1>2, <2>1, <2>2
  <1>5. ASSUME NEW k \in Told, k.t = "answer", SaveTrue(k.save) PROVE SaveTrue(k.save)'
    BY <1>1, <1>5, SeenKept, MessageTypes
  <1>6. ASSUME NEW i \in 1..Len(toTab') PROVE \E k \in Told : k = toTab'[i] /\ FairlyTold(k, i)'
    <2>1. CASE i \in 1..Len(toTab)
      <3>1. PICK k \in Told : k = toTab[i] /\ k = toTab'[i] BY <1>1, <1>2, <2>1
      <3>2. FairlyTold(k, i) BY <2>1, <3>1 DEF NoteInv, ToldTrue
      <3>3. i \in 1..(Len(toTab) + 1) BY <1>2
      <3>4. PushedBefore(k.note, i) => PushedBefore(k.note, i)' BY <1>4, <3>3 DEF PushedBefore
      <3>5. k.t = "answer" => SaveTrue(k.save)' BY <1>5, <3>2 DEF FairlyTold
      <3> QED BY <3>1, <3>2, <3>4, <3>5 DEF FairlyTold
    <2>2. CASE i = Len(toTab) + 1
      <3>1. m = toTab'[i] BY <1>2, <2>2
      <3>2. PushedBefore(m.note, i) => PushedBefore(m.note, i)' BY <1>2, <1>4, <2>2 DEF PushedBefore
      <3>3. m.t = "answer" => SaveTrue(m.save)' BY <1>5
      <3> QED BY <2>2, <3>1, <3>2, <3>3 DEF FairlyTold
    <2> QED BY <1>3, <2>1, <2>2
  <1>7. ToldTrue' BY <1>6 DEF ToldTrue, FairlyTold, PushedBefore, SaveTrue, SeenAt
  <1>8. ASSUME NEW n, PushedBefore(n, Len(toTab) + 1) PROVE PushedBefore(n, Len(toTab) + 1)'
    <2>1. Len(toTab) + 1 \in 1..(Len(toTab) + 1) BY <1>2
    <2>2. PICK j \in 1..((Len(toTab) + 1) - 1) : toTab'[j].t = "note" /\ toTab'[j].note = n
      BY <1>4, <1>8, <2>1
    <2>3. j \in 1..((Len(toTab') + 1) - 1) BY <1>2
    <2> QED BY <2>2, <2>3 DEF PushedBefore
  <1>9. ASSUME m.t = "note" PROVE PushedBefore(m.note, Len(toTab) + 1)'
    <2>1. Len(toTab) + 1 \in 1..((Len(toTab') + 1) - 1) BY <1>2
    <2> QED BY <1>2, <1>9, <2>1 DEF PushedBefore
  <1> QED BY <1>2, <1>3, <1>7, <1>8, <1>9

(* The editor, its book and what was shown stay as they are. *)
LEMMA ServerKeeps ==
  ASSUME NoteBounds, NoteInv, PastTrue', past \subseteq past', past' \subseteq Notes!Notes,
         store' \in Notes!Notes, clock' \in Nat,
         UNCHANGED <<ed, timer, pending, inflight, waiting, req, seen, misled, typed>>,
         others' \in 0..MaxOthers, watched' \in BOOLEAN, up' \in BOOLEAN,
         toServer' \in Seq(Asked), stray' \in Seq(Asked), queue' \in Seq(Notes!Saves),
         toTab' \in Seq(Told), ToldTrue', WatchTrue', Line',
         \A i \in 1..Len(queue') : \E m : m = queue'[i] /\ OldSave(m),
         \A i \in 1..Len(toServer') : \E m : m = toServer'[i] /\ (OldSave(m) \/ m = Notes!Watch),
         \A i \in 1..Len(stray') : \E m : m = stray'[i] /\ OldSave(m)
  PROVE NoteInv'
  <1>1. /\ req \in Nat /\ inflight \in 0..req /\ pending \subseteq Notes!Saves
        /\ \A s \in pending : s.req \in 1..req
        /\ waiting \in Seq(Notes!Texts) /\ ed \in Notes!Editor /\ typed \in 0..MaxTyped
        /\ timer \in BOOLEAN /\ misled \in BOOLEAN /\ seen \subseteq Notes!Texts
    BY NoteTypes DEF NoteInv
  <1>2. NoteTyped' BY <1>1, NoteTypedNext
  <1>3. SavesTrue'
    <2>1. SaveTrue(Notes!Watch)'
      <3>1. PICK w : w = Notes!Watch /\ w.t = "watch" BY MessageTypes
      <3>2. SaveTrue(w)' BY <3>1 DEF SaveTrue
      <3> QED BY <3>1, <3>2 DEF SaveTrue, SeenAt, Notes!Watch
    <2>2. \A i \in 1..Len(toServer') : \E m : m = toServer'[i] /\ (OldSave(m) \/ SaveTrue(m)')
      <3> SUFFICES ASSUME NEW i \in 1..Len(toServer')
                   PROVE \E m : m = toServer'[i] /\ (OldSave(m) \/ SaveTrue(m)')
        OBVIOUS
      <3>1. PICK m : m = toServer'[i] /\ (OldSave(m) \/ m = Notes!Watch) OBVIOUS
      <3>2. m = Notes!Watch => SaveTrue(m)' BY MessageTypes DEF SaveTrue
      <3> QED BY <3>1, <3>2
    <2>3. \A s \in pending' : OldSave(s) BY DEF OldSave
    <2> QED BY <1>1, <2>2, <2>3, SavesKept
  <1>4. EditorTrue'
    <2>1. EditorTrue BY DEF NoteInv
    <2> QED BY <2>1 DEF EditorTrue, SeenAt, Notes!Note
  <1>5. Book' /\ Pursuit' BY DEF NoteInv, Book, Pursuit
  <1> QED BY <1>2, <1>3, <1>4, <1>5 DEF NoteInv

LEMMA NoteHandle ==
  ASSUME NoteBounds, NoteInv, Notes!Handle
  PROVE NoteInv'
  <1>1. PICK m : m = Head(toServer) OBVIOUS
  <1>2. /\ toServer # <<>> /\ toServer' = Tail(toServer)
        /\ UNCHANGED <<up, stray, queue, ed, timer, pending, inflight, waiting, req>>
        /\ UNCHANGED <<typed, others, seen, misled>>
        /\ \/ /\ m.t = "watch" /\ watched' = TRUE
              /\ toTab' = Append(toTab, [t |-> "note", note |-> store])
              /\ UNCHANGED <<store, clock, past>>
           \/ /\ m.t = "save" /\ Notes!Write(m.text)
              /\ toTab' = Append(toTab, Notes!Answer(m, TRUE, Notes!Written(m.text)))
              /\ UNCHANGED watched
           \/ /\ m.t = "save" /\ toTab' = Append(toTab, Notes!Answer(m, FALSE, store))
              /\ UNCHANGED <<store, clock, past, watched>>
    BY <1>1 DEF Notes!Handle, Notes!book, Notes!bounds
  <1>3. /\ toServer \in Seq(Asked) /\ stray \in Seq(Asked) /\ queue \in Seq(Notes!Saves)
        /\ others \in 0..MaxOthers /\ watched \in BOOLEAN /\ up \in BOOLEAN
        /\ store \in Notes!Notes /\ clock \in Nat /\ past \subseteq Notes!Notes
        /\ toTab \in Seq(Told) /\ Len(toTab) \in Nat /\ pending \subseteq Notes!Saves
    BY NoteTypes DEF NoteInv
  <1>4. /\ toServer' \in Seq(Asked) /\ Len(toServer') = Len(toServer) - 1 /\ Len(toServer) \in Nat
        /\ \A i \in 1..(Len(toServer) - 1) : toServer'[i] = toServer[i + 1] /\ i + 1 \in 1..Len(toServer)
        /\ m = toServer[1] /\ 1 \in 1..Len(toServer) /\ m \in Asked
    BY <1>1, <1>2, <1>3, TailOf
  <1>5. /\ up /\ PastTrue /\ store \in past /\ SaveTrue(m) /\ OldSave(m)
        /\ m.t = "save" => watched
        /\ watched => store.body \in seen \/ PushedBefore(store, Len(toTab) + 1)
    <2>1. SaveTrue(m) BY <1>4 DEF NoteInv, SavesTrue
    <2>2. OldSave(m) BY <1>4 DEF OldSave
    <2>3. ~watched => m.t = "watch" BY <1>2, <1>4 DEF NoteInv, WatchTrue
    <2> QED BY <1>2, <2>1, <2>2, <2>3 DEF NoteInv, WatchTrue, PastTrue
  <1>6. m.t = "save" => m \in Notes!Saves /\ m.text \in Notes!Texts /\ m.text \in seen
    BY <1>4, <1>5, MessageTypes DEF SaveTrue
  (* What the tab is told. *)
  <1>7. \E k \in Told :
          /\ toTab' = Append(toTab, k) /\ (m.t = "save" => IsAnswer(k, m))
          /\ \A s : IsAnswer(k, s) => s = m /\ m.t = "save"
          /\ PastTrue' /\ past \subseteq past' /\ past' \subseteq Notes!Notes
          /\ store' \in Notes!Notes /\ clock' \in Nat /\ k.note \in past' /\ watched'
          /\ k.t = "answer" => /\ SaveTrue(k.save) /\ (k.ok => k.note.body = k.save.text)
                               /\ k.note.body \in seen \/ PushedBefore(k.note, Len(toTab) + 1)
          /\ \/ store'.body \in seen
             \/ k.t = "note" /\ k.note = store'
             \/ store' = store /\ PushedBefore(store, Len(toTab) + 1)
    <2>1. CASE /\ m.t = "watch" /\ watched' = TRUE
               /\ toTab' = Append(toTab, [t |-> "note", note |-> store])
               /\ UNCHANGED <<store, clock, past>>
      <3> DEFINE k == [t |-> "note", note |-> store]
      <3>1. k.t = "note" /\ k.note = store /\ k \in Told BY <1>3 DEF Told, Pushes
      <3>2. PastTrue' BY <1>5, <2>1 DEF PastTrue, Notes!Empty, Notes!Note
      <3>3. toTab' = Append(toTab, k) BY <2>1
      <3> HIDE DEF k
      <3> QED BY <1>3, <1>5, <2>1, <3>1, <3>2, <3>3 DEF IsAnswer
    <2>2. CASE /\ m.t = "save" /\ Notes!Write(m.text)
               /\ toTab' = Append(toTab, Notes!Answer(m, TRUE, Notes!Written(m.text)))
               /\ UNCHANGED watched
      <3> DEFINE k == Notes!Answer(m, TRUE, Notes!Written(m.text))
      <3>1. /\ PastTrue' /\ past \subseteq past' /\ past' \subseteq Notes!Notes
            /\ store' \in Notes!Notes /\ clock' \in Nat
            /\ store' = Notes!Written(m.text) /\ Notes!Written(m.text) \in past'
            /\ Notes!Written(m.text) \in Notes!Notes /\ Notes!Written(m.text).body = m.text
        BY <1>6, <2>2, WriteTrue
      <3>2. /\ k.t = "answer" /\ k.save = m /\ k.ok /\ k.note = Notes!Written(m.text) /\ k \in Told
        BY <1>6, <2>2, <3>1 DEF Notes!Answer, Told, Answers
      <3>3. toTab' = Append(toTab, k) BY <2>2
      <3> HIDE DEF k
      <3> QED BY <1>5, <1>6, <2>2, <3>1, <3>2, <3>3 DEF IsAnswer
    <2>3. CASE /\ m.t = "save" /\ toTab' = Append(toTab, Notes!Answer(m, FALSE, store))
               /\ UNCHANGED <<store, clock, past, watched>>
      <3> DEFINE k == Notes!Answer(m, FALSE, store)
      <3>1. /\ k.t = "answer" /\ k.save = m /\ ~k.ok /\ k.note = store /\ k \in Told
        BY <1>3, <1>6, <2>3 DEF Notes!Answer, Told, Answers
      <3>2. PastTrue' BY <1>5, <2>3 DEF PastTrue, Notes!Empty, Notes!Note
      <3>3. toTab' = Append(toTab, k) BY <2>3
      <3> HIDE DEF k
      <3> QED BY <1>3, <1>5, <2>3, <3>1, <3>2, <3>3 DEF IsAnswer
    <2> QED BY <1>2, <2>1, <2>2, <2>3
  <1>8. PICK k \in Told :
          /\ toTab' = Append(toTab, k) /\ (m.t = "save" => IsAnswer(k, m))
          /\ \A s : IsAnswer(k, s) => s = m /\ m.t = "save"
          /\ PastTrue' /\ past \subseteq past' /\ past' \subseteq Notes!Notes
          /\ store' \in Notes!Notes /\ clock' \in Nat /\ k.note \in past' /\ watched'
          /\ k.t = "answer" => /\ SaveTrue(k.save) /\ (k.ok => k.note.body = k.save.text)
                               /\ k.note.body \in seen \/ PushedBefore(k.note, Len(toTab) + 1)
          /\ \/ store'.body \in seen
             \/ k.t = "note" /\ k.note = store'
             \/ store' = store /\ PushedBefore(store, Len(toTab) + 1)
    BY <1>7
  <1>9. /\ ToldTrue' /\ toTab' \in Seq(Told) /\ Len(toTab') = Len(toTab) + 1
        /\ \A i \in 1..Len(toTab) : toTab'[i] = toTab[i]
        /\ toTab'[Len(toTab) + 1] = k
        /\ \A i \in 1..Len(toTab') : i \in 1..Len(toTab) \/ i = Len(toTab) + 1
        /\ \A n : PushedBefore(n, Len(toTab) + 1) => PushedBefore(n, Len(toTab) + 1)'
        /\ k.t = "note" => PushedBefore(k.note, Len(toTab) + 1)'
    BY <1>2, <1>8, TabTold
  <1>10. WatchTrue'
    <2>1. PICK n : n = store' OBVIOUS
    <2>2. n.body \in seen \/ PushedBefore(n, Len(toTab) + 1)' BY <1>8, <1>9, <2>1
    <2>3. (watched /\ up)' BY <1>2, <1>5, <1>8
    <2> QED BY <1>2, <2>1, <2>2, <2>3 DEF WatchTrue, PushedBefore
  <1>11. Line'
    <2>1. ASSUME NEW s \in pending, NEW r \in pending, s.req < r.req PROVE InLine(s, r)'
      <3>1. InLine(s, r) BY <2>1 DEF NoteInv, Line
      <3>2. s.t = "save" BY <1>3, MessageTypes
      <3>3. ASSUME NEW i \in 1..Len(toTab'), IsAnswer(toTab'[i], r)
            PROVE \E j \in 1..(i - 1) : IsAnswer(toTab'[j], s)
        <4>1. CASE i \in 1..Len(toTab)
          <5>1. IsAnswer(toTab[i], r) BY <1>9, <3>3, <4>1
          <5>2. PICK j \in 1..(i - 1) : IsAnswer(toTab[j], s) BY <3>1, <4>1, <5>1 DEF InLine
          <5>3. j \in 1..Len(toTab) BY <1>3, <4>1
          <5> QED BY <1>9, <5>2, <5>3
        <4>2. CASE i = Len(toTab) + 1
          <5>1. r = toServer[1] BY <1>4, <1>8, <1>9, <3>3, <4>2
          <5>2. \E j \in 1..Len(toTab) : IsAnswer(toTab[j], s) BY <1>4, <3>1, <5>1 DEF InLine
          <5>3. \A j \in 1..Len(toTab) : j \in 1..(i - 1) BY <1>3, <4>2
          <5> QED BY <1>9, <5>2, <5>3
        <4> QED BY <1>9, <4>1, <4>2
      <3>4. ASSUME NEW i \in 1..Len(toServer'), toServer'[i] = r
            PROVE \/ \E j \in 1..(i - 1) : toServer'[j] = s
                  \/ \E j \in 1..Len(toTab') : IsAnswer(toTab'[j], s)
        <4>1. toServer[i + 1] = r /\ i + 1 \in 1..Len(toServer) BY <1>4, <3>4
        <4>2. CASE \E j \in 1..Len(toTab) : IsAnswer(toTab[j], s)
          <5>1. \A j \in 1..Len(toTab) : j \in 1..Len(toTab') BY <1>3, <1>9
          <5> QED BY <1>9, <4>2, <5>1
        <4>3. ASSUME NEW j \in 1..((i + 1) - 1), toServer[j] = s
              PROVE \/ \E l \in 1..(i - 1) : toServer'[l] = s
                    \/ \E l \in 1..Len(toTab') : IsAnswer(toTab'[l], s)
          <5>1. CASE j = 1
            <6>1. IsAnswer(k, s) BY <1>4, <1>8, <3>2, <4>3, <5>1
            <6>2. Len(toTab) + 1 \in 1..Len(toTab') BY <1>3, <1>9
            <6> QED BY <1>9, <6>1, <6>2
          <5>2. CASE j # 1
            <6>1. j - 1 \in 1..(i - 1) /\ j - 1 \in 1..(Len(toServer) - 1) /\ (j - 1) + 1 = j
              BY <1>4, <4>3, <5>2
            <6> QED BY <1>4, <4>3, <6>1
          <5> QED BY <5>1, <5>2
        <4> QED BY <3>1, <4>1, <4>2, <4>3 DEF InLine
      <3>5. \A i \in 1..Len(queue') : queue'[i] = r => \E j \in 1..(i - 1) : queue'[j] = s
        BY <1>2, <3>1 DEF InLine
      <3> QED BY <3>3, <3>4, <3>5 DEF InLine, IsAnswer
    <2> QED BY <1>2, <2>1 DEF Line
  <1>12. \A i \in 1..Len(queue') : \E x : x = queue'[i] /\ OldSave(x) BY <1>2 DEF OldSave
  <1>13. \A i \in 1..Len(toServer') : \E x : x = toServer'[i] /\ OldSave(x) BY <1>4 DEF OldSave
  <1>14. \A i \in 1..Len(stray') : \E x : x = stray'[i] /\ OldSave(x) BY <1>2 DEF OldSave
  <1>15. watched' \in BOOLEAN BY <1>2, <1>3
  <1>16. /\ others' \in 0..MaxOthers /\ up' \in BOOLEAN /\ stray' \in Seq(Asked)
         /\ queue' \in Seq(Notes!Saves)
    BY <1>2, <1>3
  <1> QED BY <1>2, <1>4, <1>8, <1>9, <1>10, <1>11, <1>12, <1>13, <1>14, <1>15, <1>16, ServerKeeps

(* Somebody else wrote, or a save of a connection that is gone did. *)
LEMMA PushKeeps ==
  ASSUME NoteBounds, NoteInv, NEW text \in Notes!Texts, Notes!Write(text),
         toTab' = toTab \o Notes!Push(Notes!Written(text)),
         UNCHANGED <<ed, timer, pending, inflight, waiting, req, seen, misled, typed>>,
         UNCHANGED <<watched, up, toServer, queue>>,
         others' \in 0..MaxOthers, stray' \in Seq(Asked),
         \A i \in 1..Len(stray') : \E m : m = stray'[i] /\ OldSave(m)
  PROVE NoteInv'
  <1>1. /\ PastTrue' /\ past \subseteq past' /\ past' \subseteq Notes!Notes
        /\ store' \in Notes!Notes /\ clock' \in Nat
        /\ store' = Notes!Written(text) /\ Notes!Written(text) \in past'
        /\ Notes!Written(text) \in Notes!Notes
    BY WriteTrue
  <1>2. /\ toServer \in Seq(Asked) /\ queue \in Seq(Notes!Saves)
        /\ watched \in BOOLEAN /\ up \in BOOLEAN /\ req \in Nat
        /\ toTab \in Seq(Told) /\ Len(toTab) \in Nat /\ pending \subseteq Notes!Saves
    BY NoteTypes DEF NoteInv
  <1>3. \A i \in 1..Len(queue') : \E m : m = queue'[i] /\ OldSave(m) BY DEF OldSave
  <1>4. \A i \in 1..Len(toServer') : \E m : m = toServer'[i] /\ OldSave(m) BY DEF OldSave
  <1>5. toServer' \in Seq(Asked) /\ queue' \in Seq(Notes!Saves) /\ watched' \in BOOLEAN /\ up' \in BOOLEAN
    BY <1>2
  <1>6. CASE ~watched
    <2>1. toTab' = toTab
      <3>1. Notes!Push(Notes!Written(text)) = <<>> BY <1>6 DEF Notes!Push
      <3> QED BY <1>2, <3>1
    <2>2. /\ ToldTrue' /\ toTab' \in Seq(Told)
      BY <1>1, <1>2, <2>1, TabSame
    <2>3. WatchTrue' BY <1>6, <2>1 DEF NoteInv, WatchTrue
    <2>4. Line'
      <3>1. \A s, r \in pending : s.req < r.req => InLine(s, r) BY DEF NoteInv, Line
      <3> QED BY <2>1, <3>1 DEF Line, InLine, IsAnswer
    <2> QED BY <1>1, <1>3, <1>4, <1>5, <2>2, <2>3, <2>4, ServerKeeps
  <1>7. CASE watched
    <2>1. PICK k \in Told : /\ k = [t |-> "note", note |-> Notes!Written(text)]
                            /\ k.t = "note" /\ k.note = Notes!Written(text)
      <3> DEFINE w == [t |-> "note", note |-> Notes!Written(text)]
      <3>1. w \in Told /\ w.t = "note" /\ w.note = Notes!Written(text) BY <1>1 DEF Told, Pushes
      <3> QED BY <3>1
    <2>2. toTab' = toTab \o <<k>> BY <1>7, <2>1 DEF Notes!Push
    <2>3. toTab' = Append(toTab, k) BY <1>2, <2>1, <2>2
    <2>4. /\ ToldTrue' /\ toTab' \in Seq(Told) /\ Len(toTab') = Len(toTab) + 1
          /\ \A i \in 1..Len(toTab) : toTab'[i] = toTab[i]
          /\ toTab'[Len(toTab) + 1] = k
          /\ \A i \in 1..Len(toTab') : i \in 1..Len(toTab) \/ i = Len(toTab) + 1
          /\ PushedBefore(k.note, Len(toTab) + 1)'
      BY <1>1, <2>1, <2>3, TabTold
    <2>5. WatchTrue'
      <3>1. PICK n : n = store' OBVIOUS
      <3>2. n = k.note BY <1>1, <2>1, <3>1
      <3>3. PushedBefore(n, Len(toTab) + 1)' BY <2>4, <3>2 DEF PushedBefore
      <3>4. up BY <1>7 DEF NoteInv, WatchTrue
      <3> QED BY <1>7, <3>1, <3>3, <3>4 DEF WatchTrue, PushedBefore
    <2>6. Line'
      <3>1. ASSUME NEW s \in pending, NEW r \in pending, s.req < r.req PROVE InLine(s, r)'
        <4>1. InLine(s, r) BY <3>1 DEF NoteInv, Line
        <4>2. ~IsAnswer(k, r) BY <2>1 DEF IsAnswer
        <4>3. ASSUME NEW i \in 1..Len(toTab'), IsAnswer(toTab'[i], r)
              PROVE \E j \in 1..(i - 1) : IsAnswer(toTab'[j], s)
          <5>1. i \in 1..Len(toTab) /\ IsAnswer(toTab[i], r) BY <2>4, <4>2, <4>3
          <5>2. PICK j \in 1..(i - 1) : IsAnswer(toTab[j], s) BY <4>1, <5>1 DEF InLine
          <5>3. j \in 1..Len(toTab) BY <1>2, <5>1
          <5> QED BY <2>4, <5>2, <5>3
        <4>4. ASSUME NEW i \in 1..Len(toServer'), toServer'[i] = r
              PROVE \/ \E j \in 1..(i - 1) : toServer'[j] = s
                    \/ \E j \in 1..Len(toTab') : IsAnswer(toTab'[j], s)
          <5>1. \A j \in 1..Len(toTab) : j \in 1..Len(toTab') BY <1>2, <2>4
          <5> QED BY <2>4, <4>1, <4>4, <5>1 DEF InLine
        <4>5. \A i \in 1..Len(queue') : queue'[i] = r => \E j \in 1..(i - 1) : queue'[j] = s
          BY <4>1 DEF InLine
        <4> QED BY <4>3, <4>4, <4>5 DEF InLine, IsAnswer
      <3> QED BY <3>1 DEF Line
    <2> QED BY <1>1, <1>3, <1>4, <1>5, <2>4, <2>5, <2>6, ServerKeeps
  <1> QED BY <1>2, <1>6, <1>7

LEMMA NoteOthers ==
  ASSUME NoteBounds, NoteInv, Notes!OtherWrites
  PROVE NoteInv'
  <1>1. /\ others < MaxOthers /\ others' = others + 1
        /\ UNCHANGED <<ed, timer, pending, inflight, waiting, req, seen, misled, typed>>
        /\ UNCHANGED <<watched, up, toServer, queue, stray>>
    BY DEF Notes!OtherWrites, Notes!book
  <1>2. PICK text \in {0, MaxTyped + others + 1} :
          Notes!Write(text) /\ toTab' = toTab \o Notes!Push(Notes!Written(text))
    BY DEF Notes!OtherWrites
  <1>3. others \in 0..MaxOthers /\ stray \in Seq(Asked) BY NoteTypes DEF NoteInv
  <1>4. text \in Notes!Texts /\ others' \in 0..MaxOthers BY <1>1, <1>3 DEF Notes!Texts, NoteBounds
  <1>5. \A i \in 1..Len(stray') : \E m : m = stray'[i] /\ OldSave(m) BY <1>1 DEF OldSave
  <1>6. stray' \in Seq(Asked) BY <1>1, <1>3
  <1> QED BY <1>1, <1>2, <1>4, <1>5, <1>6, PushKeeps

LEMMA NoteHandleStray ==
  ASSUME NoteBounds, NoteInv, Notes!HandleStray
  PROVE NoteInv'
  <1>1. PICK m : m = Head(stray) OBVIOUS
  <1>2. /\ stray # <<>> /\ stray' = Tail(stray)
        /\ UNCHANGED <<ed, timer, pending, inflight, waiting, req, seen, misled, typed>>
        /\ UNCHANGED <<watched, up, toServer, queue, others>>
        /\ \/ /\ m.t = "save" /\ Notes!Write(m.text)
              /\ toTab' = toTab \o Notes!Push(Notes!Written(m.text))
           \/ UNCHANGED <<store, clock, past, toTab>>
    BY <1>1 DEF Notes!HandleStray, Notes!book, Notes!bounds
  <1>3. /\ toServer \in Seq(Asked) /\ stray \in Seq(Asked) /\ queue \in Seq(Notes!Saves)
        /\ others \in 0..MaxOthers /\ watched \in BOOLEAN /\ up \in BOOLEAN
        /\ store \in Notes!Notes /\ clock \in Nat /\ past \subseteq Notes!Notes /\ req \in Nat
    BY NoteTypes DEF NoteInv
  <1>4. /\ stray' \in Seq(Asked) /\ Len(stray') = Len(stray) - 1
        /\ \A i \in 1..(Len(stray) - 1) : stray'[i] = stray[i + 1] /\ i + 1 \in 1..Len(stray)
        /\ m = stray[1] /\ 1 \in 1..Len(stray) /\ m \in Asked
    BY <1>1, <1>2, <1>3, TailOf
  <1>5. \A i \in 1..Len(stray') : \E x : x = stray'[i] /\ OldSave(x) BY <1>4 DEF OldSave
  <1>6. others' \in 0..MaxOthers BY <1>2, <1>3
  <1>7. CASE /\ m.t = "save" /\ Notes!Write(m.text)
             /\ toTab' = toTab \o Notes!Push(Notes!Written(m.text))
    <2>1. PICK text : text = m.text OBVIOUS
    <2>2. text \in Notes!Texts BY <1>4, <1>7, <2>1, MessageTypes
    <2>3. Notes!Write(text) /\ toTab' = toTab \o Notes!Push(Notes!Written(text)) BY <1>7, <2>1
    <2> QED BY <1>2, <1>4, <1>5, <1>6, <2>2, <2>3, PushKeeps
  <1>8. CASE UNCHANGED <<store, clock, past, toTab>>
    <2>1. PastTrue'
      <3>1. PastTrue BY DEF NoteInv
      <3> QED BY <1>8, <3>1 DEF PastTrue, Notes!Empty, Notes!Note
    <2>2. /\ past \subseteq past' /\ past' \subseteq Notes!Notes /\ store' \in Notes!Notes /\ clock' \in Nat
      BY <1>3, <1>8
    <2>3. ToldTrue' /\ toTab' \in Seq(Told) BY <1>2, <1>3, <1>8, TabSame
    <2>4. WatchTrue'
      <3>1. WatchTrue BY DEF NoteInv
      <3> QED BY <1>2, <1>8, <3>1 DEF WatchTrue, PushedBefore
    <2>5. Line'
      <3>1. Line BY DEF NoteInv
      <3> QED BY <1>2, <1>8, <3>1 DEF Line, InLine, IsAnswer
    <2>6. /\ toServer' \in Seq(Asked) /\ queue' \in Seq(Notes!Saves) /\ watched' \in BOOLEAN
          /\ up' \in BOOLEAN
      BY <1>2, <1>3
    <2>7. \A i \in 1..Len(queue') : \E x : x = queue'[i] /\ OldSave(x) BY <1>2 DEF OldSave
    <2>8. \A i \in 1..Len(toServer') : \E x : x = toServer'[i] /\ OldSave(x) BY <1>2 DEF OldSave
    <2> QED BY <1>2, <1>4, <1>5, <1>6, <2>1, <2>2, <2>3, <2>4, <2>5, <2>6, <2>7, <2>8, ServerKeeps
  <1> QED BY <1>2, <1>7, <1>8

----------------------------------------------------------------------------
(* The connection *)

LEMMA Ended ==
  ASSUME NEW S, NEW s \in Seq(S), NEW k \in 0..Len(s)
  PROVE /\ SubSeq(s, 1, k) \in Seq(S) /\ Len(SubSeq(s, 1, k)) = k
        /\ \A i \in 1..k : SubSeq(s, 1, k)[i] = s[i] /\ i \in 1..Len(s)
  <1>1. SubSeq(s, 1, k) \in Seq(S) OBVIOUS
  <1>2. Len(SubSeq(s, 1, k)) = k OBVIOUS
  <1>3. \A i \in 1..k : SubSeq(s, 1, k)[i] = s[i] /\ i \in 1..Len(s) OBVIOUS
  <1> QED BY <1>1, <1>2, <1>3

LEMMA NoteBreaks ==
  ASSUME NoteBounds, NoteInv, Notes!Breaks
  PROVE NoteInv'
  <1>1. /\ up' = FALSE /\ watched' = FALSE /\ toTab' = <<>> /\ toServer' = <<>>
        /\ UNCHANGED <<ed, timer, pending, inflight, waiting, req, seen, misled, typed>>
        /\ UNCHANGED <<store, clock, past, queue, others>>
    BY DEF Notes!Breaks, Notes!book
  <1>2. PICK k \in 0..Len(toServer) : stray' = stray \o SubSeq(toServer, 1, k)
    BY DEF Notes!Breaks
  <1>3. /\ toServer \in Seq(Asked) /\ stray \in Seq(Asked) /\ queue \in Seq(Notes!Saves)
        /\ others \in 0..MaxOthers /\ store \in Notes!Notes /\ clock \in Nat /\ past \subseteq Notes!Notes
    BY NoteTypes DEF NoteInv
  <1>4. PICK gone : gone = SubSeq(toServer, 1, k) OBVIOUS
  <1>5. /\ gone \in Seq(Asked) /\ Len(gone) = k
        /\ \A i \in 1..k : gone[i] = toServer[i] /\ i \in 1..Len(toServer)
    BY <1>3, <1>4, Ended
  <1>6. stray' = stray \o gone BY <1>2, <1>4
  <1>7. stray' \in Seq(Asked) BY <1>3, <1>5, <1>6, Joined
  <1>8. ASSUME NEW i \in 1..Len(stray') PROVE \E m : m = stray'[i] /\ OldSave(m)
    <2>5. stray \in Seq(Asked) /\ gone \in Seq(Asked) BY <1>3, <1>5
    <2>4. /\ \A a \in 1..Len(stray) : (stray \o gone)[a] = stray[a]
          /\ \A j \in 1..Len(gone) : (stray \o gone)[Len(stray) + j] = gone[j]
          /\ \A a \in 1..Len(stray \o gone) : a \in 1..Len(stray) \/ \E j \in 1..Len(gone) : a = Len(stray) + j
      BY <2>5, Joined
    <2>1. CASE i \in 1..Len(stray)
      <3>1. stray'[i] = stray[i] BY <1>6, <2>1, <2>4
      <3> QED BY <2>1, <3>1 DEF OldSave
    <2>2. ASSUME NEW j \in 1..Len(gone), i = Len(stray) + j PROVE \E m : m = stray'[i] /\ OldSave(m)
      <3>1. stray'[i] = gone[j] BY <1>6, <2>2, <2>4
      <3>2. j \in 1..Len(toServer) /\ gone[j] = toServer[j] BY <1>5, <2>2
      <3> QED BY <3>1, <3>2 DEF OldSave
    <2>3. i \in 1..Len(stray) \/ \E j \in 1..Len(gone) : i = Len(stray) + j
      BY <1>6, <1>8, <2>4
    <2> QED BY <2>1, <2>2, <2>3
  <1>9. PastTrue'
    <2>1. PastTrue BY DEF NoteInv
    <2> QED BY <1>1, <2>1 DEF PastTrue, Notes!Empty, Notes!Note
  <1>10. toTab' \in Seq(Told) /\ toServer' \in Seq(Asked) /\ Len(toTab') = 0 /\ Len(toServer') = 0
    BY <1>1
  <1>11. 1..0 = {} OBVIOUS
  <1>12. ToldTrue' BY <1>10, <1>11 DEF ToldTrue
  <1>13. WatchTrue' BY <1>1 DEF WatchTrue
  <1>14. Line'
    <2>1. Line BY DEF NoteInv
    <2> QED BY <1>1, <1>10, <1>11, <2>1 DEF Line, InLine, IsAnswer
  <1>15. \A i \in 1..Len(queue') : \E m : m = queue'[i] /\ OldSave(m) BY <1>1 DEF OldSave
  <1>16. \A i \in 1..Len(toServer') : \E m : m = toServer'[i] /\ (OldSave(m) \/ m = Notes!Watch)
    BY <1>10, <1>11
  <1>17. /\ past \subseteq past' /\ past' \subseteq Notes!Notes /\ store' \in Notes!Notes /\ clock' \in Nat
         /\ others' \in 0..MaxOthers /\ queue' \in Seq(Notes!Saves)
         /\ watched' \in BOOLEAN /\ up' \in BOOLEAN
    BY <1>1, <1>3
  <1> QED BY <1>1, <1>7, <1>8, <1>9, <1>10, <1>12, <1>13, <1>14, <1>15, <1>16, <1>17, ServerKeeps

LEMMA NoteConnects ==
  ASSUME NoteBounds, NoteInv, Notes!Connect
  PROVE NoteInv'
  <1>1. /\ ~up /\ up' = TRUE /\ toServer' = <<Notes!Watch>> \o queue /\ queue' = <<>>
        /\ UNCHANGED <<ed, timer, pending, inflight, waiting, req, seen, misled, typed>>
        /\ UNCHANGED <<store, clock, past, watched, toTab, stray, others>>
    BY DEF Notes!Connect, Notes!book, Notes!bounds
  <1>2. /\ toServer \in Seq(Asked) /\ stray \in Seq(Asked) /\ queue \in Seq(Notes!Saves)
        /\ others \in 0..MaxOthers /\ store \in Notes!Notes /\ clock \in Nat /\ past \subseteq Notes!Notes
        /\ toTab \in Seq(Told) /\ watched \in BOOLEAN /\ pending \subseteq Notes!Saves
        /\ req \in Nat /\ Len(queue) \in Nat
    BY NoteTypes DEF NoteInv
  <1>3. toTab = <<>> /\ ~watched BY <1>1 DEF NoteInv, WatchTrue
  <1>4. PICK first \in Seq(Asked) : first = <<Notes!Watch>> /\ Len(first) = 1 /\ first[1] = Notes!Watch
    <2>1. Notes!Watch \in Asked BY MessageTypes
    <2> DEFINE f == <<Notes!Watch>>
    <2>2. f \in Seq(Asked) /\ Len(f) = 1 /\ f[1] = Notes!Watch BY <2>1
    <2> QED BY <2>2
  <1>5. queue \in Seq(Asked) BY <1>2, MessageTypes
  <1>6. toServer' = first \o queue BY <1>1, <1>4
  <1>7. /\ toServer' \in Seq(Asked) /\ Len(toServer') = 1 + Len(queue)
        /\ toServer'[1] = Notes!Watch
        /\ \A i \in 1..Len(queue) : toServer'[1 + i] = queue[i]
        /\ \A i \in 1..Len(toServer') : i = 1 \/ \E k \in 1..Len(queue) : i = 1 + k
    <2>1. /\ first \o queue \in Seq(Asked) /\ Len(first \o queue) = Len(first) + Len(queue)
          /\ \A i \in 1..Len(first) : (first \o queue)[i] = first[i]
          /\ \A i \in 1..Len(queue) : (first \o queue)[Len(first) + i] = queue[i]
          /\ \A i \in 1..Len(first \o queue) : i \in 1..Len(first) \/ \E k \in 1..Len(queue) : i = Len(first) + k
      BY <1>4, <1>5, Joined
    <2>2. \A i \in 1..1 : i = 1 OBVIOUS
    <2>3. 1 \in 1..Len(first) BY <1>4
    <2> QED BY <1>4, <1>6, <2>1, <2>2, <2>3
  <1>8. PastTrue'
    <2>1. PastTrue BY DEF NoteInv
    <2> QED BY <1>1, <2>1 DEF PastTrue, Notes!Empty, Notes!Note
  <1>9. ToldTrue' /\ toTab' \in Seq(Told) BY <1>1, <1>2, TabSame
  <1>10. WatchTrue'
    <2>1. toServer' # <<>>
      <3>1. Len(toServer') # 0 BY <1>2, <1>7
      <3> QED BY <3>1
    <2>2. toServer'[1].t = "watch" BY <1>7, MessageTypes
    <2> QED BY <1>1, <1>3, <2>1, <2>2 DEF WatchTrue
  <1>11. Line'
    <2>1. ASSUME NEW s \in pending, NEW r \in pending, s.req < r.req PROVE InLine(s, r)'
      <3>1. InLine(s, r) BY <2>1 DEF NoteInv, Line
      <3>2. r # Notes!Watch BY <1>2, MessageTypes
      <3>3. ASSUME NEW i \in 1..Len(toServer'), toServer'[i] = r
            PROVE \E j \in 1..(i - 1) : toServer'[j] = s
        <4>1. PICK k \in 1..Len(queue) : i = 1 + k BY <1>7, <3>2, <3>3
        <4>2. queue[k] = r BY <1>7, <3>3, <4>1
        <4>3. PICK j \in 1..(k - 1) : queue[j] = s BY <3>1, <4>2 DEF InLine
        <4>4. 1 + j \in 1..(i - 1) /\ j \in 1..Len(queue) BY <1>2, <4>1, <4>3
        <4> QED BY <1>7, <4>3, <4>4
      <3>4. \A i \in 1..Len(toTab') : ~IsAnswer(toTab'[i], r)
        <4>1. Len(toTab') = 0 /\ 1..0 = {} BY <1>1, <1>3
        <4> QED BY <4>1
      <3>5. \A i \in 1..Len(queue') : FALSE
        <4>1. Len(queue') = 0 /\ 1..0 = {} BY <1>1
        <4> QED BY <4>1
      <3> QED BY <3>3, <3>4, <3>5 DEF InLine, IsAnswer
    <2> QED BY <1>1, <2>1 DEF Line
  <1>12. \A i \in 1..Len(queue') : \E m : m = queue'[i] /\ OldSave(m)
    <2>1. Len(queue') = 0 /\ 1..0 = {} BY <1>1
    <2> QED BY <2>1
  <1>13. \A i \in 1..Len(toServer') : \E m : m = toServer'[i] /\ (OldSave(m) \/ m = Notes!Watch)
    <2>1. \A k \in 1..Len(queue) : OldSave(queue[k]) BY DEF OldSave
    <2>2. ASSUME NEW i \in 1..Len(toServer'), NEW k \in 1..Len(queue), i = 1 + k
          PROVE toServer'[i] = queue[k]
      BY <1>7, <2>2
    <2> QED BY <1>7, <2>1, <2>2
  <1>14. \A i \in 1..Len(stray') : \E m : m = stray'[i] /\ OldSave(m) BY <1>1 DEF OldSave
  <1>15. /\ past \subseteq past' /\ past' \subseteq Notes!Notes /\ store' \in Notes!Notes /\ clock' \in Nat
         /\ others' \in 0..MaxOthers /\ queue' \in Seq(Notes!Saves) /\ stray' \in Seq(Asked)
         /\ watched' \in BOOLEAN /\ up' \in BOOLEAN
    BY <1>1, <1>2
  <1> QED BY <1>1, <1>7, <1>8, <1>9, <1>10, <1>11, <1>12, <1>13, <1>14, <1>15, ServerKeeps

----------------------------------------------------------------------------
LEMMA NoteInitial ==
  ASSUME NoteBounds, Notes!Init
  PROVE NoteInv
  <1>1. /\ store = Notes!Empty /\ clock = 0 /\ watched = FALSE /\ up = FALSE /\ toServer = <<>>
        /\ toTab = <<>> /\ stray = <<>> /\ queue = <<>>
        /\ ed = [body |-> 0, saved |-> 0, base |-> 0, landed |-> 0, kind |-> "loading",
                 theirs |-> Notes!Empty]
        /\ timer = FALSE /\ pending = {} /\ inflight = 0 /\ waiting = <<>> /\ req = 0
        /\ typed = 0 /\ others = 0 /\ past = {Notes!Empty} /\ seen = {0} /\ misled = FALSE
    BY DEF Notes!Init
  <1>2. 0 \in Notes!Texts BY DEF Notes!Texts, NoteBounds
  <1>3. /\ Notes!Empty \in Notes!Notes /\ Notes!Empty.body = 0 /\ Notes!Empty.ver = 0
        /\ Notes!Empty = Notes!Note(0, 0)
    BY <1>2 DEF Notes!Empty, Notes!Note, Notes!Notes
  <1>4. ed \in Notes!Editor /\ ed.body = 0 /\ ed.saved = 0 /\ ed.base = 0 /\ ed.landed = 0
        /\ ed.theirs = Notes!Empty
    <2>1. "loading" \in Notes!Kinds BY KindsAre
    <2> QED BY <1>1, <1>2, <1>3, <2>1 DEF Notes!Editor
  <1>5. /\ <<>> \in Seq(Asked) /\ <<>> \in Seq(Told) /\ <<>> \in Seq(Notes!Saves)
        /\ <<>> \in Seq(Notes!Texts) /\ Len(<<>>) = 0 /\ 1..0 = {}
    OBVIOUS
  <1>6. NoteTyped
    <2>1. {watched, up, timer} \subseteq BOOLEAN BY <1>1
    <2>2. Notes!TypeOK BY <1>1, <1>3, <1>4, <2>1 DEF Notes!TypeOK
    <2>3. 0 \in 0..MaxTyped /\ 0 \in 0..MaxOthers BY DEF NoteBounds
    <2> QED BY <1>1, <1>2, <1>3, <1>5, <2>2, <2>3 DEF NoteTyped
  <1>7. PastTrue BY <1>1, <1>3 DEF PastTrue
  <1>8. EditorTrue BY <1>1, <1>3, <1>4 DEF EditorTrue, SeenAt
  <1>9. SavesTrue BY <1>1, <1>5 DEF SavesTrue
  <1>10. ToldTrue BY <1>1, <1>5 DEF ToldTrue
  <1>11. WatchTrue BY <1>1 DEF WatchTrue
  <1>12. Book BY <1>1 DEF Book
  <1>13. Line BY <1>1 DEF Line
  <1>14. Pursuit BY <1>4 DEF Pursuit
  <1> QED BY <1>6, <1>7, <1>8, <1>9, <1>10, <1>11, <1>12, <1>13, <1>14 DEF NoteInv

LEMMA NoteNext ==
  ASSUME NoteBounds, NoteInv, Notes!Next
  PROVE NoteInv'
  <1>1. CASE Notes!Deadline \/ Notes!Expire
    <2>1. PICK s \in Notes!Due : Notes!GiveUp(s) BY <1>1 DEF Notes!Deadline, Notes!Expire
    <2> QED BY <2>1, NoteGivesUp
  <1>2. \/ Notes!Type \/ Notes!TimerFires \/ Notes!Nudge \/ Notes!KeepMine \/ Notes!TakeTheirs
        \/ Notes!Handle \/ Notes!HandleStray \/ Notes!OtherWrites \/ Notes!Breaks \/ Notes!Connect
        \/ Notes!OnNote \/ Notes!OnAnswer \/ Notes!Deadline \/ Notes!Expire
    BY DEF Notes!Next
  <1> QED BY <1>1, <1>2, NoteType, NoteFlushes, NoteTakeTheirs, NoteHandle, NoteHandleStray,
             NoteOthers, NoteBreaks, NoteConnects, NoteOnNote, NoteOnAnswer

LEMMA NoteStutter ==
  ASSUME NoteBounds, NoteInv, UNCHANGED notesVars
  PROVE NoteInv'
  <1>1. /\ UNCHANGED <<store, clock, watched, up, toServer, toTab, stray, queue, ed, timer, pending>>
        /\ UNCHANGED <<inflight, waiting, req, typed, others, past, seen, misled>>
    BY DEF notesVars
  <1>2. /\ store \in Notes!Notes /\ clock \in Nat /\ past \subseteq Notes!Notes /\ req \in Nat
        /\ others \in 0..MaxOthers /\ watched \in BOOLEAN /\ up \in BOOLEAN
        /\ toServer \in Seq(Asked) /\ stray \in Seq(Asked) /\ queue \in Seq(Notes!Saves)
        /\ toTab \in Seq(Told)
    BY NoteTypes DEF NoteInv
  <1>3. PastTrue'
    <2>1. PastTrue BY DEF NoteInv
    <2> QED BY <1>1, <2>1 DEF PastTrue, Notes!Empty, Notes!Note
  <1>4. ToldTrue' /\ toTab' \in Seq(Told) BY <1>1, <1>2, TabSame
  <1>5. WatchTrue'
    <2>1. WatchTrue BY DEF NoteInv
    <2> QED BY <1>1, <2>1 DEF WatchTrue, PushedBefore
  <1>6. Line'
    <2>1. Line BY DEF NoteInv
    <2> QED BY <1>1, <2>1 DEF Line, InLine, IsAnswer
  <1>7. \A i \in 1..Len(queue') : \E x : x = queue'[i] /\ OldSave(x) BY <1>1 DEF OldSave
  <1>8. \A i \in 1..Len(toServer') : \E x : x = toServer'[i] /\ OldSave(x) BY <1>1 DEF OldSave
  <1>9. \A i \in 1..Len(stray') : \E x : x = stray'[i] /\ OldSave(x) BY <1>1 DEF OldSave
  <1>10. /\ store' \in Notes!Notes /\ clock' \in Nat /\ past' \subseteq Notes!Notes
         /\ past \subseteq past' /\ others' \in 0..MaxOthers /\ watched' \in BOOLEAN /\ up' \in BOOLEAN
         /\ toServer' \in Seq(Asked) /\ stray' \in Seq(Asked) /\ queue' \in Seq(Notes!Saves)
    BY <1>1, <1>2
  <1> QED BY <1>1, <1>3, <1>4, <1>5, <1>6, <1>7, <1>8, <1>9, <1>10, ServerKeeps

LEMMA NoteStepKeeps ==
  ASSUME NoteBounds
  PROVE NoteInv /\ [Next]_vars => NoteInv'
  <1> SUFFICES ASSUME NoteInv, [Next]_vars PROVE NoteInv' OBVIOUS
  <1>1. CASE NotesStep BY <1>1, NoteNext DEF NotesStep
  <1>2. CASE FeedStep BY <1>2, NoteStutter DEF FeedStep
  <1>3. CASE RecorderStep BY <1>3, NoteStutter DEF RecorderStep
  <1>4. CASE FilesStep BY <1>4, NoteStutter DEF FilesStep
  <1>5. CASE UNCHANGED vars BY <1>5, NoteStutter DEF vars
  <1> QED BY <1>1, <1>2, <1>3, <1>4, <1>5 DEF Next

(* Only a note the user has seen is written over from here. *)
LEMMA NoteSeenFirst ==
  ASSUME NoteBounds, NoteInv, Notes!Next, store' # store, others' = others
  PROVE store.body \in seen
  <1>1. ASSUME NEW m, m.t = "save", SaveTrue(m), Notes!Accepts(m.from) PROVE store.body \in seen
    <2>1. PICK n \in past : n.ver = m.from /\ n.body \in seen BY <1>1 DEF SaveTrue, SeenAt
    <2>2. store \in past /\ store.ver = n.ver BY <1>1, <2>1 DEF Notes!Accepts, NoteInv, PastTrue
    <2>3. n = store BY <2>1, <2>2 DEF NoteInv, PastTrue
    <2> QED BY <2>1, <2>3
  <1>2. CASE Notes!Handle
    <2>1. PICK m : m = Head(toServer) OBVIOUS
    <2>2. toServer # <<>> /\ m.t = "save" /\ Notes!Accepts(m.from) BY <1>2, <2>1 DEF Notes!Handle
    <2>3. toServer \in Seq(Asked) BY NoteTypes DEF NoteInv
    <2>4. m = toServer[1] /\ 1 \in 1..Len(toServer) BY <2>1, <2>2, <2>3, TailOf
    <2>5. SaveTrue(m) BY <2>4 DEF NoteInv, SavesTrue
    <2> QED BY <1>1, <2>2, <2>5
  <1>3. CASE Notes!HandleStray
    <2>1. PICK m : m = Head(stray) OBVIOUS
    <2>2. stray # <<>> /\ m.t = "save" /\ Notes!Accepts(m.from) BY <1>3, <2>1 DEF Notes!HandleStray
    <2>3. stray \in Seq(Asked) BY NoteTypes DEF NoteInv
    <2>4. m = stray[1] /\ 1 \in 1..Len(stray) BY <2>1, <2>2, <2>3, TailOf
    <2>5. SaveTrue(m) BY <2>4 DEF NoteInv, SavesTrue
    <2> QED BY <1>1, <2>2, <2>5
  <1>4. CASE Notes!OtherWrites
    <2>1. others \in Nat BY NoteTypes DEF NoteInv, NoteBounds
    <2> QED BY <1>4, <2>1 DEF Notes!OtherWrites
  <1>5. CASE Notes!Type \/ Notes!TimerFires \/ Notes!Nudge \/ Notes!KeepMine \/ Notes!TakeTheirs
    BY <1>5 DEF Notes!Type, Notes!TimerFires, Notes!Nudge, Notes!KeepMine, Notes!TakeTheirs
  <1>6. CASE Notes!Breaks \/ Notes!Connect \/ Notes!OnNote \/ Notes!OnAnswer \/ Notes!Deadline \/ Notes!Expire
    BY <1>6 DEF Notes!Breaks, Notes!Connect, Notes!OnNote, Notes!OnAnswer, Notes!Deadline,
                Notes!Expire, Notes!GiveUp
  <1> QED BY <1>2, <1>3, <1>4, <1>5, <1>6 DEF Notes!Next

(* What the editor takes for stored was stored at that version; and text that is not stored *)
(* always waits for a timer or for the save in flight, or the panel says that it is not     *)
(* stored, whatever is typed, refused, lost with a connection, or answered too late         *)
(* (noteEditor.ts, notesClient.ts, hub.ts).                                                 *)
THEOREM NoteIsPursuedAlways ==
  ASSUME NoteBounds
  PROVE Spec => []NoteIsPursued
  <1>1. Init => NoteInv BY NoteInitial DEF Init
  <1>2. NoteInv => NoteIsPursued
    BY DEF NoteIsPursued, NoteInv, NoteTyped, EditorTrue, Pursuit, Notes!BookIsTrue,
           Notes!UnsavedIsPursued
  <1> QED BY <1>1, <1>2, NoteStepKeeps, PTL DEF Spec
----------------------------------------------------------------------------
(* The microphone is open only while the bar says so, unless a take was refused late; a file *)
(* of a message stays on the bar or reaches an agent; and the store serves what its index    *)
(* names, whatever goes wrong with uploads, the disk and the server                          *)
(* (audio-recorder-controller.ts, ChatSession.svelte, uploads.ts).                           *)
THEOREM BarIsTrueAlways ==
  ASSUME RecBounds, FilesBounds
  PROVE Spec => []BarIsTrue
  <1>1. Init => RecInv /\ FilesInv BY RecInitial, FilesInitial DEF Init
  <1>2. RecInv /\ FilesInv => BarIsTrue
    BY RecShown DEF BarIsTrue, RecInv, FilesInv, FilesTyped
  <1>3. RecInv /\ FilesInv /\ [Next]_vars => (RecInv /\ FilesInv)'
    BY RecStepKeeps, FilesStepKeeps
  <1> QED BY <1>1, <1>2, <1>3, PTL DEF Spec

(* Another device's text is overwritten only after the user was shown it, a finished take is *)
(* never dropped by itself, and an upload joins the message of the chat it was picked for,   *)
(* except for the later files of a pick whose loop was cut: whatever step is taken           *)
(* (hub.ts handle, audio-recorder-controller.ts, ChatSession.svelte attachFiles).            *)
THEOREM NothingIsLostEver ==
  ASSUME RecBounds, FilesBounds, NoteBounds
  PROVE Spec => NothingIsLost
  <1> DEFINE All == RecInv /\ FilesInv /\ NoteInv
             Seen == store' # store /\ others' = others => store.body \in seen
             Kept == TakeKept
             Joins == \A p \in Files!Picks :
                        Files!File(p) \in owed' \ owed =>
                          \/ loops[p].picked = main
                          \/ loops[p].cut # 0 /\ loops[p].at >= loops[p].cut
  <1>1. Init => All BY RecInitial, FilesInitial, NoteInitial DEF Init
  <1>2. All /\ [Next]_vars => All' BY RecStepKeeps, FilesStepKeeps, NoteStepKeeps
  <1>3. All /\ [Next]_vars => [Seen]_Notes!vars
    <2>1. All /\ NotesStep => Seen BY NoteSeenFirst DEF NotesStep
    <2>2. FeedStep \/ RecorderStep \/ FilesStep \/ UNCHANGED vars => Seen
      BY DEF FeedStep, RecorderStep, FilesStep, notesVars, vars
    <2> QED BY <2>1, <2>2 DEF Next
  <1>4. All /\ [Next]_vars => [Kept]_Recorder!vars
    <2>1. All /\ RecorderStep => Kept BY RecKept DEF RecorderStep
    <2>2. FeedStep \/ NotesStep \/ FilesStep \/ UNCHANGED vars => Kept
      BY DEF FeedStep, NotesStep, FilesStep, recorderVars, vars, TakeKept
    <2> QED BY <2>1, <2>2 DEF Next
  <1>5. All /\ [Next]_vars => [Joins]_Files!vars
    <2>1. All /\ FilesStep => Joins BY FilesOwed DEF FilesStep
    <2>2. FeedStep \/ NotesStep \/ RecorderStep \/ UNCHANGED vars => Joins
      BY DEF FeedStep, NotesStep, RecorderStep, filesVars, vars
    <2> QED BY <2>1, <2>2 DEF Next
  <1>6. [][Seen]_Notes!vars => Notes!OthersAreSeen BY DEF Notes!OthersAreSeen
  <1>7. [][Kept]_Recorder!vars => Recorder!NoTakeLost BY DEF Recorder!NoTakeLost, TakeKept
  <1>8. [][Joins]_Files!vars => Files!JoinsItsChat BY DEF Files!JoinsItsChat
  <1> QED BY <1>1, <1>2, <1>3, <1>4, <1>5, <1>6, <1>7, <1>8, PTL DEF Spec, NothingIsLost
=============================================================================
