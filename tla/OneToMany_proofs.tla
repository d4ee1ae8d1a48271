-------------------------- MODULE OneToMany_proofs --------------------------
(***************************************************************************)
(* Proofs about OneToMany, for any number of subscribers and connections,  *)
(* any descriptions of the publisher and any feedback: every subscriber    *)
(* gets everything, only the processor's destructor is unsafe, and feedback*)
(* finds its way.  The argument is what myMonitor_ protects: the map of    *)
(* subscribers, the loop over it, and the destructors run under it.        *)
(***************************************************************************)
EXTENDS OneToMany, SequenceTheorems, WellFoundedInduction, TLAPS

-----------------------------------------------------------------------------
(***************************************************************************)
(* The inductive invariant, in parts.                                      *)
(***************************************************************************)
\* A packet of the publisher, with the SSRC read from it.
Packet == [media: Media, ssrc: {Real("audio"), Real("video"), Stray}]

\* What the application thread is within.
Closing == {"closePublisher", "closeSubscribers", "closeJoin"}
Waiting == {"substitute", "remove", "closeJoin"}
Ops     == {"idle", "destroyed"} \cup Closing \cup Waiting

\* The types, of the history and of the application thread too.
Typed ==
  /\ TypeOK
  /\ bundle \in BOOLEAN
  /\ sections \subseteq Media
  /\ monitor \in {"free", "app"} \cup Media
  /\ todo \subseteq Peers
  /\ app \in [op: Ops, peer: Nat, new: Nat, old: Nat]
  /\ hand \in [Media -> Seq(Packet)]
  /\ out \in Seq(Packet)
  /\ got \in [Conns -> Seq(Packet)]
  /\ since \in [Conns -> Nat]
  /\ strayed \in BOOLEAN /\ ignored \in BOOLEAN /\ crashed \in BOOLEAN

\* The map: the connections in it are up, and each is there once.
MapOfUp ==
  /\ \A p \in Present : conn[subs[p]] = "up"
  /\ \A p, q \in Present : subs[p] = subs[q] => p = q

\* Every connection that is up is in the map, or takes the place of the one being
\* destroyed; only one is being destroyed, and the application waits for it.
EveryUpIsKnown ==
  /\ \A c \in Conns : conn[c] = "up"
       => (\E p \in Peers : subs[p] = c) \/ (app.op = "substitute" /\ app.new = c)
  /\ \A c \in Conns : conn[c] \in {"closing", "closed"} => app.op \in Waiting /\ app.old = c

\* What a call waits for, and what it does next.
CallKnows ==
  /\ app.op \in Waiting => app.old \in Conns /\ conn[app.old] \in {"closing", "closed"}
  /\ app.op = "substitute" => /\ app.peer \in Peers /\ subs[app.peer] = 0
                              /\ app.new \in Conns /\ conn[app.new] = "up"
                              /\ got[app.new] = <<>>
                              /\ \A p \in Peers : subs[p] # app.new

\* myMonitor_ is held while a connection of the map is destroyed.
WaitsLocked == app.op \in Waiting => monitor = "app"

\* The loop over the subscribers: it is in a packet that was the last to be given out.
LoopAtLast ==
  /\ monitor \notin Media => todo = {}
  /\ monitor \in Media => todo # {} /\ todo \subseteq Present
  /\ \A t \in Media : pc[t] \in {"enter", "loop"} => Len(hand[t]) = 1
  /\ \A t \in Media : pc[t] = "loop" => Len(out) > 0 /\ out[Len(out)] = hand[t][1]

\* Nobody was added after the packet the loop is in.
AddedBefore ==
  \A p \in Present : since[subs[p]] <= IF monitor \in Media THEN Len(out) - 1 ELSE Len(out)

\* Whoever is subscribed has got everything since.
Complete ==
  \A p \in Present :
    got[subs[p]] = SubSeq(out, since[subs[p]] + 1, Len(out) - IF p \in todo THEN 1 ELSE 0)

\* A connection that was not added yet has got nothing, a destroyed one has no thread.
ThreadsKnown ==
  \A c \in Conns : /\ conn[c] = "none" => got[c] = <<>> /\ thr[c] = "idle"
                   /\ conn[c] = "gone" => thr[c] = "ended"

\* The threads of the publisher live as long as it does.
PublisherKnown ==
  /\ \A t \in Media : pub = "none" \/ t \notin Transports => pc[t] \in {"idle", "ended"}
  /\ pub = "gone" => \A t \in Media : pc[t] \in {"idle", "ended"}
  /\ pub \in {"closing", "closed", "gone"}
     => app.op \in {"closeSubscribers", "closeJoin", "destroyed"}
  /\ app.op = "destroyed" => pub = "gone"

\* feedbackSink_ is there for whoever has tested it, until closeAll.
SinkTested ==
  \A c \in Conns : thr[c] = "tested" => sink \/ app.op \in Closing \cup {"destroyed"}

\* The publisher's SSRCs: of the sections there are, and learned from what was read.
SsrcKnown ==
  \A m \in Media : /\ ssrc[m] \in {0, Real(m), Stray}
                   /\ ssrc[m] = Stray => strayed
                   /\ m \notin sections => ssrc[m] = 0

\* What is given out can be complained about.
Traceable(pkt) == \/ pkt.ssrc \in {Stray, ssrc["video"], ssrc["audio"]}
                  \/ strayed
GivenIsTraceable ==
  /\ \A i \in DOMAIN out : Traceable(out[i])
  /\ \A t \in Media : \A i \in DOMAIN hand[t] : Traceable(hand[t][i])

\* All of it.
IInv ==
  /\ Typed
  /\ MapOfUp /\ EveryUpIsKnown /\ CallKnows /\ WaitsLocked
  /\ LoopAtLast /\ AddedBefore /\ Complete
  /\ ThreadsKnown /\ PublisherKnown /\ SinkTested
  /\ SsrcKnown /\ GivenIsTraceable
  /\ UnsafeOnlyWhenClosing /\ FeedbackFindsSource /\ FeedbackIsOurs

-----------------------------------------------------------------------------
(***************************************************************************)
(* The smallest peerId, and what is given out since.                       *)
(***************************************************************************)
\* The loop takes the smallest key, and there is one.
LEMMA MinIsIn ==
  ASSUME NEW T, T \subseteq Nat, T # {}
  PROVE  Min(T) \in T
<1> DEFINE R == OpToRel(<, Nat)
<1>1. PICK x \in T : \A y \in T : <<y, x>> \notin R
  <2>1. IsWellFoundedOn(R, Nat)
    BY NatLessThanWellFounded, Zenon
  <2> HIDE DEF R
  <2> QED BY <2>1, WFMin
<1>2. \A y \in T : ~(y < x)
  BY <1>1 DEF OpToRel
<1>3. \A y \in T : x =< y
  BY <1>2
<1> QED BY <1>3 DEF Min

\* What was given out does not change when more is.
LEMMA GivenStays ==
  ASSUME NEW S, NEW s \in Seq(S), NEW e \in Seq(S), NEW a \in 0 .. Len(s)
  PROVE  SubSeq(s \o e, a + 1, Len(s)) = SubSeq(s, a + 1, Len(s))
<1>1. CASE a = Len(s)
  BY <1>1, LenProperties, SubSeqEmpty
<1>2. CASE a # Len(s)
  <2>1. a + 1 \in 1 .. Len(s) /\ Len(s) \in 1 .. Len(s)
    BY <1>2, LenProperties
  <2> QED BY <2>1, SubSeqOfConcat1
<1> QED BY <1>1, <1>2

\* One packet more.
LEMMA OneMore ==
  ASSUME NEW S, NEW s \in Seq(S), Len(s) > 0, NEW a \in 0 .. Len(s) - 1,
         NEW e \in Seq(S), Len(e) = 1, e[1] = s[Len(s)]
  PROVE  SubSeq(s, a + 1, Len(s) - 1) \o e = SubSeq(s, a + 1, Len(s))
<1>1. Len(s) \in Nat
  BY LenProperties
<1>2. e = <<s[Len(s)]>>
  <2>1. s[Len(s)] \in S
    BY <1>1, ElementOfSeq
  <2>2. <<s[Len(s)]>> \in Seq(S) /\ Len(<<s[Len(s)]>>) = 1 /\ <<s[Len(s)]>>[1] = s[Len(s)]
    BY <2>1
  <2> QED BY <2>2, SeqEqual
<1>3. a + 1 \in 1 .. Len(s) /\ Len(s) \in a + 1 .. Len(s)
  BY <1>1
<1> QED BY <1>2, <1>3, SubSeqRecursiveSecond

\* Nothing is given out since now.
LEMMA NothingSince ==
  ASSUME NEW S, NEW s \in Seq(S)
  PROVE  SubSeq(s, Len(s) + 1, Len(s) - 0) = <<>>
  BY LenProperties, SubSeqEmpty

-----------------------------------------------------------------------------
(***************************************************************************)
(* Types.                                                                  *)
(***************************************************************************)
\* The loop's next subscriber is in the map and up.
LEMMA NextIsUp ==
  ASSUME Typed, MapOfUp, LoopAtLast, NEW t \in Media, pc[t] = "loop"
  PROVE  /\ monitor = t
         /\ Min(todo) \in todo /\ Min(todo) \in Present
         /\ subs[Min(todo)] \in Conns /\ subs[Min(todo)] # 0
         /\ conn[subs[Min(todo)]] = "up"
<1>1. monitor = t /\ todo # {} /\ todo \subseteq Present
  BY DEF Typed, TypeOK, LoopAtLast
<1>2. todo \subseteq Nat
  BY OneToManyAssumption DEF Typed, OneToManyAssumption
<1>3. Min(todo) \in todo
  BY <1>1, <1>2, MinIsIn
<1> QED BY <1>1, <1>3 DEF Present, MapOfUp, Typed, TypeOK

\* The publisher's threads keep the types.
LEMMA TypedPublisher ==
  ASSUME Typed, MapOfUp, LoopAtLast, NEW t \in Media,
         \/ \E s \in {Real("audio"), Real("video"), Stray} : OnTransportData(t, s)
         \/ DeliverEnter(t) \/ DeliverNext(t) \/ PublisherThreadEnds(t)
  PROVE  Typed'
<1> USE DEF pubVars, subVars, histVars
<1>1. ASSUME NEW s \in {Real("audio"), Real("video"), Stray}, OnTransportData(t, s)
      PROVE  Typed'
  <2>1. ssrc' \in [Media -> {0, Real("audio"), Real("video"), Stray}]
    BY <1>1 DEF Typed, TypeOK, OnTransportData, LearnSsrc
  <2>2. strayed' \in BOOLEAN
    BY <1>1, Zenon DEF Typed, OnTransportData, LearnSsrc
  <2>3. pc' \in [Media -> {"idle", "enter", "loop", "ended"}]
        /\ \A u \in Media : pc'[u] = "loop" <=> pc[u] = "loop"
    BY <1>1 DEF Typed, TypeOK, OnTransportData
  <2>4. hand' \in [Media -> Seq(Packet)]
    <3>1. CASE hand' = hand
      BY <3>1 DEF Typed
    <3>2. ASSUME NEW m \in Media, hand' = [hand EXCEPT ![t] = <<[media |-> m, ssrc |-> s]>>]
          PROVE  hand' \in [Media -> Seq(Packet)]
      <4>1. [media |-> m, ssrc |-> s] \in Packet
        BY <1>1 DEF Packet
      <4>2. <<[media |-> m, ssrc |-> s]>> \in Seq(Packet)
        BY <4>1
      <4> QED BY <3>2, <4>2 DEF Typed
    <3>3. hand' = hand \/ \E m \in Media : hand' = [hand EXCEPT ![t] = <<[media |-> m, ssrc |-> s]>>]
      BY <1>1 DEF OnTransportData, Media
    <3> QED BY <3>1, <3>2, <3>3
  <2> QED BY <1>1, <2>1, <2>2, <2>3, <2>4 DEF Typed, TypeOK, OnTransportData
<1>2. CASE DeliverEnter(t)
  <2>1. out' \in Seq(Packet)
    BY <1>2, ConcatProperties DEF Typed, DeliverEnter
  <2>2. <<>> \in Seq(Packet) /\ Present \subseteq Peers
    BY DEF Present
  <2>3. pc' \in [Media -> {"idle", "enter", "loop", "ended"}]
        /\ \A u \in Media : pc'[u] = "loop" <=> monitor' = u
    BY <1>2 DEF Typed, TypeOK, DeliverEnter, Media
  <2>4. hand' \in [Media -> Seq(Packet)] /\ todo' \subseteq Peers
        /\ monitor' \in {"free", "app"} \cup Media
    BY <1>2, <2>2 DEF Typed, DeliverEnter
  <2> QED BY <1>2, <2>1, <2>3, <2>4 DEF Typed, TypeOK, DeliverEnter
<1>3. CASE DeliverNext(t)
  <2>1. subs[Min(todo)] \in Conns /\ subs[Min(todo)] # 0 /\ conn[subs[Min(todo)]] = "up"
        /\ monitor = t
    BY <1>3, NextIsUp DEF DeliverNext
  <2>2. got' = [got EXCEPT ![subs[Min(todo)]] = @ \o hand[t]] /\ crashed' = crashed
    BY <1>3, <2>1 DEF DeliverNext
  <2>3. got[subs[Min(todo)]] \o hand[t] \in Seq(Packet)
    BY <2>1, ConcatProperties DEF Typed
  <2>4. got' \in [Conns -> Seq(Packet)]
    BY <2>1, <2>2, <2>3 DEF Typed
  <2>5. pc' \in [Media -> {"idle", "enter", "loop", "ended"}]
        /\ \A u \in Media : pc'[u] = "loop" <=> monitor' = u
    BY <1>3, <2>1 DEF Typed, TypeOK, DeliverNext, Media
  <2>6. <<>> \in Seq(Packet)
    OBVIOUS
  <2>7. hand' \in [Media -> Seq(Packet)] /\ todo' \subseteq Peers
        /\ monitor' \in {"free", "app"} \cup Media
    BY <1>3, <2>6 DEF Typed, DeliverNext
  <2> QED BY <1>3, <2>2, <2>4, <2>5, <2>7 DEF Typed, TypeOK, DeliverNext
<1>4. CASE PublisherThreadEnds(t)
  BY <1>4 DEF Typed, TypeOK, PublisherThreadEnds
<1> QED BY <1>1, <1>2, <1>3, <1>4

\* So do the subscribers' threads.
LEMMA TypedFeedback ==
  ASSUME Typed, NEW c \in Conns,
         \/ OnFeedback(c) \/ FeedbackStep(c) \/ SubscriberThreadEnds(c)
  PROVE  Typed'
<1> USE DEF pubVars, subVars, histVars
<1>1. CASE OnFeedback(c)
  BY <1>1 DEF Typed, TypeOK, OnFeedback
<1>2. CASE FeedbackTest(c)
  <2>1. thr' \in [Conns -> {"idle", "enter", "tested", "ended"}]
    BY <1>2 DEF Typed, TypeOK, FeedbackTest
  <2> QED BY <1>2, <2>1 DEF Typed, TypeOK, FeedbackTest
<1>3. ASSUME NEW f \in Feedback, NEW again \in BOOLEAN, FeedbackCall(c, f, again)
      PROVE  Typed'
  <2>1. thr' \in [Conns -> {"idle", "enter", "tested", "ended"}]
    BY <1>3 DEF Typed, TypeOK, FeedbackCall
  <2>2. crashed' \in BOOLEAN
    BY <1>3, Zenon DEF Typed, FeedbackCall
  <2>3. ignored' \in BOOLEAN
    <3>1. DeliverFeedback(f) => ignored' = ignored \/ ignored' \in BOOLEAN
      BY Zenon DEF DeliverFeedback
    <3> QED BY <1>3, <3>1, Zenon DEF Typed, FeedbackCall
  <2> QED BY <1>3, <2>1, <2>2, <2>3 DEF Typed, TypeOK, FeedbackCall
<1>4. CASE SubscriberThreadEnds(c)
  BY <1>4 DEF Typed, TypeOK, SubscriberThreadEnds
<1> QED BY <1>1, <1>2, <1>3, <1>4 DEF FeedbackStep

\* What a call of the application does to its own record.
LEMMA AppTyped ==
  ASSUME NEW op \in Ops, NEW p \in Nat, NEW new \in Nat, NEW old \in Nat
  PROVE  /\ App(op, p, new, old) \in [op: Ops, peer: Nat, new: Nat, old: Nat]
         /\ App(op, p, new, old).op = op /\ App(op, p, new, old).peer = p
         /\ App(op, p, new, old).new = new /\ App(op, p, new, old).old = old
BY DEF App

\* A peerId that is vacant is taken at once ...
LEMMA AddVacant ==
  ASSUME NEW p \in Peers, NEW c \in Conns, AddSubscriber(p, c), subs[p] = 0
  PROVE  /\ subs' = [subs EXCEPT ![p] = c] /\ conn' = [conn EXCEPT ![c] = "up"]
         /\ since' = [since EXCEPT ![c] = Len(out)] /\ app' = app /\ monitor' = monitor
BY Zenon DEF AddSubscriber

\* ... and one that is taken is vacated first.
LEMMA AddTaken ==
  ASSUME NEW p \in Peers, NEW c \in Conns, AddSubscriber(p, c), subs[p] # 0
  PROVE  /\ subs' = [subs EXCEPT ![p] = 0]
         /\ conn' = [conn EXCEPT ![subs[p]] = "closing", ![c] = "up"]
         /\ app' = App("substitute", p, c, subs[p]) /\ monitor' = "app" /\ since' = since
BY Zenon DEF AddSubscriber

\* So do the calls of the application ...
LEMMA TypedCall ==
  ASSUME Typed,
         \/ SetPublisher \/ CloseAll
         \/ \E p \in Peers : RemoveSubscriber(p) \/ \E c \in Conns : AddSubscriber(p, c)
  PROVE  Typed'
<1> USE DEF pubVars, subVars, histVars
<1>0. /\ Peers \subseteq Nat /\ Conns \subseteq Nat /\ 0 \notin Conns /\ 0 \in Nat
      /\ {"idle", "remove", "substitute", "closePublisher"} \subseteq Ops
  BY OneToManyAssumption DEF OneToManyAssumption, Ops, Waiting, Closing
<1>1. CASE SetPublisher
  BY <1>1 DEF Typed, TypeOK, SetPublisher
<1>2. CASE CloseAll
  <2>1. app' \in [op: Ops, peer: Nat, new: Nat, old: Nat]
    BY <1>0, <1>2, AppTyped DEF CloseAll
  <2> QED BY <1>2, <2>1 DEF Typed, TypeOK, CloseAll
<1>3. ASSUME NEW p \in Peers, RemoveSubscriber(p)
      PROVE  Typed'
  <2>1. subs[p] \in Conns
    BY <1>3 DEF RemoveSubscriber, Typed, TypeOK
  <2>2. app' \in [op: Ops, peer: Nat, new: Nat, old: Nat]
    BY <1>0, <1>3, <2>1, AppTyped DEF RemoveSubscriber
  <2>3. \A t \in Media : pc[t] = "loop" <=> monitor' = t
    BY <1>3 DEF Typed, TypeOK, RemoveSubscriber, Media
  <2> QED BY <1>3, <2>1, <2>2, <2>3 DEF Typed, TypeOK, RemoveSubscriber
<1>4. ASSUME NEW p \in Peers, NEW c \in Conns, AddSubscriber(p, c)
      PROVE  Typed'
  <2>0. fbSink' \in [Conns -> BOOLEAN]
    BY <1>4 DEF AddSubscriber, Typed, TypeOK
  <2>1. CASE subs[p] = 0
    <3>1. Len(out) \in Nat
      BY LenProperties DEF Typed
    <3>2. /\ subs' = [subs EXCEPT ![p] = c] /\ conn' = [conn EXCEPT ![c] = "up"]
          /\ since' = [since EXCEPT ![c] = Len(out)] /\ app' = app /\ monitor' = monitor
      BY <1>4, <2>1, AddVacant
    <3>3. subs' \in [Peers -> Conns \cup {0}] /\ since' \in [Conns -> Nat]
          /\ conn' \in [Conns -> {"none", "up", "closing", "closed", "gone"}]
      BY <3>1, <3>2 DEF Typed, TypeOK
    <3> QED BY <1>4, <2>0, <3>2, <3>3 DEF Typed, TypeOK, AddSubscriber
  <2>2. CASE subs[p] # 0
    <3>1. subs[p] \in Conns
      BY <1>4, <2>2 DEF Typed, TypeOK
    <3>2. /\ subs' = [subs EXCEPT ![p] = 0]
          /\ conn' = [conn EXCEPT ![subs[p]] = "closing", ![c] = "up"]
          /\ app' = App("substitute", p, c, subs[p]) /\ monitor' = "app" /\ since' = since
      BY <1>4, <2>2, AddTaken
    <3>3. app' \in [op: Ops, peer: Nat, new: Nat, old: Nat]
      BY <1>0, <3>1, <3>2, AppTyped
    <3>4. \A t \in Media : pc[t] = "loop" <=> monitor' = t
      BY <1>4, <3>2 DEF Typed, TypeOK, AddSubscriber, Media
    <3>5. /\ conn' \in [Conns -> {"none", "up", "closing", "closed", "gone"}]
          /\ subs' \in [Peers -> Conns \cup {0}]
      BY <3>1, <3>2 DEF Typed, TypeOK
    <3> QED BY <1>4, <2>0, <3>2, <3>3, <3>4, <3>5 DEF Typed, TypeOK, AddSubscriber
  <2> QED BY <2>1, <2>2
<1> QED BY <1>1, <1>2, <1>3, <1>4

\* ... and what they do on the way back.
LEMMA TypedReturn ==
  ASSUME Typed, CallKnows, WaitsLocked, CallReturns
  PROVE  Typed'
<1> USE DEF pubVars, subVars, histVars
<1>0. /\ Peers \subseteq Nat /\ Conns \subseteq Nat /\ 0 \notin Conns /\ 0 \in Nat
      /\ {"idle", "closeSubscribers", "closeJoin", "destroyed"} \subseteq Ops
  BY OneToManyAssumption DEF OneToManyAssumption, Ops, Waiting, Closing
<1>1. ASSUME NEW c \in Conns, TransportClosed(c)
      PROVE  Typed'
  BY <1>1 DEF Typed, TypeOK, TransportClosed
<1>2. CASE Substitute \/ Removed
  <2>1. app.old \in Conns /\ monitor = "app"
    BY <1>2 DEF CallKnows, WaitsLocked, Waiting, Substitute, Removed
  <2>2. app' \in [op: Ops, peer: Nat, new: Nat, old: Nat]
    BY <1>0, <1>2, AppTyped DEF Substitute, Removed, Idle
  <2>3. \A t \in Media : pc[t] = "loop" <=> monitor' = t
    BY <1>2, <2>1 DEF Typed, TypeOK, Substitute, Removed, Media
  <2>4. subs' \in [Peers -> Conns \cup {0}] /\ since' \in [Conns -> Nat]
    <3>1. CASE Substitute
      <4>1. app.new \in Conns /\ app.peer \in Peers
        BY <3>1 DEF Substitute, CallKnows
      <4>2. Len(out) \in Nat
        BY LenProperties DEF Typed
      <4> QED BY <3>1, <4>1, <4>2 DEF Substitute, Typed, TypeOK
    <3> QED BY <1>2, <3>1 DEF Removed, Typed, TypeOK
  <2>5. conn' \in [Conns -> {"none", "up", "closing", "closed", "gone"}]
    BY <1>2, <2>1 DEF Typed, TypeOK, Substitute, Removed
  <2> QED BY <1>2, <2>2, <2>3, <2>4, <2>5 DEF Typed, TypeOK, Substitute, Removed
<1>3. CASE ClosePublisher
  <2>1. app' \in [op: Ops, peer: Nat, new: Nat, old: Nat]
    BY <1>0, <1>3, AppTyped DEF ClosePublisher
  <2> QED BY <1>3, <2>1 DEF Typed, TypeOK, ClosePublisher
<1>4. CASE PublisherTransportsClosed
  BY <1>4 DEF Typed, TypeOK, PublisherTransportsClosed
<1>5. CASE PublisherDestroyed
  BY <1>5 DEF Typed, TypeOK, PublisherDestroyed
<1>6. ASSUME NEW p \in Peers, CloseSubscriber(p)
      PROVE  Typed'
  <2>1. subs[p] \in Conns
    BY <1>6 DEF CloseSubscriber, Typed, TypeOK, Present
  <2>2. app' \in [op: Ops, peer: Nat, new: Nat, old: Nat]
    BY <1>0, <1>6, <2>1, AppTyped DEF CloseSubscriber
  <2>3. \A t \in Media : pc[t] = "loop" <=> monitor' = t
    BY <1>6 DEF Typed, TypeOK, CloseSubscriber, Media
  <2>4. fbSink' \in [Conns -> BOOLEAN]
    BY <1>6 DEF CloseSubscriber, Typed, TypeOK
  <2> QED BY <1>6, <2>1, <2>2, <2>3, <2>4 DEF Typed, TypeOK, CloseSubscriber
<1>7. CASE SubscriberDestroyed
  <2>1. app' \in [op: Ops, peer: Nat, new: Nat, old: Nat]
    BY <1>0, <1>7, AppTyped DEF SubscriberDestroyed
  <2> QED BY <1>7, <2>1 DEF Typed, TypeOK, SubscriberDestroyed
<1>8. CASE Closed
  <2>1. app' \in [op: Ops, peer: Nat, new: Nat, old: Nat]
    BY <1>0, <1>8, AppTyped DEF Closed
  <2>2. \A t \in Media : pc[t] = "loop" <=> monitor' = t
    BY <1>8 DEF Typed, TypeOK, Closed, Media
  <2> QED BY <1>8, <2>1, <2>2 DEF Typed, TypeOK, Closed
<1> QED BY <1>1, <1>2, <1>3, <1>4, <1>5, <1>6, <1>7, <1>8 DEF CallReturns

-----------------------------------------------------------------------------
(***************************************************************************)
(* The map and the connections.                                            *)
(***************************************************************************)
\* What the map and the connections are to each other.
MapInv == MapOfUp /\ EveryUpIsKnown /\ CallKnows /\ WaitsLocked

\* A step that leaves the map, the connections and the call alone.
LEMMA MapFrame ==
  ASSUME MapInv, UNCHANGED <<subs, conn, app>>,
         app.op \in Waiting => monitor' = monitor /\ got' = got
  PROVE  MapInv'
<1>1. MapOfUp'
  BY DEF MapInv, MapOfUp, Present
<1>2. EveryUpIsKnown'
  BY DEF MapInv, EveryUpIsKnown
<1>3. CallKnows'
  <2>1. app.op = "substitute" => app.op \in Waiting
    BY DEF Waiting
  <2> QED BY <2>1, Zenon DEF MapInv, CallKnows
<1>4. WaitsLocked'
  BY DEF MapInv, WaitsLocked
<1> QED BY <1>1, <1>2, <1>3, <1>4 DEF MapInv

\* The publisher's threads: the lock keeps them out of the map while it changes.
LEMMA MapPublisher ==
  ASSUME Typed, MapInv, NEW t \in Media, PublisherStep(t)
  PROVE  MapInv'
<1> USE DEF pubVars, subVars, histVars
<1>1. UNCHANGED <<subs, conn, app>>
  BY DEF PublisherStep, OnTransportData, DeliverEnter, DeliverNext, PublisherThreadEnds
<1>2. ASSUME app.op \in Waiting
      PROVE  monitor' = monitor /\ got' = got
  <2>1. monitor = "app" /\ pc[t] # "loop"
    BY <1>2 DEF MapInv, WaitsLocked, Typed, TypeOK, Media
  <2> QED BY <2>1 DEF PublisherStep, OnTransportData, DeliverEnter, DeliverNext,
                      PublisherThreadEnds
<1> QED BY <1>1, <1>2, MapFrame

\* A peerId is vacated and its connection destroyed.
LEMMA MapVacate ==
  ASSUME Typed, MapInv, NEW p \in Peers, subs[p] # 0, app.op \notin Waiting,
         subs' = [subs EXCEPT ![p] = 0],
         conn' = [conn EXCEPT ![subs[p]] = "closing"],
         app'.op \in {"remove", "closeJoin"}, app'.old = subs[p],
         monitor' = "app"
  PROVE  MapInv'
<1>1. /\ subs[p] \in Conns /\ 0 \notin Conns
      /\ subs \in [Peers -> Conns \cup {0}]
      /\ conn \in [Conns -> {"none", "up", "closing", "closed", "gone"}]
  BY OneToManyAssumption DEF Typed, TypeOK, OneToManyAssumption
<1>2. \A q \in Peers : q # p /\ subs[q] # 0 => subs[q] # subs[p]
  BY DEF MapInv, MapOfUp, Present
<1>3. /\ subs'[p] = 0 /\ \A q \in Peers : q # p => subs'[q] = subs[q]
      /\ conn'[subs[p]] = "closing" /\ \A c \in Conns : c # subs[p] => conn'[c] = conn[c]
  BY <1>1
<1>4. MapOfUp'
  <2>1. Present' \subseteq Present /\ p \notin Present'
    BY <1>3 DEF Present
  <2>2. \A q \in Present' : q \in Peers /\ q # p /\ subs'[q] = subs[q] /\ subs[q] \in Conns
                            /\ subs[q] # subs[p] /\ conn[subs[q]] = "up"
    BY <1>1, <1>2, <1>3, <2>1 DEF Present, MapInv, MapOfUp
  <2>3. \A q \in Present' : conn'[subs'[q]] = "up"
    BY <1>3, <2>2
  <2> QED BY <2>1, <2>2, <2>3 DEF MapInv, MapOfUp
<1>5. EveryUpIsKnown'
  <2>1. \A c \in Conns : conn[c] = "up" => \E q \in Peers : subs[q] = c
    BY DEF MapInv, EveryUpIsKnown, Waiting
  <2>2. \A c \in Conns : conn'[c] = "up" => \E q \in Peers : subs'[q] = c
    BY <1>1, <1>3, <2>1
  <2>3. \A c \in Conns : conn'[c] \in {"closing", "closed"} => c = subs[p]
    BY <1>3 DEF MapInv, EveryUpIsKnown
  <2> QED BY <2>2, <2>3 DEF EveryUpIsKnown, Waiting
<1>6. CallKnows'
  BY <1>1, <1>3 DEF CallKnows
<1>7. WaitsLocked'
  BY DEF WaitsLocked
<1> QED BY <1>4, <1>5, <1>6, <1>7 DEF MapInv

\* The connection waited for is gone, and none takes its place.
LEMMA MapGone ==
  ASSUME Typed, MapInv, app.op \in {"remove", "closeJoin"},
         conn' = [conn EXCEPT ![app.old] = "gone"], subs' = subs,
         app'.op \notin Waiting
  PROVE  MapInv'
<1>1. /\ app.old \in Conns /\ conn[app.old] \in {"closing", "closed"}
      /\ conn \in [Conns -> {"none", "up", "closing", "closed", "gone"}]
      /\ subs \in [Peers -> Conns \cup {0}]
  BY DEF Typed, TypeOK, MapInv, CallKnows, Waiting
<1>2. conn'[app.old] = "gone" /\ \A c \in Conns : c # app.old => conn'[c] = conn[c]
  BY <1>1
<1>3. MapOfUp'
  <2>1. \A q \in Present : subs[q] \in Conns /\ subs[q] # app.old
    BY <1>1 DEF Present, MapInv, MapOfUp
  <2> QED BY <1>2, <2>1 DEF MapInv, MapOfUp, Present
<1>4. EveryUpIsKnown'
  <2>1. \A c \in Conns : conn[c] = "up" => \E q \in Peers : subs[q] = c
    BY DEF MapInv, EveryUpIsKnown
  <2>2. \A c \in Conns : conn'[c] = "up" => \E q \in Peers : subs'[q] = c
    BY <1>2, <2>1
  <2>3. \A c \in Conns : conn'[c] \notin {"closing", "closed"}
    BY <1>2 DEF MapInv, EveryUpIsKnown
  <2> QED BY <2>2, <2>3 DEF EveryUpIsKnown
<1>5. CallKnows' /\ WaitsLocked'
  BY DEF CallKnows, WaitsLocked, Waiting
<1> QED BY <1>3, <1>4, <1>5 DEF MapInv

\* A vacant peerId gets a connection that is up and in no other place.
LEMMA MapTake ==
  ASSUME Typed, MapInv, NEW p \in Peers, subs[p] = 0, NEW c \in Conns,
         subs' = [subs EXCEPT ![p] = c],
         \A q \in Peers : subs[q] # c,
         conn' \in [Conns -> {"none", "up", "closing", "closed", "gone"}],
         conn'[c] = "up",
         \A d \in Conns : d # c => \/ conn'[d] = conn[d]
                                   \/ conn[d] # "up" /\ conn'[d] # "up",
         \A d \in Conns : conn'[d] \notin {"closing", "closed"},
         app.op = "substitute" => app.new = c,
         app'.op \notin Waiting
  PROVE  MapInv'
<1>1. subs \in [Peers -> Conns \cup {0}] /\ 0 \notin Conns
  BY OneToManyAssumption DEF Typed, TypeOK, OneToManyAssumption
<1>2. subs'[p] = c /\ \A q \in Peers : q # p => subs'[q] = subs[q]
  BY <1>1
<1>3. \A q \in Present' : q \in Peers /\ (q = p \/ q \in Present)
  BY <1>2 DEF Present
<1>4. \A q \in Present : q \in Peers /\ subs[q] \in Conns /\ subs[q] # c /\ q # p
                         /\ conn[subs[q]] = "up"
  BY <1>1 DEF Present, MapInv, MapOfUp
<1>5. MapOfUp'
  <2>1. \A q \in Present' : conn'[subs'[q]] = "up"
    BY <1>2, <1>3, <1>4
  <2>2. \A q, r \in Present' : subs'[q] = subs'[r] => q = r
    BY <1>2, <1>3, <1>4 DEF MapInv, MapOfUp
  <2> QED BY <2>1, <2>2 DEF MapOfUp
<1>6. EveryUpIsKnown'
  <2>1. ASSUME NEW d \in Conns, conn'[d] = "up"
        PROVE  \E q \in Peers : subs'[q] = d
    <3>1. CASE d = c
      BY <1>2, <3>1
    <3>2. CASE d # c
      <4>1. PICK q \in Peers : subs[q] = d
        BY <2>1, <3>2 DEF MapInv, EveryUpIsKnown
      <4> QED BY <1>1, <1>2, <4>1
    <3> QED BY <3>1, <3>2
  <2> QED BY <2>1 DEF EveryUpIsKnown
<1>7. CallKnows' /\ WaitsLocked'
  BY DEF CallKnows, WaitsLocked, Waiting
<1> QED BY <1>5, <1>6, <1>7 DEF MapInv

\* addSubscriber.
LEMMA MapAdd ==
  ASSUME Typed, MapInv, ThreadsKnown, NEW p \in Peers, NEW c \in Conns, AddSubscriber(p, c)
  PROVE  MapInv'
<1>0. /\ app.op = "idle" /\ conn[c] = "none" /\ got' = got
      /\ subs \in [Peers -> Conns \cup {0}] /\ 0 \notin Conns
      /\ conn \in [Conns -> {"none", "up", "closing", "closed", "gone"}]
  BY OneToManyAssumption DEF Typed, TypeOK, OneToManyAssumption, AddSubscriber
<1>1. \A q \in Peers : subs[q] # c
  BY <1>0 DEF MapInv, MapOfUp, Present
<1>2. \A d \in Conns : conn[d] \notin {"closing", "closed"}
  BY <1>0 DEF MapInv, EveryUpIsKnown, Waiting
<1>3. CASE subs[p] = 0
  <2>1. subs' = [subs EXCEPT ![p] = c] /\ conn' = [conn EXCEPT ![c] = "up"] /\ app' = app
    BY <1>3, AddVacant
  <2>2. /\ conn' \in [Conns -> {"none", "up", "closing", "closed", "gone"}]
        /\ conn'[c] = "up"
        /\ \A d \in Conns : d # c => conn'[d] = conn[d]
        /\ \A d \in Conns : conn'[d] \notin {"closing", "closed"}
    BY <1>0, <1>2, <2>1
  <2>3. app.op # "substitute" /\ app'.op \notin Waiting
    BY <1>0, <2>1 DEF Waiting
  <2> QED BY <1>1, <1>3, <2>1, <2>2, <2>3, MapTake
<1>4. CASE subs[p] # 0
  <2>1. /\ subs' = [subs EXCEPT ![p] = 0]
        /\ conn' = [conn EXCEPT ![subs[p]] = "closing", ![c] = "up"]
        /\ app' = App("substitute", p, c, subs[p]) /\ monitor' = "app"
    BY <1>4, AddTaken
  <2>2. subs[p] \in Conns /\ subs[p] # c
    BY <1>0, <1>1, <1>4
  <2>3. app'.op = "substitute" /\ app'.peer = p /\ app'.new = c /\ app'.old = subs[p]
    BY <2>1 DEF App
  <2>4. /\ subs'[p] = 0 /\ \A q \in Peers : q # p => subs'[q] = subs[q]
        /\ conn'[subs[p]] = "closing" /\ conn'[c] = "up"
        /\ \A d \in Conns : d # subs[p] /\ d # c => conn'[d] = conn[d]
    BY <1>0, <2>1, <2>2
  <2>5. MapOfUp'
    <3>1. \A q \in Present' : q \in Present /\ q # p /\ q \in Peers
      BY <2>4 DEF Present
    <3>2. \A q \in Present : subs[q] \in Conns /\ subs[q] # c /\ conn[subs[q]] = "up"
                             /\ (q # p => subs[q] # subs[p])
      BY <1>0, <1>1, <1>4 DEF Present, MapInv, MapOfUp
    <3>3. \A q \in Present' : conn'[subs'[q]] = "up"
      BY <2>4, <3>1, <3>2
    <3>4. \A q, r \in Present' : subs'[q] = subs'[r] => q = r
      BY <2>4, <3>1 DEF MapInv, MapOfUp
    <3> QED BY <3>3, <3>4 DEF MapOfUp
  <2>6. EveryUpIsKnown'
    <3>1. \A d \in Conns : conn[d] = "up" => \E q \in Peers : subs[q] = d
      BY <1>0 DEF MapInv, EveryUpIsKnown
    <3>2. \A d \in Conns : conn'[d] = "up" => (\E q \in Peers : subs'[q] = d) \/ d = c
      BY <2>2, <2>4, <3>1
    <3>3. \A d \in Conns : conn'[d] \in {"closing", "closed"} => d = subs[p]
      BY <1>2, <2>4
    <3> QED BY <2>3, <3>2, <3>3 DEF EveryUpIsKnown, Waiting
  <2>7. CallKnows'
    <3>1. got'[c] = <<>>
      BY <1>0 DEF ThreadsKnown
    <3>2. \A q \in Peers : subs'[q] # c
      BY <1>0, <1>1, <2>4
    <3> QED BY <2>2, <2>3, <2>4, <3>1, <3>2 DEF CallKnows
  <2>8. WaitsLocked'
    BY <2>1 DEF WaitsLocked
  <2> QED BY <2>5, <2>6, <2>7, <2>8 DEF MapInv
<1> QED BY <1>3, <1>4

\* Every step.
LEMMA MapNext ==
  ASSUME Typed, MapInv, ThreadsKnown, Next
  PROVE  MapInv'
<1> USE DEF pubVars, subVars, histVars
<1>1. ASSUME NEW t \in Media, PublisherStep(t)
      PROVE  MapInv'
  BY <1>1, MapPublisher
<1>2. ASSUME NEW c \in Conns, OnFeedback(c) \/ FeedbackStep(c) \/ SubscriberThreadEnds(c)
      PROVE  MapInv'
  <2>1. UNCHANGED <<subs, conn, app, monitor, got>>
    BY <1>2 DEF OnFeedback, FeedbackStep, FeedbackTest, FeedbackCall, SubscriberThreadEnds
  <2> QED BY <2>1, MapFrame
<1>3. CASE SetPublisher \/ PublisherTransportsClosed \/ PublisherDestroyed
  <2>1. UNCHANGED <<subs, conn, app, monitor, got>>
    BY <1>3 DEF SetPublisher, PublisherTransportsClosed, PublisherDestroyed
  <2> QED BY <2>1, MapFrame
<1>4. ASSUME NEW p \in Peers, RemoveSubscriber(p)
      PROVE  MapInv'
  <2>1. app.op \notin Waiting
    BY <1>4 DEF RemoveSubscriber, Waiting
  <2>2. app'.op = "remove" /\ app'.old = subs[p]
    BY <1>4 DEF RemoveSubscriber, App
  <2>3. subs[p] # 0 /\ subs' = [subs EXCEPT ![p] = 0] /\ monitor' = "app"
        /\ conn' = [conn EXCEPT ![subs[p]] = "closing"]
    BY <1>4 DEF RemoveSubscriber
  <2> QED BY <2>1, <2>2, <2>3, MapVacate
<1>5. ASSUME NEW p \in Peers, NEW c \in Conns, AddSubscriber(p, c)
      PROVE  MapInv'
  BY <1>5, MapAdd
<1>6. CASE CloseAll \/ ClosePublisher
  <2>1. app.op \notin Waiting /\ app'.op \notin Waiting /\ UNCHANGED <<subs, conn>>
    BY <1>6 DEF CloseAll, ClosePublisher, App, Waiting
  <2>2. MapOfUp'
    BY <2>1 DEF MapInv, MapOfUp, Present
  <2>3. EveryUpIsKnown'
    BY <2>1 DEF MapInv, EveryUpIsKnown, Waiting
  <2>4. CallKnows' /\ WaitsLocked'
    BY <2>1 DEF CallKnows, WaitsLocked, Waiting
  <2> QED BY <2>2, <2>3, <2>4 DEF MapInv
<1>7. ASSUME NEW c \in Conns, TransportClosed(c)
      PROVE  MapInv'
  <2>1. /\ conn[c] = "closing" /\ UNCHANGED <<subs, app, monitor, got>>
        /\ conn' = [conn EXCEPT ![c] = "closed"]
        /\ conn \in [Conns -> {"none", "up", "closing", "closed", "gone"}]
    BY <1>7 DEF TransportClosed, Typed, TypeOK
  <2>2. conn'[c] = "closed" /\ \A d \in Conns : d # c => conn'[d] = conn[d]
    BY <2>1
  <2>3. MapOfUp'
    <3>1. subs \in [Peers -> Conns \cup {0}]
      BY DEF Typed, TypeOK
    <3>2. \A q \in Present : subs[q] \in Conns /\ subs[q] # c
      BY <2>1, <3>1 DEF Present, MapInv, MapOfUp
    <3> QED BY <2>1, <2>2, <3>2 DEF MapInv, MapOfUp, Present
  <2>4. EveryUpIsKnown'
    BY <2>1, <2>2 DEF MapInv, EveryUpIsKnown
  <2>5. CallKnows'
    BY <2>1, <2>2 DEF MapInv, CallKnows
  <2>6. WaitsLocked'
    BY <2>1 DEF MapInv, WaitsLocked
  <2> QED BY <2>3, <2>4, <2>5, <2>6 DEF MapInv
<1>8. CASE Substitute
  <2>1. /\ app.op = "substitute" /\ app'.op = "idle"
        /\ conn' = [conn EXCEPT ![app.old] = "gone"]
        /\ subs' = [subs EXCEPT ![app.peer] = app.new]
    BY <1>8 DEF Substitute, Idle, App
  <2>2. /\ app.old \in Conns /\ conn[app.old] \in {"closing", "closed"}
        /\ app.peer \in Peers /\ subs[app.peer] = 0
        /\ app.new \in Conns /\ conn[app.new] = "up"
        /\ \A q \in Peers : subs[q] # app.new
    BY <2>1 DEF MapInv, CallKnows, Waiting
  <2>3. /\ conn' \in [Conns -> {"none", "up", "closing", "closed", "gone"}]
        /\ conn'[app.old] = "gone"
        /\ \A d \in Conns : d # app.old => conn'[d] = conn[d]
    BY <2>1, <2>2 DEF Typed, TypeOK
  <2>4. \A d \in Conns : conn'[d] \notin {"closing", "closed"}
    BY <2>3 DEF MapInv, EveryUpIsKnown
  <2>5. conn'[app.new] = "up"
    BY <2>2, <2>3
  <2>6. app'.op \notin Waiting
    BY <2>1 DEF Waiting
  <2>7. \A d \in Conns : d # app.new => \/ conn'[d] = conn[d]
                                        \/ conn[d] # "up" /\ conn'[d] # "up"
    BY <2>2, <2>3
  <2> QED BY <2>1, <2>2, <2>3, <2>4, <2>5, <2>6, <2>7, MapTake
<1>9. CASE Removed \/ SubscriberDestroyed
  <2>1. /\ app.op \in {"remove", "closeJoin"} /\ subs' = subs
        /\ conn' = [conn EXCEPT ![app.old] = "gone"]
    BY <1>9 DEF Removed, SubscriberDestroyed
  <2>2. app'.op \notin Waiting
    BY <1>9 DEF Removed, SubscriberDestroyed, Idle, App, Waiting
  <2> QED BY <2>1, <2>2, MapGone
<1>10. ASSUME NEW p \in Peers, CloseSubscriber(p)
       PROVE  MapInv'
  <2>1. app.op \notin Waiting
    BY <1>10 DEF CloseSubscriber, Waiting
  <2>2. app'.op = "closeJoin" /\ app'.old = subs[p]
    BY <1>10 DEF CloseSubscriber, App
  <2>3. subs[p] # 0 /\ subs' = [subs EXCEPT ![p] = 0] /\ monitor' = "app"
        /\ conn' = [conn EXCEPT ![subs[p]] = "closing"]
    BY <1>10 DEF CloseSubscriber, Present
  <2> QED BY <2>1, <2>2, <2>3, MapVacate
<1>11. CASE Closed
  <2>1. app.op \notin Waiting /\ app'.op \notin Waiting /\ UNCHANGED <<subs, conn>>
    BY <1>11 DEF Closed, App, Waiting
  <2>2. MapOfUp'
    BY <2>1 DEF MapInv, MapOfUp, Present
  <2>3. EveryUpIsKnown'
    BY <2>1 DEF MapInv, EveryUpIsKnown, Waiting
  <2>4. CallKnows' /\ WaitsLocked'
    BY <2>1 DEF CallKnows, WaitsLocked, Waiting
  <2> QED BY <2>2, <2>3, <2>4 DEF MapInv
<1>12. CASE UNCHANGED vars
  BY <1>12, MapFrame DEF vars
<1> QED BY <1>1, <1>2, <1>3, <1>4, <1>5, <1>6, <1>7, <1>8, <1>9, <1>10, <1>11, <1>12
        DEF Next, Step, CallReturns, Terminated

-----------------------------------------------------------------------------
(***************************************************************************)
(* The loop over the subscribers.                                          *)
(***************************************************************************)
\* What the loop has done, and what it has before it.
LoopInv == LoopAtLast /\ AddedBefore /\ Complete

\* A step that leaves alone what is given out and the map.
LEMMA LoopFrame ==
  ASSUME Typed, Typed', LoopInv, UNCHANGED <<subs, since, got, out, todo, hand>>,
         monitor' \in Media <=> monitor \in Media,
         \A t \in Media : pc'[t] \in {"enter", "loop"} => pc'[t] = pc[t]
  PROVE  LoopInv'
<1>1. LoopAtLast'
  <2>1. /\ monitor' \notin Media => todo' = {}
        /\ monitor' \in Media => todo' # {} /\ todo' \subseteq Present'
    BY DEF LoopInv, LoopAtLast, Present
  <2>2. \A t \in Media : pc'[t] \in {"enter", "loop"} => Len(hand'[t]) = 1
    BY DEF LoopInv, LoopAtLast
  <2>3. \A t \in Media : pc'[t] = "loop" => Len(out') > 0 /\ out'[Len(out')] = hand'[t][1]
    BY DEF LoopInv, LoopAtLast
  <2> QED BY <2>1, <2>2, <2>3 DEF LoopAtLast
<1>2. AddedBefore'
  BY DEF LoopInv, AddedBefore, Present
<1>3. Complete'
  BY DEF LoopInv, Complete, Present
<1> QED BY <1>1, <1>2, <1>3 DEF LoopInv

\* The application changes the map only while no loop is in it; those who stay have what
\* they had, and one who comes has nothing and is due nothing.
LEMMA LoopMap ==
  ASSUME Typed, Typed', LoopInv, UNCHANGED <<got, out, todo, hand, pc>>,
         monitor \notin Media, monitor' \notin Media,
         \A q \in Present' :
           \/ q \in Present /\ subs'[q] = subs[q] /\ since'[subs[q]] = since[subs[q]]
           \/ got[subs'[q]] = <<>> /\ since'[subs'[q]] = Len(out)
  PROVE  LoopInv'
<1>0. todo = {} /\ Len(out) \in Nat /\ out \in Seq(Packet)
  BY LenProperties DEF LoopInv, LoopAtLast, Typed
<1>1. LoopAtLast'
  BY DEF LoopInv, LoopAtLast
<1>2. AddedBefore'
  <2>1. \A q \in Present' : since'[subs'[q]] <= Len(out)
    BY <1>0 DEF LoopInv, AddedBefore
  <2> QED BY <2>1 DEF AddedBefore
<1>3. Complete'
  <2>1. ASSUME NEW q \in Present'
        PROVE  got[subs'[q]] = SubSeq(out, since'[subs'[q]] + 1, Len(out) - 0)
    <3>1. CASE q \in Present /\ subs'[q] = subs[q] /\ since'[subs[q]] = since[subs[q]]
      BY <1>0, <3>1 DEF LoopInv, Complete
    <3>2. CASE got[subs'[q]] = <<>> /\ since'[subs'[q]] = Len(out)
      BY <1>0, <3>2, NothingSince
    <3> QED BY <3>1, <3>2
  <2> QED BY <1>0, <2>1 DEF Complete
<1> QED BY <1>1, <1>2, <1>3 DEF LoopInv

\* A packet is read.
LEMMA LoopRead ==
  ASSUME Typed, Typed', LoopInv, NEW t \in Media,
         NEW s \in {Real("audio"), Real("video"), Stray}, OnTransportData(t, s)
  PROVE  LoopInv'
<1> USE DEF pubVars, subVars, histVars
<1>1. UNCHANGED <<subs, since, got, out, todo, monitor>>
  BY DEF OnTransportData
<1>2. CASE pc' = pc /\ hand' = hand
  BY <1>1, <1>2, LoopFrame
<1>3. ASSUME NEW m \in Media, pc' = [pc EXCEPT ![t] = "enter"],
             hand' = [hand EXCEPT ![t] = <<[media |-> m, ssrc |-> s]>>]
      PROVE  LoopInv'
  <2>1. /\ pc \in [Media -> {"idle", "enter", "loop", "ended"}] /\ pc[t] = "idle"
        /\ hand \in [Media -> Seq(Packet)]
    BY DEF Typed, TypeOK, OnTransportData
  <2>2. /\ pc'[t] = "enter" /\ Len(hand'[t]) = 1
        /\ \A u \in Media : u # t => pc'[u] = pc[u] /\ hand'[u] = hand[u]
    BY <1>3, <2>1
  <2>3. LoopAtLast'
    <3>1. /\ monitor' \notin Media => todo' = {}
          /\ monitor' \in Media => todo' # {} /\ todo' \subseteq Present'
      BY <1>1 DEF LoopInv, LoopAtLast, Present
    <3>2. \A u \in Media : pc'[u] \in {"enter", "loop"} => Len(hand'[u]) = 1
      BY <2>2 DEF LoopInv, LoopAtLast
    <3>3. \A u \in Media : pc'[u] = "loop" => Len(out') > 0 /\ out'[Len(out')] = hand'[u][1]
      BY <1>1, <2>2 DEF LoopInv, LoopAtLast
    <3> QED BY <3>1, <3>2, <3>3 DEF LoopAtLast
  <2>4. AddedBefore'
    BY <1>1 DEF LoopInv, AddedBefore, Present
  <2>5. Complete'
    BY <1>1 DEF LoopInv, Complete, Present
  <2> QED BY <2>3, <2>4, <2>5 DEF LoopInv
<1>4. \/ pc' = pc /\ hand' = hand
      \/ \E m \in Media : /\ pc' = [pc EXCEPT ![t] = "enter"]
                          /\ hand' = [hand EXCEPT ![t] = <<[media |-> m, ssrc |-> s]>>]
  BY DEF OnTransportData, Media
<1> QED BY <1>2, <1>3, <1>4

\* A packet is given out: the loop is before everybody.
LEMMA LoopEnter ==
  ASSUME Typed, Typed', LoopInv, NEW t \in Media, DeliverEnter(t)
  PROVE  LoopInv'
<1> USE DEF pubVars, subVars, histVars
<1>1. /\ UNCHANGED <<subs, since, got>> /\ out' = out \o hand[t]
      /\ pc[t] = "enter" /\ monitor = "free"
  BY DEF DeliverEnter
<1>2. todo = {} /\ Len(hand[t]) = 1 /\ \A u \in Media : pc[u] # "loop"
  BY <1>1 DEF LoopInv, LoopAtLast, Typed, TypeOK, Media
<1>3. /\ out \in Seq(Packet) /\ hand[t] \in Seq(Packet) /\ Len(out) \in Nat
      /\ pc \in [Media -> {"idle", "enter", "loop", "ended"}]
      /\ hand \in [Media -> Seq(Packet)]
  BY LenProperties DEF Typed, TypeOK
<1>4. /\ Len(out') = Len(out) + 1 /\ out'[Len(out')] = hand[t][1]
  <2>1. /\ Len(out \o hand[t]) = Len(out) + Len(hand[t])
        /\ \A i \in 1 .. Len(out) + Len(hand[t]) :
             (out \o hand[t])[i] = IF i <= Len(out) THEN out[i] ELSE hand[t][i - Len(out)]
    BY <1>3, ConcatProperties
  <2>2. Len(out) + 1 \in 1 .. Len(out) + 1 /\ (Len(out) + 1) - Len(out) = 1
        /\ ~(Len(out) + 1 <= Len(out))
    BY <1>3
  <2> QED BY <1>1, <1>2, <2>1, <2>2
<1>5. CASE Present = {}
  <2>1. /\ pc' = [pc EXCEPT ![t] = "idle"] /\ hand' = [hand EXCEPT ![t] = <<>>]
        /\ monitor' = monitor /\ todo' = todo
    BY <1>5 DEF DeliverEnter
  <2>2. Present' = {}
    BY <1>1, <1>5 DEF Present
  <2>3. pc'[t] = "idle" /\ \A u \in Media : u # t => pc'[u] = pc[u] /\ hand'[u] = hand[u]
    BY <1>3, <2>1
  <2>4. LoopAtLast'
    <3>1. \A u \in Media : pc'[u] \in {"enter", "loop"} => Len(hand'[u]) = 1 /\ pc'[u] # "loop"
      BY <1>2, <2>3 DEF LoopInv, LoopAtLast
    <3>2. monitor' \notin Media /\ todo' = {}
      BY <1>1, <1>2, <2>1 DEF Media
    <3> QED BY <3>1, <3>2 DEF LoopAtLast
  <2>5. AddedBefore' /\ Complete'
    BY <2>2 DEF AddedBefore, Complete
  <2> QED BY <2>4, <2>5 DEF LoopInv
<1>6. CASE Present # {}
  <2>1. /\ pc' = [pc EXCEPT ![t] = "loop"] /\ hand' = hand
        /\ monitor' = t /\ todo' = Present
    BY <1>6 DEF DeliverEnter
  <2>2. Present' = Present
    BY <1>1 DEF Present
  <2>3. pc'[t] = "loop" /\ \A u \in Media : u # t => pc'[u] = pc[u]
    BY <1>3, <2>1
  <2>4. LoopAtLast'
    <3>1. \A u \in Media : pc'[u] \in {"enter", "loop"} => Len(hand'[u]) = 1
      BY <1>2, <2>1, <2>3 DEF LoopInv, LoopAtLast
    <3>2. \A u \in Media : pc'[u] = "loop" => Len(out') > 0 /\ out'[Len(out')] = hand'[u][1]
      BY <1>2, <1>3, <1>4, <2>1, <2>3
    <3>3. monitor' \in Media /\ todo' # {} /\ todo' \subseteq Present'
      BY <1>6, <2>1, <2>2
    <3> QED BY <3>1, <3>2, <3>3 DEF LoopAtLast
  <2>5. ASSUME NEW p \in Present
        PROVE  since[subs[p]] \in 0 .. Len(out)
    <3>1. since[subs[p]] <= Len(out)
      BY <1>1 DEF LoopInv, AddedBefore, Media
    <3>2. since[subs[p]] \in Nat
      BY DEF Typed, TypeOK, Present
    <3> QED BY <1>3, <3>1, <3>2
  <2>6. AddedBefore'
    <3>1. \A p \in Present : since[subs[p]] <= Len(out') - 1
      BY <1>3, <1>4, <2>5
    <3> QED BY <1>1, <2>1, <2>2, <3>1 DEF AddedBefore
  <2>7. Complete'
    <3>1. ASSUME NEW p \in Present
          PROVE  got[subs[p]] = SubSeq(out', since[subs[p]] + 1, Len(out') - 1)
      <4>1. got[subs[p]] = SubSeq(out, since[subs[p]] + 1, Len(out))
        BY <1>2, <1>3 DEF LoopInv, Complete
      <4>2. SubSeq(out', since[subs[p]] + 1, Len(out)) = SubSeq(out, since[subs[p]] + 1, Len(out))
        BY <1>1, <1>3, <2>5, GivenStays
      <4>3. Len(out') - 1 = Len(out)
        BY <1>3, <1>4
      <4> QED BY <4>1, <4>2, <4>3
    <3> QED BY <1>1, <2>1, <2>2, <3>1 DEF Complete
  <2> QED BY <2>4, <2>6, <2>7 DEF LoopInv
<1> QED BY <1>5, <1>6

\* A turn of the loop: one subscriber more has it.
LEMMA LoopTurn ==
  ASSUME Typed, Typed', LoopInv, MapOfUp, NEW t \in Media, DeliverNext(t)
  PROVE  LoopInv'
<1> USE DEF pubVars, subVars, histVars
<1> DEFINE p == Min(todo)
           c == subs[p]
<1>1. /\ pc[t] = "loop" /\ monitor = t /\ p \in todo /\ p \in Present
      /\ c \in Conns /\ c # 0 /\ conn[c] = "up"
  BY NextIsUp DEF DeliverNext, LoopInv
<1>2. /\ UNCHANGED <<subs, since, out>> /\ todo' = todo \ {p}
      /\ got' = [got EXCEPT ![c] = @ \o hand[t]]
  BY <1>1 DEF DeliverNext
<1>3. \/ todo' = {} /\ monitor' = "free" /\ pc' = [pc EXCEPT ![t] = "idle"]
         /\ hand' = [hand EXCEPT ![t] = <<>>]
      \/ todo' # {} /\ UNCHANGED <<monitor, pc, hand>>
  BY DEF DeliverNext
<1> HIDE DEF p, c
<1>4. /\ pc \in [Media -> {"idle", "enter", "loop", "ended"}]
      /\ hand \in [Media -> Seq(Packet)] /\ got \in [Conns -> Seq(Packet)]
      /\ out \in Seq(Packet) /\ Len(out) \in Nat
  BY LenProperties DEF Typed, TypeOK
<1>5. Present' = Present
  BY <1>2 DEF Present
<1>6. /\ todo \subseteq Present /\ Len(hand[t]) = 1 /\ Len(out) > 0
      /\ out[Len(out)] = hand[t][1]
      /\ \A u \in Media : u # t => pc[u] # "loop"
  BY <1>1 DEF LoopInv, LoopAtLast, Typed, TypeOK
<1>7. \A q \in Present : since[subs[q]] \in 0 .. Len(out) - 1 /\ subs[q] \in Conns
  <2>1. \A q \in Present : subs[q] \in Conns /\ since[subs[q]] \in Nat
    BY DEF Present, Typed, TypeOK
  <2>2. \A q \in Present : since[subs[q]] <= Len(out) - 1
    BY <1>1 DEF LoopInv, AddedBefore
  <2> QED BY <1>4, <1>6, <2>1, <2>2
<1>8. LoopAtLast'
  <2>1. CASE todo' = {} /\ monitor' = "free" /\ pc' = [pc EXCEPT ![t] = "idle"]
             /\ hand' = [hand EXCEPT ![t] = <<>>]
    <3>1. pc'[t] = "idle" /\ \A u \in Media : u # t => pc'[u] = pc[u] /\ hand'[u] = hand[u]
      BY <1>4, <2>1
    <3>2. \A u \in Media : pc'[u] # "loop" /\ (pc'[u] = "enter" => Len(hand'[u]) = 1)
      BY <1>6, <3>1 DEF LoopInv, LoopAtLast
    <3>3. monitor' \notin Media
      BY <2>1 DEF Media
    <3> QED BY <2>1, <3>2, <3>3 DEF LoopAtLast
  <2>2. CASE todo' # {} /\ UNCHANGED <<monitor, pc, hand>>
    <3>1. \A u \in Media : pc'[u] \in {"enter", "loop"} => Len(hand'[u]) = 1
      BY <2>2 DEF LoopInv, LoopAtLast
    <3>2. \A u \in Media : pc'[u] = "loop" => Len(out') > 0 /\ out'[Len(out')] = hand'[u][1]
      BY <1>2, <2>2 DEF LoopInv, LoopAtLast
    <3>3. monitor' \in Media /\ todo' \subseteq Present'
      BY <1>1, <1>2, <1>5, <1>6, <2>2
    <3> QED BY <2>2, <3>1, <3>2, <3>3 DEF LoopAtLast
  <2> QED BY <1>3, <2>1, <2>2
<1>9. AddedBefore'
  <2>1. \A q \in Present : since[subs[q]] <= Len(out) /\ since[subs[q]] <= Len(out) - 1
    BY <1>4, <1>7
  <2> QED BY <1>2, <1>5, <2>1 DEF AddedBefore
<1>10. Complete'
  <2>1. ASSUME NEW q \in Present, q # p
        PROVE  got'[subs[q]] = SubSeq(out, since[subs[q]] + 1, Len(out) - IF q \in todo' THEN 1 ELSE 0)
    <3>1. subs[q] # c
      BY <1>1, <2>1 DEF MapOfUp, c
    <3>2. got'[subs[q]] = got[subs[q]]
      BY <1>1, <1>2, <1>4, <1>7, <3>1
    <3>3. q \in todo' <=> q \in todo
      BY <1>2, <2>1
    <3>4. got[subs[q]] = SubSeq(out, since[subs[q]] + 1, Len(out) - IF q \in todo THEN 1 ELSE 0)
      BY DEF LoopInv, Complete
    <3> QED BY <3>2, <3>3, <3>4
  <2>2. got'[c] = SubSeq(out, since[c] + 1, Len(out) - 0)
    <3>1. got[c] = SubSeq(out, since[c] + 1, Len(out) - 1)
      BY <1>1 DEF LoopInv, Complete, c
    <3>2. got'[c] = got[c] \o hand[t]
      BY <1>1, <1>2, <1>4
    <3>3. since[c] \in 0 .. Len(out) - 1
      BY <1>1, <1>7 DEF c
    <3>4. SubSeq(out, since[c] + 1, Len(out) - 1) \o hand[t] = SubSeq(out, since[c] + 1, Len(out))
      BY <1>4, <1>6, <3>3, OneMore
    <3>5. Len(out) - 0 = Len(out)
      BY <1>4
    <3> QED BY <3>1, <3>2, <3>4, <3>5
  <2>3. p \notin todo'
    BY <1>2
  <2> QED BY <1>2, <1>5, <2>1, <2>2, <2>3 DEF Complete, c
<1> QED BY <1>8, <1>9, <1>10 DEF LoopInv

\* Every step.
LEMMA LoopNext ==
  ASSUME Typed, Typed', LoopInv, MapInv, ThreadsKnown, Next
  PROVE  LoopInv'
<1> USE DEF pubVars, subVars, histVars
<1>1. ASSUME NEW t \in Media, PublisherStep(t)
      PROVE  LoopInv'
  <2>1. CASE PublisherThreadEnds(t)
    <3>1. UNCHANGED <<subs, since, got, out, todo, hand, monitor>>
      BY <2>1 DEF PublisherThreadEnds
    <3>2. \A u \in Media : pc'[u] \in {"enter", "loop"} => pc'[u] = pc[u]
      BY <2>1 DEF PublisherThreadEnds, Typed, TypeOK
    <3> QED BY <3>1, <3>2, LoopFrame
  <2> QED BY <1>1, <2>1, LoopRead, LoopEnter, LoopTurn DEF PublisherStep, MapInv
<1>2. CASE UNCHANGED <<subs, since, got, out, todo, hand, monitor, pc>>
  BY <1>2, LoopFrame
<1>3. ASSUME NEW c \in Conns, OnFeedback(c) \/ FeedbackStep(c) \/ SubscriberThreadEnds(c)
      PROVE  LoopInv'
  BY <1>2, <1>3 DEF OnFeedback, FeedbackStep, FeedbackTest, FeedbackCall, SubscriberThreadEnds
<1>4. CASE SetPublisher \/ PublisherTransportsClosed \/ PublisherDestroyed \/ CloseAll
           \/ ClosePublisher \/ SubscriberDestroyed \/ \E c \in Conns : TransportClosed(c)
  BY <1>2, <1>4 DEF SetPublisher, PublisherTransportsClosed, PublisherDestroyed, CloseAll,
                    ClosePublisher, SubscriberDestroyed, TransportClosed
<1>5. ASSUME NEW p \in Peers, RemoveSubscriber(p) \/ CloseSubscriber(p)
      PROVE  LoopInv'
  <2>1. /\ UNCHANGED <<since, got, out, todo, hand, pc>>
        /\ monitor \notin Media /\ monitor' \notin Media
        /\ subs' = [subs EXCEPT ![p] = 0]
    BY <1>5 DEF RemoveSubscriber, CloseSubscriber, Media
  <2>2. \A q \in Present' : q \in Present /\ subs'[q] = subs[q]
    BY <2>1 DEF Present, Typed, TypeOK
  <2> QED BY <2>1, <2>2, LoopMap
<1>6. ASSUME NEW p \in Peers, NEW c \in Conns, AddSubscriber(p, c)
      PROVE  LoopInv'
  <2>1. /\ UNCHANGED <<got, out, todo, hand, pc>> /\ monitor = "free" /\ conn[c] = "none"
        /\ subs \in [Peers -> Conns \cup {0}] /\ since \in [Conns -> Nat]
    BY <1>6 DEF AddSubscriber, Typed, TypeOK
  <2>2. CASE subs[p] = 0
    <3>1. /\ subs' = [subs EXCEPT ![p] = c] /\ since' = [since EXCEPT ![c] = Len(out)]
          /\ monitor' = monitor
      BY <1>6, <2>2, AddVacant
    <3>2. \A q \in Present : subs[q] # c /\ q \in Peers
      BY <2>1 DEF MapInv, MapOfUp, Present
    <3>3. got[c] = <<>>
      BY <2>1 DEF ThreadsKnown
    <3>4. subs'[p] = c /\ since'[c] = Len(out)
          /\ \A q \in Peers : q # p => subs'[q] = subs[q]
          /\ \A d \in Conns : d # c => since'[d] = since[d]
      BY <2>1, <3>1
    <3>5. \A q \in Present' : q \in Peers /\ (q # p => q \in Present /\ subs[q] \in Conns)
      BY <2>1, <3>4 DEF Present
    <3>6. \A q \in Present' :
            \/ q \in Present /\ subs'[q] = subs[q] /\ since'[subs[q]] = since[subs[q]]
            \/ got[subs'[q]] = <<>> /\ since'[subs'[q]] = Len(out)
      BY <3>2, <3>3, <3>4, <3>5
    <3>7. monitor \notin Media /\ monitor' \notin Media
      BY <2>1, <3>1 DEF Media
    <3> QED BY <2>1, <3>6, <3>7, LoopMap
  <2>3. CASE subs[p] # 0
    <3>1. subs' = [subs EXCEPT ![p] = 0] /\ since' = since /\ monitor' = "app"
      BY <1>6, <2>3, AddTaken
    <3>2. \A q \in Present' : q \in Present /\ subs'[q] = subs[q]
      BY <2>1, <3>1 DEF Present
    <3>3. monitor \notin Media /\ monitor' \notin Media
      BY <2>1, <3>1 DEF Media
    <3> QED BY <2>1, <3>1, <3>2, <3>3, LoopMap
  <2> QED BY <2>2, <2>3
<1>7. CASE Substitute
  <2>1. /\ app.peer \in Peers /\ subs[app.peer] = 0 /\ app.new \in Conns
        /\ got[app.new] = <<>> /\ \A q \in Peers : subs[q] # app.new
        /\ monitor = "app"
    BY <1>7 DEF Substitute, MapInv, CallKnows, WaitsLocked, Waiting
  <2>2. /\ UNCHANGED <<got, out, todo, hand, pc>> /\ monitor' = "free"
        /\ subs' = [subs EXCEPT ![app.peer] = app.new]
        /\ since' = [since EXCEPT ![app.new] = Len(out)]
        /\ subs \in [Peers -> Conns \cup {0}] /\ since \in [Conns -> Nat]
    BY <1>7 DEF Substitute, Typed, TypeOK
  <2>3. subs'[app.peer] = app.new /\ since'[app.new] = Len(out)
        /\ \A q \in Peers : q # app.peer => subs'[q] = subs[q]
        /\ \A d \in Conns : d # app.new => since'[d] = since[d]
    BY <2>1, <2>2
  <2>4. \A q \in Present' : q \in Peers /\ (q # app.peer => q \in Present /\ subs[q] \in Conns)
    BY <2>2, <2>3 DEF Present
  <2>5. \A q \in Present' :
          \/ q \in Present /\ subs'[q] = subs[q] /\ since'[subs[q]] = since[subs[q]]
          \/ got[subs'[q]] = <<>> /\ since'[subs'[q]] = Len(out)
    BY <2>1, <2>3, <2>4
  <2>6. monitor \notin Media /\ monitor' \notin Media
    BY <2>1, <2>2 DEF Media
  <2> QED BY <2>2, <2>5, <2>6, LoopMap
<1>8. CASE Removed \/ Closed
  <2>1. /\ UNCHANGED <<subs, since, got, out, todo, hand, pc>> /\ monitor' = "free"
    BY <1>8 DEF Removed, Closed
  <2>2. monitor \notin Media /\ monitor' \notin Media
    BY <1>8, <2>1 DEF Removed, Closed, MapInv, WaitsLocked, Waiting, Media
  <2> QED BY <2>1, <2>2, LoopFrame
<1>9. CASE UNCHANGED vars
  BY <1>2, <1>9 DEF vars
<1> QED BY <1>1, <1>3, <1>4, <1>5, <1>6, <1>7, <1>8, <1>9 DEF Next, Step, CallReturns, Terminated

-----------------------------------------------------------------------------
(***************************************************************************)
(* The threads, and what the destructor leaves of them.                    *)
(***************************************************************************)
\* Threads of connections: one that is not added yet has done nothing, one that is gone
\* has ended.
LEMMA ThreadsNext ==
  ASSUME Typed, MapInv, LoopAtLast, ThreadsKnown, Next
  PROVE  ThreadsKnown'
<1> USE DEF pubVars, subVars, histVars
<1>0. /\ conn \in [Conns -> {"none", "up", "closing", "closed", "gone"}]
      /\ thr \in [Conns -> {"idle", "enter", "tested", "ended"}]
      /\ subs \in [Peers -> Conns \cup {0}] /\ got \in [Conns -> Seq(Packet)]
  BY DEF Typed, TypeOK
<1>1. CASE UNCHANGED <<conn, thr, got>>
  BY <1>1 DEF ThreadsKnown
<1>2. ASSUME NEW t \in Media, PublisherStep(t)
      PROVE  ThreadsKnown'
  <2>1. CASE DeliverNext(t)
    <3>1. subs[Min(todo)] \in Conns /\ subs[Min(todo)] # 0 /\ conn[subs[Min(todo)]] = "up"
      BY <2>1, NextIsUp DEF DeliverNext, MapInv
    <3>2. got' = [got EXCEPT ![subs[Min(todo)]] = @ \o hand[t]] /\ UNCHANGED <<conn, thr>>
      BY <2>1, <3>1 DEF DeliverNext
    <3>3. \A c \in Conns : conn[c] = "none" => got'[c] = got[c]
      BY <1>0, <3>1, <3>2
    <3> QED BY <3>2, <3>3 DEF ThreadsKnown
  <2>2. CASE ~DeliverNext(t)
    <3>1. UNCHANGED <<conn, thr, got>>
      BY <1>2, <2>2 DEF PublisherStep, OnTransportData, DeliverEnter, PublisherThreadEnds
    <3> QED BY <1>1, <3>1
  <2> QED BY <2>1, <2>2
<1>3. ASSUME NEW c \in Conns, OnFeedback(c) \/ FeedbackStep(c) \/ SubscriberThreadEnds(c)
      PROVE  ThreadsKnown'
  <2>1. /\ UNCHANGED <<conn, got>> /\ conn[c] \notin {"none", "gone"}
        /\ \A d \in Conns : d # c => thr'[d] = thr[d]
    BY <1>0, <1>3 DEF OnFeedback, FeedbackStep, FeedbackTest, FeedbackCall,
                      SubscriberThreadEnds, ThreadsKnown
  <2> QED BY <2>1 DEF ThreadsKnown
<1>4. ASSUME NEW p \in Peers, RemoveSubscriber(p) \/ CloseSubscriber(p)
      PROVE  ThreadsKnown'
  <2>1. /\ UNCHANGED <<thr, got>> /\ conn' = [conn EXCEPT ![subs[p]] = "closing"]
    BY <1>4 DEF RemoveSubscriber, CloseSubscriber
  <2>2. \A d \in Conns : conn'[d] \in {"none", "gone"} => conn[d] = conn'[d]
    BY <1>0, <2>1
  <2> QED BY <2>1, <2>2 DEF ThreadsKnown
<1>5. ASSUME NEW p \in Peers, NEW c \in Conns, AddSubscriber(p, c)
      PROVE  ThreadsKnown'
  <2>1. UNCHANGED <<thr, got>>
    BY <1>5 DEF AddSubscriber
  <2>2. \A d \in Conns : conn'[d] \in {"none", "gone"} => conn[d] = conn'[d]
    <3>1. CASE subs[p] = 0
      <4>1. conn' = [conn EXCEPT ![c] = "up"]
        BY <1>5, <3>1, AddVacant
      <4> QED BY <1>0, <4>1
    <3>2. CASE subs[p] # 0
      <4>1. conn' = [conn EXCEPT ![subs[p]] = "closing", ![c] = "up"]
        BY <1>5, <3>2, AddTaken
      <4> QED BY <1>0, <4>1
    <3> QED BY <3>1, <3>2
  <2> QED BY <2>1, <2>2 DEF ThreadsKnown
<1>6. ASSUME NEW c \in Conns, TransportClosed(c)
      PROVE  ThreadsKnown'
  <2>1. \A d \in Conns : conn'[d] \in {"none", "gone"} => conn[d] = conn'[d]
    BY <1>0, <1>6 DEF TransportClosed
  <2> QED BY <1>6, <2>1 DEF ThreadsKnown, TransportClosed
<1>7. CASE Substitute \/ Removed \/ SubscriberDestroyed
  <2>1. /\ UNCHANGED <<thr, got>> /\ conn' = [conn EXCEPT ![app.old] = "gone"]
        /\ thr[app.old] = "ended"
    BY <1>7 DEF Substitute, Removed, SubscriberDestroyed
  <2>2. \A d \in Conns : d = app.old \/ conn[d] = conn'[d]
    BY <1>0, <2>1
  <2>3. \A d \in Conns : conn'[d] = "none" => conn[d] = "none"
    BY <1>0, <2>1
  <2> QED BY <2>1, <2>2, <2>3 DEF ThreadsKnown
<1>8. CASE SetPublisher \/ CloseAll \/ ClosePublisher \/ PublisherTransportsClosed
           \/ PublisherDestroyed \/ Closed
  BY <1>1, <1>8 DEF SetPublisher, CloseAll, ClosePublisher, PublisherTransportsClosed,
                    PublisherDestroyed, Closed
<1>9. CASE UNCHANGED vars
  BY <1>1, <1>9 DEF vars
<1> QED BY <1>2, <1>3, <1>4, <1>5, <1>6, <1>7, <1>8, <1>9 DEF Next, Step, CallReturns, Terminated

\* How the application goes from one call to the next, and what the destructor needs.
LEMMA OpMoves ==
  ASSUME Next
  PROVE  \/ app' = app
         \/ app.op = "idle" /\ app'.op \in {"substitute", "remove", "closePublisher"}
            /\ (app'.op # "closePublisher" => sink' = sink)
         \/ app.op \in {"substitute", "remove"} /\ app'.op = "idle" /\ sink' = sink
         \/ app.op = "closePublisher" /\ app'.op = "closeSubscribers"
         \/ app.op = "closeSubscribers" /\ pub = "gone" /\ app'.op = "closeJoin"
         \/ app.op = "closeJoin" /\ app'.op = "closeSubscribers"
         \/ Closed /\ app'.op = "destroyed"
<1> USE DEF pubVars, subVars, histVars
<1>1. ASSUME NEW t \in Media, PublisherStep(t)
      PROVE  app' = app
  BY <1>1 DEF PublisherStep, OnTransportData, DeliverEnter, DeliverNext, PublisherThreadEnds
<1>2. ASSUME NEW c \in Conns, OnFeedback(c) \/ FeedbackStep(c) \/ SubscriberThreadEnds(c)
      PROVE  app' = app
  BY <1>2 DEF OnFeedback, FeedbackStep, FeedbackTest, FeedbackCall, SubscriberThreadEnds
<1>3. SetPublisher \/ PublisherTransportsClosed \/ PublisherDestroyed
      \/ (\E c \in Conns : TransportClosed(c)) => app' = app
  BY DEF SetPublisher, PublisherTransportsClosed, PublisherDestroyed, TransportClosed
<1>4. ASSUME NEW p \in Peers, RemoveSubscriber(p)
      PROVE  app.op = "idle" /\ app'.op = "remove" /\ sink' = sink
  BY <1>4 DEF RemoveSubscriber, App
<1>5. ASSUME NEW p \in Peers, NEW c \in Conns, AddSubscriber(p, c)
      PROVE  app.op = "idle" /\ sink' = sink /\ (app' = app \/ app'.op = "substitute")
  <2>1. app.op = "idle" /\ sink' = sink
    BY <1>5 DEF AddSubscriber
  <2>2. subs[p] = 0 => app' = app
    BY <1>5, AddVacant
  <2>3. subs[p] # 0 => app'.op = "substitute"
    BY <1>5, AddTaken DEF App
  <2> QED BY <2>1, <2>2, <2>3
<1>6. CloseAll => app.op = "idle" /\ app'.op = "closePublisher"
  BY DEF CloseAll, App
<1>7. Substitute \/ Removed => app.op \in {"substitute", "remove"} /\ app'.op = "idle" /\ sink' = sink
  BY DEF Substitute, Removed, Idle, App
<1>8. ClosePublisher => app.op = "closePublisher" /\ app'.op = "closeSubscribers"
  BY DEF ClosePublisher, App
<1>9. ASSUME NEW p \in Peers, CloseSubscriber(p)
      PROVE  app.op = "closeSubscribers" /\ pub = "gone" /\ app'.op = "closeJoin"
  BY <1>9 DEF CloseSubscriber, App
<1>10. SubscriberDestroyed => app.op = "closeJoin" /\ app'.op = "closeSubscribers"
  BY DEF SubscriberDestroyed, App
<1>11. Closed => app'.op = "destroyed"
  BY DEF Closed, App
<1>12. UNCHANGED vars => app' = app
  BY DEF vars
<1> QED BY <1>1, <1>2, <1>3, <1>4, <1>5, <1>6, <1>7, <1>8, <1>9, <1>10, <1>11, <1>12
        DEF Next, Step, CallReturns, Terminated

\* How the publisher comes and goes.
LEMMA PubMoves ==
  ASSUME Next
  PROVE  /\ UNCHANGED <<bundle, sections>>
         /\ \/ pub' = pub
            \/ pub' = "up" /\ pub = "none" /\ UNCHANGED <<pc, app>>
            \/ ClosePublisher
            \/ pub = "closing" /\ pub' = "closed" /\ UNCHANGED <<pc, app>>
            \/ PublisherDestroyed
<1> USE DEF pubVars, subVars, histVars
<1>1. ASSUME NEW t \in Media, PublisherStep(t)
      PROVE  UNCHANGED <<bundle, sections, pub>>
  BY <1>1 DEF PublisherStep, OnTransportData, DeliverEnter, DeliverNext, PublisherThreadEnds
<1>2. ASSUME NEW c \in Conns, \/ OnFeedback(c) \/ FeedbackStep(c) \/ SubscriberThreadEnds(c)
                              \/ TransportClosed(c) \/ \E p \in Peers : AddSubscriber(p, c)
      PROVE  UNCHANGED <<bundle, sections, pub>>
  BY <1>2 DEF OnFeedback, FeedbackStep, FeedbackTest, FeedbackCall, SubscriberThreadEnds,
              TransportClosed, AddSubscriber
<1>3. ASSUME NEW p \in Peers, RemoveSubscriber(p) \/ CloseSubscriber(p)
      PROVE  UNCHANGED <<bundle, sections, pub>>
  BY <1>3 DEF RemoveSubscriber, CloseSubscriber
<1>4. CloseAll \/ Substitute \/ Removed \/ SubscriberDestroyed \/ Closed
      => UNCHANGED <<bundle, sections, pub>>
  BY DEF CloseAll, Substitute, Removed, SubscriberDestroyed, Closed
<1>5. SetPublisher => pub' = "up" /\ pub = "none" /\ UNCHANGED <<bundle, sections, pc, app>>
  BY DEF SetPublisher
<1>6. PublisherTransportsClosed
      => pub = "closing" /\ pub' = "closed" /\ UNCHANGED <<bundle, sections, pc, app>>
  BY DEF PublisherTransportsClosed
<1>7. ClosePublisher \/ PublisherDestroyed => UNCHANGED <<bundle, sections>>
  BY DEF ClosePublisher, PublisherDestroyed
<1>8. UNCHANGED vars => UNCHANGED <<bundle, sections, pub>>
  BY DEF vars
<1> QED BY <1>1, <1>2, <1>3, <1>4, <1>5, <1>6, <1>7, <1>8 DEF Next, Step, CallReturns, Terminated

\* How the publisher's data threads move.
LEMMA PcMoves ==
  ASSUME Typed, Next
  PROVE  \/ pc' = pc
         \/ /\ pub' = pub /\ app' = app
            /\ \A t \in Media : \/ pc'[t] = pc[t] \/ pc'[t] \in {"idle", "ended"}
                                \/ pc[t] = "enter"
                                \/ pub \in {"up", "closing"} /\ t \in Transports
<1> USE DEF pubVars, subVars, histVars
<1>0. pc \in [Media -> {"idle", "enter", "loop", "ended"}]
  BY DEF Typed, TypeOK
<1>1. ASSUME NEW t \in Media, PublisherStep(t)
      PROVE  /\ pub' = pub /\ app' = app
             /\ \A u \in Media : \/ pc'[u] = pc[u] \/ pc'[u] \in {"idle", "ended"}
                                 \/ pc[u] = "enter"
                                 \/ pub \in {"up", "closing"} /\ u \in Transports
  BY <1>0, <1>1 DEF PublisherStep, OnTransportData, DeliverEnter, DeliverNext, PublisherThreadEnds
<1>2. ASSUME NEW c \in Conns, \/ OnFeedback(c) \/ FeedbackStep(c) \/ SubscriberThreadEnds(c)
                              \/ TransportClosed(c) \/ \E p \in Peers : AddSubscriber(p, c)
      PROVE  pc' = pc
  BY <1>2 DEF OnFeedback, FeedbackStep, FeedbackTest, FeedbackCall, SubscriberThreadEnds,
              TransportClosed, AddSubscriber
<1>3. ASSUME NEW p \in Peers, RemoveSubscriber(p) \/ CloseSubscriber(p)
      PROVE  pc' = pc
  BY <1>3 DEF RemoveSubscriber, CloseSubscriber
<1>4. SetPublisher \/ CloseAll \/ Substitute \/ Removed \/ SubscriberDestroyed \/ Closed
      \/ ClosePublisher \/ PublisherTransportsClosed \/ PublisherDestroyed => pc' = pc
  BY DEF SetPublisher, CloseAll, Substitute, Removed, SubscriberDestroyed, Closed,
         ClosePublisher, PublisherTransportsClosed, PublisherDestroyed
<1>5. UNCHANGED vars => pc' = pc
  BY DEF vars
<1> QED BY <1>1, <1>2, <1>3, <1>4, <1>5 DEF Next, Step, CallReturns, Terminated

\* The publisher's threads are there as long as it is.
LEMMA PublisherNext ==
  ASSUME Typed, Typed', PublisherKnown, Next
  PROVE  PublisherKnown'
<1> USE DEF pubVars, subVars, histVars
<1>0. Transports' = Transports /\ pc \in [Media -> {"idle", "enter", "loop", "ended"}]
  BY PubMoves DEF Transports, Typed, TypeOK
<1>1. CASE ClosePublisher
  <2>1. /\ app'.op = "closeSubscribers" /\ pc' = pc
        /\ \/ pub = "none" /\ pub' = "gone"
           \/ pub # "none" /\ pub' = "closing"
    BY <1>1 DEF ClosePublisher, App
  <2> QED BY <1>0, <2>1 DEF PublisherKnown
<1>2. CASE PublisherDestroyed
  <2>1. pub = "closed" /\ pub' = "gone" /\ UNCHANGED <<pc, app>>
        /\ \A t \in Transports : pc[t] = "ended"
    BY <1>2 DEF PublisherDestroyed
  <2> QED BY <1>0, <2>1 DEF PublisherKnown
<1>3. CASE \/ pub' = "up" /\ pub = "none" /\ UNCHANGED <<pc, app>>
           \/ pub = "closing" /\ pub' = "closed" /\ UNCHANGED <<pc, app>>
  BY <1>0, <1>3 DEF PublisherKnown
<1>4. CASE pub' = pub
  <2>1. /\ \A t \in Media : pub' = "none" \/ t \notin Transports' => pc'[t] \in {"idle", "ended"}
        /\ pub' = "gone" => \A t \in Media : pc'[t] \in {"idle", "ended"}
    <3>1. CASE pc' = pc
      BY <1>0, <1>4, <3>1 DEF PublisherKnown
    <3>2. CASE \A t \in Media : \/ pc'[t] = pc[t] \/ pc'[t] \in {"idle", "ended"}
                                \/ pc[t] = "enter"
                                \/ pub \in {"up", "closing"} /\ t \in Transports
      BY <1>0, <1>4, <3>2 DEF PublisherKnown
    <3> QED BY <3>1, <3>2, PcMoves
  <2>2. /\ pub' \in {"closing", "closed", "gone"}
           => app'.op \in {"closeSubscribers", "closeJoin", "destroyed"}
        /\ app'.op = "destroyed" => pub' = "gone"
    <3>1. Closed => pub = "gone"
      BY DEF Closed
    <3> QED BY <1>4, <3>1, OpMoves DEF PublisherKnown
  <2> QED BY <2>1, <2>2 DEF PublisherKnown
<1> QED BY <1>1, <1>2, <1>3, <1>4, PubMoves

\* Who has tested feedbackSink_ finds it, until closeAll.
LEMMA SinkNext ==
  ASSUME Typed, SinkTested, Next
  PROVE  SinkTested'
<1> USE DEF pubVars, subVars, histVars
<1>0. thr \in [Conns -> {"idle", "enter", "tested", "ended"}]
  BY DEF Typed, TypeOK
<1>1. app.op \in Closing \cup {"destroyed"} => app'.op \in Closing \cup {"destroyed"}
  BY OpMoves DEF Closing
<1>2. ASSUME thr' = thr, sink' = sink
      PROVE  SinkTested'
  BY <1>1, <1>2, Zenon DEF SinkTested
<1>3. ASSUME NEW c \in Conns, FeedbackTest(c)
      PROVE  SinkTested'
  <2>1. sink' = sink /\ app' = app /\ \A d \in Conns : d # c => thr'[d] = thr[d]
    BY <1>0, <1>3 DEF FeedbackTest
  <2>2. thr'[c] = "tested" => sink
    BY <1>0, <1>3 DEF FeedbackTest
  <2>3. ASSUME NEW d \in Conns, thr'[d] = "tested"
        PROVE  sink \/ app.op \in Closing \cup {"destroyed"}
    <3>1. CASE d = c
      BY <2>2, <2>3, <3>1, Zenon
    <3>2. CASE d # c
      BY <2>1, <2>3, <3>2, Zenon DEF SinkTested
    <3> QED BY <3>1, <3>2
  <2> QED BY <2>1, <2>3, Zenon DEF SinkTested
<1>4. ASSUME NEW c \in Conns,
             \/ OnFeedback(c) \/ SubscriberThreadEnds(c)
             \/ \E f \in Feedback, again \in BOOLEAN : FeedbackCall(c, f, again)
      PROVE  SinkTested'
  <2>1. sink' = sink /\ app' = app
        /\ \A d \in Conns : thr'[d] = "tested" => thr[d] = "tested"
    BY <1>0, <1>4 DEF OnFeedback, SubscriberThreadEnds, FeedbackCall
  <2> QED BY <2>1, Zenon DEF SinkTested
<1>5. ASSUME NEW t \in Media, PublisherStep(t)
      PROVE  thr' = thr /\ sink' = sink
  BY <1>5 DEF PublisherStep, OnTransportData, DeliverEnter, DeliverNext, PublisherThreadEnds
<1>6. ASSUME NEW p \in Peers, RemoveSubscriber(p) \/ CloseSubscriber(p)
                              \/ \E c \in Conns : AddSubscriber(p, c)
      PROVE  thr' = thr /\ sink' = sink
  BY <1>6 DEF RemoveSubscriber, CloseSubscriber, AddSubscriber
<1>7. CASE SetPublisher
  <2>1. sink'
    BY <1>7 DEF SetPublisher
  <2> QED BY <2>1, Zenon DEF SinkTested
<1>8. CASE CloseAll
  <2>1. app'.op \in Closing
    BY <1>8 DEF CloseAll, App, Closing
  <2> QED BY <2>1, Zenon DEF SinkTested
<1>9. Substitute \/ Removed \/ SubscriberDestroyed \/ Closed
      \/ ClosePublisher \/ PublisherTransportsClosed \/ PublisherDestroyed
      \/ (\E c \in Conns : TransportClosed(c)) => thr' = thr /\ sink' = sink
  BY DEF Substitute, Removed, SubscriberDestroyed, Closed,
         ClosePublisher, PublisherTransportsClosed, PublisherDestroyed, TransportClosed
<1>10. UNCHANGED vars => thr' = thr /\ sink' = sink
  BY DEF vars
<1> QED BY <1>2, <1>3, <1>4, <1>5, <1>6, <1>7, <1>8, <1>9, <1>10
        DEF Next, Step, FeedbackStep, CallReturns, Terminated

\* Nothing that is no more is used, but by feedback while the processor is destroyed; and
\* nothing is left of it afterwards.
LEMMA UnsafeNext ==
  ASSUME Typed, MapInv, LoopAtLast, ThreadsKnown, PublisherKnown, PublisherKnown', SinkTested,
         UnsafeOnlyWhenClosing, Next
  PROVE  UnsafeOnlyWhenClosing'
<1> USE DEF pubVars, subVars, histVars
<1>1. crashed' => app'.op \in Closing
  <2>1. ASSUME NEW t \in Media, ~crashed, PublisherStep(t)
        PROVE  ~crashed'
    <3>1. CASE DeliverNext(t)
      <4>1. subs[Min(todo)] # 0 /\ conn[subs[Min(todo)]] = "up"
        BY <3>1, NextIsUp DEF DeliverNext, MapInv
      <4> QED BY <2>1, <3>1, <4>1 DEF DeliverNext
    <3> QED BY <2>1, <3>1 DEF PublisherStep, OnTransportData, DeliverEnter, PublisherThreadEnds
  <2>2. ASSUME NEW c \in Conns, ~crashed, NEW f \in Feedback, NEW again \in BOOLEAN,
               FeedbackCall(c, f, again), crashed'
        PROVE  app'.op \in Closing
    <3>1. app' = app /\ thr[c] = "tested"
      BY <2>2 DEF FeedbackCall
    <3>2. ~sink \/ pub = "gone"
      BY <2>2, Zenon DEF FeedbackCall
    <3>3. app.op # "destroyed"
      BY <3>1 DEF UnsafeOnlyWhenClosing
    <3>4. app.op \in Closing \cup {"destroyed"}
      <4>1. CASE ~sink
        BY <3>1, <4>1, Zenon DEF SinkTested
      <4>2. CASE pub = "gone"
        BY <4>2 DEF PublisherKnown, Closing
      <4> QED BY <3>2, <4>1, <4>2
    <3> QED BY <3>1, <3>3, <3>4
  <2>3. ASSUME NEW c \in Conns, \/ OnFeedback(c) \/ FeedbackTest(c) \/ SubscriberThreadEnds(c)
                                \/ TransportClosed(c) \/ \E p \in Peers : AddSubscriber(p, c)
        PROVE  crashed' = crashed
    BY <2>3 DEF OnFeedback, FeedbackTest, SubscriberThreadEnds, TransportClosed, AddSubscriber
  <2>4. ASSUME NEW p \in Peers, RemoveSubscriber(p) \/ CloseSubscriber(p)
        PROVE  crashed' = crashed
    BY <2>4 DEF RemoveSubscriber, CloseSubscriber
  <2>5. SetPublisher \/ CloseAll \/ Substitute \/ Removed \/ SubscriberDestroyed \/ Closed
        \/ ClosePublisher \/ PublisherTransportsClosed \/ PublisherDestroyed
        => crashed' = crashed
    BY DEF SetPublisher, CloseAll, Substitute, Removed, SubscriberDestroyed, Closed,
           ClosePublisher, PublisherTransportsClosed, PublisherDestroyed
  <2>6. CASE UNCHANGED vars
    BY <2>6 DEF vars, UnsafeOnlyWhenClosing, Closing
  <2> QED BY <2>1, <2>2, <2>3, <2>4, <2>5, <2>6, Zenon
          DEF Next, Step, FeedbackStep, CallReturns, Terminated
<1>2. ASSUME app'.op = "destroyed"
      PROVE  /\ pub' = "gone" /\ \A t \in Media : pc'[t] \in {"idle", "ended"}
             /\ \A c \in Conns : conn'[c] \in {"none", "gone"} /\ thr'[c] \in {"idle", "ended"}
  <2>1. pub' = "gone" /\ \A t \in Media : pc'[t] \in {"idle", "ended"}
    BY <1>2 DEF PublisherKnown
  <2>2. CASE Closed
    <3>1. UNCHANGED <<conn, thr>> /\ app.op = "closeSubscribers" /\ Present = {}
      BY <2>2 DEF Closed
    <3>2. \A c \in Conns : conn[c] \in {"none", "gone"}
      <4>1. \A c \in Conns : conn[c] \notin {"closing", "closed"}
        BY <3>1 DEF MapInv, EveryUpIsKnown, Waiting
      <4>2. \A c \in Conns : conn[c] # "up"
        <5>1. \A p \in Peers : subs[p] = 0 /\ 0 \notin Conns
          BY <3>1, OneToManyAssumption DEF Present, OneToManyAssumption
        <5> QED BY <3>1, <5>1 DEF MapInv, EveryUpIsKnown
      <4> QED BY <4>1, <4>2 DEF Typed, TypeOK
    <3> QED BY <2>1, <3>1, <3>2 DEF ThreadsKnown
  <2>3. CASE app.op = "destroyed"
    <3>1. /\ pub = "gone"
          /\ \A c \in Conns : conn[c] \in {"none", "gone"} /\ thr[c] \in {"idle", "ended"}
      BY <2>3 DEF UnsafeOnlyWhenClosing
    <3>2. UNCHANGED <<conn, thr>>
      <4>1. ASSUME NEW t \in Media, PublisherStep(t)
            PROVE  UNCHANGED <<conn, thr>>
        BY <4>1 DEF PublisherStep, OnTransportData, DeliverEnter, DeliverNext, PublisherThreadEnds
      <4>2. ASSUME NEW c \in Conns, \/ OnFeedback(c) \/ FeedbackStep(c) \/ SubscriberThreadEnds(c)
                                    \/ TransportClosed(c) \/ \E p \in Peers : AddSubscriber(p, c)
            PROVE  FALSE
        BY <2>3, <3>1, <4>2 DEF OnFeedback, FeedbackStep, FeedbackTest, FeedbackCall,
                                SubscriberThreadEnds, TransportClosed, AddSubscriber
      <4>3. ASSUME NEW p \in Peers, RemoveSubscriber(p) \/ CloseSubscriber(p)
            PROVE  FALSE
        BY <2>3, <4>3 DEF RemoveSubscriber, CloseSubscriber
      <4>4. Substitute \/ Removed \/ SubscriberDestroyed => FALSE
        BY <2>3 DEF Substitute, Removed, SubscriberDestroyed
      <4>5. SetPublisher \/ CloseAll \/ Closed \/ ClosePublisher
            \/ PublisherTransportsClosed \/ PublisherDestroyed => UNCHANGED <<conn, thr>>
        BY DEF SetPublisher, CloseAll, Closed, ClosePublisher, PublisherTransportsClosed,
               PublisherDestroyed
      <4>6. UNCHANGED vars => UNCHANGED <<conn, thr>>
        BY DEF vars
      <4> QED BY <4>1, <4>2, <4>3, <4>4, <4>5, <4>6 DEF Next, Step, CallReturns, Terminated
    <3> QED BY <2>1, <3>1, <3>2
  <2>4. Closed \/ app.op = "destroyed"
    BY <1>2, OpMoves
  <2> QED BY <2>2, <2>3, <2>4
<1> QED BY <1>1, <1>2 DEF UnsafeOnlyWhenClosing, Closing

-----------------------------------------------------------------------------
(***************************************************************************)
(* SSRCs and feedback.                                                     *)
(***************************************************************************)
\* What is known of the SSRCs, and what feedback makes of it.
SsrcInv == SsrcKnown /\ GivenIsTraceable /\ FeedbackFindsSource /\ FeedbackIsOurs

\* A step that leaves the SSRCs alone and gives out nothing that was not at hand.
LEMMA SsrcFrame ==
  ASSUME SsrcInv, UNCHANGED <<bundle, sections, ssrc, strayed, ignored, sent>>,
         \A i \in DOMAIN out' : Traceable(out'[i]),
         \A t \in Media : \A i \in DOMAIN hand'[t] : Traceable(hand'[t][i])
  PROVE  SsrcInv'
<1>1. SsrcKnown'
  BY DEF SsrcInv, SsrcKnown
<1>2. GivenIsTraceable'
  BY Zenon DEF GivenIsTraceable, Traceable
<1>3. FeedbackFindsSource'
  BY Zenon DEF SsrcInv, FeedbackFindsSource
<1>4. FeedbackIsOurs'
  BY Zenon DEF SsrcInv, FeedbackIsOurs, Transports
<1> QED BY <1>1, <1>2, <1>3, <1>4 DEF SsrcInv

\* A packet is read, and its SSRC learned if the transport's is not known.
LEMMA SsrcRead ==
  ASSUME Typed, Typed', SsrcInv, NEW t \in Media,
         NEW s \in {Real("audio"), Real("video"), Stray}, OnTransportData(t, s)
  PROVE  SsrcInv'
<1> USE DEF pubVars, subVars, histVars
<1>0. /\ ssrc \in [Media -> {0, Real("audio"), Real("video"), Stray}]
      /\ hand \in [Media -> Seq(Packet)] /\ out \in Seq(Packet)
      /\ strayed \in BOOLEAN
  BY DEF Typed, TypeOK
<1>1. UNCHANGED <<bundle, sections, ignored, sent, out>> /\ t \in Transports /\ s \in Read(t)
  BY DEF OnTransportData
<1>2. \/ hand' = hand
      \/ \E m \in Media : hand' = [hand EXCEPT ![t] = <<[media |-> m, ssrc |-> s]>>]
  BY DEF OnTransportData, Media
<1>3. CASE bundle
  <2>1. UNCHANGED <<ssrc, strayed>>
    BY <1>3 DEF OnTransportData
  <2>2. hand' # hand => s \in {ssrc["video"], ssrc["audio"]}
    BY <1>3 DEF OnTransportData
  <2>3. \A u \in Media : \A i \in DOMAIN hand'[u] : Traceable(hand'[u][i])
    <3>1. CASE hand' = hand
      BY <3>1 DEF SsrcInv, GivenIsTraceable
    <3>2. ASSUME NEW m \in Media, hand' # hand,
                 hand' = [hand EXCEPT ![t] = <<[media |-> m, ssrc |-> s]>>]
          PROVE  \A u \in Media : \A i \in DOMAIN hand'[u] : Traceable(hand'[u][i])
      <4>1. Traceable([media |-> m, ssrc |-> s])
        BY <2>2, <3>2 DEF Traceable
      <4>2. hand'[t] = <<[media |-> m, ssrc |-> s]>> /\ \A u \in Media : u # t => hand'[u] = hand[u]
        BY <1>0, <3>2
      <4>3. \A i \in DOMAIN hand'[t] : hand'[t][i] = [media |-> m, ssrc |-> s]
        BY <4>2
      <4>4. \A i \in DOMAIN hand'[t] : Traceable(hand'[t][i])
        BY <4>1, <4>3
      <4>5. \A u \in Media : u # t => \A i \in DOMAIN hand'[u] : Traceable(hand'[u][i])
        BY <4>2 DEF SsrcInv, GivenIsTraceable
      <4> QED BY <4>4, <4>5
    <3> QED BY <1>2, <3>1, <3>2
  <2>4. \A i \in DOMAIN out' : Traceable(out'[i])
    BY <1>1 DEF SsrcInv, GivenIsTraceable
  <2> QED BY <1>1, <2>1, <2>3, <2>4, SsrcFrame
<1>4. CASE ~bundle
  <2> DEFINE Now(pkt) == \/ pkt.ssrc \in {Stray, ssrc'["video"], ssrc'["audio"]}
                         \/ strayed'
  <2>1. t \in sections /\ s \in {Real(t), Stray}
    BY <1>1, <1>4 DEF Transports, Read
  <2>2. LearnSsrc(t, s)
    BY <1>4 DEF OnTransportData
  <2>3. /\ ssrc'[t] = (IF ssrc[t] = 0 THEN s ELSE ssrc[t])
        /\ \A m \in Media : m # t => ssrc'[m] = ssrc[m]
    BY <1>0, <2>2 DEF LearnSsrc
  <2>4. strayed => strayed'
    BY <2>2, Zenon DEF LearnSsrc
  <2>5. ssrc[t] = 0 /\ s = Stray => strayed'
    BY <2>2, Zenon DEF LearnSsrc
  <2>6. SsrcKnown'
    <3>1. ssrc'[t] \in {0, Real(t), Stray}
      BY <2>1, <2>3 DEF SsrcInv, SsrcKnown
    <3>2. ssrc'[t] = Stray => strayed'
      BY <2>1, <2>3, <2>4, <2>5, Zenon DEF SsrcInv, SsrcKnown
    <3>3. ASSUME NEW m \in Media, m # t
          PROVE  /\ ssrc'[m] \in {0, Real(m), Stray}
                 /\ ssrc'[m] = Stray => strayed'
                 /\ m \notin sections' => ssrc'[m] = 0
      BY <1>1, <2>3, <2>4, <3>3, Zenon DEF SsrcInv, SsrcKnown
    <3> QED BY <1>1, <2>1, <3>1, <3>2, <3>3, Zenon DEF SsrcKnown
  <2>7. ASSUME NEW pkt \in Packet, Traceable(pkt)
        PROVE  Now(pkt)
    <3>1. pkt.ssrc # 0
      BY DEF Packet, Real, Stray
    <3>2. \A m \in Media : ssrc[m] = pkt.ssrc => ssrc'[m] = pkt.ssrc
      BY <2>3, <3>1
    <3>3. pkt.ssrc \in {Stray, ssrc["video"], ssrc["audio"]}
          => pkt.ssrc \in {Stray, ssrc'["video"], ssrc'["audio"]}
      BY <3>2 DEF Media
    <3> QED BY <2>4, <2>7, <3>3, Zenon DEF Traceable
  <2>8. ASSUME NEW m \in Media
        PROVE  Now([media |-> m, ssrc |-> s])
    <3>1. s = Stray \/ s = ssrc'[t] \/ strayed'
      BY <2>1, <2>3, <2>6 DEF SsrcInv, SsrcKnown
    <3>2. s \in {Stray, ssrc'["video"], ssrc'["audio"]} \/ strayed'
      BY <3>1 DEF Media
    <3>3. [media |-> m, ssrc |-> s].ssrc = s
      OBVIOUS
    <3> QED BY <3>2, <3>3, Zenon
  <2> HIDE DEF Now
  <2>9. GivenIsTraceable'
    <3>1. \A i \in DOMAIN out' : Now(out'[i])
      <4>1. \A i \in DOMAIN out : out[i] \in Packet /\ Traceable(out[i])
        BY <1>0, ElementOfSeq DEF SsrcInv, GivenIsTraceable
      <4> QED BY <1>1, <2>7, <4>1
    <3>2. ASSUME NEW u \in Media, hand'[u] = hand[u], NEW i \in DOMAIN hand'[u]
          PROVE  Now(hand'[u][i])
      <4>1. hand[u][i] \in Packet
        BY <1>0, <3>2
      <4>2. Traceable(hand[u][i])
        BY <3>2 DEF SsrcInv, GivenIsTraceable
      <4>3. Now(hand[u][i])
        BY <2>7, <4>1, <4>2
      <4> QED BY <3>2, <4>3
    <3>3. ASSUME NEW m \in Media, hand'[t] = <<[media |-> m, ssrc |-> s]>>,
                 NEW i \in DOMAIN hand'[t]
          PROVE  Now(hand'[t][i])
      <4>1. hand'[t][i] = [media |-> m, ssrc |-> s]
        BY <3>3
      <4> QED BY <2>8, <4>1
    <3>4. \A u \in Media : \/ hand'[u] = hand[u]
                           \/ u = t /\ \E m \in Media : hand'[t] = <<[media |-> m, ssrc |-> s]>>
      BY <1>0, <1>2
    <3>5. \A u \in Media : \A i \in DOMAIN hand'[u] : Now(hand'[u][i])
      BY <3>2, <3>3, <3>4
    <3> QED BY <3>1, <3>5, Zenon DEF GivenIsTraceable, Traceable, Now
  <2>10. FeedbackFindsSource'
    BY <1>1, <2>4, Zenon DEF SsrcInv, FeedbackFindsSource
  <2>11. FeedbackIsOurs'
    BY <1>1, <2>4, Zenon DEF SsrcInv, FeedbackIsOurs, Transports
  <2> QED BY <2>6, <2>9, <2>10, <2>11 DEF SsrcInv
<1> QED BY <1>3, <1>4

\* analyzeFeedback changes neither what a block is nor what it is about, and issues every
\* receiver report again.
LEMMA AnalyzedKeeps ==
  ASSUME NEW f \in Seq(Block)
  PROVE  /\ DOMAIN Analyzed(f) = DOMAIN f
         /\ \A i \in DOMAIN f :
              /\ Analyzed(f)[i].source = f[i].source
              /\ Analyzed(f)[i].kind = "rr"
                 => Analyzed(f)[i].from = SinkSsrc(IF f[i].source = ssrc["video"]
                                                   THEN "video" ELSE "audio")
<1>1. DOMAIN Analyzed(f) = DOMAIN f
  BY DEF Analyzed
<1>2. ASSUME NEW i \in DOMAIN f
      PROVE  /\ Analyzed(f)[i].source = f[i].source
             /\ Analyzed(f)[i].kind = "rr"
                => Analyzed(f)[i].from = SinkSsrc(IF f[i].source = ssrc["video"]
                                                  THEN "video" ELSE "audio")
  <2>0. f[i] \in Block
    BY <1>2, ElementOfSeq, LenProperties
  <2>1. f[i] \in [kind: STRING, source: Nat, from: Nat, rate: Nat]
    BY <2>0 DEF Block
  <2>2. CASE f[i].kind = "rr"
    <3> DEFINE m == IF f[i].source = ssrc["video"] THEN "video" ELSE "audio"
    <3>1. Analyzed(f)[i] = [f[i] EXCEPT !.from = SinkSsrc(m)]
      BY <1>2, <2>2 DEF Analyzed
    <3> HIDE DEF m
    <3>2. [f[i] EXCEPT !.from = SinkSsrc(m)].from = SinkSsrc(m)
          /\ [f[i] EXCEPT !.from = SinkSsrc(m)].source = f[i].source
      BY <2>1
    <3> QED BY <3>1, <3>2 DEF m
  <2>3. CASE f[i].kind = "remb"
    <3>1. PICK r : Analyzed(f)[i] = [f[i] EXCEPT !.rate = r]
      BY <1>2, <2>3 DEF Analyzed
    <3>2. [f[i] EXCEPT !.rate = r].kind = f[i].kind
          /\ [f[i] EXCEPT !.rate = r].source = f[i].source
      BY <2>1
    <3> QED BY <2>3, <3>1, <3>2
  <2>4. CASE f[i].kind \notin {"rr", "remb"}
    <3>1. Analyzed(f)[i] = f[i]
      BY <1>2, <2>4 DEF Analyzed
    <3> QED BY <2>4, <3>1
  <2> QED BY <2>2, <2>3, <2>4
<1> QED BY <1>1, <1>2

\* Feedback: what is dropped was not given out, what is sent has a transport and an issuer.
LEMMA SsrcFeedback ==
  ASSUME Typed, SsrcInv, NEW f \in Feedback, DeliverFeedback(f),
         UNCHANGED <<bundle, sections, ssrc, strayed, out, hand>>
  PROVE  SsrcInv'
<1> DEFINE s == f[1].source
           m == IF s = ssrc["video"] THEN "video" ELSE "audio"
<1>0. f \in Seq(Block) /\ f # <<>>
  BY OneToManyAssumption DEF OneToManyAssumption
<1>1. SsrcKnown' /\ GivenIsTraceable'
  <2>1. SsrcKnown'
    BY Zenon DEF SsrcInv, SsrcKnown
  <2>2. GivenIsTraceable'
    BY Zenon DEF SsrcInv, GivenIsTraceable, Traceable
  <2> QED BY <2>1, <2>2
<1>2. CASE UNCHANGED <<sent, ignored>>
  <2>1. FeedbackFindsSource'
    BY <1>2, Zenon DEF SsrcInv, FeedbackFindsSource
  <2>2. FeedbackIsOurs'
    BY <1>2, Zenon DEF SsrcInv, FeedbackIsOurs, Transports
  <2> QED BY <1>1, <2>1, <2>2 DEF SsrcInv
<1>3. CASE /\ s \in {ssrc["video"], ssrc["audio"]}
           /\ sent' = <<[to |-> IF bundle THEN "video" ELSE m, blocks |-> Analyzed(f),
                         heard |-> Heard]>>
           /\ UNCHANGED ignored
  <2>1. FeedbackFindsSource'
    BY <1>3, Zenon DEF SsrcInv, FeedbackFindsSource
  <2>2. 1 \in DOMAIN f
    BY <1>0, LenProperties, EmptySeq
  <2>3. (IF bundle THEN "video" ELSE m) \in Transports \/ s = 0
    <3>1. CASE bundle
      BY <3>1 DEF Transports
    <3>2. CASE ~bundle
      <4>1. s = ssrc[m] /\ m \in Media
        BY <1>3 DEF Media
      <4>2. m \notin sections => s = 0
        BY <4>1 DEF SsrcInv, SsrcKnown
      <4> QED BY <3>2, <4>2 DEF Transports
    <3> QED BY <3>1, <3>2
  <2> DEFINE e == [to |-> IF bundle THEN "video" ELSE m, blocks |-> Analyzed(f),
                   heard |-> Heard]
  <2>4. e.to = (IF bundle THEN "video" ELSE m) /\ e.blocks = Analyzed(f) /\ e.heard = Heard
    OBVIOUS
  <2>5. /\ e.to \in Transports' \/ e.blocks[1].source = 0
        /\ \A i \in DOMAIN e.blocks :
             e.blocks[i].kind = "rr" =>
               /\ e.blocks[i].from \in {SinkSsrc(n) : n \in Media}
               /\ \A n \in e.heard : e.blocks[i].source = Real(n)
                                       => e.blocks[i].from = SinkSsrc(n) \/ strayed'
    <3> HIDE DEF e, m
    <3>1. Transports' = Transports
      BY DEF Transports
    <3>2. Analyzed(f)[1].source = s
      BY <1>0, <2>2, AnalyzedKeeps
    <3>3. e.to \in Transports' \/ e.blocks[1].source = 0
      BY <2>3, <2>4, <3>1, <3>2
    <3>4. ASSUME NEW i \in DOMAIN e.blocks, e.blocks[i].kind = "rr"
          PROVE  e.blocks[i].from \in {SinkSsrc(n) : n \in Media}
      <4>1. i \in DOMAIN f
        BY <1>0, <2>4, <3>4, AnalyzedKeeps
      <4>2. e.blocks[i].from = SinkSsrc(IF f[i].source = ssrc["video"] THEN "video" ELSE "audio")
        BY <1>0, <2>4, <3>4, <4>1, AnalyzedKeeps
      <4> QED BY <4>2 DEF Media
    <3>5. ASSUME NEW i \in DOMAIN e.blocks, e.blocks[i].kind = "rr",
                 NEW n \in e.heard, e.blocks[i].source = Real(n)
          PROVE  e.blocks[i].from = SinkSsrc(n) \/ strayed'
      <4>1. i \in DOMAIN f
        BY <1>0, <2>4, <3>5, AnalyzedKeeps
      <4>2. /\ e.blocks[i].from = SinkSsrc(IF f[i].source = ssrc["video"]
                                           THEN "video" ELSE "audio")
            /\ f[i].source = Real(n)
        BY <1>0, <2>4, <3>5, <4>1, AnalyzedKeeps
      <4>3. n \in Media /\ (Real(n) = ssrc["video"] => n = "video")
        <5>1. n \in Media
          BY <2>4, <3>5 DEF Heard
        <5>2. ssrc["video"] \in {0, 2, 9} /\ Real("audio") = 1
          BY DEF SsrcInv, SsrcKnown, Media, Real, Stray
        <5> QED BY <5>1, <5>2 DEF Media
      <4>4. n = "video" => Real(n) = ssrc["video"] \/ strayed
        <5> SUFFICES ASSUME n = "video", ~strayed PROVE Real(n) = ssrc["video"]
          OBVIOUS
        <5>1. PICK j \in DOMAIN out : out[j].ssrc = Real(n)
          BY <2>4, <3>5 DEF Heard
        <5>2. Real(n) \in {Stray, ssrc["video"], ssrc["audio"]}
          BY <5>1 DEF SsrcInv, GivenIsTraceable, Traceable
        <5>3. ssrc["audio"] \in {0, 1, 9}
          BY DEF SsrcInv, SsrcKnown, Media, Real, Stray
        <5>4. ssrc["audio"] # 9
          BY DEF SsrcInv, SsrcKnown, Media, Stray
        <5> QED BY <5>2, <5>3 DEF Real, Stray
      <4> QED BY <4>2, <4>3, <4>4 DEF Media
    <3> QED BY <3>3, <3>4, <3>5
  <2>6. sent' = <<e>>
    BY <1>3
  <2> HIDE DEF e
  <2>7. \A k \in DOMAIN sent' : sent'[k] = e
    BY <2>6
  <2>8. FeedbackIsOurs'
    BY <2>5, <2>7, Zenon DEF FeedbackIsOurs
  <2> QED BY <1>1, <2>1, <2>8 DEF SsrcInv
<1>4. CASE /\ s \notin {ssrc["video"], ssrc["audio"]}
           /\ ignored' = (ignored \/ (s # Stray /\ \E i \in DOMAIN out : out[i].ssrc = s))
           /\ UNCHANGED sent
  <2>1. s # Stray /\ (\E i \in DOMAIN out : out[i].ssrc = s) => strayed
    BY <1>4, Zenon DEF SsrcInv, GivenIsTraceable, Traceable
  <2>2. FeedbackFindsSource'
    BY <1>4, <2>1, Zenon DEF SsrcInv, FeedbackFindsSource
  <2>3. FeedbackIsOurs'
    BY <1>4, Zenon DEF SsrcInv, FeedbackIsOurs, Transports
  <2> QED BY <1>1, <2>2, <2>3 DEF SsrcInv
<1> QED BY <1>2, <1>3, <1>4, Zenon DEF DeliverFeedback

\* Every step.
LEMMA SsrcNext ==
  ASSUME Typed, Typed', SsrcInv, Next
  PROVE  SsrcInv'
<1> USE DEF pubVars, subVars, histVars
<1>0. /\ hand \in [Media -> Seq(Packet)] /\ out \in Seq(Packet)
      /\ \A i \in DOMAIN out : Traceable(out[i])
      /\ \A t \in Media : \A i \in DOMAIN hand[t] : Traceable(hand[t][i])
  BY DEF Typed, SsrcInv, GivenIsTraceable
<1>1. CASE UNCHANGED <<bundle, sections, ssrc, strayed, ignored, sent, out, hand>>
  BY <1>0, <1>1, SsrcFrame
<1>2. ASSUME NEW t \in Media, NEW s \in {Real("audio"), Real("video"), Stray},
             OnTransportData(t, s)
      PROVE  SsrcInv'
  BY <1>2, SsrcRead
<1>3. ASSUME NEW t \in Media, DeliverEnter(t) \/ DeliverNext(t)
      PROVE  SsrcInv'
  <2>1. /\ UNCHANGED <<bundle, sections, ssrc, strayed, ignored, sent>>
        /\ out' = out \/ out' = out \o hand[t]
        /\ hand' = hand \/ hand' = [hand EXCEPT ![t] = <<>>]
    BY <1>3 DEF DeliverEnter, DeliverNext
  <2>2. \A i \in DOMAIN out' : Traceable(out'[i])
    <3>1. CASE out' = out
      BY <1>0, <3>1
    <3>2. CASE out' = out \o hand[t]
      <4>1. hand[t] \in Seq(Packet)
        BY <1>0
      <4>2. \A i \in DOMAIN out' : \/ i \in DOMAIN out /\ out'[i] = out[i]
                                   \/ i - Len(out) \in DOMAIN hand[t]
                                      /\ out'[i] = hand[t][i - Len(out)]
        BY <1>0, <3>2, <4>1, ConcatProperties, LenProperties
      <4> QED BY <1>0, <4>2
    <3> QED BY <2>1, <3>1, <3>2
  <2>3. \A u \in Media : \A i \in DOMAIN hand'[u] : Traceable(hand'[u][i])
    <3>1. \A u \in Media : hand'[u] = hand[u] \/ hand'[u] = <<>>
      BY <1>0, <2>1
    <3>2. DOMAIN <<>> = {}
      OBVIOUS
    <3> QED BY <1>0, <3>1, <3>2
  <2> QED BY <2>1, <2>2, <2>3, SsrcFrame
<1>4. ASSUME NEW c \in Conns, NEW f \in Feedback, NEW again \in BOOLEAN,
             FeedbackCall(c, f, again)
      PROVE  SsrcInv'
  <2>1. UNCHANGED <<bundle, sections, ssrc, strayed, out, hand>>
    BY <1>4 DEF FeedbackCall
  <2>2. DeliverFeedback(f) \/ UNCHANGED <<sent, ignored>>
    BY <1>4, Zenon DEF FeedbackCall
  <2> QED BY <1>1, <2>1, <2>2, SsrcFeedback
<1>5. ASSUME NEW c \in Conns, \/ OnFeedback(c) \/ FeedbackTest(c) \/ SubscriberThreadEnds(c)
                              \/ TransportClosed(c) \/ \E p \in Peers : AddSubscriber(p, c)
      PROVE  SsrcInv'
  BY <1>1, <1>5 DEF OnFeedback, FeedbackTest, SubscriberThreadEnds, TransportClosed, AddSubscriber
<1>6. ASSUME NEW p \in Peers, RemoveSubscriber(p) \/ CloseSubscriber(p)
      PROVE  SsrcInv'
  BY <1>1, <1>6 DEF RemoveSubscriber, CloseSubscriber
<1>7. CASE SetPublisher \/ CloseAll \/ Substitute \/ Removed \/ SubscriberDestroyed \/ Closed
           \/ ClosePublisher \/ PublisherTransportsClosed \/ PublisherDestroyed
           \/ \E t \in Media : PublisherThreadEnds(t)
  BY <1>1, <1>7 DEF SetPublisher, CloseAll, Substitute, Removed, SubscriberDestroyed, Closed,
       ClosePublisher, PublisherTransportsClosed, PublisherDestroyed, PublisherThreadEnds
<1>8. CASE UNCHANGED vars
  BY <1>1, <1>8 DEF vars
<1> QED BY <1>2, <1>3, <1>4, <1>5, <1>6, <1>7, <1>8
        DEF Next, Step, PublisherStep, FeedbackStep, CallReturns, Terminated

-----------------------------------------------------------------------------
(***************************************************************************)
(* The invariant, and what follows from it.                                *)
(***************************************************************************)
\* It holds at the start: nobody is there, and the SSRCs are those the description names.
LEMMA IInvInit ==
  ASSUME Init
  PROVE  IInv
<1>0. 0 \notin Conns /\ Peers \subseteq Nat
  BY OneToManyAssumption DEF OneToManyAssumption
<1>1. PICK d \in Descriptions :
        /\ bundle = d.bundle /\ sections = d.sections
        /\ ssrc = [m \in Media |-> IF m \in d.named THEN Real(m) ELSE 0]
  BY DEF Init
<1>2. /\ d.bundle \in BOOLEAN /\ d.sections \subseteq Media /\ d.named \subseteq d.sections
  BY <1>1, OneToManyAssumption DEF OneToManyAssumption
<1>3. /\ pub = "none" /\ pc = [t \in Media |-> "idle"] /\ hand = [t \in Media |-> <<>>]
      /\ sent = <<>> /\ sink = FALSE /\ subs = [p \in Peers |-> 0] /\ monitor = "free"
      /\ todo = {} /\ app = Idle /\ conn = [c \in Conns |-> "none"]
      /\ fbSink = [c \in Conns |-> FALSE] /\ thr = [c \in Conns |-> "idle"]
      /\ got = [c \in Conns |-> <<>>] /\ out = <<>> /\ since = [c \in Conns |-> 0]
      /\ strayed = FALSE /\ ignored = FALSE /\ crashed = FALSE
  BY DEF Init
<1>4. app.op = "idle" /\ app \in [op: Ops, peer: Nat, new: Nat, old: Nat]
  BY <1>3 DEF Idle, App, Ops
<1>5. Present = {}
  BY <1>3 DEF Present
<1>6. <<>> \in Seq(Packet) /\ DOMAIN <<>> = {}
  OBVIOUS
<1>7. Typed
  <2>1. ssrc \in [Media -> {0, Real("audio"), Real("video"), Stray}]
    BY <1>1 DEF Media
  <2>2. \A t \in Media : pc[t] = "loop" <=> monitor = t
    BY <1>3 DEF Media
  <2>3. TypeOK
    BY <1>3, <2>1, <2>2 DEF TypeOK
  <2> QED BY <1>1, <1>2, <1>3, <1>4, <1>6, <2>3 DEF Typed
<1>8. MapInv
  BY <1>3, <1>4, <1>5 DEF MapInv, MapOfUp, EveryUpIsKnown, CallKnows, WaitsLocked, Waiting
<1>9. LoopInv
  BY <1>3, <1>5 DEF LoopInv, LoopAtLast, AddedBefore, Complete, Media
<1>10. ThreadsKnown /\ SinkTested
  BY <1>3 DEF ThreadsKnown, SinkTested
<1>11. PublisherKnown
  BY <1>3, <1>4 DEF PublisherKnown
<1>12. SsrcInv
  <2>1. \A m \in Media : ssrc[m] \in {0, Real(m)} /\ (m \notin sections => ssrc[m] = 0)
    BY <1>1, <1>2
  <2>2. SsrcKnown
    BY <2>1 DEF SsrcKnown, Real, Stray
  <2>3. GivenIsTraceable
    BY <1>3, <1>6 DEF GivenIsTraceable
  <2>4. FeedbackFindsSource /\ FeedbackIsOurs
    BY <1>3, <1>6 DEF FeedbackFindsSource, FeedbackIsOurs
  <2> QED BY <2>2, <2>3, <2>4 DEF SsrcInv
<1>13. UnsafeOnlyWhenClosing
  BY <1>3, <1>4 DEF UnsafeOnlyWhenClosing
<1> QED BY <1>7, <1>8, <1>9, <1>10, <1>11, <1>12, <1>13 DEF IInv, MapInv, LoopInv, SsrcInv

\* Every step keeps it.
LEMMA IInvNext ==
  ASSUME IInv, [Next]_vars
  PROVE  IInv'
<1>1. /\ Typed /\ MapInv /\ LoopInv /\ SsrcInv /\ ThreadsKnown /\ PublisherKnown
      /\ SinkTested /\ UnsafeOnlyWhenClosing
  BY DEF IInv, MapInv, LoopInv, SsrcInv
<1>2. CASE Next
  <2>1. Typed'
    <3>1. MapOfUp /\ CallKnows /\ WaitsLocked /\ LoopAtLast
      BY <1>1 DEF MapInv, LoopInv
    <3>2. ASSUME NEW t \in Media, PublisherStep(t)
          PROVE  Typed'
      BY <1>1, <3>1, <3>2, TypedPublisher DEF PublisherStep
    <3>3. ASSUME NEW c \in Conns, OnFeedback(c) \/ FeedbackStep(c) \/ SubscriberThreadEnds(c)
          PROVE  Typed'
      BY <1>1, <3>3, TypedFeedback
    <3>4. CASE \/ SetPublisher \/ CloseAll
               \/ \E p \in Peers : RemoveSubscriber(p) \/ \E c \in Conns : AddSubscriber(p, c)
      BY <1>1, <3>4, TypedCall
    <3>5. CASE CallReturns
      BY <1>1, <3>1, <3>5, TypedReturn
    <3>6. CASE UNCHANGED vars
      BY <1>1, <3>6 DEF Typed, TypeOK, vars, pubVars, subVars, histVars
    <3> QED BY <1>2, <3>2, <3>3, <3>4, <3>5, <3>6 DEF Next, Step, Terminated
  <2>2. MapInv'
    BY <1>1, <1>2, MapNext
  <2>3. LoopInv'
    BY <1>1, <1>2, <2>1, LoopNext
  <2>4. ThreadsKnown'
    BY <1>1, <1>2, ThreadsNext DEF LoopInv
  <2>5. PublisherKnown'
    BY <1>1, <1>2, <2>1, PublisherNext
  <2>6. SinkTested'
    BY <1>1, <1>2, SinkNext
  <2>7. UnsafeOnlyWhenClosing'
    BY <1>1, <1>2, <2>5, UnsafeNext DEF LoopInv
  <2>8. SsrcInv'
    BY <1>1, <1>2, <2>1, SsrcNext
  <2> QED BY <2>1, <2>2, <2>3, <2>4, <2>5, <2>6, <2>7, <2>8 DEF IInv, MapInv, LoopInv, SsrcInv
<1>3. CASE UNCHANGED vars
  <2> USE <1>3 DEF vars, pubVars, subVars, histVars
  <2>1. Typed'
    BY <1>1 DEF Typed, TypeOK
  <2>2. MapInv'
    BY <1>1, MapFrame
  <2>3. LoopInv'
    BY <1>1, <2>1, LoopFrame
  <2>4. ThreadsKnown'
    BY <1>1, Zenon DEF ThreadsKnown
  <2>5. PublisherKnown'
    BY <1>1, Zenon DEF PublisherKnown, Transports
  <2>6. SinkTested'
    BY <1>1, Zenon DEF SinkTested
  <2>7. UnsafeOnlyWhenClosing'
    BY <1>1, Zenon DEF UnsafeOnlyWhenClosing
  <2>8. SsrcInv'
    <3>1. GivenIsTraceable
      BY <1>1 DEF SsrcInv
    <3> QED BY <1>1, <3>1, SsrcFrame DEF GivenIsTraceable
  <2> QED BY <2>1, <2>2, <2>3, <2>4, <2>5, <2>6, <2>7, <2>8 DEF IInv, MapInv, LoopInv, SsrcInv
<1> QED BY <1>2, <1>3

\* Every reachable state satisfies it.
LEMMA Invariant == Spec => []IInv
<1>1. Init => IInv
  BY IInvInit
<1>2. IInv /\ [Next]_vars => IInv'
  BY IInvNext
<1> QED BY <1>1, <1>2, PTL DEF Spec

\* deliverVideoData_ and deliverAudioData_ give everything to everybody: whoever is in the
\* map has what was given out since it was added, once and in order, however many
\* subscribers come, go and are substituted between and during the loops of both threads.
THEOREM EverybodyServed == Spec => []EverySubscriberGetsAll
<1>1. IInv => EverySubscriberGetsAll
  BY Zenon DEF IInv, Typed, Complete, EverySubscriberGetsAll
<1> QED BY <1>1, Invariant, PTL

\* addSubscriber, removeSubscriber and the substitution destroy nothing that a thread still
\* uses; only closeAll does, and when it has returned no thread is left.
THEOREM OnlyClosingIsUnsafe == Spec => []UnsafeOnlyWhenClosing
<1>1. IInv => UnsafeOnlyWhenClosing
  BY DEF IInv
<1> QED BY <1>1, Invariant, PTL

\* deliverFeedback_ of the publisher knows every SSRC that subscribers were given, unless a
\* packet without SSRC was the first of its medium.
THEOREM ComplaintsArrive == Spec => []FeedbackFindsSource
<1>1. IInv => FeedbackFindsSource
  BY DEF IInv
<1> QED BY <1>1, Invariant, PTL

\* What is written to the publisher goes to a transport it has, and its receiver reports
\* bear the SSRCs of this connection, for any compound packet.
THEOREM ReportsAreOurs == Spec => []FeedbackIsOurs
<1>1. IInv => FeedbackIsOurs
  BY DEF IInv
<1> QED BY <1>1, Invariant, PTL

=============================================================================
