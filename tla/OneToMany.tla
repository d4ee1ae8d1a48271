----------------------------- MODULE OneToMany ------------------------------
(***************************************************************************)
(* Media from one publisher to many subscribers and their feedback back to *)
(* it: OneToManyProcessor between the WebRtcConnection of the publisher    *)
(* and those of the subscribers, with RtcpForwarder on the way back.       *)
(*                                                                         *)
(* The publisher has a data thread per transport, each subscriber one, and *)
(* the application calls the processor on a thread of its own.  myMonitor_ *)
(* is held while a packet is given to all subscribers and while they are   *)
(* added and removed, which includes the destructor of a connection and so *)
(* the join of its data thread.  feedbackSink_ is read without it.         *)
(*                                                                         *)
(* Of a packet only the SSRCs matter and what RtcpForwarder changes; the   *)
(* queues and send threads of the connections are SendQueue's.             *)
(***************************************************************************)
EXTENDS Integers, Sequences, FiniteSetsExt

CONSTANTS
  Peers,        \* peerIds, numbers in the order of the map's keys
  Conns,        \* connections of subscribers (numbers above 0)
  Descriptions, \* what the publisher's description may say: whether it bundles, which
                \* sections it has and for which it names an SSRC
  Feedback,     \* RTCP packets subscribers may send: sequences of blocks
  Rates,        \* bit rates
  MaxPackets    \* bound: packets of the publisher that reach the processor

Media == {"audio", "video"}
\* The SSRCs the publisher really uses, and a number that is none of them.
Real(m) == IF m = "audio" THEN 1 ELSE 2
Stray == 9
\* Those this connection uses towards the publisher, fixed by the constructor.
SinkSsrc(m) == IF m = "audio" THEN 44444 ELSE 55543

\* A block of a compound packet: what it is, the SSRC it is about, who issued it, and the
\* bit rate it asks for.
Block == [kind: STRING, source: Nat, from: Nat, rate: Nat]

ASSUME OneToManyAssumption ==
  /\ Peers \subseteq Nat /\ Conns \subseteq Nat \ {0}
  /\ MaxPackets \in Nat
  /\ Feedback \subseteq Seq(Block) \ {<<>>}
  /\ \A d \in Descriptions : /\ d.bundle \in BOOLEAN
                             /\ d.sections # {} /\ d.sections \subseteq Media
                             /\ d.named \subseteq d.sections

VARIABLES
  \* the publisher's connection
  bundle,     \* bundle_
  sections,   \* media of its description
  ssrc,       \* videoSourceSSRC_, audioSourceSSRC_ (0: not known)
  maxBw,      \* RtcpForwarder's maxVideoBw_: the description's limit, or uninitialized: anything
  pub,        \* "none", "up", "closing": in its destructor, "closed": its transports
              \* are, "gone"
  pc,         \* its data threads: "idle", "enter": before the lock, "loop", "ended"
  hand,       \* the packet a data thread carries
  sent,       \* the feedback packet last written to it, if any, and the media whose SSRC
              \* the processor had given out by then
  \* OneToManyProcessor
  sink,       \* feedbackSink_ is set
  subs,       \* subscribers: the connection under a peerId (0: none)
  monitor,    \* the thread that holds myMonitor_, or "free"
  todo,       \* peerIds the loop over the subscribers has before it
  app,        \* what the application thread does
  \* the connections of subscribers
  conn,       \* "none", "up", "closing", "closed", "gone", as `pub`
  fbSink,     \* fbSink_ points to the processor
  thr,        \* data thread: "idle", "enter", "tested", "ended"
  got,        \* what the processor gave to it
  \* history
  out,        \* what the processor gave out
  since,      \* how much of it was out when a connection was added
  strayed,    \* a source SSRC was learned from a packet that has none
  ignored,    \* feedback for an SSRC of the publisher that was given out has been dropped
  crashed     \* a destroyed object or a null pointer was used

pubVars  == <<bundle, sections, ssrc, maxBw, pub, pc, hand>>
subVars  == <<conn, fbSink, thr>>
histVars == <<since, strayed, ignored, crashed>>
vars == <<pubVars, sent, sink, subs, monitor, todo, app, subVars, got, out, histVars>>

\* The transports of the publisher's connection.
Transports == IF bundle THEN {"video"} ELSE sections

\* The application thread waits for the end of `old`'s data thread, within a call that
\* has `peer` and the new connection `new`.
App(op, p, new, old) == [op |-> op, peer |-> p, new |-> new, old |-> old]
Idle == App("idle", 0, 0, 0)

Init ==
  /\ \E d \in Descriptions :
       /\ bundle = d.bundle
       /\ sections = d.sections
       /\ ssrc = [m \in Media |-> IF m \in d.named THEN Real(m) ELSE 0]
  /\ maxBw \in Rates
  /\ pub = "none"
  /\ pc = [t \in Media |-> "idle"]
  /\ hand = [t \in Media |-> <<>>]
  /\ sent = <<>>
  /\ sink = FALSE
  /\ subs = [p \in Peers |-> 0]
  /\ monitor = "free"
  /\ todo = {}
  /\ app = Idle
  /\ conn = [c \in Conns |-> "none"]
  /\ fbSink = [c \in Conns |-> FALSE]
  /\ thr = [c \in Conns |-> "idle"]
  /\ got = [c \in Conns |-> <<>>]
  /\ out = <<>>
  /\ since = [c \in Conns |-> 0]
  /\ strayed = FALSE
  /\ ignored = FALSE
  /\ crashed = FALSE

-----------------------------------------------------------------------------
(***************************************************************************)
(* The publisher's data threads.                                           *)
(***************************************************************************)
\* The SSRC onTransportData reads from a packet: of RTP and sender reports; an APP
\* packet leaves recvSSRC uninitialized, and SDES and BYE are taken for RTP.
Read(t) == {Real(m) : m \in IF bundle THEN sections ELSE {t}} \cup {Stray}

\* Faulty: the SSRC is not remembered.
LearnSsrc_Forgets(t, s) == UNCHANGED <<ssrc, strayed>>

\* onTransportData without BUNDLE: the transport decides, and "Firefox does not send
\* SSRC in SDP", so the first packet tells it.
LearnSsrc(t, s) ==
  /\ ssrc' = [ssrc EXCEPT ![t] = IF @ = 0 THEN s ELSE @]
  /\ strayed' = (strayed \/ (ssrc[t] = 0 /\ s = Stray))

OnTransportData(t, s) ==
  /\ pub \in {"up", "closing"}
  /\ t \in Transports
  /\ pc[t] = "idle"
  /\ Len(out) + Len(hand["audio"]) + Len(hand["video"]) < MaxPackets
  /\ s \in Read(t)
  /\ LET m == IF ~bundle THEN t ELSE IF s = ssrc["video"] THEN "video" ELSE "audio"
         known == ~bundle \/ s \in {ssrc["video"], ssrc["audio"]}
     IN IF known
        THEN /\ pc' = [pc EXCEPT ![t] = "enter"]
             /\ hand' = [hand EXCEPT ![t] = <<[media |-> m, ssrc |-> s]>>]
        ELSE UNCHANGED <<pc, hand>>
  /\ IF bundle THEN UNCHANGED <<ssrc, strayed>> ELSE LearnSsrc(t, s)
  /\ UNCHANGED <<bundle, sections, maxBw, pub, sent, sink, subs, monitor, todo, app,
                 subVars, got, out, since, ignored, crashed>>

Present == {p \in Peers : subs[p] # 0}

\* deliverVideoData_, deliverAudioData_: the lock, and the return if there is nobody.
DeliverEnter(t) ==
  /\ pc[t] = "enter"
  /\ monitor = "free"
  /\ out' = out \o hand[t]
  /\ IF Present = {}
     THEN /\ pc' = [pc EXCEPT ![t] = "idle"]
          /\ hand' = [hand EXCEPT ![t] = <<>>]
          /\ UNCHANGED <<monitor, todo>>
     ELSE /\ pc' = [pc EXCEPT ![t] = "loop"]
          /\ monitor' = t
          /\ todo' = Present
          /\ UNCHANGED hand
  /\ UNCHANGED <<bundle, sections, ssrc, maxBw, pub, sent, sink, subs, app, subVars,
                 got, histVars>>

\* Faulty: the loop is left after the first subscriber.
DeliverNext_FirstOnly(t) ==
  /\ pc[t] = "loop"
  /\ got' = [got EXCEPT ![subs[Min(todo)]] = @ \o hand[t]]
  /\ todo' = {}
  /\ monitor' = "free"
  /\ pc' = [pc EXCEPT ![t] = "idle"]
  /\ hand' = [hand EXCEPT ![t] = <<>>]
  /\ UNCHANGED <<bundle, sections, ssrc, maxBw, pub, sent, sink, subs, app, subVars,
                 out, histVars>>

\* A turn of the loop, and the unlock at its end.
DeliverNext(t) ==
  /\ pc[t] = "loop"
  /\ LET p == Min(todo)
         c == subs[p]
     IN /\ IF c = 0 \/ conn[c] = "gone"
           THEN crashed' = TRUE /\ UNCHANGED got
           ELSE got' = [got EXCEPT ![c] = @ \o hand[t]] /\ UNCHANGED crashed
        /\ todo' = todo \ {p}
  /\ IF todo' = {}
     THEN /\ monitor' = "free"
          /\ pc' = [pc EXCEPT ![t] = "idle"]
          /\ hand' = [hand EXCEPT ![t] = <<>>]
     ELSE UNCHANGED <<monitor, pc, hand>>
  /\ UNCHANGED <<bundle, sections, ssrc, maxBw, pub, sent, sink, subs, app, subVars,
                 out, since, strayed, ignored>>

\* getNiceDataLoop ends when the transport has been closed.
PublisherThreadEnds(t) ==
  /\ pub = "closed"
  /\ pc[t] = "idle"
  /\ pc' = [pc EXCEPT ![t] = "ended"]
  /\ UNCHANGED <<bundle, sections, ssrc, maxBw, pub, hand, sent, sink, subs, monitor, todo,
                 app, subVars, got, out, histVars>>

-----------------------------------------------------------------------------
(***************************************************************************)
(* Feedback.                                                               *)
(***************************************************************************)
\* Faulty: the first block of a compound packet decides the medium of all.
Analyzed_First(f) ==
  [i \in DOMAIN f |->
     IF f[i].kind = "rr"
     THEN [f[i] EXCEPT !.from = SinkSsrc(IF f[1].source = ssrc["video"]
                                         THEN "video" ELSE "audio")]
     ELSE f[i]]

\* RtcpForwarder::analyzeFeedback: receiver reports are issued again by this
\* connection, and no more than maxVideoBw_ is asked for.
Analyzed(f) ==
  [i \in DOMAIN f |->
     CASE f[i].kind = "rr"   -> [f[i] EXCEPT !.from = SinkSsrc(IF f[i].source = ssrc["video"]
                                                               THEN "video" ELSE "audio")]
       [] f[i].kind = "remb" -> [f[i] EXCEPT !.rate = IF @ < maxBw THEN @ ELSE maxBw]
       [] OTHER -> f[i]]

\* "Ignoring empty RR".
Empty(f) == Len(f) = 1 /\ f[1].kind = "emptyRr"

\* The media of which a packet with the publisher's SSRC was given out.
Heard == {m \in Media : \E i \in DOMAIN out : out[i].ssrc = Real(m)}

\* WebRtcConnection::deliverFeedback_ of the publisher: the first block decides.
DeliverFeedback(f) ==
  LET s == f[1].source
      m == IF s = ssrc["video"] THEN "video" ELSE "audio"
  IN CASE Empty(f) \/ pub # "up" -> UNCHANGED <<sent, ignored>>
       [] ~Empty(f) /\ pub = "up" /\ s \in {ssrc["video"], ssrc["audio"]} ->
            /\ sent' = <<[to |-> IF bundle THEN "video" ELSE m, blocks |-> Analyzed(f),
                          heard |-> Heard]>>
            /\ UNCHANGED ignored
       [] OTHER -> /\ ignored' = (ignored \/ (s # Stray /\ \E i \in DOMAIN out : out[i].ssrc = s))
                   /\ UNCHANGED sent

\* onTransportData of a subscriber's connection with feedback (which one matters later).
OnFeedback(c) ==
  /\ conn[c] \in {"up", "closing"}
  /\ thr[c] = "idle"
  /\ fbSink[c]
  /\ thr' = [thr EXCEPT ![c] = "enter"]
  /\ UNCHANGED <<pubVars, sent, sink, subs, monitor, todo, app, conn, fbSink, got, out,
                 histVars>>

\* OneToManyProcessor::deliverFeedback_ tests feedbackSink_ ...
FeedbackTest(c) ==
  /\ thr[c] = "enter"
  /\ thr' = [thr EXCEPT ![c] = IF sink THEN "tested" ELSE "idle"]
  /\ UNCHANGED <<pubVars, sent, sink, subs, monitor, todo, app, conn, fbSink, got, out,
                 histVars>>

\* ... and calls it: as it is now, or as it was (the compiler may keep it).
FeedbackCall(c, f, again) ==
  /\ thr[c] = "tested"
  /\ thr' = [thr EXCEPT ![c] = "idle"]
  /\ IF (again /\ ~sink) \/ pub = "gone"
     THEN crashed' = TRUE /\ UNCHANGED <<sent, ignored>>
     ELSE DeliverFeedback(f) /\ UNCHANGED crashed
  /\ UNCHANGED <<pubVars, sink, subs, monitor, todo, app, conn, fbSink, got, out, since,
                 strayed>>

SubscriberThreadEnds(c) ==
  /\ conn[c] = "closed"
  /\ thr[c] = "idle"
  /\ thr' = [thr EXCEPT ![c] = "ended"]
  /\ UNCHANGED <<pubVars, sent, sink, subs, monitor, todo, app, conn, fbSink, got, out,
                 histVars>>

-----------------------------------------------------------------------------
(***************************************************************************)
(* The application thread.                                                 *)
(***************************************************************************)
\* setPublisher, and the sinks of the publisher's connection.
SetPublisher ==
  /\ app.op = "idle"
  /\ pub = "none"
  /\ monitor = "free"
  /\ pub' = "up"
  /\ sink' = TRUE
  /\ UNCHANGED <<bundle, sections, ssrc, maxBw, pc, hand, sent, subs, monitor, todo, app,
                 subVars, got, out, histVars>>

\* addSubscriber with a new connection; the one it substitutes is destroyed first.
\* The publisher is dereferenced untested for its SSRCs: without one the call is the
\* program's end, so the steps are those of an application that set it first.
AddSubscriber(p, c) ==
  /\ app.op = "idle"
  /\ pub = "up"
  /\ monitor = "free"
  /\ conn[c] = "none"
  /\ fbSink' = [fbSink EXCEPT ![c] = TRUE]
  /\ IF subs[p] = 0
     THEN /\ subs' = [subs EXCEPT ![p] = c]
          /\ conn' = [conn EXCEPT ![c] = "up"]
          /\ since' = [since EXCEPT ![c] = Len(out)]
          /\ UNCHANGED <<monitor, app>>
     ELSE /\ subs' = [subs EXCEPT ![p] = 0]
          /\ conn' = [conn EXCEPT ![subs[p]] = "closing", ![c] = "up"]
          /\ app' = App("substitute", p, c, subs[p])
          /\ monitor' = "app"
          /\ UNCHANGED since
  /\ UNCHANGED <<pubVars, sent, sink, todo, thr, got, out, strayed, ignored, crashed>>

\* ~WebRtcConnection has joined the send thread and closes the transports.
TransportClosed(c) ==
  /\ conn[c] = "closing"
  /\ conn' = [conn EXCEPT ![c] = "closed"]
  /\ UNCHANGED <<pubVars, sent, sink, subs, monitor, todo, app, fbSink, thr, got, out,
                 histVars>>

\* The old connection's destructor has returned: the new one takes its place.
Substitute ==
  /\ app.op = "substitute"
  /\ thr[app.old] = "ended"
  /\ conn' = [conn EXCEPT ![app.old] = "gone"]
  /\ subs' = [subs EXCEPT ![app.peer] = app.new]
  /\ since' = [since EXCEPT ![app.new] = Len(out)]
  /\ app' = Idle
  /\ monitor' = "free"
  /\ UNCHANGED <<pubVars, sent, sink, todo, fbSink, thr, got, out, strayed, ignored,
                 crashed>>

\* Faulty: the lock is not taken.
RemoveSubscriber_Unlocked(p) ==
  /\ app.op = "idle"
  /\ subs[p] # 0
  /\ subs' = [subs EXCEPT ![p] = 0]
  /\ conn' = [conn EXCEPT ![subs[p]] = "closing"]
  /\ app' = App("remove", p, 0, subs[p])
  /\ UNCHANGED <<pubVars, sent, sink, monitor, todo, fbSink, thr, got, out, histVars>>

\* removeSubscriber; a peerId that is not there changes nothing.
RemoveSubscriber(p) ==
  /\ app.op = "idle"
  /\ monitor = "free"
  /\ subs[p] # 0
  /\ subs' = [subs EXCEPT ![p] = 0]
  /\ conn' = [conn EXCEPT ![subs[p]] = "closing"]
  /\ app' = App("remove", p, 0, subs[p])
  /\ monitor' = "app"
  /\ UNCHANGED <<pubVars, sent, sink, todo, fbSink, thr, got, out, histVars>>

Removed ==
  /\ app.op = "remove"
  /\ thr[app.old] = "ended"
  /\ conn' = [conn EXCEPT ![app.old] = "gone"]
  /\ app' = Idle
  /\ monitor' = "free"
  /\ UNCHANGED <<pubVars, sent, sink, subs, todo, fbSink, thr, got, out, histVars>>

\* closeAll, by the destructor: feedbackSink_ = NULL, ...
CloseAll ==
  /\ app.op = "idle"
  /\ sink' = FALSE
  /\ app' = App("closePublisher", 0, 0, 0)
  /\ UNCHANGED <<pubVars, sent, subs, monitor, todo, subVars, got, out, histVars>>

\* ... publisher.reset() without the lock, ...
ClosePublisher ==
  /\ app.op = "closePublisher"
  /\ pub' = IF pub = "none" THEN "gone" ELSE "closing"
  /\ app' = App("closeSubscribers", 0, 0, 0)
  /\ UNCHANGED <<bundle, sections, ssrc, maxBw, pc, hand, sent, sink, subs, monitor, todo,
                 subVars, got, out, histVars>>

PublisherTransportsClosed ==
  /\ pub = "closing"
  /\ pub' = "closed"
  /\ UNCHANGED <<bundle, sections, ssrc, maxBw, pc, hand, sent, sink, subs, monitor, todo,
                 app, subVars, got, out, histVars>>

PublisherDestroyed ==
  /\ pub = "closed"
  /\ \A t \in Transports : pc[t] = "ended"
  /\ pub' = "gone"
  /\ UNCHANGED <<bundle, sections, ssrc, maxBw, pc, hand, sent, sink, subs, monitor, todo,
                 app, subVars, got, out, histVars>>

\* Faulty: the subscriber stays in the map.
CloseSubscriber_Keeps(p) ==
  /\ app.op = "closeSubscribers"
  /\ pub = "gone"
  /\ monitor \in {"free", "app"}
  /\ p \in Present /\ p = Min(Present)
  /\ fbSink' = [fbSink EXCEPT ![subs[p]] = FALSE]
  /\ conn' = [conn EXCEPT ![subs[p]] = "closing"]
  /\ app' = App("closeJoin", p, 0, subs[p])
  /\ monitor' = "app"
  /\ UNCHANGED <<pubVars, sent, sink, subs, todo, thr, got, out, histVars>>

\* ... then each subscriber: no feedback any more, and it is destroyed.
CloseSubscriber(p) ==
  /\ app.op = "closeSubscribers"
  /\ pub = "gone"
  /\ monitor \in {"free", "app"}
  /\ p \in Present /\ p = Min(Present)
  /\ fbSink' = [fbSink EXCEPT ![subs[p]] = FALSE]
  /\ conn' = [conn EXCEPT ![subs[p]] = "closing"]
  /\ subs' = [subs EXCEPT ![p] = 0]
  /\ app' = App("closeJoin", p, 0, subs[p])
  /\ monitor' = "app"
  /\ UNCHANGED <<pubVars, sent, sink, todo, thr, got, out, histVars>>

SubscriberDestroyed ==
  /\ app.op = "closeJoin"
  /\ thr[app.old] = "ended"
  /\ conn' = [conn EXCEPT ![app.old] = "gone"]
  /\ app' = App("closeSubscribers", 0, 0, 0)
  /\ UNCHANGED <<pubVars, sent, sink, subs, monitor, todo, fbSink, thr, got, out,
                 histVars>>

\* The processor is no more.
Closed ==
  /\ app.op = "closeSubscribers"
  /\ pub = "gone"
  /\ monitor \in {"free", "app"}
  /\ Present = {}
  /\ app' = App("destroyed", 0, 0, 0)
  /\ monitor' = "free"
  /\ UNCHANGED <<pubVars, sent, sink, subs, todo, subVars, got, out, histVars>>

-----------------------------------------------------------------------------
PublisherStep(t) == \/ \E s \in {Real("audio"), Real("video"), Stray} : OnTransportData(t, s)
                    \/ DeliverEnter(t) \/ DeliverNext(t) \/ PublisherThreadEnds(t)

FeedbackStep(c) == \/ FeedbackTest(c)
                   \/ \E f \in Feedback, again \in BOOLEAN : FeedbackCall(c, f, again)

CallReturns == \/ \E c \in Conns : TransportClosed(c)
               \/ Substitute \/ Removed
               \/ ClosePublisher \/ PublisherTransportsClosed \/ PublisherDestroyed
               \/ \E p \in Peers : CloseSubscriber(p)
               \/ SubscriberDestroyed \/ Closed

Step ==
  \/ \E t \in Media : PublisherStep(t)
  \/ \E c \in Conns : \/ OnFeedback(c)
                      \/ FeedbackStep(c) \/ SubscriberThreadEnds(c)
  \/ SetPublisher
  \/ \E p \in Peers : RemoveSubscriber(p) \/ \E c \in Conns : AddSubscriber(p, c)
  \/ CloseAll
  \/ CallReturns

Terminated == (crashed \/ app.op = "destroyed") /\ UNCHANGED vars

Next == (~crashed /\ Step) \/ Terminated

Spec == Init /\ [][Next]_vars

\* Threads run, and a data thread ends once its transport has been closed.  Packets,
\* feedback and calls of the application need not come.
Fairness ==
  /\ \A t \in Media : WF_vars(~crashed /\ (DeliverEnter(t) \/ DeliverNext(t)
                                           \/ PublisherThreadEnds(t)))
  /\ \A c \in Conns : WF_vars(~crashed /\ (FeedbackStep(c) \/ SubscriberThreadEnds(c)))
  /\ WF_vars(~crashed /\ CallReturns)

FairSpec == Spec /\ Fairness

-----------------------------------------------------------------------------
(***************************************************************************)
(* Properties.                                                             *)
(***************************************************************************)
\* The variables hold values of their types, and a data thread holds the lock exactly
\* while it is in the loop over the subscribers.
TypeOK ==
  /\ ssrc \in [Media -> {0, Real("audio"), Real("video"), Stray}]
  /\ pub \in {"none", "up", "closing", "closed", "gone"}
  /\ pc \in [Media -> {"idle", "enter", "loop", "ended"}]
  /\ sink \in BOOLEAN
  /\ subs \in [Peers -> Conns \cup {0}]
  /\ conn \in [Conns -> {"none", "up", "closing", "closed", "gone"}]
  /\ fbSink \in [Conns -> BOOLEAN]
  /\ thr \in [Conns -> {"idle", "enter", "tested", "ended"}]
  /\ \A t \in Media : pc[t] = "loop" <=> monitor = t

\* "Receives media from one publisher and retransmits it to every subscriber": whoever is
\* subscribed has got everything the processor gave out since it was added, once and in
\* order, up to the packet the loop is at; audio and video threads, additions, removals
\* and substitutions in between change nothing of it.  (The types are a part of it.)
EverySubscriberGetsAll ==
  /\ TypeOK
  /\ \A p \in Present :
       LET c == subs[p]
           due == Len(out) - IF p \in todo THEN 1 ELSE 0
       IN got[c] = SubSeq(out, since[c] + 1, due)

\* Adding, removing and substituting are safe against all traffic; only the destructor of
\* the processor, which clears feedbackSink_ and destroys the publisher while subscribers
\* are still answering, lets a thread use what is no more.  Once that has returned nobody
\* is, or can still come, into the processor: the data threads of the publisher and of
\* every connection that ever was a subscriber have ended.
UnsafeOnlyWhenClosing ==
  /\ crashed => app.op \in {"closePublisher", "closeSubscribers", "closeJoin"}
  /\ app.op = "destroyed"
     => /\ pub = "gone" /\ \A t \in Media : pc[t] \in {"idle", "ended"}
        /\ \A c \in Conns : conn[c] \in {"none", "gone"} /\ thr[c] \in {"idle", "ended"}

\* Who has been given packets of a publisher's SSRC can complain about it: such feedback is not
\* dropped as unknown, whether the publisher's description named the SSRC or the first
\* packet did.  (A packet without SSRC may come first and spoil it.)
FeedbackFindsSource == ignored => strayed

\* Feedback goes to the publisher on a transport there is, and each receiver report in it,
\* also behind others in a compound packet, comes from this connection: a report about a
\* stream that was given out, from the SSRC it has for the medium of that stream, unless a
\* packet without SSRC spoiled it.  Feedback for SSRC 0 may be taken for that of a missing
\* section.
FeedbackIsOurs ==
  \A k \in DOMAIN sent :
    LET e == sent[k] IN
    /\ e.to \in Transports \/ e.blocks[1].source = 0
    /\ \A i \in DOMAIN e.blocks :
         e.blocks[i].kind = "rr" =>
           /\ e.blocks[i].from \in {SinkSsrc(m) : m \in Media}
           /\ \A m \in e.heard : e.blocks[i].source = Real(m)
                                   => e.blocks[i].from = SinkSsrc(m) \/ strayed

\* Every call returns: the joins under the lock and outside of it never wait for a thread
\* that waits for them.
CallsReturn == (app.op \notin {"idle", "destroyed"}) ~> (app.op \in {"idle", "destroyed"} \/ crashed)
=============================================================================
