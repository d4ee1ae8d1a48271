----------------------------- MODULE Connection -----------------------------
(***************************************************************************)
(* A WebRtcConnection with its DTLS transports, from construction to the   *)
(* end of its destructor: ICE progress (NiceConnection), the DTLS handshake*)
(* (DtlsTransport, DtlsSocket) and the aggregation of the transports'      *)
(* states into the connection's globalState_ (WebRtcConnection).           *)
(*                                                                         *)
(* Threads.  The application thread runs createOffer, setRemoteSdp,        *)
(* addRemoteCandidate and the destructor.  Every transport has a "nice"    *)
(* thread (libnice's main loop, which runs the ICE callbacks), a "data"    *)
(* thread (getNiceDataLoop) and one retransmission thread per ICE          *)
(* component ("rtpTimer", "rtcpTimer": Resender::Run).  All of them end up *)
(* in Transport::updateTransportState, which writes state_ with no lock and*)
(* then calls WebRtcConnection::updateState, which takes updateStateMutex_:*)
(* the write, the evaluation and the commit are three steps here.          *)
(*                                                                         *)
(* The inbound packet queue is detailed in NiceConnection, the resender in *)
(* Resender, the send queue in SendQueue.  Of the send thread there is     *)
(* here what the destructor, which joins it, depends on.                   *)
(***************************************************************************)
EXTENDS ErizoStates, FiniteSets

CONSTANTS
  RemoteSdps,   \* the remote descriptions the peer may send
  Roles,        \* subset of {"offerer", "answerer"}: who speaks first
  Trickle,      \* subset of BOOLEAN: the values of iceConfig_.shouldTrickle
  SslOutcomes   \* what an iteration of the TLS library may do

Media      == {"video", "audio"}
Components == {"rtp", "rtcp"}
Threads    == {"nice", "data", "rtpTimer", "rtcpTimer"}
TimerOf(c) == IF c = "rtp" THEN "rtpTimer" ELSE "rtcpTimer"

\* What the code keeps of a remote SDP: bundle flag, media lines, rtcp-mux,
\* and whether it carries candidates.  All are SAVPF with a fingerprint.
Sdp   == [bundle: BOOLEAN, media: SUBSET Media, mux: BOOLEAN, cands: BOOLEAN]
NoSdp == [bundle |-> FALSE, media |-> {}, mux |-> FALSE, cands |-> FALSE]

\* What one iteration of the TLS library does: it waits for the peer, completes
\* (with keys the SRTP layer accepts or refuses, or a peer that did not
\* authenticate) or fails, and it may leave a flight to send.
Outcomes == [res: {"want_read", "none", "error"},
             keys: {"accepted", "refused", "absent"}, out: BOOLEAN]

ASSUME InputAssumption ==
  /\ RemoteSdps \subseteq {r \in Sdp : r.media # {}}
  /\ Roles \subseteq {"offerer", "answerer"}
  /\ Trickle \subseteq BOOLEAN
  /\ SslOutcomes \subseteq Outcomes

VARIABLES
  user,       \* program counter of the application thread
  trickle,    \* trickleEnabled_
  bundle,     \* bundle_
  local,      \* media of localSdp_ (hasAudio, hasVideo)
  remote,     \* remoteSdp_
  global,     \* globalState_
  sending,    \* sending_
  temp,       \* local variable temp of the updateState that holds the mutex
  sender,     \* program counter of the send thread, "busy" until it is joined
  missed,     \* history: transports whose NICE_FINISHED has been overwritten
  server,     \* isServer_ of each transport
  comps,      \* ICE components of each transport (1 with rtcp-mux, else 2)
  creds,      \* transports whose agent has remote credentials
  fed,        \* transports whose agent was given remote candidates
  last,       \* receivedLastCandidate_
  ice,        \* iceState_
  compState,  \* comp_state_list_
  inbound,    \* niceQueue_ may hold packets (ICE was READY once)
  late,       \* the iceState_ a callback is about to write over NICE_FINISHED
  signal,     \* transports whose getPacket close() has woken and that has not run
  tstate,     \* Transport::state_
  running,    \* running_
  started,    \* DtlsSocketContext::started, per component
  hs,         \* handshake of each DtlsSocket: mHandshakeCompleted and SSL errors
  ready,      \* readyRtp, readyRtcp: components with SRTP keys installed
  closing,    \* progress of DtlsTransport::close
  pc,         \* program counters of the transports' threads
  val,        \* the TransportState a thread is about to report
  cur,        \* the component whose handshake a thread is working on
  flight      \* that handshake iteration produced data to send

sdpVars   == <<trickle, bundle, local, remote>>
connVars  == <<global, sending, temp, sender, missed>>
setupVars == <<server, comps>>
iceVars   == <<creds, fed, last, ice, compState, inbound, late, signal>>
dtlsVars  == <<started, hs, ready>>
vars == <<user, sdpVars, connVars, setupVars, iceVars, tstate, running,
          dtlsVars, closing, pc, val, cur, flight>>

Created(t)  == pc[t]["data"] # "none"
AllReady(t) == ready[t] = comps[t]

\* Where a thread may be: nowhere yet, in libnice's loop, starting the sockets, in
\* the data loop, sending a flight, reporting a state, waiting for a timer, over.
Places == {"none", "loop", "start", "top", "get", "read", "resend", "report",
           "commit", "armed", "exited", "done"}

Init ==
  /\ user = "idle"
  /\ trickle \in Trickle
  /\ bundle = FALSE
  /\ local = {}
  /\ remote = NoSdp
  /\ global = CONN_INITIAL
  /\ sending = TRUE
  /\ temp = CONN_INITIAL
  /\ sender = "busy"
  /\ missed = {}
  /\ server = [t \in Media |-> FALSE]
  /\ comps = [t \in Media |-> {"rtp"}]
  /\ creds = {}
  /\ fed = {}
  /\ last = {}
  /\ ice = [t \in Media |-> NICE_INITIAL]
  /\ compState = [t \in Media |-> [c \in Components |-> NICE_INITIAL]]
  /\ inbound = {}
  /\ late = [t \in Media |-> NICE_INITIAL]
  /\ signal = {}
  /\ tstate = [t \in Media |-> TRANSPORT_INITIAL]
  /\ running = [t \in Media |-> FALSE]
  /\ started = [t \in Media |-> {}]
  /\ hs = [t \in Media |-> [c \in Components |-> "shaking"]]
  /\ ready = [t \in Media |-> {}]
  /\ closing = [t \in Media |-> "open"]
  /\ pc = [t \in Media |-> [th \in Threads |-> "none"]]
  /\ val = [t \in Media |-> [th \in Threads |-> TRANSPORT_INITIAL]]
  /\ cur = [t \in Media |-> [th \in Threads |-> "none"]]
  /\ flight = [t \in Media |-> [th \in Threads |-> FALSE]]

-----------------------------------------------------------------------------
(***************************************************************************)
(* WebRtcConnection::updateState, in the thread th of transport t.         *)
(***************************************************************************)

\* Faulty: one channel in the state is enough.
AllIn_Some(ms, s) == \E m \in ms : Created(m) /\ tstate[m] = s

\* The conjunction of the code's per-channel tests.
AllIn(ms, s) == \A m \in ms : Created(m) /\ tstate[m] = s

\* Faulty: temp is not initialised with globalState_.
Aggregate_Uninitialised(s) ==
  IF s = TRANSPORT_FAILED THEN CONN_FAILED
  ELSE IF s = TRANSPORT_READY /\ bundle THEN CONN_READY ELSE s

\* Faulty: temp is initialised with CONN_INITIAL.
Aggregate_FromInitial(s) ==
  CASE s = TRANSPORT_GATHERED /\ AllIn(local, s) -> CONN_GATHERED
    [] s = TRANSPORT_READY /\ AllIn(remote.media, s) -> CONN_READY
    [] s = TRANSPORT_FAILED -> CONN_FAILED
    [] OTHER -> CONN_INITIAL

\* The value of temp after the switch on the reported state.
Aggregate(s) ==
  CASE s = TRANSPORT_STARTED /\ (bundle \/ AllIn(remote.media, s)) -> CONN_STARTED
    [] s = TRANSPORT_GATHERED /\ ~trickle /\ (bundle \/ AllIn(local, s)) -> CONN_GATHERED
    [] s = TRANSPORT_READY /\ (bundle \/ AllIn(remote.media, s)) -> CONN_READY
    [] s = TRANSPORT_FAILED -> CONN_FAILED
    [] OTHER -> global

\* Where a thread goes when its report returns: back to the ICE loop, on to
\* sending the flight of the interrupted handshake iteration, or out of it.
Resume(th) == CASE th = "nice" -> "start"
                [] th = "data" -> "top"
                [] OTHER -> "done"
AfterReport(t, th) ==
  IF flight[t][th] THEN "resend"
  ELSE IF cur[t][th] = "none" /\ th = "nice" THEN "loop" ELSE Resume(th)
ReturnFromReport(t, th) ==
  /\ pc' = [pc EXCEPT ![t][th] = AfterReport(t, th)]
  /\ val' = [val EXCEPT ![t][th] = TRANSPORT_INITIAL]
  /\ cur' = IF flight[t][th] THEN cur ELSE [cur EXCEPT ![t][th] = "none"]

\* Where cond_.notify_one() leaves the send thread, the only one that waits.
Notified == IF sender = "waiting" THEN "busy" ELSE sender

UpdateStateMutexFree == \A t \in Media, th \in Threads : pc[t][th] # "commit"

\* "if current state is failed -> noop".
ConnectionFailed == global = CONN_FAILED

\* The mutex is taken; a failed connection ignores the report.
EvaluateIgnored(t, th) ==
  /\ pc[t][th] = "report"
  /\ UpdateStateMutexFree
  /\ ConnectionFailed
  /\ ReturnFromReport(t, th)
  /\ UNCHANGED <<user, sdpVars, connVars, setupVars, iceVars, tstate, running,
                 dtlsVars, closing, flight>>

\* Faulty: the candidates are left to setRemoteSdp.
FedByUpdateState_Nothing(s) == fed

\* The agents that have candidates after the GATHERED case.
FedByUpdateState(s) ==
  IF s = TRANSPORT_GATHERED /\ bundle /\ remote.cands /\ "video" \in remote.media
  THEN fed \cup {"video"} ELSE fed

\* Faulty: a report polls until a running destructor is done.
Evaluate_PollsWhileClosing(t, th) ==
  /\ pc[t][th] = "report"
  /\ UpdateStateMutexFree
  /\ ~ConnectionFailed
  /\ IF user = "closing"
     THEN UNCHANGED vars
     ELSE /\ temp' = Aggregate(val[t][th])
          /\ sending' = (sending /\ val[t][th] # TRANSPORT_FAILED)
          /\ fed' = FedByUpdateState(val[t][th])
          /\ pc' = [pc EXCEPT ![t][th] = "commit"]
          /\ UNCHANGED <<user, sdpVars, global, sender, missed, setupVars, creds,
                         last, ice, compState, inbound, late, signal, tstate,
                         running, dtlsVars, closing, val, cur, flight>>

\* The switch: candidates of the remote SDP are passed on in the GATHERED case
\* of a bundle, sending_ is cleared in the FAILED case.
Evaluate(t, th) ==
  /\ pc[t][th] = "report"
  /\ UpdateStateMutexFree
  /\ ~ConnectionFailed
  /\ temp' = Aggregate(val[t][th])
  /\ sending' = (sending /\ val[t][th] # TRANSPORT_FAILED)
  /\ fed' = FedByUpdateState(val[t][th])
  /\ pc' = [pc EXCEPT ![t][th] = "commit"]
  /\ UNCHANGED <<user, sdpVars, global, sender, missed, setupVars, creds, last, ice,
                 compState, inbound, late, signal, tstate, running, dtlsVars, closing,
                 val, cur, flight>>

\* The FAILED case notifies the send thread; globalState_ = temp, the listener is
\* told, the mutex is released.
Commit(t, th) ==
  /\ pc[t][th] = "commit"
  /\ global' = temp
  /\ sender' = IF val[t][th] = TRANSPORT_FAILED THEN Notified ELSE sender
  /\ ReturnFromReport(t, th)
  /\ UNCHANGED <<user, sdpVars, sending, temp, missed, setupVars, iceVars, tstate,
                 running, dtlsVars, closing, flight>>

\* Faulty: a READY transport takes no further state.
SetTransportState_ReadyIsFinal(t, th, s, after) ==
  IF tstate[t] >= TRANSPORT_READY
  THEN /\ pc' = [pc EXCEPT ![t][th] = after]
       /\ UNCHANGED <<tstate, val>>
  ELSE /\ pc' = [pc EXCEPT ![t][th] = "report"]
       /\ tstate' = [tstate EXCEPT ![t] = s]
       /\ val' = [val EXCEPT ![t][th] = s]

(***************************************************************************)
(* Transport::updateTransportState: nothing if the state is already s,     *)
(* otherwise write it and go and report it.                                *)
(***************************************************************************)
SetTransportState(t, th, s, after) ==
  IF tstate[t] = s
  THEN /\ pc' = [pc EXCEPT ![t][th] = after]
       /\ UNCHANGED <<tstate, val>>
  ELSE /\ pc' = [pc EXCEPT ![t][th] = "report"]
       /\ tstate' = [tstate EXCEPT ![t] = s]
       /\ val' = [val EXCEPT ![t][th] = s]

-----------------------------------------------------------------------------
(***************************************************************************)
(* NiceConnection and DtlsTransport::updateIceState, in the nice thread.   *)
(* libnice is external: it may signal the end of gathering, a selected pair*)
(* (once it has remote credentials) and a failed component at any time.    *)
(***************************************************************************)

\* NiceConnection::updateIceState(s) and the listener's reaction to it.  The
\* listener is NULL once the transport is being closed.
UpdateIceState(t, s) ==
  IF s <= ice[t] THEN UNCHANGED <<ice, inbound, running, tstate, pc, val>>
  ELSE
    /\ ice' = [ice EXCEPT ![t] = s]
    /\ inbound' = IF s = NICE_READY THEN inbound \cup {t} ELSE inbound
    /\ running' = IF s = NICE_FAILED /\ closing[t] = "open"
                  THEN [running EXCEPT ![t] = FALSE] ELSE running
    /\ \/ /\ closing[t] # "open"
          /\ UNCHANGED <<tstate, pc, val>>
       \/ /\ closing[t] = "open"
          /\ s = NICE_CANDIDATES_RECEIVED
          /\ SetTransportState(t, "nice", TRANSPORT_GATHERED, "loop")
       \/ /\ closing[t] = "open"
          /\ s = NICE_FAILED
          /\ SetTransportState(t, "nice", TRANSPORT_FAILED, "loop")
       \/ /\ closing[t] = "open"
          /\ s = NICE_READY
          /\ pc' = IF server[t] THEN pc ELSE [pc EXCEPT ![t]["nice"] = "start"]
          /\ UNCHANGED <<tstate, val>>

\* The main loop runs no callback.
NiceLoop(t) == pc[t]["nice"] = "loop" /\ late[t] = NICE_INITIAL

GatheringDone(t) ==
  /\ NiceLoop(t)
  /\ UpdateIceState(t, NICE_CANDIDATES_RECEIVED)
  /\ UNCHANGED <<user, sdpVars, connVars, setupVars, creds, fed, last, compState,
                 late, signal, dtlsVars, closing, cur, flight>>

\* updateComponentState: READY needs all components READY, FAILED needs all
\* FAILED and the last remote candidate; otherwise it is dropped.
ComponentReported(t, c, s) ==
  LET states == [compState[t] EXCEPT ![c] = s] IN
  /\ NiceLoop(t)
  /\ c \in comps[t]
  /\ compState' = [compState EXCEPT ![t] = states]
  /\ IF (\A d \in comps[t] : states[d] = s) /\ (s = NICE_FAILED => t \in last)
     THEN UpdateIceState(t, s)
     ELSE UNCHANGED <<ice, inbound, running, tstate, pc, val>>
  /\ UNCHANGED <<user, sdpVars, connVars, setupVars, creds, fed, last, late, signal,
                 dtlsVars, closing, cur, flight>>

NewSelectedPair(t, c) == t \in creds /\ ComponentReported(t, c, NICE_READY)
ComponentFailed(t, c) == ComponentReported(t, c, NICE_FAILED)

-----------------------------------------------------------------------------
(***************************************************************************)
(* The DTLS handshake.  OpenSSL is external: an iteration has one of the   *)
(* outcomes SslOutcomes.                                                   *)
(***************************************************************************)
HandshakeMutexFree(t, th, c) ==
  \A o \in Threads \ {th} : cur[t][o] = c => pc[t][o] = "read"

\* onHandshakeCompleted runs under sessionMutex_, its report included.
SessionMutexFree(t, th) ==
  \A o \in Threads \ {th} :
    ~(/\ pc[t][o] \in {"report", "commit"}
      /\ cur[t][o] # "none"
      /\ hs[t][cur[t][o]] = "done")

\* onHandshakeCompleted and onHandshakeFailed: the state they report, with
\* TRANSPORT_INITIAL for none.
HandshakeResult(t, c, o) ==
  CASE o.res = "error" -> TRANSPORT_FAILED
    [] o.res = "none" /\ o.keys = "refused" -> TRANSPORT_FAILED
    [] o.res = "none" /\ o.keys = "accepted" /\ ready[t] \cup {c} = comps[t]
         -> TRANSPORT_READY
    [] OTHER -> TRANSPORT_INITIAL

\* DtlsSocket::doHandshakeIteration in thread th; a completed socket returns
\* at once.  The flight is sent after the handshake callbacks have returned.
DoHandshakeIteration(t, th, c, o) ==
  LET s     == HandshakeResult(t, c, o)
      after == IF o.out THEN "resend" ELSE Resume(th)
      holds == o.out \/ (s # TRANSPORT_INITIAL /\ s # tstate[t])
  IN
  /\ HandshakeMutexFree(t, th, c)
  /\ hs[t][c] = "failed" => o.res = "error"
  /\ o.res = "none" /\ o.keys # "absent" => SessionMutexFree(t, th)
  /\ IF hs[t][c] = "done"
     THEN /\ pc' = [pc EXCEPT ![t][th] = Resume(th)]
          /\ cur' = [cur EXCEPT ![t][th] = "none"]
          /\ UNCHANGED <<hs, ready, running, tstate, val, flight>>
     ELSE /\ hs' = [hs EXCEPT ![t][c] = CASE o.res = "none"  -> "done"
                                          [] o.res = "error" -> "failed"
                                          [] OTHER -> @]
          /\ ready' = IF o.res = "none" /\ o.keys = "accepted"
                      THEN [ready EXCEPT ![t] = @ \cup {c}] ELSE ready
          /\ running' = IF o.res = "error" THEN [running EXCEPT ![t] = FALSE]
                        ELSE running
          /\ flight' = [flight EXCEPT ![t][th] = o.out]
          /\ cur' = [cur EXCEPT ![t][th] = IF holds THEN c ELSE "none"]
          /\ IF s = TRANSPORT_INITIAL
             THEN /\ pc' = [pc EXCEPT ![t][th] = after]
                  /\ UNCHANGED <<tstate, val>>
             ELSE SetTransportState(t, th, s, after)

\* A client starts its sockets, rtp first, when ICE becomes READY.
DtlsStart(t, c, o) ==
  /\ pc[t]["nice"] = "start"
  /\ c \in comps[t] \ started[t]
  /\ c = "rtcp" => "rtp" \in started[t]
  /\ started' = [started EXCEPT ![t] = @ \cup {c}]
  /\ DoHandshakeIteration(t, "nice", c, o)
  /\ UNCHANGED <<user, sdpVars, connVars, setupVars, iceVars, closing>>

DtlsStarted(t) ==
  /\ pc[t]["nice"] = "start"
  /\ comps[t] \subseteq started[t]
  /\ pc' = [pc EXCEPT ![t]["nice"] = "loop"]
  /\ UNCHANGED <<user, sdpVars, connVars, setupVars, iceVars, tstate, running,
                 dtlsVars, closing, val, cur, flight>>

\* getNiceDataLoop: the test of running_ before the next getPacket.
DataLoop(t) ==
  /\ pc[t]["data"] = "top"
  /\ pc' = [pc EXCEPT ![t]["data"] = IF running[t] THEN "get" ELSE "exited"]
  /\ UNCHANGED <<user, sdpVars, connVars, setupVars, iceVars, tstate, running,
                 dtlsVars, closing, val, cur, flight>>

\* getPacket returned a media packet: it is delivered or dropped.
MediaPacket(t) ==
  /\ pc[t]["data"] = "get"
  /\ t \in inbound
  /\ pc' = [pc EXCEPT ![t]["data"] = "top"]
  /\ UNCHANGED <<user, sdpVars, connVars, setupVars, iceVars, tstate, running,
                 dtlsVars, closing, val, cur, flight>>

\* getPacket returned a DTLS packet: the resender of its component is
\* cancelled, which has no effect if its handler is already on its way.
DtlsPacket(t, c) ==
  /\ pc[t]["data"] = "get"
  /\ t \in inbound
  /\ c \in comps[t]
  /\ cur' = [cur EXCEPT ![t]["data"] = c]
  /\ \/ pc' = [pc EXCEPT ![t]["data"] = "read"]
     \/ /\ pc[t][TimerOf(c)] = "armed"
        /\ pc' = [pc EXCEPT ![t]["data"] = "read", ![t][TimerOf(c)] = "done"]
  /\ UNCHANGED <<user, sdpVars, connVars, setupVars, iceVars, tstate, running,
                 dtlsVars, closing, val, flight>>

DtlsRead(t, o) ==
  /\ pc[t]["data"] = "read"
  /\ DoHandshakeIteration(t, "data", cur[t]["data"], o)
  /\ UNCHANGED <<user, sdpVars, connVars, setupVars, iceVars, started, closing>>

\* Resender::ScheduleResend: the previous retransmission thread is cancelled
\* and joined.  Only the first flight is ever retransmitted: the io_service
\* stays stopped once its first run() has returned.
ScheduleCancels(t, th) ==
  LET timer == TimerOf(cur[t][th]) IN
  /\ pc[t][th] = "resend"
  /\ pc[t][timer] = "armed"
  /\ pc' = [pc EXCEPT ![t][timer] = "done"]
  /\ UNCHANGED <<user, sdpVars, connVars, setupVars, iceVars, tstate, running,
                 dtlsVars, closing, val, cur, flight>>

ScheduleResend(t, th) ==
  LET timer == TimerOf(cur[t][th]) IN
  /\ pc[t][th] = "resend"
  /\ pc[t][timer] \in {"none", "done"}
  /\ pc' = [pc EXCEPT ![t][th] = Resume(th),
                      ![t][timer] = IF @ = "none" THEN "armed" ELSE @]
  /\ cur' = [cur EXCEPT ![t][th] = "none"]
  /\ flight' = [flight EXCEPT ![t][th] = FALSE]
  /\ UNCHANGED <<user, sdpVars, connVars, setupVars, iceVars, tstate, running,
                 dtlsVars, closing, val>>

\* The last Resend: onHandshakeFailed("Dtls Timeout on Resender").
Timeout(t, c) ==
  /\ pc[t][TimerOf(c)] = "armed"
  /\ running' = [running EXCEPT ![t] = FALSE]
  /\ SetTransportState(t, TimerOf(c), TRANSPORT_FAILED, "done")
  /\ UNCHANGED <<user, sdpVars, connVars, setupVars, iceVars, dtlsVars, closing,
                 cur, flight>>

-----------------------------------------------------------------------------
(***************************************************************************)
(* The application thread: one offer/answer exchange, then the destructor. *)
(***************************************************************************)

\* new DtlsTransport(...) followed by start().
CreateTransport(t, isServer, mux) ==
  /\ server' = [server EXCEPT ![t] = isServer]
  /\ comps' = [comps EXCEPT ![t] = IF mux THEN {"rtp"} ELSE Components]
  /\ running' = [running EXCEPT ![t] = TRUE]
  /\ pc' = [pc EXCEPT ![t]["data"] = "top", ![t]["nice"] = "loop"]

CreateOffer ==
  /\ user = "idle"
  /\ "offerer" \in Roles
  /\ ~Created("video")
  /\ remote.media = {}
  /\ bundle' = TRUE
  /\ local' = Media
  /\ CreateTransport("video", TRUE, TRUE)
  /\ UNCHANGED <<user, trickle, remote, connVars, iceVars, tstate, dtlsVars,
                 closing, val, cur, flight>>

\* setRemoteSdp in four steps, because it takes no lock: the descriptions, the
\* video transport, the audio transport, the candidates.
SetRemoteSdp(r) ==
  /\ user = "idle"
  /\ remote.media = {}
  /\ Created("video") \/ "answerer" \in Roles
  /\ remote' = [r EXCEPT !.cands = @ \/ remote.cands]
  /\ bundle' = r.bundle
  /\ local' = r.media
  /\ user' = "sdpVideo"
  /\ UNCHANGED <<trickle, connVars, setupVars, iceVars, tstate, running, dtlsVars,
                 closing, pc, val, cur, flight>>

SetRemoteSdpTransport(t, here, next, needed) ==
  /\ user = here
  /\ user' = next
  /\ creds' = IF needed THEN creds \cup {t} ELSE creds
  /\ IF needed /\ ~Created(t)
     THEN CreateTransport(t, FALSE, remote.mux)
     ELSE UNCHANGED <<setupVars, running, pc>>
  /\ UNCHANGED <<sdpVars, connVars, fed, last, ice, compState, inbound, late, signal,
                 tstate, dtlsVars, closing, val, cur, flight>>

SetRemoteSdpVideo ==
  SetRemoteSdpTransport("video", "sdpVideo", "sdpAudio",
                        bundle \/ "video" \in remote.media)
SetRemoteSdpAudio ==
  SetRemoteSdpTransport("audio", "sdpAudio", "sdpCands",
                        ~bundle /\ "audio" \in remote.media)

SetRemoteSdpCandidates ==
  /\ user = "sdpCands"
  /\ user' = "idle"
  /\ fed' = IF global >= CONN_GATHERED /\ remote.cands
            THEN fed \cup (remote.media \cap {"video"})
                     \cup (IF bundle THEN {} ELSE remote.media \cap {"audio"})
            ELSE fed
  /\ UNCHANGED <<sdpVars, connVars, setupVars, creds, last, ice, compState, inbound,
                 late, signal, tstate, running, dtlsVars, closing, pc, val, cur, flight>>

\* addRemoteCandidate for media m; end: mLineIndex is -1; parsed: the candidate
\* line was understood.  The end of candidates is only told to the video agent.
\* The transport a candidate is for is used untested: without one the program is over.
AddRemoteCandidate(m, end, parsed) ==
  LET t == IF m = "video" \/ bundle THEN "video" ELSE "audio" IN
  /\ user = "idle"
  /\ Created("video")
  /\ parsed => Created(t)
  /\ last' = IF end THEN last \cup {"video"} ELSE last
  /\ fed' = IF parsed THEN fed \cup {t} ELSE fed
  /\ remote' = [remote EXCEPT !.cands = @ \/ parsed]
  /\ UNCHANGED <<user, trickle, bundle, local, connVars, setupVars, creds, ice,
                 compState, inbound, late, signal, tstate, running, dtlsVars, closing,
                 pc, val, cur, flight>>

\* ~WebRtcConnection begins: sending_ = false; cond_.notify_one().  Until now the send
\* thread has met nobody and may be anywhere in its loop, whether a failure stopped it
\* or not.  If it waits, it is woken; if it is busy, it will test sending_.  But if it
\* has tested sending_ before and waits after, it misses the notification.
Destroy ==
  /\ user = "idle"
  /\ user' = "joining"
  /\ sending' = FALSE
  /\ sender' \in {"busy", "waiting"}
  /\ UNCHANGED <<sdpVars, global, temp, missed, setupVars, iceVars, tstate, running,
                 dtlsVars, closing, pc, val, cur, flight>>

\* send_Thread_.join(); then video is closed, then audio.
JoinSender ==
  /\ user = "joining"
  /\ sender = "exited"
  /\ user' = "closing"
  /\ UNCHANGED <<sdpVars, connVars, setupVars, iceVars, tstate, running, dtlsVars,
                 closing, pc, val, cur, flight>>

\* sendLoop once sending_ is false (SendQueue has the rest): the packet in hand is
\* sent, and the test of sending_ ends the loop.
SendTest ==
  /\ user = "joining"
  /\ sender = "busy"
  /\ sender' = "exited"
  /\ UNCHANGED <<user, sdpVars, global, sending, temp, missed, setupVars, iceVars,
                 tstate, running, dtlsVars, closing, pc, val, cur, flight>>

\* The wait returns by itself.
SendWakeup ==
  /\ sender = "waiting"
  /\ sender' = "busy"
  /\ UNCHANGED <<user, sdpVars, global, sending, temp, missed, setupVars, iceVars,
                 tstate, running, dtlsVars, closing, pc, val, cur, flight>>

\* DtlsTransport::close up to the join of the nice thread in nice_->close().
\* NICE_FAILED is above NICE_FINISHED: a failed connection stays failed.  Nobody
\* but close() and the nice thread writes iceState_, and nothing locks it: s is the
\* state a callback has just found to be new and will write after close() has
\* written NICE_FINISHED (NICE_INITIAL: there is no such callback; NICE_FAILED is
\* left out: it ends getPacket as NICE_FINISHED does).
CloseTransport(t, s) ==
  /\ user = "closing"
  /\ Created(t)
  /\ closing[t] = "open"
  /\ (t = "audio" /\ Created("video")) => closing["video"] = "closed"
  /\ s # NICE_INITIAL => pc[t]["nice"] = "loop" /\ s > ice[t]
  /\ s = NICE_READY => t \in creds
  /\ closing' = [closing EXCEPT ![t] = "quit"]
  /\ running' = [running EXCEPT ![t] = FALSE]
  /\ ice' = [ice EXCEPT ![t] = IF @ < NICE_FINISHED THEN NICE_FINISHED ELSE @]
  /\ late' = [late EXCEPT ![t] = s]
  /\ signal' = signal \cup {t}
  /\ UNCHANGED <<user, sdpVars, connVars, setupVars, creds, fed, last, compState,
                 inbound, tstate, dtlsVars, pc, val, cur, flight>>

\* That callback goes on; its listener is NULL by now.
LateIceState(t) ==
  /\ pc[t]["nice"] = "loop"
  /\ late[t] # NICE_INITIAL
  /\ ice' = [ice EXCEPT ![t] = late[t]]
  /\ late' = [late EXCEPT ![t] = NICE_INITIAL]
  /\ inbound' = IF late[t] = NICE_READY THEN inbound \cup {t} ELSE inbound
  /\ missed' = missed \cup {t}
  /\ UNCHANGED <<user, sdpVars, global, sending, temp, sender, setupVars, creds, fed,
                 last, compState, signal, tstate, running, dtlsVars, closing, pc, val,
                 cur, flight>>

\* Faulty: the main loop of a failed agent is not told to quit.
NiceExit_NotIfFailed(t) ==
  /\ NiceLoop(t)
  /\ closing[t] # "open"
  /\ ice[t] = NICE_FINISHED
  /\ pc' = [pc EXCEPT ![t]["nice"] = "exited"]
  /\ UNCHANGED <<user, sdpVars, connVars, setupVars, iceVars, tstate, running,
                 dtlsVars, closing, val, cur, flight>>

\* g_main_loop_run returns.
NiceExit(t) ==
  /\ NiceLoop(t)
  /\ closing[t] # "open"
  /\ pc' = [pc EXCEPT ![t]["nice"] = "exited"]
  /\ UNCHANGED <<user, sdpVars, connVars, setupVars, iceVars, tstate, running,
                 dtlsVars, closing, val, cur, flight>>

\* getPacket woken by close(): it returns a packet of length -1, or waits again
\* if iceState_ says that nothing is over.
DataWoken(t) ==
  /\ pc[t]["data"] = "get"
  /\ closing[t] # "open"
  /\ t \in signal
  /\ signal' = signal \ {t}
  /\ IF ice[t] >= NICE_FINISHED
     THEN /\ pc' = [pc EXCEPT ![t]["data"] = "exited"]
          /\ running' = [running EXCEPT ![t] = FALSE]
     ELSE UNCHANGED <<pc, running>>
  /\ UNCHANGED <<user, sdpVars, connVars, setupVars, creds, fed, last, ice, compState,
                 inbound, late, tstate, dtlsVars, closing, val, cur, flight>>

JoinNice(t) ==
  /\ closing[t] = "quit"
  /\ pc[t]["nice"] = "exited"
  /\ closing' = [closing EXCEPT ![t] = "joined"]
  /\ tstate' = [tstate EXCEPT ![t] = TRANSPORT_FINISHED]
  /\ UNCHANGED <<user, sdpVars, connVars, setupVars, iceVars, running, dtlsVars,
                 pc, val, cur, flight>>

JoinData(t) ==
  /\ closing[t] = "joined"
  /\ pc[t]["data"] = "exited"
  /\ closing' = [closing EXCEPT ![t] = "closed"]
  /\ UNCHANGED <<user, sdpVars, connVars, setupVars, iceVars, tstate, running,
                 dtlsVars, pc, val, cur, flight>>

Destroyed ==
  /\ user = "closing"
  /\ \A t \in Media : Created(t) => closing[t] = "closed"
  /\ user' = "destroyed"
  /\ global' = CONN_FINISHED
  /\ UNCHANGED <<sdpVars, sending, temp, sender, missed, setupVars, iceVars, tstate,
                 running, dtlsVars, closing, pc, val, cur, flight>>

\* ~Resender cancels its timer, after the destructor's body.
ResenderDestroyed(t, c) ==
  /\ user = "destroyed"
  /\ pc[t][TimerOf(c)] = "armed"
  /\ pc' = [pc EXCEPT ![t][TimerOf(c)] = "done"]
  /\ UNCHANGED <<user, sdpVars, connVars, setupVars, iceVars, tstate, running,
                 dtlsVars, closing, val, cur, flight>>

Terminated ==
  /\ user = "destroyed"
  /\ \A t \in Media, c \in Components : pc[t][TimerOf(c)] \in {"none", "done"}
  /\ UNCHANGED vars

\* The destructor joins a data thread that waits for a wake-up it has had.
Hangs(t) == closing[t] = "joined" /\ pc[t]["data"] = "get" /\ t \notin signal
Hung == (\E t \in Media : Hangs(t)) /\ UNCHANGED vars

-----------------------------------------------------------------------------
ReportStep(t, th)    == EvaluateIgnored(t, th) \/ Evaluate(t, th) \/ Commit(t, th)
StartStep(t)         == \E c \in Components, o \in SslOutcomes : DtlsStart(t, c, o)
ReadStep(t)          == \E o \in SslOutcomes : DtlsRead(t, o)
ScheduleStep(t, th)  == ScheduleCancels(t, th) \/ ScheduleResend(t, th)

TransportStep(t) ==
  \/ \E th \in Threads : ReportStep(t, th)
  \/ GatheringDone(t)
  \/ \E c \in Components : \/ NewSelectedPair(t, c)
                           \/ ComponentFailed(t, c)
                           \/ DtlsPacket(t, c)
                           \/ Timeout(t, c)
  \/ StartStep(t)
  \/ DtlsStarted(t)
  \/ DataLoop(t)
  \/ MediaPacket(t)
  \/ ReadStep(t)
  \/ \E th \in {"nice", "data"} : ScheduleStep(t, th)
  \/ NiceExit(t)
  \/ DataWoken(t)
  \/ LateIceState(t)

SetRemoteSdpStep == SetRemoteSdpVideo \/ SetRemoteSdpAudio \/ SetRemoteSdpCandidates
CloseStep ==
  \/ JoinSender
  \/ \E t \in Media : \/ \E s \in NICE_INITIAL..NICE_READY : CloseTransport(t, s)
                       \/ JoinNice(t)
                       \/ JoinData(t)
  \/ Destroyed

UserStep ==
  \/ CreateOffer
  \/ \E r \in RemoteSdps : SetRemoteSdp(r)
  \/ SetRemoteSdpStep
  \/ \E m \in Media, end, parsed \in BOOLEAN : AddRemoteCandidate(m, end, parsed)
  \/ Destroy
  \/ CloseStep
  \/ \E t \in Media, c \in Components : ResenderDestroyed(t, c)

Next == \/ UserStep
        \/ SendTest
        \/ SendWakeup
        \/ \E t \in Media : TransportStep(t)
        \/ Terminated
        \/ Hung

Spec == Init /\ [][Next]_vars

\* Every thread that can run does, and an armed timer expires; libnice, the
\* network and the application's calls owe nothing.
Fairness ==
  /\ WF_vars(SetRemoteSdpStep)
  /\ WF_vars(CloseStep)
  /\ WF_vars(SendTest)
  /\ \A t \in Media :
       /\ \A th \in Threads : WF_vars(ReportStep(t, th))
       /\ WF_vars(StartStep(t))
       /\ WF_vars(DtlsStarted(t))
       /\ WF_vars(DataLoop(t))
       /\ WF_vars(ReadStep(t))
       /\ \A th \in {"nice", "data"} : WF_vars(ScheduleStep(t, th))
       /\ \A c \in Components : WF_vars(Timeout(t, c))
       /\ WF_vars(NiceExit(t))
       /\ WF_vars(DataWoken(t))
       /\ WF_vars(LateIceState(t))

FairSpec == Spec /\ Fairness

-----------------------------------------------------------------------------
(***************************************************************************)
(* Properties.                                                             *)
(***************************************************************************)
\* Every variable of the connection and its transports holds a value of its C++
\* type: the enums, the flags, and the places where a thread can be.
TypeOK ==
  /\ user \in {"idle", "sdpVideo", "sdpAudio", "sdpCands", "joining", "closing",
               "destroyed"}
  /\ trickle \in BOOLEAN
  /\ bundle \in BOOLEAN
  /\ local \in SUBSET Media
  /\ remote \in Sdp
  /\ global \in ConnState
  /\ sending \in BOOLEAN
  /\ temp \in ConnState
  /\ sender \in {"busy", "waiting", "exited"}
  /\ missed \in SUBSET Media
  /\ server \in [Media -> BOOLEAN]
  /\ comps \in [Media -> SUBSET Components]
  /\ creds \in SUBSET Media
  /\ fed \in SUBSET Media
  /\ last \in SUBSET Media
  /\ ice \in [Media -> IceState]
  /\ compState \in [Media -> [Components -> IceState]]
  /\ inbound \in SUBSET Media
  /\ late \in [Media -> IceState]
  /\ signal \in SUBSET Media
  /\ tstate \in [Media -> TransportState]
  /\ running \in [Media -> BOOLEAN]
  /\ started \in [Media -> SUBSET Components]
  /\ hs \in [Media -> [Components -> {"shaking", "done", "failed"}]]
  /\ ready \in [Media -> SUBSET Components]
  /\ closing \in [Media -> {"open", "quit", "joined", "closed"}]
  /\ pc \in [Media -> [Threads -> Places]]
  /\ val \in [Media -> [Threads -> TransportState]]
  /\ cur \in [Media -> [Threads -> Components \cup {"none"}]]
  /\ flight \in [Media -> [Threads -> BOOLEAN]]

\* The transports that carry the negotiated media.
Channels == IF bundle THEN {"video"} ELSE remote.media

\* "WebRTCConnection will be ready only when all channels are ready": while the
\* connection is READY, every transport that carries media has SRTP keys for all
\* of its components, whichever threads reported in whichever order.
ReadyMeansAllKeyed ==
  global = CONN_READY => \A t \in Channels : Created(t) /\ AllReady(t)

\* A failure is on its way to the connection, or has arrived there.
FailurePending(t) == \E th \in Threads : /\ pc[t][th] \in {"report", "commit"}
                                         /\ val[t][th] = TRANSPORT_FAILED
FailureKnown == global \in {CONN_FAILED, CONN_FINISHED}

\* A transport that is FAILED, or that stopped its packet loop without being
\* closed, has told the connection or is about to: the early return of
\* updateTransportState never swallows the only report.
NoSilentFailure ==
  \A t \in Media : \/ tstate[t] = TRANSPORT_FAILED
                   \/ Created(t) /\ ~running[t] /\ closing[t] = "open"
                   => FailureKnown \/ FailurePending(t)

\* globalState_ never goes back, except that the destructor overwrites FAILED:
\* no late GATHERED or READY report undoes a later state.
GlobalStateAdvances == [][global' >= global \/ user' = "destroyed"]_global

\* A transport that failed makes the connection fail (unless it is destroyed).
FailureReachesConnection ==
  \A t \in Media : (tstate[t] = TRANSPORT_FAILED) ~> FailureKnown

\* The destructor returns: no thread it joins waits for it or for another, and each
\* gets the wake-up that ends it.  The exceptions are the two races on plain fields:
\* it may join a send thread that was notified between its test of sending_ and its
\* wait, or a data thread whose NICE_FINISHED a late callback has overwritten.
DestructorReturns ==
  (user = "joining") ~> \/ user = "destroyed"
                        \/ user = "joining" /\ sender = "waiting"
                        \/ \E t \in missed : closing[t] = "joined"

\* Once a bundled connection is GATHERED and its remote description is set, the
\* candidates of that description have been handed to the ICE agent: by
\* updateState or by setRemoteSdp, whichever comes second.
CandidatesReachIce ==
  (/\ user = "idle"
   /\ global = CONN_GATHERED
   /\ bundle
   /\ remote.cands
   /\ "video" \in remote.media)
  => "video" \in fed

\* The same for a connection that answers: isServer_ is only set by createOffer.
AnswererCandidatesReachIce == ~server["video"] => CandidatesReachIce
=============================================================================
