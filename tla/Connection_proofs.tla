------------------------- MODULE Connection_proofs --------------------------
(***************************************************************************)
(* Proofs about Connection, for every set of remote descriptions, roles,   *)
(* trickle settings and outcomes of the TLS library.                       *)
(***************************************************************************)
EXTENDS Connection, TLAPS

USE DEF NICE_INITIAL, NICE_CANDIDATES_RECEIVED, NICE_READY, NICE_FINISHED,
        NICE_FAILED, TRANSPORT_INITIAL, TRANSPORT_STARTED, TRANSPORT_GATHERED,
        TRANSPORT_READY, TRANSPORT_FINISHED, TRANSPORT_FAILED, CONN_INITIAL,
        CONN_STARTED, CONN_GATHERED, CONN_READY, CONN_FINISHED, CONN_FAILED

-----------------------------------------------------------------------------
\* An update of a per-thread variable, value by value.
LEMMA Update ==
  ASSUME NEW S, NEW f \in [Media -> [Threads -> S]], NEW t \in Media,
         NEW th \in Threads, NEW v
  PROVE  \A u \in Media, uh \in Threads :
           [f EXCEPT ![t][th] = v][u][uh] = IF u = t /\ uh = th THEN v ELSE f[u][uh]
  OBVIOUS

(***************************************************************************)
(* Types.                                                                  *)
(***************************************************************************)

\* The values a thread leaves behind when its report returns.
LEMMA ReturnTypes ==
  ASSUME TypeOK, NEW t \in Media, NEW th \in Threads, ReturnFromReport(t, th)
  PROVE  /\ pc' \in [Media -> [Threads -> Places]]
         /\ val' \in [Media -> [Threads -> TransportState]]
         /\ cur' \in [Media -> [Threads -> Components \cup {"none"}]]
  BY DEF TypeOK, ReturnFromReport, AfterReport, Resume, Places, TransportState

\* updateTransportState keeps its three variables in their types.
LEMMA SetTransportStateTypes ==
  ASSUME TypeOK, NEW t \in Media, NEW th \in Threads, NEW s \in TransportState,
         NEW after \in Places, SetTransportState(t, th, s, after)
  PROVE  /\ pc' \in [Media -> [Threads -> Places]]
         /\ val' \in [Media -> [Threads -> TransportState]]
         /\ tstate' \in [Media -> TransportState]
<1>1. CASE tstate[t] = s
  <2>1. pc' = [pc EXCEPT ![t][th] = after] /\ tstate' = tstate /\ val' = val
    BY <1>1 DEF SetTransportState
  <2> QED BY <2>1 DEF TypeOK
<1>2. CASE tstate[t] # s
  <2>1. /\ pc' = [pc EXCEPT ![t][th] = "report"]
        /\ tstate' = [tstate EXCEPT ![t] = s]
        /\ val' = [val EXCEPT ![t][th] = s]
    BY <1>2 DEF SetTransportState
  <2>2. "report" \in Places
    BY DEF Places
  <2>3. pc' \in [Media -> [Threads -> Places]]
    BY <2>1, <2>2 DEF TypeOK
  <2>4. /\ val' \in [Media -> [Threads -> TransportState]]
        /\ tstate' \in [Media -> TransportState]
    BY <2>1 DEF TypeOK
  <2> QED BY <2>3, <2>4
<1> QED BY <1>1, <1>2

\* So does updateIceState, with the variables of the ICE agent.
LEMMA UpdateIceStateTypes ==
  ASSUME TypeOK, NEW t \in Media, NEW s \in IceState, UpdateIceState(t, s)
  PROVE  /\ pc' \in [Media -> [Threads -> Places]]
         /\ val' \in [Media -> [Threads -> TransportState]]
         /\ tstate' \in [Media -> TransportState]
         /\ ice' \in [Media -> IceState]
         /\ inbound' \in SUBSET Media
         /\ running' \in [Media -> BOOLEAN]
<1>1. CASE s <= ice[t]
  BY <1>1 DEF UpdateIceState, TypeOK
<1>2. CASE ~(s <= ice[t])
  <2>1. /\ ice' \in [Media -> IceState]
        /\ inbound' \in SUBSET Media
        /\ running' \in [Media -> BOOLEAN]
    <3>1. ice' = [ice EXCEPT ![t] = s]
      BY <1>2 DEF UpdateIceState
    <3>2. inbound' \in {inbound, inbound \cup {t}}
      BY <1>2 DEF UpdateIceState
    <3>3. running' \in {running, [running EXCEPT ![t] = FALSE]}
      BY <1>2 DEF UpdateIceState
    <3> QED BY <3>1, <3>2, <3>3 DEF TypeOK
  <2>a. "nice" \in Threads /\ "loop" \in Places /\ TRANSPORT_GATHERED \in TransportState
        /\ TRANSPORT_FAILED \in TransportState
    BY DEF Threads, Places, TransportState
  <2>2. CASE closing[t] # "open"
    BY <1>2, <2>1, <2>2 DEF UpdateIceState, TypeOK
  <2>3. CASE SetTransportState(t, "nice", TRANSPORT_GATHERED, "loop")
    BY <2>1, <2>3, <2>a, SetTransportStateTypes
  <2>4. CASE SetTransportState(t, "nice", TRANSPORT_FAILED, "loop")
    BY <2>1, <2>4, <2>a, SetTransportStateTypes
  <2>5. CASE /\ pc' = IF server[t] THEN pc ELSE [pc EXCEPT ![t]["nice"] = "start"]
             /\ UNCHANGED <<tstate, val>>
    BY <2>1, <2>5 DEF TypeOK, Places, Threads
  <2> QED BY <1>2, <2>2, <2>3, <2>4, <2>5 DEF UpdateIceState
<1> QED BY <1>1, <1>2

\* And an iteration of the handshake.
LEMMA HandshakeTypes ==
  ASSUME TypeOK, NEW t \in Media, NEW th \in Threads, NEW c \in Components,
         NEW o \in SslOutcomes, DoHandshakeIteration(t, th, c, o)
  PROVE  /\ pc' \in [Media -> [Threads -> Places]]
         /\ val' \in [Media -> [Threads -> TransportState]]
         /\ tstate' \in [Media -> TransportState]
         /\ hs' \in [Media -> [Components -> {"shaking", "done", "failed"}]]
         /\ ready' \in [Media -> SUBSET Components]
         /\ running' \in [Media -> BOOLEAN]
         /\ cur' \in [Media -> [Threads -> Components \cup {"none"}]]
         /\ flight' \in [Media -> [Threads -> BOOLEAN]]
<1>1. o \in Outcomes
  BY InputAssumption DEF InputAssumption
<1> DEFINE s     == HandshakeResult(t, c, o)
           after == IF o.out THEN "resend" ELSE Resume(th)
<1>2. s \in TransportState /\ after \in Places
  BY <1>1 DEF HandshakeResult, TransportState, Resume, Places, Outcomes
<1>3. CASE hs[t][c] = "done"
  <2>1. /\ pc' = [pc EXCEPT ![t][th] = Resume(th)]
        /\ cur' = [cur EXCEPT ![t][th] = "none"]
        /\ UNCHANGED <<hs, ready, running, tstate, val, flight>>
    BY <1>3 DEF DoHandshakeIteration
  <2>2. Resume(th) \in Places
    BY DEF Resume, Places
  <2> QED BY <2>1, <2>2 DEF TypeOK
<1>4. CASE hs[t][c] # "done"
  <2>1. /\ hs' \in [Media -> [Components -> {"shaking", "done", "failed"}]]
        /\ ready' \in [Media -> SUBSET Components]
        /\ running' \in [Media -> BOOLEAN]
        /\ cur' \in [Media -> [Threads -> Components \cup {"none"}]]
    <3>1. \E h \in {"shaking", "done", "failed"} : hs' = [hs EXCEPT ![t][c] = h]
      BY <1>4 DEF DoHandshakeIteration, TypeOK
    <3>2. ready' \in {ready, [ready EXCEPT ![t] = @ \cup {c}]}
      BY <1>4 DEF DoHandshakeIteration
    <3>3. running' \in {running, [running EXCEPT ![t] = FALSE]}
      BY <1>4 DEF DoHandshakeIteration
    <3>4. \E d \in {c, "none"} : cur' = [cur EXCEPT ![t][th] = d]
      BY <1>4 DEF DoHandshakeIteration
    <3>5. hs' \in [Media -> [Components -> {"shaking", "done", "failed"}]]
      BY <3>1 DEF TypeOK
    <3>6. /\ ready' \in [Media -> SUBSET Components]
          /\ running' \in [Media -> BOOLEAN]
      <4>1. /\ ready \in [Media -> SUBSET Components]
            /\ running \in [Media -> BOOLEAN]
        BY DEF TypeOK
      <4>2. ready' \in [Media -> SUBSET Components]
        BY <3>2, <4>1
      <4>3. running' \in [Media -> BOOLEAN]
        BY <3>3, <4>1
      <4> QED BY <4>2, <4>3
    <3>7. cur' \in [Media -> [Threads -> Components \cup {"none"}]]
      BY <3>4 DEF TypeOK
    <3> QED BY <3>5, <3>6, <3>7
  <2>2. flight' \in [Media -> [Threads -> BOOLEAN]]
    <3>1. flight' = [flight EXCEPT ![t][th] = o.out]
      BY <1>4 DEF DoHandshakeIteration
    <3>2. o.out \in BOOLEAN
      BY <1>1 DEF Outcomes
    <3> QED BY <3>1, <3>2 DEF TypeOK
  <2>3. /\ pc' \in [Media -> [Threads -> Places]]
        /\ val' \in [Media -> [Threads -> TransportState]]
        /\ tstate' \in [Media -> TransportState]
    <3>1. CASE s = TRANSPORT_INITIAL
      <4>1. /\ pc' = [pc EXCEPT ![t][th] = after]
            /\ UNCHANGED <<tstate, val>>
        BY <1>4, <3>1 DEF DoHandshakeIteration
      <4> QED BY <4>1, <1>2 DEF TypeOK
    <3>2. CASE s # TRANSPORT_INITIAL
      <4>1. SetTransportState(t, th, s, after)
        BY <1>4, <3>2 DEF DoHandshakeIteration
      <4> QED BY <4>1, <1>2, SetTransportStateTypes
    <3> QED BY <3>1, <3>2
  <2> QED BY <2>1, <2>2, <2>3
<1> QED BY <1>3, <1>4

\* The connection starts well-typed.
LEMMA InitTypes == Init => TypeOK
<1>1. Init => /\ trickle \in BOOLEAN /\ bundle \in BOOLEAN /\ sending \in BOOLEAN
  BY InputAssumption, Zenon DEF Init, InputAssumption
<1>2. NoSdp \in Sdp
  BY DEF NoSdp, Sdp
<1> SUFFICES ASSUME Init PROVE TypeOK
  OBVIOUS
<1>3. /\ user \in {"idle", "sdpVideo", "sdpAudio", "sdpCands", "joining", "closing",
                "destroyed"}
      /\ local \in SUBSET Media
      /\ remote \in Sdp
      /\ global \in ConnState
      /\ temp \in ConnState
      /\ sender \in {"busy", "waiting", "exited"}
      /\ missed \in SUBSET Media
      /\ signal \in SUBSET Media
  BY <1>2 DEF Init, ConnState
<1>4. /\ server \in [Media -> BOOLEAN]
      /\ comps \in [Media -> SUBSET Components]
      /\ creds \in SUBSET Media
      /\ fed \in SUBSET Media
      /\ last \in SUBSET Media
      /\ ice \in [Media -> IceState]
      /\ compState \in [Media -> [Components -> IceState]]
      /\ inbound \in SUBSET Media
      /\ late \in [Media -> IceState]
  BY DEF Init, IceState, Components
<1>5. /\ tstate \in [Media -> TransportState]
      /\ running \in [Media -> BOOLEAN]
      /\ started \in [Media -> SUBSET Components]
      /\ hs \in [Media -> [Components -> {"shaking", "done", "failed"}]]
      /\ ready \in [Media -> SUBSET Components]
      /\ closing \in [Media -> {"open", "quit", "joined", "closed"}]
  BY DEF Init, TransportState
<1>6. /\ pc \in [Media -> [Threads -> Places]]
      /\ val \in [Media -> [Threads -> TransportState]]
      /\ cur \in [Media -> [Threads -> Components \cup {"none"}]]
      /\ flight \in [Media -> [Threads -> BOOLEAN]]
  BY DEF Init, TransportState, Places
<1> QED BY <1>1, <1>3, <1>4, <1>5, <1>6 DEF TypeOK

\* Every step of the application keeps the types.
LEMMA UserTypes == TypeOK /\ UserStep => TypeOK'
<1> SUFFICES ASSUME TypeOK, UserStep PROVE TypeOK'
  OBVIOUS
<1> USE DEF sdpVars, connVars, setupVars, iceVars, dtlsVars
<1>1. ASSUME NEW t \in Media, NEW isServer \in BOOLEAN, NEW mux \in BOOLEAN,
             CreateTransport(t, isServer, mux)
      PROVE  /\ server' \in [Media -> BOOLEAN]
             /\ comps' \in [Media -> SUBSET Components]
             /\ running' \in [Media -> BOOLEAN]
             /\ pc' \in [Media -> [Threads -> Places]]
  <2>1. /\ server' \in [Media -> BOOLEAN]
        /\ running' \in [Media -> BOOLEAN]
    BY <1>1 DEF CreateTransport, TypeOK
  <2>2. comps' \in [Media -> SUBSET Components]
    BY <1>1 DEF CreateTransport, TypeOK, Components
  <2>3. pc' \in [Media -> [Threads -> Places]]
    BY <1>1 DEF CreateTransport, TypeOK, Threads, Places
  <2> QED BY <2>1, <2>2, <2>3
<1>2. CASE CreateOffer
  <2>1. bundle' \in BOOLEAN /\ local' \in SUBSET Media
    BY <1>2, Zenon DEF CreateOffer
  <2> QED BY <1>2, <1>1, <2>1 DEF CreateOffer, TypeOK, Media
<1>3. ASSUME NEW r \in RemoteSdps, SetRemoteSdp(r) PROVE TypeOK'
  <2>1. r \in Sdp
    BY InputAssumption DEF InputAssumption
  <2> QED BY <1>3, <2>1 DEF SetRemoteSdp, TypeOK, Sdp
<1>4. ASSUME NEW t \in Media, NEW here, NEW needed \in BOOLEAN,
             NEW next \in {"sdpAudio", "sdpCands"},
             SetRemoteSdpTransport(t, here, next, needed)
      PROVE  TypeOK'
  <2>1. creds' \in SUBSET Media
    BY <1>4 DEF SetRemoteSdpTransport, TypeOK
  <2>2. remote.mux \in BOOLEAN
    BY DEF TypeOK, Sdp
  <2>3. /\ server' \in [Media -> BOOLEAN]
        /\ comps' \in [Media -> SUBSET Components]
        /\ running' \in [Media -> BOOLEAN]
        /\ pc' \in [Media -> [Threads -> Places]]
    <3>1. CASE CreateTransport(t, FALSE, remote.mux)
      BY <1>1, <2>2, <3>1
    <3>2. CASE UNCHANGED <<setupVars, running, pc>>
      BY <3>2 DEF TypeOK
    <3> QED BY <1>4, <3>1, <3>2 DEF SetRemoteSdpTransport
  <2> QED BY <1>4, <2>1, <2>3 DEF SetRemoteSdpTransport, TypeOK
<1>5. CASE SetRemoteSdpVideo
  BY <1>5, <1>4 DEF SetRemoteSdpVideo, Media, TypeOK
<1>6. CASE SetRemoteSdpAudio
  BY <1>6, <1>4 DEF SetRemoteSdpAudio, Media, TypeOK
<1>7. CASE SetRemoteSdpCandidates
  BY <1>7 DEF SetRemoteSdpCandidates, TypeOK, Media
<1>8. ASSUME NEW m \in Media, NEW end \in BOOLEAN, NEW parsed \in BOOLEAN,
             AddRemoteCandidate(m, end, parsed)
      PROVE  TypeOK'
  <2>1. remote' \in Sdp
    BY <1>8 DEF AddRemoteCandidate, TypeOK, Sdp
  <2>2. last' \in SUBSET Media /\ fed' \in SUBSET Media
    BY <1>8 DEF AddRemoteCandidate, TypeOK, Media
  <2> QED BY <1>8, <2>1, <2>2 DEF AddRemoteCandidate, TypeOK
<1>9. CASE Destroy
  <2>1. sending' \in BOOLEAN
    BY <1>9, Zenon DEF Destroy
  <2> QED BY <1>9, <2>1 DEF Destroy, TypeOK
<1>10. ASSUME NEW t \in Media, NEW s \in NICE_INITIAL..NICE_READY,
              CloseTransport(t, s) \/ JoinNice(t) \/ JoinData(t)
       PROVE  TypeOK'
  <2>1. CASE CloseTransport(t, s)
    <3>1. ice' \in [Media -> IceState] /\ running' \in [Media -> BOOLEAN]
          /\ late' \in [Media -> IceState]
      BY <2>1 DEF CloseTransport, TypeOK, IceState
    <3> QED BY <2>1, <3>1 DEF CloseTransport, TypeOK
  <2>2. CASE JoinNice(t)
    BY <2>2 DEF JoinNice, TypeOK, TransportState
  <2>3. CASE JoinData(t)
    BY <2>3 DEF JoinData, TypeOK
  <2> QED BY <1>10, <2>1, <2>2, <2>3
<1>11. CASE Destroyed
  BY <1>11 DEF Destroyed, TypeOK, ConnState
<1>12. ASSUME NEW t \in Media, NEW c \in Components, ResenderDestroyed(t, c)
       PROVE  TypeOK'
  BY <1>12 DEF ResenderDestroyed, TypeOK, Places, TimerOf, Threads
<1>13. CASE JoinSender
  BY <1>13 DEF JoinSender, TypeOK
<1>14. NICE_INITIAL \in NICE_INITIAL..NICE_READY
  OBVIOUS
<1> QED BY <1>2, <1>3, <1>5, <1>6, <1>7, <1>8, <1>9, <1>10, <1>11, <1>12, <1>13, <1>14
        DEF UserStep, SetRemoteSdpStep, CloseStep

\* The data thread reads a packet of one of the transport's components.
ReadsComponent == \A t \in Media : pc[t]["data"] = "read" => cur[t]["data"] \in comps[t]

\* updateState gives temp a state of the connection.
LEMMA AggregateType == ASSUME TypeOK, NEW s PROVE Aggregate(s) \in ConnState
  BY DEF TypeOK, Aggregate, ConnState

\* Every step of a transport's threads keeps the types.
LEMMA TransportTypes ==
  ASSUME TypeOK, ReadsComponent, NEW t \in Media, TransportStep(t) PROVE TypeOK'
<1> USE DEF sdpVars, connVars, setupVars, iceVars, dtlsVars
<1>1. ASSUME NEW th \in Threads, EvaluateIgnored(t, th) PROVE TypeOK'
  BY <1>1, ReturnTypes DEF EvaluateIgnored, TypeOK
<1>2. ASSUME NEW th \in Threads, Evaluate(t, th) PROVE TypeOK'
  <2>1. temp' \in ConnState
    BY <1>2, AggregateType DEF Evaluate
  <2>2. sending' \in BOOLEAN
    BY <1>2 DEF Evaluate, TypeOK
  <2>3. fed' \in SUBSET Media
    BY <1>2 DEF Evaluate, FedByUpdateState, TypeOK, Media
  <2>4. pc' \in [Media -> [Threads -> Places]]
    BY <1>2 DEF Evaluate, TypeOK, Places
  <2> QED BY <1>2, <2>1, <2>2, <2>3, <2>4 DEF Evaluate, TypeOK
<1>3. ASSUME NEW th \in Threads, Commit(t, th) PROVE TypeOK'
  <2>1. sender' \in {"busy", "waiting", "exited"}
    BY <1>3 DEF Commit, Notified, TypeOK
  <2> QED BY <1>3, <2>1, ReturnTypes DEF Commit, TypeOK
<1>4. CASE GatheringDone(t)
  <2>1. NICE_CANDIDATES_RECEIVED \in IceState
    BY DEF IceState
  <2> QED BY <1>4, <2>1, UpdateIceStateTypes DEF GatheringDone, TypeOK
<1>5. ASSUME NEW c \in Components, NEW s \in IceState, ComponentReported(t, c, s)
      PROVE  TypeOK'
  <2>1. compState' \in [Media -> [Components -> IceState]]
    BY <1>5 DEF ComponentReported, TypeOK
  <2>2. CASE UpdateIceState(t, s)
    BY <1>5, <2>1, <2>2, UpdateIceStateTypes DEF ComponentReported, TypeOK
  <2>3. CASE UNCHANGED <<ice, inbound, running, tstate, pc, val>>
    BY <1>5, <2>1, <2>3 DEF ComponentReported, TypeOK
  <2> QED BY <1>5, <2>2, <2>3 DEF ComponentReported
<1>6. ASSUME NEW c \in Components, NewSelectedPair(t, c) \/ ComponentFailed(t, c)
      PROVE  TypeOK'
  <2>1. NICE_READY \in IceState /\ NICE_FAILED \in IceState
    BY DEF IceState
  <2> QED BY <1>5, <1>6, <2>1 DEF NewSelectedPair, ComponentFailed
<1>7. ASSUME NEW c \in Components, DtlsPacket(t, c) PROVE TypeOK'
  <2>1. cur' \in [Media -> [Threads -> Components \cup {"none"}]]
    BY <1>7 DEF DtlsPacket, TypeOK
  <2>2. pc' \in [Media -> [Threads -> Places]]
    <3>1. "data" \in Threads /\ TimerOf(c) \in Threads /\ "read" \in Places
          /\ "done" \in Places
      BY DEF Threads, TimerOf, Places
    <3>2. CASE pc' = [pc EXCEPT ![t]["data"] = "read"]
      BY <3>1, <3>2 DEF TypeOK
    <3>3. CASE pc' = [pc EXCEPT ![t]["data"] = "read", ![t][TimerOf(c)] = "done"]
      BY <3>1, <3>3 DEF TypeOK
    <3> QED BY <1>7, <3>2, <3>3 DEF DtlsPacket
  <2> QED BY <1>7, <2>1, <2>2 DEF DtlsPacket, TypeOK
<1>8. ASSUME NEW c \in Components, Timeout(t, c) PROVE TypeOK'
  <2>1. TimerOf(c) \in Threads /\ TRANSPORT_FAILED \in TransportState /\ "done" \in Places
    BY DEF TimerOf, Threads, TransportState, Places
  <2>2. running' \in [Media -> BOOLEAN]
    BY <1>8 DEF Timeout, TypeOK
  <2>3. /\ pc' \in [Media -> [Threads -> Places]]
        /\ val' \in [Media -> [Threads -> TransportState]]
        /\ tstate' \in [Media -> TransportState]
    BY <1>8, <2>1, SetTransportStateTypes DEF Timeout
  <2> QED BY <1>8, <2>2, <2>3 DEF Timeout, TypeOK
<1>9. ASSUME NEW c \in Components, NEW o \in SslOutcomes, DtlsStart(t, c, o)
      PROVE  TypeOK'
  <2>1. "nice" \in Threads
    BY DEF Threads
  <2>2. started' \in [Media -> SUBSET Components]
    BY <1>9 DEF DtlsStart, TypeOK
  <2> QED BY <1>9, <2>1, <2>2, HandshakeTypes DEF DtlsStart, TypeOK
<1>10. ASSUME NEW o \in SslOutcomes, DtlsRead(t, o) PROVE TypeOK'
  <2>1. "data" \in Threads
    BY DEF Threads
  <2>2. cur[t]["data"] \in Components
    BY <1>10 DEF DtlsRead, ReadsComponent, TypeOK
  <2> QED BY <1>10, <2>1, <2>2, HandshakeTypes DEF DtlsRead, TypeOK
<1>11. CASE DtlsStarted(t)
  BY <1>11 DEF DtlsStarted, TypeOK, Places, Threads
<1>12. CASE DataLoop(t)
  BY <1>12 DEF DataLoop, TypeOK, Places, Threads
<1>13. CASE MediaPacket(t)
  BY <1>13 DEF MediaPacket, TypeOK, Places, Threads
<1>14. ASSUME NEW th \in {"nice", "data"}, ScheduleStep(t, th) PROVE TypeOK'
  <2>1. th \in Threads /\ TimerOf(cur[t][th]) \in Threads
    BY DEF Threads, TimerOf
  <2>2. CASE ScheduleCancels(t, th)
    BY <2>1, <2>2 DEF ScheduleCancels, TypeOK, Places
  <2>3. CASE ScheduleResend(t, th)
    <3>1. flight' \in [Media -> [Threads -> BOOLEAN]]
      BY <2>1, <2>3 DEF ScheduleResend, TypeOK
    <3>2. cur' \in [Media -> [Threads -> Components \cup {"none"}]]
      BY <2>1, <2>3 DEF ScheduleResend, TypeOK
    <3>3. pc' \in [Media -> [Threads -> Places]]
      BY <2>1, <2>3 DEF ScheduleResend, TypeOK, Places, Resume
    <3> QED BY <2>3, <3>1, <3>2, <3>3 DEF ScheduleResend, TypeOK
  <2> QED BY <1>14, <2>2, <2>3 DEF ScheduleStep
<1>15. CASE NiceExit(t)
  BY <1>15 DEF NiceExit, TypeOK, Places, Threads
<1>16. CASE DataWoken(t)
  <2>1. running' \in [Media -> BOOLEAN]
    BY <1>16 DEF DataWoken, TypeOK
  <2>2. pc' \in [Media -> [Threads -> Places]]
    <3>1. pc' = pc \/ pc' = [pc EXCEPT ![t]["data"] = "exited"]
      BY <1>16 DEF DataWoken
    <3>2. "data" \in Threads /\ "exited" \in Places
      BY DEF Threads, Places
    <3>3. CASE pc' = [pc EXCEPT ![t]["data"] = "exited"]
      BY <3>2, <3>3 DEF TypeOK
    <3> QED BY <3>1, <3>3 DEF TypeOK
  <2> QED BY <1>16, <2>1, <2>2 DEF DataWoken, TypeOK
<1>17. CASE LateIceState(t)
  <2>1. ice' \in [Media -> IceState] /\ late' \in [Media -> IceState]
    BY <1>17 DEF LateIceState, TypeOK, IceState
  <2>2. inbound' \in SUBSET Media /\ missed' \in SUBSET Media
    BY <1>17 DEF LateIceState, TypeOK
  <2> QED BY <1>17, <2>1, <2>2 DEF LateIceState, TypeOK
<1> QED BY <1>1, <1>2, <1>3, <1>4, <1>6, <1>7, <1>8, <1>9, <1>10, <1>11, <1>12,
           <1>13, <1>14, <1>15, <1>16, <1>17
        DEF TransportStep, ReportStep, StartStep, ReadStep

\* An iteration of the handshake moves only the thread that makes it, and never
\* to the place where a packet is read.
LEMMA HandshakeMoves ==
  ASSUME TypeOK, NEW t \in Media, NEW th \in Threads, NEW c \in Components,
         NEW o \in SslOutcomes, DoHandshakeIteration(t, th, c, o)
  PROVE  /\ pc'[t][th] \in {Resume(th), "resend", "report"}
         /\ \A u \in Media, uh \in Threads :
              ~(u = t /\ uh = th) => pc'[u][uh] = pc[u][uh] /\ cur'[u][uh] = cur[u][uh]
<1> USE Update DEF TypeOK
<1>1. CASE hs[t][c] = "done"
  <2>1. /\ pc' = [pc EXCEPT ![t][th] = Resume(th)]
        /\ cur' = [cur EXCEPT ![t][th] = "none"]
    BY <1>1 DEF DoHandshakeIteration
  <2> QED BY <2>1
<1>2. CASE hs[t][c] # "done"
  <2>1. \E d : cur' = [cur EXCEPT ![t][th] = d]
    BY <1>2 DEF DoHandshakeIteration
  <2>2. \E p \in {Resume(th), "resend", "report"} : pc' = [pc EXCEPT ![t][th] = p]
    BY <1>2 DEF DoHandshakeIteration, SetTransportState
  <2> QED BY <2>1, <2>2
<1> QED BY <1>1, <1>2

\* updateIceState never sends the data thread to read a packet.
LEMMA IceMoves ==
  ASSUME TypeOK, NEW t \in Media, NEW s, UpdateIceState(t, s)
  PROVE  pc' = pc \/ \E p \in {"loop", "report", "start"} :
                        pc' = [pc EXCEPT ![t]["nice"] = p]
  BY DEF UpdateIceState, SetTransportState

\* Every step keeps the component that is being read.
LEMMA ReadsComponentNext == TypeOK /\ ReadsComponent /\ [Next]_vars => ReadsComponent'
<1> SUFFICES ASSUME TypeOK, ReadsComponent, [Next]_vars PROVE ReadsComponent'
  OBVIOUS
<1> USE DEF sdpVars, connVars, setupVars, iceVars, dtlsVars
<1>0. /\ "data" \in Threads /\ "nice" \in Threads
      /\ \A c : TimerOf(c) \in Threads \ {"data", "nice"}
  BY DEF Threads, TimerOf
<1>a. ASSUME cur' = cur, comps' = comps,
             \A u \in Media : pc'[u]["data"] = "read" => pc[u]["data"] = "read"
      PROVE  ReadsComponent'
  BY <1>a DEF ReadsComponent
<1>b. ASSUME NEW t \in Media, NEW th \in Threads, comps' = comps, pc'[t][th] # "read",
             \A u \in Media, uh \in Threads :
               ~(u = t /\ uh = th) => \/ pc'[u][uh] = pc[u][uh] /\ cur'[u][uh] = cur[u][uh]
                                      \/ pc'[u][uh] # "read"
      PROVE  ReadsComponent'
  BY <1>0, <1>b DEF ReadsComponent
<1>1. ASSUME NEW t \in Media, NEW th \in Threads, ReturnFromReport(t, th), comps' = comps
      PROVE  ReadsComponent'
  <2>1. pc'[t][th] # "read"
    BY <1>1, Update DEF ReturnFromReport, AfterReport, Resume, TypeOK
  <2>2. \A w \in Media, wh \in Threads :
          ~(w = t /\ wh = th) => pc'[w][wh] = pc[w][wh] /\ cur'[w][wh] = cur[w][wh]
    BY <1>1, Update DEF ReturnFromReport, TypeOK
  <2> QED BY <1>b, <1>1, <2>1, <2>2
<1>2. ASSUME NEW t \in Media, NEW th \in Threads, ReportStep(t, th)
      PROVE  ReadsComponent'
  <2>1. CASE Evaluate(t, th)
    BY <1>0, <1>a, <2>1, Update DEF Evaluate, TypeOK
  <2>2. CASE EvaluateIgnored(t, th) \/ Commit(t, th)
    BY <1>1, <2>2 DEF EvaluateIgnored, Commit
  <2> QED BY <1>2, <2>1, <2>2 DEF ReportStep
<1>3. ASSUME NEW t \in Media, NEW s, UpdateIceState(t, s), cur' = cur, comps' = comps
      PROVE  ReadsComponent'
  <2>1. \A u \in Media : pc'[u]["data"] = "read" => pc[u]["data"] = "read"
    <3>1. CASE pc' = pc
      BY <3>1
    <3>2. ASSUME NEW p \in {"loop", "report", "start"}, pc' = [pc EXCEPT ![t]["nice"] = p]
          PROVE  \A u \in Media : pc'[u]["data"] = pc[u]["data"]
      BY <1>0, <3>2, Update DEF TypeOK
    <3> QED BY <1>3, <3>1, <3>2, IceMoves
  <2> QED BY <1>a, <1>3, <2>1
<1>4. ASSUME NEW t \in Media, GatheringDone(t) PROVE ReadsComponent'
  BY <1>3, <1>4 DEF GatheringDone
<1>5. ASSUME NEW t \in Media, NEW c \in Components, NewSelectedPair(t, c) \/ ComponentFailed(t, c)
      PROVE  ReadsComponent'
  <2>1. PICK s : ComponentReported(t, c, s)
    BY <1>5 DEF NewSelectedPair, ComponentFailed
  <2>2. CASE UpdateIceState(t, s)
    BY <1>3, <2>1, <2>2 DEF ComponentReported
  <2>3. CASE UNCHANGED <<ice, inbound, running, tstate, pc, val>>
    BY <1>a, <2>1, <2>3 DEF ComponentReported
  <2> QED BY <2>1, <2>2, <2>3 DEF ComponentReported
<1>6. ASSUME NEW t \in Media, NEW c \in Components, DtlsPacket(t, c) PROVE ReadsComponent'
  <2>1. \A u \in Media, uh \in Threads :
          cur'[u][uh] = IF u = t /\ uh = "data" THEN c ELSE cur[u][uh]
    BY <1>0, <1>6, Update DEF DtlsPacket, TypeOK
  <2>2. \A u \in Media : u # t => pc'[u]["data"] = pc[u]["data"]
    BY <1>0, <1>6 DEF DtlsPacket, TypeOK
  <2> QED BY <1>0, <1>6, <2>1, <2>2 DEF DtlsPacket, ReadsComponent
<1>7. ASSUME NEW t \in Media, NEW c \in Components, Timeout(t, c) PROVE ReadsComponent'
  <2>1. \E p \in {"report", "done"} : pc' = [pc EXCEPT ![t][TimerOf(c)] = p]
    BY <1>7 DEF Timeout, SetTransportState
  <2> QED BY <1>0, <1>a, <1>7, <2>1, Update DEF Timeout, TypeOK
<1>8. ASSUME NEW t \in Media, NEW c \in Components, NEW o \in SslOutcomes, DtlsStart(t, c, o)
      PROVE  ReadsComponent'
  BY <1>0, <1>b, <1>8, HandshakeMoves DEF DtlsStart, Resume
<1>9. ASSUME NEW t \in Media, NEW o \in SslOutcomes, DtlsRead(t, o) PROVE ReadsComponent'
  <2>1. cur[t]["data"] \in Components
    BY <1>9 DEF DtlsRead, ReadsComponent, TypeOK
  <2> QED BY <1>0, <1>b, <1>9, <2>1, HandshakeMoves DEF DtlsRead, Resume
<1>10. ASSUME NEW t \in Media, DtlsStarted(t) \/ DataLoop(t) \/ MediaPacket(t)
                               \/ NiceExit(t) \/ DataWoken(t)
       PROVE  ReadsComponent'
  <2>1. \/ pc' = pc
        \/ \E th \in {"nice", "data"}, p \in {"loop", "top", "get", "exited"} :
             pc' = [pc EXCEPT ![t][th] = p]
    BY <1>10 DEF DtlsStarted, DataLoop, MediaPacket, NiceExit, DataWoken
  <2>2. \A u \in Media : pc'[u]["data"] = "read" => pc[u]["data"] = "read"
    <3>1. ASSUME NEW th \in {"nice", "data"}, NEW p \in {"loop", "top", "get", "exited"},
                 pc' = [pc EXCEPT ![t][th] = p]
          PROVE  \A u \in Media : pc'[u]["data"] = "read" => pc[u]["data"] = "read"
      BY <1>0, <3>1, Update DEF TypeOK
    <3> QED BY <2>1, <3>1
  <2> QED BY <1>a, <1>10, <2>2
          DEF DtlsStarted, DataLoop, MediaPacket, NiceExit, DataWoken
<1>11. ASSUME NEW t \in Media, NEW th \in {"nice", "data"}, ScheduleStep(t, th)
       PROVE  ReadsComponent'
  <2>1. CASE ScheduleCancels(t, th)
    BY <1>0, <1>a, <2>1, Update DEF ScheduleCancels, TypeOK
  <2>2. CASE ScheduleResend(t, th)
    <3>1. pc'[t][th] # "read"
      BY <1>0, <2>2 DEF ScheduleResend, TypeOK, Resume
    <3>2. \A u \in Media, uh \in Threads :
            ~(u = t /\ uh = th) => cur'[u][uh] = cur[u][uh]
      BY <1>0, <2>2, Update DEF ScheduleResend, TypeOK
    <3>3. \A u \in Media, uh \in Threads :
            ~(u = t /\ uh = th) => pc'[u][uh] = pc[u][uh] \/ pc'[u][uh] = "armed"
      BY <1>0, <2>2 DEF ScheduleResend, TypeOK
    <3>4. comps' = comps
      BY <2>2 DEF ScheduleResend
    <3> QED BY <1>0, <3>1, <3>2, <3>3, <3>4 DEF ReadsComponent
  <2> QED BY <1>11, <2>1, <2>2 DEF ScheduleStep
<1>12. ASSUME NEW t \in Media, NEW isServer, NEW mux, CreateTransport(t, isServer, mux),
              cur' = cur, ~Created(t)
       PROVE  ReadsComponent'
  <2>1. \A u \in Media : u # t => pc'[u] = pc[u] /\ comps'[u] = comps[u]
    BY <1>12 DEF CreateTransport, TypeOK
  <2>2. pc'[t]["data"] = "top"
    BY <1>0, <1>12 DEF CreateTransport, TypeOK
  <2> QED BY <1>12, <2>1, <2>2 DEF ReadsComponent
<1>13. CASE CreateOffer
  BY <1>12, <1>13 DEF CreateOffer, Media
<1>14. CASE SetRemoteSdpStep
  <2>1. ASSUME NEW t \in Media, NEW here, NEW next, NEW needed,
               SetRemoteSdpTransport(t, here, next, needed)
        PROVE  ReadsComponent'
    BY <1>12, <1>a, <2>1 DEF SetRemoteSdpTransport
  <2>2. CASE SetRemoteSdpVideo \/ SetRemoteSdpAudio
    BY <2>1, <2>2 DEF SetRemoteSdpVideo, SetRemoteSdpAudio, Media
  <2>3. CASE SetRemoteSdpCandidates
    BY <1>a, <2>3 DEF SetRemoteSdpCandidates
  <2> QED BY <1>14, <2>2, <2>3 DEF SetRemoteSdpStep
<1>15. ASSUME NEW t \in Media, NEW c \in Components, ResenderDestroyed(t, c)
       PROVE  ReadsComponent'
  BY <1>0, <1>a, <1>15, Update DEF ResenderDestroyed, TypeOK
<1>16. CASE UNCHANGED <<pc, cur, comps>>
  BY <1>a, <1>16
<1>17. ASSUME NEW r \in RemoteSdps, SetRemoteSdp(r) PROVE ReadsComponent'
  BY <1>16, <1>17 DEF SetRemoteSdp
<1>18. ASSUME NEW m \in Media, NEW end, NEW parsed, AddRemoteCandidate(m, end, parsed)
       PROVE ReadsComponent'
  BY <1>16, <1>18 DEF AddRemoteCandidate
<1>19. CASE \/ Destroy \/ CloseStep \/ SendTest \/ SendWakeup \/ Terminated \/ Hung
            \/ UNCHANGED vars
  BY <1>16, <1>19 DEF Destroy, CloseStep, JoinSender, CloseTransport, JoinNice, JoinData,
     Destroyed, SendTest, SendWakeup, Terminated, Hung, vars
<1>20. ASSUME NEW t \in Media, LateIceState(t) PROVE ReadsComponent'
  BY <1>16, <1>20 DEF LateIceState
<1> QED BY <1>2, <1>4, <1>5, <1>6, <1>7, <1>8, <1>9, <1>10, <1>11, <1>13, <1>14, <1>15,
           <1>17, <1>18, <1>19, <1>20
        DEF Next, UserStep, TransportStep, StartStep, ReadStep

\* So every step keeps the types.
LEMMA TypeNext == TypeOK /\ ReadsComponent /\ [Next]_vars => TypeOK'
<1> SUFFICES ASSUME TypeOK, ReadsComponent, [Next]_vars PROVE TypeOK'
  OBVIOUS
<1>1. CASE UserStep
  BY <1>1, UserTypes
<1>2. CASE \E t \in Media : TransportStep(t)
  BY <1>2, TransportTypes
<1>3. CASE Terminated \/ Hung \/ UNCHANGED vars
  BY <1>3 DEF Terminated, Hung, vars, sdpVars, connVars, setupVars, iceVars, dtlsVars, TypeOK
<1>4. CASE SendTest \/ SendWakeup
  BY <1>4 DEF SendTest, SendWakeup, sdpVars, setupVars, iceVars, dtlsVars, TypeOK
<1> QED BY <1>1, <1>2, <1>3, <1>4 DEF Next

\* No thread reads at the start.
LEMMA ReadsComponentInit == Init => ReadsComponent
  BY DEF Init, ReadsComponent, Threads

\* The types hold in every reachable state of the connection and its transports.
THEOREM TypeCorrect == Spec => []TypeOK
  BY InitTypes, ReadsComponentInit, TypeNext, ReadsComponentNext, PTL DEF Spec

-----------------------------------------------------------------------------
(***************************************************************************)
(* No failure of a transport is silent.  The argument follows a report     *)
(* from the write of state_ through updateStateMutex_ to globalState_, and *)
(* shows that nothing undoes it on the way: a thread commits what it       *)
(* evaluated, because the mutex is exclusive; a failed connection ignores  *)
(* later reports; and after the destructor only the timers still report,   *)
(* and only failures.                                                      *)
(***************************************************************************)
\* The threads of the Resenders.
Timers == {"rtpTimer", "rtcpTimer"}

\* A transport that was not created has no threads and has not failed.
NothingBeforeCreation ==
  \A t \in Media : ~Created(t) => /\ tstate[t] # TRANSPORT_FAILED
                                  /\ \A th \in Threads : pc[t][th] = "none"

\* updateStateMutex_ is exclusive.
OneCommitter ==
  \A t, u \in Media, th, uh \in Threads :
    pc[t][th] = "commit" /\ pc[u][uh] = "commit" => t = u /\ th = uh

\* The thread in updateState found a connection that had not failed, and commits a
\* failure if it reports one.
CommitsItsReport ==
  \A t \in Media, th \in Threads :
    pc[t][th] = "commit" => /\ global # CONN_FAILED
                            /\ val[t][th] = TRANSPORT_FAILED => temp = CONN_FAILED

\* A timer has nothing but failures to report.
TimersReportFailure ==
  \A t \in Media, th \in Timers :
    pc[t][th] \in {"report", "commit"} => val[t][th] = TRANSPORT_FAILED

\* What close() has joined has ended.
JoinedHaveEnded ==
  \A t \in Media : /\ closing[t] \in {"joined", "closed"} => pc[t]["nice"] = "exited"
                   /\ closing[t] = "closed" => pc[t]["data"] = "exited"

\* The destructor ends after all transports are closed.
DestroyedIsClosed ==
  user = "destroyed" => \A t \in Media : Created(t) => closing[t] = "closed"

\* Only the destructor finishes a connection.
FinishedByDestructor ==
  global = CONN_FINISHED \/ temp = CONN_FINISHED => user = "destroyed"

FailureInv ==
  /\ NothingBeforeCreation
  /\ OneCommitter
  /\ CommitsItsReport
  /\ TimersReportFailure
  /\ JoinedHaveEnded
  /\ DestroyedIsClosed
  /\ FinishedByDestructor
  /\ NoSilentFailure

-----------------------------------------------------------------------------
(***************************************************************************)
(* What the steps of a transport's threads have in common.                 *)
(***************************************************************************)

\* Threads of t move, but not into or out of a report.
QuietMove(t) ==
  /\ tstate' = tstate
  /\ val' = val
  /\ \A u \in Media, uh \in Threads :
       \/ pc'[u][uh] = pc[u][uh]
       \/ /\ u = t
          /\ pc[u][uh] \notin {"report", "commit", "exited"}
          /\ pc'[u][uh] \notin {"none", "report", "commit"}

\* Thread th of t writes the new state s and goes to report it.
ReportMove(t, th, s) ==
  /\ pc[t][th] \notin {"none", "report", "commit", "exited"}
  /\ pc'[t][th] = "report"
  /\ val'[t][th] = s
  /\ tstate' = [tstate EXCEPT ![t] = s]
  /\ th \in Timers => s = TRANSPORT_FAILED
  /\ \A u \in Media, uh \in Threads :
       ~(u = t /\ uh = th) => pc'[u][uh] = pc[u][uh] /\ val'[u][uh] = val[u][uh]

\* A step of a thread of t outside updateState.  The packet loop is stopped only
\* together with a failure or while the transport is closed.
Moves(t) ==
  /\ Created(t)
  /\ UNCHANGED <<user, global, temp, closing>>
  /\ \A u \in Media : running'[u] # running[u] =>
       u = t /\ (closing[t] # "open" \/ tstate'[t] = TRANSPORT_FAILED)
  /\ QuietMove(t) \/ \E th \in Threads, s \in TransportState : ReportMove(t, th, s)

\* Such a step preserves the invariant.
LEMMA MovesInv ==
  ASSUME TypeOK, FailureInv, NEW t \in Media, Moves(t)
  PROVE  FailureInv'
<1>0. "data" \in Threads /\ "nice" \in Threads /\ Timers \subseteq Threads
  BY DEF Threads, Timers
<1>1. \A u \in Media : Created(u)' = Created(u)
  <2>1. CASE QuietMove(t)
    BY <1>0, <2>1 DEF Moves, QuietMove, Created
  <2>2. ASSUME NEW th \in Threads, NEW s \in TransportState, ReportMove(t, th, s)
        PROVE  \A u \in Media : Created(u)' = Created(u)
    BY <1>0, <2>2 DEF ReportMove, Created
  <2> QED BY <2>1, <2>2 DEF Moves
<1>2. CASE QuietMove(t)
  <2>1. NothingBeforeCreation'
    BY <1>1, <1>2 DEF FailureInv, NothingBeforeCreation, QuietMove, Moves
  <2>2. OneCommitter'
    BY <1>2 DEF FailureInv, OneCommitter, QuietMove
  <2>3. CommitsItsReport'
    BY <1>2 DEF FailureInv, CommitsItsReport, QuietMove, Moves
  <2>4. TimersReportFailure'
    BY <1>0, <1>2 DEF FailureInv, TimersReportFailure, QuietMove
  <2>5. JoinedHaveEnded'
    BY <1>0, <1>2 DEF FailureInv, JoinedHaveEnded, QuietMove, Moves
  <2>6. DestroyedIsClosed' /\ FinishedByDestructor'
    BY <1>1 DEF FailureInv, DestroyedIsClosed, FinishedByDestructor, Moves
  <2>7. \A u \in Media : FailurePending(u) => FailurePending(u)'
    BY <1>2 DEF QuietMove, FailurePending
  <2>8. NoSilentFailure'
    <3>1. FailureKnown' <=> FailureKnown
      BY DEF FailureKnown, Moves
    <3>2. \A u \in Media : \/ running'[u] = running[u]
                           \/ u = t /\ (closing[t] # "open" \/ tstate[t] = TRANSPORT_FAILED)
      BY <1>2 DEF Moves, QuietMove
    <3>3. closing' = closing /\ tstate' = tstate
      BY <1>2 DEF Moves, QuietMove
    <3> QED BY <1>1, <2>7, <3>1, <3>2, <3>3 DEF FailureInv, NoSilentFailure
  <2> QED BY <2>1, <2>2, <2>3, <2>4, <2>5, <2>6, <2>8 DEF FailureInv
<1>3. ASSUME NEW th \in Threads, NEW s \in TransportState, ReportMove(t, th, s)
      PROVE  FailureInv'
  <2>1. NothingBeforeCreation'
    BY <1>1, <1>3 DEF FailureInv, NothingBeforeCreation, ReportMove, Moves, TypeOK
  <2>2. OneCommitter'
    BY <1>3 DEF FailureInv, OneCommitter, ReportMove
  <2>3. CommitsItsReport'
    BY <1>3 DEF FailureInv, CommitsItsReport, ReportMove, Moves
  <2>4. TimersReportFailure'
    BY <1>0, <1>3 DEF FailureInv, TimersReportFailure, ReportMove
  <2>5. JoinedHaveEnded'
    BY <1>0, <1>3 DEF FailureInv, JoinedHaveEnded, ReportMove, Moves
  <2>6. DestroyedIsClosed' /\ FinishedByDestructor'
    BY <1>1 DEF FailureInv, DestroyedIsClosed, FinishedByDestructor, Moves
  <2>7. \A u \in Media : FailurePending(u) => FailurePending(u)'
    BY <1>3 DEF ReportMove, FailurePending
  <2>8. tstate'[t] = TRANSPORT_FAILED => FailurePending(t)'
    BY <1>3 DEF ReportMove, FailurePending, TypeOK
  <2>9. \A u \in Media : u # t => tstate'[u] = tstate[u] /\ running'[u] = running[u]
    BY <1>3 DEF ReportMove, Moves, TypeOK
  <2>10. NoSilentFailure'
    <3>1. ASSUME NEW u \in Media, u # t
          PROVE  (\/ tstate'[u] = TRANSPORT_FAILED
                  \/ Created(u)' /\ ~running'[u] /\ closing'[u] = "open")
                 => FailureKnown' \/ FailurePending(u)'
      BY <1>1, <2>7, <2>9, <3>1 DEF FailureInv, NoSilentFailure, FailureKnown, Moves
    <3>2. (\/ tstate'[t] = TRANSPORT_FAILED
           \/ Created(t)' /\ ~running'[t] /\ closing'[t] = "open")
          => FailureKnown' \/ FailurePending(t)'
      BY <1>1, <2>7, <2>8 DEF FailureInv, NoSilentFailure, FailureKnown, Moves
    <3> QED BY <3>1, <3>2 DEF NoSilentFailure
  <2> QED BY <2>1, <2>2, <2>3, <2>4, <2>5, <2>6, <2>10 DEF FailureInv
<1> QED BY <1>2, <1>3 DEF Moves

\* A thread exists only in a created transport.
LEMMA ThreadsAreOwned ==
  ASSUME FailureInv, NEW t \in Media, NEW th \in Threads, pc[t][th] # "none"
  PROVE  Created(t)
  BY DEF FailureInv, NothingBeforeCreation

\* updateTransportState is a quiet move or a report.
LEMMA SetTransportStateMoves ==
  ASSUME TypeOK, NEW t \in Media, NEW th \in Threads, NEW s \in TransportState, NEW after,
         pc[t][th] \notin {"none", "report", "commit", "exited"},
         after \notin {"none", "report", "commit"},
         th \in Timers => s = TRANSPORT_FAILED,
         SetTransportState(t, th, s, after)
  PROVE  /\ QuietMove(t) \/ ReportMove(t, th, s)
         /\ tstate'[t] = s
<1>1. CASE tstate[t] = s
  <2>1. pc' = [pc EXCEPT ![t][th] = after] /\ tstate' = tstate /\ val' = val
    BY <1>1 DEF SetTransportState
  <2>2. \A u \in Media, uh \in Threads :
          pc'[u][uh] = IF u = t /\ uh = th THEN after ELSE pc[u][uh]
    BY <2>1, Update DEF TypeOK
  <2> QED BY <1>1, <2>1, <2>2 DEF QuietMove
<1>2. CASE tstate[t] # s
  <2>1. /\ pc' = [pc EXCEPT ![t][th] = "report"]
        /\ tstate' = [tstate EXCEPT ![t] = s]
        /\ val' = [val EXCEPT ![t][th] = s]
    BY <1>2 DEF SetTransportState
  <2>2. \A u \in Media, uh \in Threads :
          /\ pc'[u][uh] = IF u = t /\ uh = th THEN "report" ELSE pc[u][uh]
          /\ val'[u][uh] = IF u = t /\ uh = th THEN s ELSE val[u][uh]
    BY <2>1, Update DEF TypeOK
  <2> QED BY <2>1, <2>2 DEF ReportMove, TypeOK
<1> QED BY <1>1, <1>2

\* A thread that only goes elsewhere makes a quiet move.
LEMMA PcMoves ==
  ASSUME TypeOK, NEW t \in Media, NEW th \in Threads, NEW p,
         pc[t][th] \notin {"report", "commit", "exited"},
         p \notin {"none", "report", "commit"},
         pc' = [pc EXCEPT ![t][th] = p], tstate' = tstate, val' = val
  PROVE  QuietMove(t)
<1>1. \A u \in Media, uh \in Threads :
        pc'[u][uh] = IF u = t /\ uh = th THEN p ELSE pc[u][uh]
  BY Update DEF TypeOK
<1> QED BY <1>1 DEF QuietMove

\* So do two threads that only go elsewhere.
LEMMA PcMovesTwo ==
  ASSUME TypeOK, NEW t \in Media, NEW th \in Threads, NEW uh \in Threads, NEW p, NEW q,
         th # uh,
         pc[t][th] \notin {"report", "commit", "exited"},
         pc[t][uh] \notin {"report", "commit", "exited"},
         p \notin {"none", "report", "commit"},
         q \notin {"none", "report", "commit"},
         pc' = [pc EXCEPT ![t][th] = p, ![t][uh] = q], tstate' = tstate, val' = val
  PROVE  QuietMove(t)
<1>1. \A u \in Media, vh \in Threads :
        pc'[u][vh] = IF u = t /\ vh = uh THEN q
                     ELSE IF u = t /\ vh = th THEN p ELSE pc[u][vh]
  BY DEF TypeOK
<1> QED BY <1>1 DEF QuietMove

\* The ICE callbacks are moves.
LEMMA IceStateMoves ==
  ASSUME TypeOK, FailureInv, NEW t \in Media, NEW s \in IceState, pc[t]["nice"] = "loop",
         UpdateIceState(t, s) \/ UNCHANGED <<ice, inbound, running, tstate, pc, val>>,
         UNCHANGED <<user, global, temp, closing>>
  PROVE  Moves(t)
<1>0. "nice" \in Threads /\ "nice" \notin Timers
  BY DEF Threads, Timers
<1>1. Created(t)
  BY <1>0, ThreadsAreOwned
<1>2. CASE UNCHANGED <<running, tstate, pc, val>>
  BY <1>1, <1>2 DEF Moves, QuietMove
<1>3. CASE UpdateIceState(t, s) /\ ~(s <= ice[t])
  <2>1. \A u \in Media : running'[u] # running[u] =>
          u = t /\ s = NICE_FAILED /\ closing[t] = "open"
    BY <1>3 DEF UpdateIceState, TypeOK
  <2>2. CASE closing[t] # "open" /\ UNCHANGED <<tstate, pc, val>>
    BY <1>1, <2>1, <2>2 DEF Moves, QuietMove
  <2>3. CASE s = NICE_CANDIDATES_RECEIVED
             /\ SetTransportState(t, "nice", TRANSPORT_GATHERED, "loop")
    <3>1. TRANSPORT_GATHERED \in TransportState
      BY DEF TransportState
    <3> QED BY <1>0, <1>1, <2>1, <2>3, <3>1, SetTransportStateMoves DEF Moves
  <2>4. CASE s = NICE_FAILED /\ SetTransportState(t, "nice", TRANSPORT_FAILED, "loop")
    <3>1. TRANSPORT_FAILED \in TransportState
      BY DEF TransportState
    <3> QED BY <1>0, <1>1, <2>1, <2>4, <3>1, SetTransportStateMoves DEF Moves
  <2>5. CASE /\ s = NICE_READY
             /\ pc' = IF server[t] THEN pc ELSE [pc EXCEPT ![t]["nice"] = "start"]
             /\ UNCHANGED <<tstate, val>>
    <3>1. CASE pc' = pc
      BY <1>1, <2>1, <2>5, <3>1 DEF Moves, QuietMove
    <3>2. CASE pc' = [pc EXCEPT ![t]["nice"] = "start"]
      <4>1. tstate' = tstate /\ val' = val
        BY <2>5
      <4>2. QuietMove(t)
        BY <1>0, <3>2, <4>1, Update DEF QuietMove, TypeOK
      <4> QED BY <1>1, <2>1, <2>5, <4>2 DEF Moves
    <3> QED BY <2>5, <3>1, <3>2
  <2> QED BY <1>3, <2>2, <2>3, <2>4, <2>5 DEF UpdateIceState
<1> QED BY <1>2, <1>3 DEF UpdateIceState

\* So is an iteration of the handshake.
LEMMA HandshakeIsMove ==
  ASSUME TypeOK, FailureInv, NEW t \in Media, NEW th \in {"nice", "data"},
         NEW c \in Components, NEW o \in SslOutcomes,
         pc[t][th] \in {"start", "read"}, DoHandshakeIteration(t, th, c, o),
         UNCHANGED <<user, global, temp, closing>>
  PROVE  Moves(t)
<1>0. th \in Threads /\ th \notin Timers
  BY DEF Threads, Timers
<1>1. Created(t)
  BY <1>0, ThreadsAreOwned
<1> DEFINE s     == HandshakeResult(t, c, o)
           after == IF o.out THEN "resend" ELSE Resume(th)
<1>2. /\ s \in TransportState
      /\ after \notin {"none", "report", "commit"}
      /\ Resume(th) \notin {"none", "report", "commit"}
  BY DEF HandshakeResult, TransportState, Resume
<1>3. CASE hs[t][c] = "done"
  <2>1. /\ pc' = [pc EXCEPT ![t][th] = Resume(th)]
        /\ UNCHANGED <<running, tstate, val>>
    BY <1>3 DEF DoHandshakeIteration
  <2>2. QuietMove(t)
    BY <1>0, <1>2, <2>1, PcMoves
  <2> QED BY <1>1, <2>1, <2>2 DEF Moves
<1>4. CASE hs[t][c] # "done"
  <2>1. \A u \in Media : running'[u] # running[u] => u = t /\ o.res = "error"
    BY <1>4 DEF DoHandshakeIteration, TypeOK
  <2>2. o.res = "error" => s = TRANSPORT_FAILED
    BY DEF HandshakeResult
  <2>3. CASE s = TRANSPORT_INITIAL
    <3>1. /\ pc' = [pc EXCEPT ![t][th] = after]
          /\ UNCHANGED <<tstate, val>>
      BY <1>4, <2>3 DEF DoHandshakeIteration
    <3>2. QuietMove(t)
      BY <1>0, <1>2, <3>1, PcMoves
    <3> QED BY <1>1, <2>1, <2>2, <2>3, <3>2 DEF Moves
  <2>4. CASE s # TRANSPORT_INITIAL
    <3>1. SetTransportState(t, th, s, after)
      BY <1>4, <2>4 DEF DoHandshakeIteration
    <3>2. (QuietMove(t) \/ ReportMove(t, th, s)) /\ tstate'[t] = s
      BY <1>0, <1>2, <3>1, SetTransportStateMoves
    <3> QED BY <1>0, <1>1, <1>2, <2>1, <2>2, <3>2 DEF Moves
  <2> QED BY <2>3, <2>4
<1> QED BY <1>3, <1>4

\* Outside updateState, every step of a transport's threads is a move.
LEMMA TransportMoves ==
  ASSUME TypeOK, ReadsComponent, FailureInv, NEW t \in Media, TransportStep(t)
  PROVE  Moves(t) \/ \E th \in Threads : ReportStep(t, th)
<1> USE DEF sdpVars, connVars, setupVars, iceVars, dtlsVars
<1>0. /\ "data" \in Threads /\ "nice" \in Threads /\ Timers \subseteq Threads
      /\ \A c : TimerOf(c) \in Timers /\ TimerOf(c) # "data" /\ TimerOf(c) # "nice"
  BY DEF Threads, Timers, TimerOf
<1>a. ASSUME NEW th \in Threads, pc[t][th] # "none", QuietMove(t),
             UNCHANGED <<user, global, temp, closing, running>>
      PROVE  Moves(t)
  BY <1>a, ThreadsAreOwned DEF Moves
<1>1. CASE GatheringDone(t)
  <2>1. NICE_CANDIDATES_RECEIVED \in IceState
    BY DEF IceState
  <2> QED BY <1>1, <2>1, IceStateMoves DEF GatheringDone, NiceLoop
<1>2. ASSUME NEW c \in Components, NewSelectedPair(t, c) \/ ComponentFailed(t, c)
      PROVE  Moves(t)
  <2>1. NICE_READY \in IceState /\ NICE_FAILED \in IceState
    BY DEF IceState
  <2>2. PICK s \in IceState : ComponentReported(t, c, s)
    BY <1>2, <2>1 DEF NewSelectedPair, ComponentFailed
  <2> QED BY <2>2, IceStateMoves DEF ComponentReported, NiceLoop
<1>3. ASSUME NEW c \in Components, DtlsPacket(t, c) PROVE Moves(t)
  <2>0. /\ pc[t]["data"] = "get"
        /\ UNCHANGED <<user, global, temp, closing, running, tstate, val>>
    BY <1>3 DEF DtlsPacket
  <2>1. CASE pc' = [pc EXCEPT ![t]["data"] = "read"]
    <3>1. QuietMove(t)
      BY <1>0, <2>0, <2>1, PcMoves, ZenonT(60)
    <3> QED BY <1>0, <1>a, <2>0, <3>1
  <2>2. CASE /\ pc[t][TimerOf(c)] = "armed"
             /\ pc' = [pc EXCEPT ![t]["data"] = "read", ![t][TimerOf(c)] = "done"]
    <3>1. TimerOf(c) \in Threads /\ TimerOf(c) # "data"
      BY <1>0
    <3>2. \A u \in Media, uh \in Threads :
            pc'[u][uh] = IF u = t /\ uh = TimerOf(c) THEN "done"
                         ELSE IF u = t /\ uh = "data" THEN "read" ELSE pc[u][uh]
      BY <1>0, <2>2, <3>1 DEF TypeOK
    <3>3. QuietMove(t)
      <4>1. \A u \in Media, uh \in Threads :
              \/ pc'[u][uh] = pc[u][uh]
              \/ /\ u = t
                 /\ pc[u][uh] \in {"get", "armed"}
                 /\ pc'[u][uh] \in {"read", "done"}
        BY <2>0, <2>2, <3>2, ZenonT(60)
      <4> QED BY <2>0, <4>1 DEF QuietMove
    <3> QED BY <1>0, <1>a, <2>0, <3>3
  <2> QED BY <1>3, <2>1, <2>2 DEF DtlsPacket
<1>4. ASSUME NEW c \in Components, Timeout(t, c) PROVE Moves(t)
  <2>1. TRANSPORT_FAILED \in TransportState
    BY DEF TransportState
  <2>2. /\ QuietMove(t) \/ ReportMove(t, TimerOf(c), TRANSPORT_FAILED)
        /\ tstate'[t] = TRANSPORT_FAILED
    BY <1>0, <1>4, <2>1, SetTransportStateMoves DEF Timeout
  <2>3. \A u \in Media : running'[u] # running[u] => u = t
    BY <1>4 DEF Timeout, TypeOK
  <2>4. Created(t)
    BY <1>0, <1>4, ThreadsAreOwned DEF Timeout
  <2> QED BY <1>0, <1>4, <2>1, <2>2, <2>3, <2>4 DEF Timeout, Moves
<1>5. ASSUME NEW c \in Components, NEW o \in SslOutcomes, DtlsStart(t, c, o)
      PROVE  Moves(t)
  BY <1>5, HandshakeIsMove DEF DtlsStart
<1>6. ASSUME NEW o \in SslOutcomes, DtlsRead(t, o) PROVE Moves(t)
  <2>1. cur[t]["data"] \in Components
    BY <1>6 DEF DtlsRead, ReadsComponent, TypeOK
  <2> QED BY <1>6, <2>1, HandshakeIsMove DEF DtlsRead
<1>7. CASE DtlsStarted(t) \/ NiceExit(t)
  <2>1. \E p \in {"loop", "exited"} : pc' = [pc EXCEPT ![t]["nice"] = p]
    BY <1>7 DEF DtlsStarted, NiceExit
  <2> QED BY <1>0, <1>7, <1>a, <2>1, PcMoves DEF DtlsStarted, NiceExit, NiceLoop
<1>8. CASE DataLoop(t) \/ MediaPacket(t)
  <2>1. \E p \in {"get", "exited", "top"} : pc' = [pc EXCEPT ![t]["data"] = p]
    BY <1>8 DEF DataLoop, MediaPacket
  <2> QED BY <1>0, <1>8, <1>a, <2>1, PcMoves DEF DataLoop, MediaPacket
<1>9. CASE DataWoken(t)
  <2>0. /\ pc[t]["data"] = "get"
        /\ pc' = pc \/ pc' = [pc EXCEPT ![t]["data"] = "exited"]
        /\ tstate' = tstate /\ val' = val
    BY <1>9 DEF DataWoken
  <2>1. QuietMove(t)
    BY <1>0, <2>0, Update DEF QuietMove, TypeOK
  <2>2. \A u \in Media : running'[u] # running[u] => u = t
    BY <1>9 DEF DataWoken, TypeOK
  <2>3. Created(t)
    BY <1>0, <1>9, ThreadsAreOwned DEF DataWoken
  <2> QED BY <1>9, <2>1, <2>2, <2>3 DEF DataWoken, Moves
<1>12. CASE LateIceState(t)
  <2>1. QuietMove(t)
    BY <1>12 DEF LateIceState, QuietMove
  <2> QED BY <1>0, <1>a, <1>12, <2>1 DEF LateIceState
<1>10. ASSUME NEW th \in {"nice", "data"}, ScheduleCancels(t, th) PROVE Moves(t)
  <2>1. PICK timer \in Timers :
          /\ pc[t][timer] = "armed"
          /\ pc' = [pc EXCEPT ![t][timer] = "done"]
    BY <1>0, <1>10 DEF ScheduleCancels
  <2>2. UNCHANGED <<user, global, temp, closing, running, tstate, val>>
    BY <1>10 DEF ScheduleCancels
  <2>3. QuietMove(t)
    BY <1>0, <2>1, <2>2, PcMoves, ZenonT(60)
  <2> QED BY <1>0, <1>a, <2>1, <2>2, <2>3
<1>11. ASSUME NEW th \in {"nice", "data"}, ScheduleResend(t, th) PROVE Moves(t)
  <2> DEFINE timer == TimerOf(cur[t][th])
             q     == IF pc[t][timer] = "none" THEN "armed" ELSE pc[t][timer]
  <2>1. th \in Threads /\ timer \in Threads /\ th # timer
    BY <1>0
  <2>2. pc' = [pc EXCEPT ![t][th] = Resume(th), ![t][timer] = q]
    BY <1>11, <2>1 DEF ScheduleResend, TypeOK
  <2>3. /\ pc[t][th] = "resend"
        /\ pc[t][timer] \in {"none", "done"}
        /\ UNCHANGED <<user, global, temp, closing, running, tstate, val>>
    BY <1>11 DEF ScheduleResend
  <2>4. /\ Resume(th) \notin {"none", "report", "commit"}
        /\ q \notin {"none", "report", "commit"}
    BY <2>3 DEF Resume
  <2> HIDE DEF timer, q
  <2>5. QuietMove(t)
    BY <2>1, <2>2, <2>3, <2>4, PcMovesTwo
  <2> QED BY <1>a, <2>1, <2>3, <2>5
<1> QED BY <1>1, <1>2, <1>3, <1>4, <1>5, <1>6, <1>7, <1>8, <1>9, <1>10, <1>11, <1>12
        DEF TransportStep, StartStep, ReadStep, ScheduleStep

-----------------------------------------------------------------------------
(***************************************************************************)
(* updateState.                                                            *)
(***************************************************************************)

\* A report that returns moves its thread out of updateState, and no other thread.
LEMMA ReturnMoves ==
  ASSUME TypeOK, NEW t \in Media, NEW th \in Threads, ReturnFromReport(t, th)
  PROVE  /\ pc'[t][th] \in {"start", "resend", "loop", "top", "done"}
         /\ \A u \in Media, uh \in Threads :
              ~(u = t /\ uh = th) => pc'[u][uh] = pc[u][uh] /\ val'[u][uh] = val[u][uh]
<1>1. /\ pc' = [pc EXCEPT ![t][th] = AfterReport(t, th)]
      /\ val' = [val EXCEPT ![t][th] = TRANSPORT_INITIAL]
  BY DEF ReturnFromReport
<1>2. AfterReport(t, th) \in {"start", "resend", "loop", "top", "done"}
  BY DEF AfterReport, Resume
<1>3. \A u \in Media, uh \in Threads :
        /\ pc'[u][uh] = IF u = t /\ uh = th THEN AfterReport(t, th) ELSE pc[u][uh]
        /\ val'[u][uh] = IF u = t /\ uh = th THEN TRANSPORT_INITIAL ELSE val[u][uh]
  BY <1>1, Update DEF TypeOK
<1> QED BY <1>2, <1>3

\* The parts of the invariant that a thread leaving updateState cannot disturb.
LEMMA ReturnInv ==
  ASSUME TypeOK, FailureInv, NEW t \in Media, NEW th \in Threads,
         pc[t][th] \in {"report", "commit"}, ReturnFromReport(t, th),
         UNCHANGED <<user, tstate, running, closing>>
  PROVE  /\ \A u \in Media : Created(u)' = Created(u)
         /\ NothingBeforeCreation'
         /\ OneCommitter'
         /\ TimersReportFailure'
         /\ JoinedHaveEnded'
         /\ DestroyedIsClosed'
<1>0. "data" \in Threads /\ "nice" \in Threads /\ Timers \subseteq Threads
  BY DEF Threads, Timers
<1>1. /\ pc'[t][th] \in {"start", "resend", "loop", "top", "done"}
      /\ \A u \in Media, uh \in Threads :
           ~(u = t /\ uh = th) => pc'[u][uh] = pc[u][uh] /\ val'[u][uh] = val[u][uh]
  BY ReturnMoves
<1>2. \A u \in Media : Created(u)' = Created(u)
  BY <1>0, <1>1 DEF Created
<1>3. NothingBeforeCreation'
  BY <1>1, <1>2, ThreadsAreOwned DEF FailureInv, NothingBeforeCreation
<1>4. OneCommitter'
  BY <1>1 DEF FailureInv, OneCommitter
<1>5. TimersReportFailure'
  BY <1>0, <1>1 DEF FailureInv, TimersReportFailure
<1>6. JoinedHaveEnded'
  BY <1>0, <1>1 DEF FailureInv, JoinedHaveEnded
<1>7. DestroyedIsClosed'
  BY <1>2 DEF FailureInv, DestroyedIsClosed
<1> QED BY <1>2, <1>3, <1>4, <1>5, <1>6, <1>7

\* A failed connection ignores the report.
LEMMA EvaluateIgnoredInv ==
  ASSUME TypeOK, FailureInv, NEW t \in Media, NEW th \in Threads, EvaluateIgnored(t, th)
  PROVE  FailureInv'
<1> USE DEF connVars
<1>1. /\ pc[t][th] = "report"
      /\ global = CONN_FAILED
      /\ ReturnFromReport(t, th)
      /\ UNCHANGED <<user, global, temp, tstate, running, closing>>
  BY DEF EvaluateIgnored, ConnectionFailed
<1>2. CommitsItsReport'
  BY <1>1, ReturnMoves DEF FailureInv, CommitsItsReport
<1>3. FinishedByDestructor'
  BY <1>1 DEF FailureInv, FinishedByDestructor
<1>4. NoSilentFailure'
  BY <1>1 DEF NoSilentFailure, FailureKnown
<1> QED BY <1>1, <1>2, <1>3, <1>4, ReturnInv DEF FailureInv

\* The mutex is taken and the report evaluated.
LEMMA EvaluateInv ==
  ASSUME TypeOK, FailureInv, NEW t \in Media, NEW th \in Threads, Evaluate(t, th)
  PROVE  FailureInv'
<1>0. "data" \in Threads /\ "nice" \in Threads /\ Timers \subseteq Threads
  BY DEF Threads, Timers
<1>1. /\ pc[t][th] = "report"
      /\ UpdateStateMutexFree
      /\ global # CONN_FAILED
      /\ temp' = Aggregate(val[t][th])
      /\ pc' = [pc EXCEPT ![t][th] = "commit"]
      /\ UNCHANGED <<user, global, tstate, running, closing, val>>
  BY DEF Evaluate, ConnectionFailed
<1>2. \A u \in Media, uh \in Threads :
        pc'[u][uh] = IF u = t /\ uh = th THEN "commit" ELSE pc[u][uh]
  BY <1>1, Update DEF TypeOK
<1>3. \A u \in Media : Created(u)' = Created(u)
  BY <1>0, <1>1, <1>2 DEF Created
<1>4. NothingBeforeCreation'
  BY <1>1, <1>2, <1>3, ThreadsAreOwned DEF FailureInv, NothingBeforeCreation
<1>5. OneCommitter'
  BY <1>1, <1>2 DEF OneCommitter, UpdateStateMutexFree
<1>6. CommitsItsReport'
  <2>1. val[t][th] = TRANSPORT_FAILED => temp' = CONN_FAILED
    BY <1>1 DEF Aggregate
  <2> QED BY <1>1, <1>2, <2>1 DEF CommitsItsReport, UpdateStateMutexFree
<1>7. TimersReportFailure'
  BY <1>0, <1>1, <1>2 DEF FailureInv, TimersReportFailure
<1>8. JoinedHaveEnded'
  BY <1>0, <1>1, <1>2 DEF FailureInv, JoinedHaveEnded
<1>9. DestroyedIsClosed'
  BY <1>1, <1>3 DEF FailureInv, DestroyedIsClosed
<1>10. FinishedByDestructor'
  <2>1. temp' = CONN_FINISHED => global = CONN_FINISHED
    BY <1>1 DEF Aggregate
  <2> QED BY <1>1, <2>1 DEF FailureInv, FinishedByDestructor
<1>11. NoSilentFailure'
  <2>1. \A u \in Media : FailurePending(u) => FailurePending(u)'
    BY <1>1, <1>2 DEF FailurePending
  <2>2. FailureKnown' = FailureKnown
    BY <1>1 DEF FailureKnown
  <2> QED BY <1>1, <1>3, <2>1, <2>2 DEF FailureInv, NoSilentFailure
<1> QED BY <1>4, <1>5, <1>6, <1>7, <1>8, <1>9, <1>10, <1>11 DEF FailureInv

\* The evaluated state becomes globalState_.  Over a FINISHED connection only a timer
\* can commit, and a timer commits a failure.
LEMMA CommitInv ==
  ASSUME TypeOK, FailureInv, NEW t \in Media, NEW th \in Threads, Commit(t, th)
  PROVE  FailureInv'
<1>1. /\ pc[t][th] = "commit"
      /\ global' = temp
      /\ ReturnFromReport(t, th)
      /\ UNCHANGED <<user, temp, tstate, running, closing>>
  BY DEF Commit
<1>2. /\ pc'[t][th] \in {"start", "resend", "loop", "top", "done"}
      /\ \A u \in Media, uh \in Threads :
           ~(u = t /\ uh = th) => pc'[u][uh] = pc[u][uh] /\ val'[u][uh] = val[u][uh]
  BY <1>1, ReturnMoves
<1>3. CommitsItsReport'
  BY <1>1, <1>2 DEF FailureInv, CommitsItsReport, OneCommitter
<1>4. FinishedByDestructor'
  BY <1>1 DEF FailureInv, FinishedByDestructor
<1>5. global = CONN_FINISHED => temp = CONN_FAILED
  <2> SUFFICES ASSUME global = CONN_FINISHED PROVE temp = CONN_FAILED
    OBVIOUS
  <2>1. closing[t] = "closed"
    BY <1>1, ThreadsAreOwned DEF FailureInv, FinishedByDestructor, DestroyedIsClosed
  <2>2. th \in Timers
    BY <1>1, <2>1 DEF FailureInv, JoinedHaveEnded, Threads, Timers
  <2> QED BY <1>1, <2>2 DEF FailureInv, TimersReportFailure, CommitsItsReport
<1>6. NoSilentFailure'
  <2>1. ASSUME NEW u \in Media, FailureKnown \/ FailurePending(u)
        PROVE  FailureKnown' \/ FailurePending(u)'
    <3>1. CASE FailureKnown
      BY <1>1, <1>5, <3>1 DEF FailureInv, CommitsItsReport, FailureKnown
    <3>2. CASE FailurePending(u)
      <4>1. PICK uh \in Threads : /\ pc[u][uh] \in {"report", "commit"}
                                  /\ val[u][uh] = TRANSPORT_FAILED
        BY <3>2 DEF FailurePending
      <4>2. CASE u = t /\ uh = th
        BY <1>1, <4>1, <4>2 DEF FailureInv, CommitsItsReport, FailureKnown
      <4>3. CASE ~(u = t /\ uh = th)
        BY <1>2, <4>1, <4>3 DEF FailurePending
      <4> QED BY <4>2, <4>3
    <3> QED BY <2>1, <3>1, <3>2
  <2>2. \A u \in Media : Created(u)' = Created(u)
    BY <1>1, ReturnInv
  <2> QED BY <1>1, <2>1, <2>2 DEF FailureInv, NoSilentFailure
<1> QED BY <1>1, <1>3, <1>4, <1>6, ReturnInv DEF FailureInv

-----------------------------------------------------------------------------
(***************************************************************************)
(* The application thread.                                                 *)
(***************************************************************************)

\* A step that leaves the transports and the connection's state alone.
LEMMA QuietUserInv ==
  ASSUME FailureInv, UNCHANGED <<global, temp, tstate, running, closing, pc, val>>,
         user' = "destroyed" <=> user = "destroyed"
  PROVE  FailureInv'
<1>1. /\ NothingBeforeCreation'
      /\ OneCommitter'
      /\ CommitsItsReport'
      /\ TimersReportFailure'
      /\ JoinedHaveEnded'
  BY DEF FailureInv, NothingBeforeCreation, OneCommitter, CommitsItsReport,
     TimersReportFailure, JoinedHaveEnded, Created
<1>2. DestroyedIsClosed' /\ FinishedByDestructor'
  BY DEF FailureInv, DestroyedIsClosed, FinishedByDestructor, Created
<1>3. NoSilentFailure'
  BY DEF FailureInv, NoSilentFailure, Created, FailureKnown, FailurePending
<1> QED BY <1>1, <1>2, <1>3 DEF FailureInv

\* A new transport has running threads and nothing to report.
LEMMA CreateTransportInv ==
  ASSUME TypeOK, FailureInv, NEW t \in Media, NEW isServer, NEW mux, ~Created(t),
         CreateTransport(t, isServer, mux), user # "destroyed", user' # "destroyed",
         UNCHANGED <<global, temp, tstate, closing, val>>
  PROVE  FailureInv'
<1>0. "data" \in Threads /\ "nice" \in Threads /\ Timers \subseteq Threads
      /\ "data" \notin Timers /\ "nice" \notin Timers
  BY DEF Threads, Timers
<1>1. \A u \in Media, uh \in Threads :
        pc'[u][uh] = IF u = t /\ uh = "nice" THEN "loop"
                     ELSE IF u = t /\ uh = "data" THEN "top" ELSE pc[u][uh]
  BY <1>0 DEF CreateTransport, TypeOK
<1>2. /\ tstate[t] # TRANSPORT_FAILED
      /\ \A uh \in Threads : pc[t][uh] = "none"
  BY DEF FailureInv, NothingBeforeCreation
<1>3. Created(t)' /\ \A u \in Media : u # t => Created(u)' = Created(u)
  BY <1>0, <1>1 DEF Created
<1>4. NothingBeforeCreation'
  BY <1>1, <1>3 DEF FailureInv, NothingBeforeCreation
<1>5. OneCommitter'
  BY <1>1 DEF FailureInv, OneCommitter
<1>6. CommitsItsReport'
  BY <1>1 DEF FailureInv, CommitsItsReport
<1>7. TimersReportFailure'
  BY <1>0, <1>1 DEF FailureInv, TimersReportFailure
<1>8. JoinedHaveEnded'
  BY <1>0, <1>1, <1>2 DEF FailureInv, JoinedHaveEnded
<1>9. DestroyedIsClosed' /\ FinishedByDestructor'
  BY DEF FailureInv, DestroyedIsClosed, FinishedByDestructor
<1>10. NoSilentFailure'
  <2>1. running'[t] = TRUE /\ \A u \in Media : u # t => running'[u] = running[u]
    BY DEF CreateTransport, TypeOK
  <2>2. \A u \in Media : FailurePending(u) => FailurePending(u)'
    BY <1>1, <1>2 DEF FailurePending
  <2>3. FailureKnown' = FailureKnown
    BY DEF FailureKnown
  <2>4. ASSUME NEW u \in Media, u # t,
               \/ tstate'[u] = TRANSPORT_FAILED
               \/ Created(u)' /\ ~running'[u] /\ closing'[u] = "open"
        PROVE  FailureKnown' \/ FailurePending(u)'
    BY <1>3, <2>1, <2>2, <2>3, <2>4 DEF FailureInv, NoSilentFailure
  <2>5. ~(\/ tstate'[t] = TRANSPORT_FAILED
          \/ Created(t)' /\ ~running'[t] /\ closing'[t] = "open")
    BY <1>2, <2>1
  <2> QED BY <2>4, <2>5 DEF NoSilentFailure
<1> QED BY <1>4, <1>5, <1>6, <1>7, <1>8, <1>9, <1>10 DEF FailureInv

\* The destructor: closing and joining the threads of a transport.
LEMMA CloseInv ==
  ASSUME TypeOK, FailureInv, NEW t \in Media,
         (\E s : CloseTransport(t, s)) \/ JoinNice(t) \/ JoinData(t)
  PROVE  FailureInv'
<1> USE DEF connVars
<1>0. "data" \in Threads /\ "nice" \in Threads
  BY DEF Threads
<1>1. /\ UNCHANGED <<user, global, temp, pc, val>>
      /\ \A u \in Media : u # t => /\ closing'[u] = closing[u]
                                   /\ running'[u] = running[u]
                                   /\ tstate'[u] = tstate[u]
      /\ tstate'[t] \in {tstate[t], TRANSPORT_FINISHED}
      /\ closing'[t] # "open"
  BY DEF CloseTransport, JoinNice, JoinData, TypeOK
<1>2. /\ Created(t)
      /\ closing[t] # "closed"
      /\ closing'[t] \in {"joined", "closed"} => pc[t]["nice"] = "exited"
      /\ closing'[t] = "closed" => pc[t]["data"] = "exited"
  <2>1. CASE \E s : CloseTransport(t, s)
    BY <2>1 DEF CloseTransport, TypeOK
  <2>2. CASE JoinNice(t)
    BY <1>0, <2>2, ThreadsAreOwned DEF JoinNice, TypeOK
  <2>3. CASE JoinData(t)
    BY <1>0, <2>3, ThreadsAreOwned DEF JoinData, TypeOK, FailureInv, JoinedHaveEnded
  <2> QED BY <2>1, <2>2, <2>3
<1>3. \A u \in Media : Created(u)' = Created(u)
  BY <1>1 DEF Created
<1>4. NothingBeforeCreation' /\ OneCommitter' /\ CommitsItsReport' /\ TimersReportFailure'
  BY <1>1, <1>3 DEF FailureInv, NothingBeforeCreation, OneCommitter, CommitsItsReport,
     TimersReportFailure
<1>5. JoinedHaveEnded'
  BY <1>1, <1>2 DEF FailureInv, JoinedHaveEnded
<1>6. DestroyedIsClosed' /\ FinishedByDestructor'
  BY <1>1, <1>2, <1>3 DEF FailureInv, DestroyedIsClosed, FinishedByDestructor
<1>7. NoSilentFailure'
  <2>1. FailureKnown' = FailureKnown /\ \A u \in Media : FailurePending(u)' = FailurePending(u)
    BY <1>1 DEF FailureKnown, FailurePending
  <2> QED BY <1>1, <1>3, <2>1 DEF FailureInv, NoSilentFailure
<1> QED BY <1>4, <1>5, <1>6, <1>7 DEF FailureInv

\* The destructor: the end of its body.
LEMMA DestroyedInv ==
  ASSUME FailureInv, Destroyed PROVE FailureInv'
<1>1. /\ UNCHANGED <<temp, tstate, running, closing, pc, val>>
      /\ global' = CONN_FINISHED
      /\ user' = "destroyed"
      /\ \A t \in Media : Created(t) => closing[t] = "closed"
  BY DEF Destroyed
<1>2. /\ NothingBeforeCreation'
      /\ OneCommitter'
      /\ CommitsItsReport'
      /\ TimersReportFailure'
      /\ JoinedHaveEnded'
  BY <1>1 DEF FailureInv, NothingBeforeCreation, OneCommitter, CommitsItsReport,
     TimersReportFailure, JoinedHaveEnded, Created
<1>3. DestroyedIsClosed' /\ FinishedByDestructor' /\ NoSilentFailure'
  BY <1>1 DEF DestroyedIsClosed, FinishedByDestructor, NoSilentFailure, FailureKnown, Created
<1> QED BY <1>2, <1>3 DEF FailureInv

\* Every step of the application preserves the invariant.
LEMMA UserInv ==
  ASSUME TypeOK, FailureInv, UserStep PROVE FailureInv'
<1> USE DEF sdpVars, connVars, setupVars, iceVars, dtlsVars
<1>1. CASE CreateOffer
  BY <1>1, CreateTransportInv DEF CreateOffer, Media
<1>2. ASSUME NEW r \in RemoteSdps, SetRemoteSdp(r) PROVE FailureInv'
  BY <1>2, QuietUserInv DEF SetRemoteSdp
<1>3. ASSUME NEW t \in Media, NEW needed, NEW here, NEW next,
             here # "destroyed", next # "destroyed",
             SetRemoteSdpTransport(t, here, next, needed)
      PROVE  FailureInv'
  <2>0. /\ user = here /\ user' = next
        /\ UNCHANGED <<global, temp, tstate, closing, val>>
    BY <1>3 DEF SetRemoteSdpTransport
  <2>1. CASE needed /\ ~Created(t)
    <3>1. CreateTransport(t, FALSE, remote.mux)
      BY <1>3, <2>1 DEF SetRemoteSdpTransport
    <3> QED BY <1>3, <2>0, <2>1, <3>1, CreateTransportInv
  <2>2. CASE ~(needed /\ ~Created(t))
    BY <1>3, <2>0, <2>2, QuietUserInv DEF SetRemoteSdpTransport
  <2> QED BY <2>1, <2>2
<1>4. CASE SetRemoteSdpVideo \/ SetRemoteSdpAudio
  BY <1>3, <1>4 DEF SetRemoteSdpVideo, SetRemoteSdpAudio, Media
<1>5. CASE SetRemoteSdpCandidates
  BY <1>5, QuietUserInv DEF SetRemoteSdpCandidates
<1>6. ASSUME NEW m \in Media, NEW end, NEW parsed, AddRemoteCandidate(m, end, parsed)
      PROVE  FailureInv'
  BY <1>6, QuietUserInv DEF AddRemoteCandidate
<1>7. CASE Destroy
  BY <1>7, QuietUserInv DEF Destroy
<1>8. CASE CloseStep
  <2>1. CASE JoinSender
    BY <2>1, QuietUserInv DEF JoinSender
  <2> QED BY <1>8, <2>1, CloseInv, DestroyedInv DEF CloseStep
<1>9. ASSUME NEW t \in Media, NEW c \in Components, ResenderDestroyed(t, c)
      PROVE  FailureInv'
  <2>1. TimerOf(c) \in Threads
    BY DEF TimerOf, Threads
  <2>2. /\ pc[t][TimerOf(c)] = "armed"
        /\ pc' = [pc EXCEPT ![t][TimerOf(c)] = "done"]
        /\ UNCHANGED <<user, global, temp, closing, running, tstate, val>>
    BY <1>9 DEF ResenderDestroyed
  <2>3. QuietMove(t)
    BY <2>1, <2>2, PcMoves
  <2>4. Moves(t)
    BY <2>1, <2>2, <2>3, ThreadsAreOwned DEF Moves
  <2> QED BY <2>4, MovesInv
<1> QED BY <1>1, <1>2, <1>4, <1>5, <1>6, <1>7, <1>8, <1>9 DEF UserStep, SetRemoteSdpStep

-----------------------------------------------------------------------------
\* The invariant holds initially.
LEMMA FailureInit == Init => FailureInv
<1> SUFFICES ASSUME Init PROVE FailureInv
  OBVIOUS
<1>1. /\ \A t \in Media, th \in Threads : pc[t][th] = "none"
      /\ \A t \in Media : /\ ~Created(t)
                          /\ tstate[t] # TRANSPORT_FAILED
                          /\ closing[t] = "open"
      /\ global = CONN_INITIAL /\ temp = CONN_INITIAL /\ user = "idle"
  BY DEF Init, Created, Threads
<1>2. NothingBeforeCreation /\ OneCommitter /\ CommitsItsReport
  BY <1>1 DEF NothingBeforeCreation, OneCommitter, CommitsItsReport
<1>3. TimersReportFailure /\ JoinedHaveEnded
  BY <1>1 DEF TimersReportFailure, JoinedHaveEnded, Timers, Threads
<1>4. DestroyedIsClosed /\ FinishedByDestructor /\ NoSilentFailure
  BY <1>1 DEF DestroyedIsClosed, FinishedByDestructor, NoSilentFailure
<1> QED BY <1>2, <1>3, <1>4 DEF FailureInv

\* And every step preserves it.
LEMMA FailureNext == TypeOK /\ ReadsComponent /\ FailureInv /\ [Next]_vars => FailureInv'
<1> SUFFICES ASSUME TypeOK, ReadsComponent, FailureInv, [Next]_vars PROVE FailureInv'
  OBVIOUS
<1>1. CASE UserStep
  BY <1>1, UserInv
<1>2. ASSUME NEW t \in Media, TransportStep(t) PROVE FailureInv'
  <2>1. ASSUME NEW th \in Threads, ReportStep(t, th) PROVE FailureInv'
    BY <2>1, EvaluateIgnoredInv, EvaluateInv, CommitInv DEF ReportStep
  <2> QED BY <1>2, <2>1, TransportMoves, MovesInv
<1>3. CASE Terminated \/ Hung \/ SendTest \/ SendWakeup \/ UNCHANGED vars
  BY <1>3, QuietUserInv DEF Terminated, Hung, SendTest, SendWakeup, vars, connVars
<1> QED BY <1>1, <1>2, <1>3 DEF Next

\* No failure of a transport is silent: in every reachable state of every instance, a
\* transport that failed, or whose packet loop stopped while it was open, has told the
\* connection or has a thread on the way to tell it.
THEOREM FailuresAreTold == Spec => []NoSilentFailure
<1>1. FailureInv => NoSilentFailure
  BY DEF FailureInv
<1> QED BY <1>1, FailureInit, FailureNext, InitTypes, ReadsComponentInit, TypeNext,
           ReadsComponentNext, PTL DEF Spec

-----------------------------------------------------------------------------
(***************************************************************************)
(* What globalState_ means: a READY connection has keys on every channel,  *)
(* the state never goes back, and an answerer that has GATHERED has passed *)
(* the candidates on.  The argument is about which thread can still write  *)
(* what: GATHERED is reported by the nice thread before ICE is READY, so   *)
(* before any handshake; READY only by the thread that installed the last  *)
(* key, and keys stay.                                                     *)
(***************************************************************************)

\* No thread of t has anything to do with a handshake.
Asleep(t) ==
  /\ ready[t] = {}
  /\ pc[t]["nice"] \notin {"start", "resend"}
  /\ pc[t]["data"] \notin {"read", "resend"}
  /\ \A th \in Threads : cur[t][th] = "none" /\ ~flight[t][th]

\* Nobody shakes hands before ICE was READY, for which the agent needs the remote
\* credentials.
IceFirst ==
  \A t \in Media : /\ t \notin inbound => Asleep(t)
                   /\ t \in inbound => t \in creds /\ Created(t) /\ ice[t] >= NICE_READY

\* The order of setRemoteSdp: the descriptions first, credentials come with the description, the audio
\* transport exists only without bundle, the video transport of an answerer only
\* with a description.
SdpFirst ==
  /\ user \in {"sdpVideo", "sdpAudio", "sdpCands"} => remote.media # {}
  /\ remote.media = {} => creds = {}
  /\ remote.media # {} => local = remote.media
  /\ bundle \/ remote.media = {} => ~Created("audio")
  /\ server["video"] => Created("video")
  /\ ~server["video"] /\ remote.media = {} => ~Created("video")

\* A transport is READY, or reported so, when its last key is installed; it is not in
\* an earlier state then.
ReadyIsKeyed ==
  \A t \in Media : /\ comps[t] # {}
                   /\ tstate[t] = TRANSPORT_READY => AllReady(t)
                   /\ \A th \in Threads : val[t][th] = TRANSPORT_READY => AllReady(t)
                   /\ AllReady(t) => tstate[t] >= TRANSPORT_READY

\* GATHERED is reported by the nice thread before ICE is READY, STARTED never.
GatheredIsEarly ==
  \A t \in Media, th \in Threads :
    /\ val[t][th] # TRANSPORT_STARTED
    /\ val[t][th] = TRANSPORT_GATHERED
       => th = "nice" /\ pc[t][th] \in {"report", "commit"} /\ t \notin inbound

\* Every channel has its keys.
Keyed == \A t \in Channels : Created(t) /\ AllReady(t)

\* What updateState decides and sets.
ReadyDecided == CONN_READY \in {global, temp} => remote.media # {} /\ Keyed

\* What updateState decides is not behind what it found.
DecidesForward ==
  \A t \in Media, th \in Threads :
    pc[t][th] = "commit" => temp >= global \/ user = "destroyed"

\* The candidates are passed on by the one who decides on GATHERED, or have come later
\* and were passed on then.
GatheredFed ==
  /\ ~server["video"] /\ CONN_GATHERED \in {global, temp} =>
       /\ remote.media # {}
       /\ bundle /\ remote.cands /\ "video" \in remote.media => "video" \in fed

ReadyInv ==
  /\ IceFirst
  /\ SdpFirst
  /\ ReadyIsKeyed
  /\ GatheredIsEarly
  /\ ReadyDecided
  /\ DecidesForward
  /\ GatheredFed

-----------------------------------------------------------------------------
USE DEF NICE_INITIAL, NICE_CANDIDATES_RECEIVED, NICE_READY, NICE_FINISHED,
        NICE_FAILED, TRANSPORT_INITIAL, TRANSPORT_STARTED, TRANSPORT_GATHERED,
        TRANSPORT_READY, TRANSPORT_FINISHED, TRANSPORT_FAILED, CONN_INITIAL,
        CONN_STARTED, CONN_GATHERED, CONN_READY, CONN_FINISHED, CONN_FAILED

(***************************************************************************)
(* What a step of a thread of t, outside updateState, does to the keys.    *)
(***************************************************************************)

\* Nothing of the connection's descriptions changes, and nothing of other transports.
KeyFrame(t) ==
  /\ UNCHANGED <<bundle, local, remote, server, comps, creds, fed>>
  /\ \A u \in Media : u # t => /\ ready'[u] = ready[u]
                               /\ ice'[u] = ice[u]
                               /\ cur'[u] = cur[u]
                               /\ flight'[u] = flight[u]
                               /\ u \in inbound' <=> u \in inbound

\* Keys are added, and the last one comes with the state READY.
KeysGrow(t) ==
  /\ ready[t] \subseteq ready'[t]
  /\ ready'[t] \subseteq ready[t] \cup comps[t]
  /\ ready'[t] = comps[t] => ready[t] = comps[t] \/ tstate'[t] = TRANSPORT_READY

\* ICE goes forward once it was READY; it becomes READY in the nice thread, with remote credentials.
IceGrows(t) ==
  /\ t \in inbound => ice'[t] >= ice[t] \/ ice'[t] >= NICE_READY
  /\ t \in inbound => t \in inbound'
  /\ t \in inbound' => \/ t \in inbound
                       \/ t \in creds /\ ice'[t] >= NICE_READY /\ pc[t]["nice"] = "loop"

\* Without packets no handshake.
StaysAsleep(t) ==
  t \notin inbound' => /\ ready'[t] = ready[t]
                       /\ cur'[t] = cur[t]
                       /\ flight'[t] = flight[t]
                       /\ pc'[t]["nice"] \in {"start", "resend"} => pc[t]["nice"] = pc'[t]["nice"]
                       /\ pc'[t]["data"] \in {"read", "resend"} => pc[t]["data"] = pc'[t]["data"]

\* What a thread goes to report.
ReportsWhatItMay(t) ==
  \A th \in Threads :
    pc'[t][th] = "report" /\ pc[t][th] # "report" =>
      \/ tstate'[t] = TRANSPORT_GATHERED /\ th = "nice" /\ t \notin inbound'
      \/ tstate'[t] = TRANSPORT_FAILED
      \/ tstate'[t] = TRANSPORT_READY /\ ready'[t] = comps[t]

Keys(t) == /\ KeyFrame(t)
           /\ KeysGrow(t)
           /\ IceGrows(t)
           /\ StaysAsleep(t)
           /\ ReportsWhatItMay(t)

\* The states of ICE are numbered.
LEMMA IceNumbered ==
  ASSUME TypeOK, NEW t \in Media PROVE ice[t] \in Int
<1>1. ice[t] \in IceState
  BY DEF TypeOK
<1> QED BY <1>1 DEF IceState

\* What both kinds of moves say of the program counters and the reported states.
LEMMA MovesPc ==
  ASSUME TypeOK, NEW t \in Media, Moves(t)
  PROVE  /\ \A u \in Media : Created(u)' = Created(u)
         /\ \A u \in Media, uh \in Threads :
              u # t => pc'[u][uh] = pc[u][uh] /\ val'[u][uh] = val[u][uh]
         /\ \A u \in Media : u # t => tstate'[u] = tstate[u]
         /\ \A uh \in Threads : /\ pc[t][uh] \in {"report", "commit"}
                                   => pc'[t][uh] = pc[t][uh] /\ val'[t][uh] = val[t][uh]
                                /\ pc'[t][uh] = "commit" => pc[t][uh] = "commit"
                                /\ \/ val'[t][uh] = val[t][uh]
                                   \/ /\ val'[t][uh] = tstate'[t]
                                      /\ pc'[t][uh] = "report" /\ pc[t][uh] # "report"
         /\ \/ tstate' = tstate
            \/ \E uh \in Threads : pc'[t][uh] = "report" /\ pc[t][uh] # "report"
<1>0. "data" \in Threads
  BY DEF Threads
<1>1. CASE QuietMove(t)
  BY <1>0, <1>1 DEF QuietMove, Created, Moves
<1>2. ASSUME NEW th \in Threads, NEW s \in TransportState, ReportMove(t, th, s)
      PROVE  /\ \A u \in Media : Created(u)' = Created(u)
             /\ \A u \in Media, uh \in Threads :
                  u # t => pc'[u][uh] = pc[u][uh] /\ val'[u][uh] = val[u][uh]
             /\ \A u \in Media : u # t => tstate'[u] = tstate[u]
             /\ \A uh \in Threads : /\ pc[t][uh] \in {"report", "commit"}
                                       => pc'[t][uh] = pc[t][uh] /\ val'[t][uh] = val[t][uh]
                                    /\ pc'[t][uh] = "commit" => pc[t][uh] = "commit"
                                    /\ \/ val'[t][uh] = val[t][uh]
                                       \/ /\ val'[t][uh] = tstate'[t]
                                          /\ pc'[t][uh] = "report" /\ pc[t][uh] # "report"
             /\ pc'[t][th] = "report" /\ pc[t][th] # "report"
  <2>1. tstate'[t] = s /\ \A u \in Media : u # t => tstate'[u] = tstate[u]
    BY <1>2 DEF ReportMove, TypeOK
  <2> QED BY <1>0, <1>2, <2>1 DEF ReportMove, Created
<1> QED BY <1>1, <1>2 DEF Moves

\* Such a step preserves the invariant.
LEMMA KeysInv ==
  ASSUME TypeOK, TypeOK', FailureInv, ReadyInv, NEW t \in Media, Moves(t), Keys(t)
  PROVE  ReadyInv'
<1>0. "data" \in Threads /\ "nice" \in Threads
  BY DEF Threads
<1> USE MovesPc
<1>1. IceFirst'
  <2>1. ASSUME NEW u \in Media, u # t
        PROVE  /\ Asleep(u) => Asleep(u)'
               /\ u \in inbound' <=> u \in inbound
               /\ ice'[u] = ice[u]
    BY <1>0, <2>1 DEF Keys, KeyFrame, Asleep
  <2>2. t \notin inbound' => Asleep(t)'
    <3> SUFFICES ASSUME t \notin inbound' PROVE Asleep(t)'
      OBVIOUS
    <3>1. Asleep(t)
      BY DEF ReadyInv, IceFirst, Keys, IceGrows
    <3> QED BY <1>0, <3>1 DEF Asleep, Keys, StaysAsleep
  <2>3. t \in inbound' => t \in creds' /\ Created(t)' /\ ice'[t] >= NICE_READY
    <3>1. /\ Created(t) /\ creds' = creds /\ ice[t] \in Int /\ ice'[t] \in Int
          /\ t \in inbound => ice'[t] >= ice[t] \/ ice'[t] >= NICE_READY
      <4>1. ice[t] \in Int
        BY IceNumbered
      <4>2. ice'[t] \in IceState
        BY DEF TypeOK
      <4>3. ice'[t] \in Int
        BY <4>2 DEF IceState
      <4> QED BY <4>1, <4>3 DEF Moves, Keys, KeyFrame, IceGrows
    <3>2. CASE t \in inbound
      <4>1. ice[t] >= NICE_READY /\ t \in creds
        BY <3>2 DEF ReadyInv, IceFirst
      <4>2. ice'[t] >= NICE_READY
        BY <3>1, <3>2, <4>1
      <4> QED BY <3>1, <4>1, <4>2
    <3>3. CASE t \notin inbound
      BY <3>1, <3>3 DEF Keys, IceGrows
    <3> QED BY <3>2, <3>3
  <2>4. \A u \in Media : u # t => (u \in inbound' => u \in creds' /\ Created(u)' /\ ice'[u] >= NICE_READY)
    BY <2>1 DEF ReadyInv, IceFirst, Keys, KeyFrame
  <2>5. \A u \in Media : u # t => (u \notin inbound' => Asleep(u)')
    BY <2>1 DEF ReadyInv, IceFirst
  <2> QED BY <2>2, <2>3, <2>4, <2>5 DEF IceFirst
<1>2. SdpFirst'
  <2>1. Created("video")' = Created("video") /\ Created("audio")' = Created("audio")
    BY DEF Media
  <2>2. UNCHANGED <<user, bundle, local, remote, server, creds>>
    BY DEF Keys, KeyFrame, Moves
  <2> QED BY <2>1, <2>2 DEF ReadyInv, SdpFirst
<1>3. \A u \in Media : AllReady(u) => AllReady(u)'
  <2>1. ready[t] = comps[t] => ready'[t] = comps[t]
    BY DEF Keys, KeysGrow
  <2>2. comps' = comps /\ \A u \in Media : u # t => ready'[u] = ready[u]
    BY DEF Keys, KeyFrame
  <2> QED BY <2>1, <2>2 DEF AllReady
<1>4. ReadyIsKeyed'
  <2>1. ASSUME NEW u \in Media, u # t
        PROVE  /\ comps'[u] # {}
               /\ tstate'[u] = TRANSPORT_READY => AllReady(u)'
               /\ \A th \in Threads : val'[u][th] = TRANSPORT_READY => AllReady(u)'
               /\ AllReady(u)' => tstate'[u] >= TRANSPORT_READY
    <3>1. /\ comps' = comps /\ ready'[u] = ready[u] /\ tstate'[u] = tstate[u]
          /\ \A th \in Threads : val'[u][th] = val[u][th]
      BY <2>1 DEF Keys, KeyFrame
    <3> QED BY <3>1 DEF ReadyInv, ReadyIsKeyed, AllReady
  <2>2. comps'[t] = comps[t] /\ comps[t] # {}
    BY DEF ReadyInv, ReadyIsKeyed, Keys, KeyFrame
  <2>3. tstate'[t] = TRANSPORT_READY => AllReady(t)'
    BY <1>3, <2>2 DEF ReadyInv, ReadyIsKeyed, Keys, ReportsWhatItMay, AllReady
  <2>4. \A th \in Threads : val'[t][th] = TRANSPORT_READY => AllReady(t)'
    BY <1>3, <2>3 DEF ReadyInv, ReadyIsKeyed
  <2>5. AllReady(t)' => tstate'[t] >= TRANSPORT_READY
    <3>1. CASE tstate'[t] \in {TRANSPORT_READY, TRANSPORT_FAILED}
      BY <3>1
    <3>2. CASE tstate'[t] = tstate[t]
      BY <2>2, <3>2 DEF ReadyInv, ReadyIsKeyed, Keys, KeysGrow, AllReady
    <3>3. CASE t \notin inbound'
      <4>1. ready[t] = {} /\ ready'[t] = ready[t]
        BY <3>3 DEF ReadyInv, IceFirst, Asleep, Keys, IceGrows, StaysAsleep
      <4> QED BY <2>2, <4>1 DEF AllReady
    <3> QED BY <3>1, <3>2, <3>3 DEF Keys, ReportsWhatItMay
  <2> QED BY <2>1, <2>2, <2>3, <2>4, <2>5 DEF ReadyIsKeyed
<1>5. GatheredIsEarly'
  <2>1. ASSUME NEW u \in Media, NEW th \in Threads, u # t
        PROVE  /\ val'[u][th] # TRANSPORT_STARTED
               /\ val'[u][th] = TRANSPORT_GATHERED
                  => th = "nice" /\ pc'[u][th] \in {"report", "commit"} /\ u \notin inbound'
    BY <2>1 DEF ReadyInv, GatheredIsEarly, Keys, KeyFrame
  <2>2. ASSUME NEW th \in Threads
        PROVE  /\ val'[t][th] # TRANSPORT_STARTED
               /\ val'[t][th] = TRANSPORT_GATHERED
                  => th = "nice" /\ pc'[t][th] \in {"report", "commit"} /\ t \notin inbound'
    <3>1. CASE val'[t][th] = val[t][th]
      BY <1>0, <3>1 DEF ReadyInv, GatheredIsEarly, Keys, IceGrows
    <3>2. CASE val'[t][th] = tstate'[t] /\ pc'[t][th] = "report" /\ pc[t][th] # "report"
      BY <3>2 DEF Keys, ReportsWhatItMay
    <3> QED BY <3>1, <3>2
  <2> QED BY <2>1, <2>2 DEF GatheredIsEarly
<1>6. ReadyDecided'
  <2>1. UNCHANGED <<bundle, remote, global, temp>>
    BY DEF Keys, KeyFrame, Moves
  <2>2. Channels' = Channels /\ Channels \subseteq Media
    BY <2>1 DEF Channels, TypeOK, Sdp, Media
  <2>3. Keyed => Keyed'
    BY <1>3, <2>2 DEF Keyed
  <2> QED BY <2>1, <2>3 DEF ReadyInv, ReadyDecided
<1>7. DecidesForward'
  <2>1. ASSUME NEW u \in Media, NEW th \in Threads, pc'[u][th] = "commit"
        PROVE  pc[u][th] = "commit"
    BY <2>1
  <2> QED BY <2>1 DEF ReadyInv, DecidesForward, Moves
<1>8. GatheredFed'
  BY DEF ReadyInv, GatheredFed, Keys, KeyFrame, Moves
<1> QED BY <1>1, <1>2, <1>4, <1>5, <1>6, <1>7, <1>8 DEF ReadyInv

-----------------------------------------------------------------------------
(***************************************************************************)
(* The steps of a transport's threads.                                     *)
(***************************************************************************)

\* A step that installs no key and leaves ICE alone.
LEMMA QuietKeys ==
  ASSUME TypeOK, NEW t \in Media,
         UNCHANGED <<bundle, local, remote, server, comps, creds, fed, ready, ice, inbound>>,
         \A u \in Media : u # t => cur'[u] = cur[u] /\ flight'[u] = flight[u],
         \/ t \in inbound
         \/ /\ UNCHANGED <<cur, flight>>
            /\ pc'[t]["nice"] \notin {"start", "resend"}
            /\ pc'[t]["data"] \notin {"read", "resend"},
         \A th \in Threads : pc'[t][th] = "report" =>
           pc[t][th] = "report" \/ tstate'[t] = TRANSPORT_FAILED
  PROVE  Keys(t)
<1>1. KeyFrame(t)
  BY DEF KeyFrame
<1>2. KeysGrow(t)
  BY DEF KeysGrow
<1>3. IceGrows(t)
  BY IceNumbered DEF IceGrows
<1>4. StaysAsleep(t)
  BY DEF StaysAsleep
<1>5. ReportsWhatItMay(t)
  BY DEF ReportsWhatItMay
<1> QED BY <1>1, <1>2, <1>3, <1>4, <1>5 DEF Keys

\* The ICE callbacks: GATHERED comes before READY, and READY needs credentials.
LEMMA IceKeys ==
  ASSUME TypeOK, IceFirst, NEW t \in Media, NEW s \in IceState, pc[t]["nice"] = "loop",
         s = NICE_READY => t \in creds,
         UpdateIceState(t, s) \/ UNCHANGED <<ice, inbound, running, tstate, pc, val>>,
         UNCHANGED <<bundle, local, remote, server, comps, creds, fed, ready, cur, flight>>
  PROVE  Keys(t)
<1>0. "nice" \in Threads /\ "data" \in Threads
  BY DEF Threads
<1>1. CASE UNCHANGED <<ice, inbound, running, tstate, pc, val>>
  <2>1. \/ t \in inbound
        \/ pc[t]["data"] \notin {"read", "resend"}
    BY DEF IceFirst, Asleep
  <2> QED BY <1>1, <2>1, QuietKeys
<1>2. CASE UpdateIceState(t, s) /\ ~(s <= ice[t])
  <2>1. /\ ice' = [ice EXCEPT ![t] = s]
        /\ inbound' = IF s = NICE_READY THEN inbound \cup {t} ELSE inbound
    BY <1>2 DEF UpdateIceState
  <2>2. ice'[t] = s /\ s > ice[t] /\ ice[t] \in Int /\ s \in Int
        /\ \A u \in Media : u # t => ice'[u] = ice[u]
    <3>1. ice[t] \in Int
      BY IceNumbered
    <3>2. s \in Int
      BY DEF IceState
    <3>3. ice'[t] = s /\ \A u \in Media : u # t => ice'[u] = ice[u]
      BY <2>1 DEF TypeOK
    <3> QED BY <1>2, <3>1, <3>2, <3>3
  <2>3. KeyFrame(t) /\ KeysGrow(t)
    BY <2>1, <2>2 DEF KeyFrame, KeysGrow
  <2>4. IceGrows(t)
    BY <2>1, <2>2 DEF IceGrows
  <2>5. /\ \A uh \in Threads : uh # "nice" => pc'[t][uh] = pc[t][uh]
        /\ pc'[t]["nice"] = "start" => s = NICE_READY
        /\ pc'[t]["nice"] \in {"loop", "start", "report"}
        /\ pc'[t]["nice"] = "report" => \/ s = NICE_CANDIDATES_RECEIVED /\ tstate'[t] = TRANSPORT_GATHERED
                                        \/ tstate'[t] = TRANSPORT_FAILED
    <3>1. CASE pc' = pc
      BY <3>1
    <3>2. CASE s = NICE_READY /\ pc' = [pc EXCEPT ![t]["nice"] = "start"]
      BY <1>0, <3>2, Update DEF TypeOK
    <3>3. ASSUME NEW v \in TransportState, SetTransportState(t, "nice", v, "loop"),
                 \/ s = NICE_CANDIDATES_RECEIVED /\ v = TRANSPORT_GATHERED
                 \/ v = TRANSPORT_FAILED
          PROVE  /\ \A uh \in Threads : uh # "nice" => pc'[t][uh] = pc[t][uh]
                 /\ pc'[t]["nice"] \in {"loop", "report"}
                 /\ tstate'[t] = v
      <4>1. PICK p \in {"loop", "report"} : pc' = [pc EXCEPT ![t]["nice"] = p]
        BY <3>3 DEF SetTransportState
      <4>2. \A uh \in Threads : pc'[t][uh] = IF uh = "nice" THEN p ELSE pc[t][uh]
        BY <1>0, <4>1, Update DEF TypeOK
      <4>3. tstate'[t] = v
        BY <3>3 DEF SetTransportState, TypeOK
      <4> QED BY <1>0, <3>3, <4>2, <4>3
    <3>4. TRANSPORT_GATHERED \in TransportState /\ TRANSPORT_FAILED \in TransportState
      BY DEF TransportState
    <3> QED BY <1>2, <3>1, <3>2, <3>3, <3>4 DEF UpdateIceState
  <2>6. StaysAsleep(t)
    BY <1>0, <2>1, <2>5 DEF StaysAsleep
  <2>7. ReportsWhatItMay(t)
    <3>1. s = NICE_CANDIDATES_RECEIVED => t \notin inbound'
      BY <2>1, <2>2 DEF IceFirst
    <3> QED BY <2>5, <3>1 DEF ReportsWhatItMay
  <2> QED BY <2>3, <2>4, <2>6, <2>7 DEF Keys
<1> QED BY <1>1, <1>2 DEF UpdateIceState

\* An iteration of the handshake: the last key and the state READY come together.
LEMMA HandshakeKeys ==
  ASSUME TypeOK, NEW t \in Media, NEW th \in {"nice", "data"}, NEW c \in comps[t],
         NEW o \in SslOutcomes, DoHandshakeIteration(t, th, c, o), t \in inbound,
         UNCHANGED <<bundle, local, remote, server, comps, creds, fed, ice, inbound>>
  PROVE  Keys(t)
<1>0. th \in Threads /\ c \in Components
  BY DEF Threads, TypeOK
<1>1. CASE hs[t][c] = "done"
  <2>1. /\ pc' = [pc EXCEPT ![t][th] = Resume(th)]
        /\ cur' = [cur EXCEPT ![t][th] = "none"]
        /\ UNCHANGED <<ready, tstate, flight>>
    BY <1>1 DEF DoHandshakeIteration
  <2>2. \A uh \in Threads : pc'[t][uh] = IF uh = th THEN Resume(th) ELSE pc[t][uh]
    BY <1>0, <2>1, Update DEF TypeOK
  <2>3. \A u \in Media : u # t => cur'[u] = cur[u]
    BY <2>1 DEF TypeOK
  <2>4. Resume(th) # "report"
    BY DEF Resume
  <2> QED BY <2>1, <2>2, <2>3, <2>4, QuietKeys
<1>2. CASE hs[t][c] # "done"
  <2> DEFINE s     == HandshakeResult(t, c, o)
             after == IF o.out THEN "resend" ELSE Resume(th)
             keyed == o.res = "none" /\ o.keys = "accepted"
  <2>1. /\ ready' = IF keyed THEN [ready EXCEPT ![t] = @ \cup {c}] ELSE ready
        /\ flight' = [flight EXCEPT ![t][th] = o.out]
        /\ \E d : cur' = [cur EXCEPT ![t][th] = d]
        /\ IF s = TRANSPORT_INITIAL
           THEN /\ pc' = [pc EXCEPT ![t][th] = after]
                /\ UNCHANGED <<tstate, val>>
           ELSE SetTransportState(t, th, s, after)
    BY <1>2 DEF DoHandshakeIteration
  <2>2. /\ \A u \in Media : u # t => /\ cur'[u] = cur[u]
                                     /\ flight'[u] = flight[u]
                                     /\ ready'[u] = ready[u]
        /\ ready'[t] = IF keyed THEN ready[t] \cup {c} ELSE ready[t]
    BY <2>1 DEF TypeOK
  <2>3. KeyFrame(t) /\ IceGrows(t) /\ StaysAsleep(t)
    BY <2>2, IceNumbered DEF KeyFrame, IceGrows, StaysAsleep
  <2>4. s # TRANSPORT_INITIAL => tstate'[t] = s
    BY <2>1 DEF SetTransportState, TypeOK
  <2>5. /\ s \in {TRANSPORT_INITIAL, TRANSPORT_FAILED, TRANSPORT_READY}
        /\ s = TRANSPORT_READY <=> keyed /\ ready[t] \cup {c} = comps[t]
    BY DEF HandshakeResult
  <2>6. KeysGrow(t)
    BY <2>2, <2>4, <2>5 DEF KeysGrow
  <2>7. ReportsWhatItMay(t)
    <3>1. \A uh \in Threads : pc'[t][uh] = "report" /\ pc[t][uh] # "report" => s # TRANSPORT_INITIAL
      <4>1. CASE s = TRANSPORT_INITIAL
        <5>1. \A uh \in Threads : pc'[t][uh] = IF uh = th THEN after ELSE pc[t][uh]
          BY <1>0, <2>1, <4>1, Update DEF TypeOK
        <5>2. after # "report"
          BY DEF Resume
        <5> QED BY <5>1, <5>2
      <4> QED BY <4>1
    <3> QED BY <2>2, <2>4, <2>5, <3>1 DEF ReportsWhatItMay
  <2> QED BY <2>3, <2>6, <2>7 DEF Keys
<1> QED BY <1>1, <1>2

\* What a callback may write over NICE_FINISHED: GATHERED if ICE was never READY, READY
\* with remote credentials.
LateCallback ==
  \A t \in Media : /\ late[t] \in {NICE_INITIAL, NICE_CANDIDATES_RECEIVED, NICE_READY}
                   /\ late[t] = NICE_READY => t \in creds
                   /\ late[t] = NICE_CANDIDATES_RECEIVED => t \notin inbound

\* Outside updateState, every step of a transport's threads is one of these.
LEMMA TransportKeys ==
  ASSUME TypeOK, ReadsComponent, IceFirst, LateCallback, NEW t \in Media, TransportStep(t)
  PROVE  Keys(t) \/ \E th \in Threads : ReportStep(t, th)
<1> USE DEF sdpVars, connVars, setupVars, iceVars, dtlsVars
<1>0. /\ "data" \in Threads /\ "nice" \in Threads
      /\ \A c : TimerOf(c) \in Threads /\ TimerOf(c) # "data" /\ TimerOf(c) # "nice"
  BY DEF Threads, TimerOf
<1>a. \/ t \in inbound
      \/ /\ pc[t]["nice"] \notin {"start", "resend"}
         /\ pc[t]["data"] \notin {"read", "resend"}
  BY DEF IceFirst, Asleep
<1>b. ASSUME NEW th \in Threads, NEW p, pc' = [pc EXCEPT ![t][th] = p], p # "report",
             t \in inbound \/ p \notin {"start", "resend", "read"},
             UNCHANGED <<bundle, local, remote, server, comps, creds, fed, ready, ice,
                         inbound, cur, flight>>
      PROVE  Keys(t)
  <2>1. \A uh \in Threads : pc'[t][uh] = IF uh = th THEN p ELSE pc[t][uh]
    BY <1>b, Update DEF TypeOK
  <2> QED BY <1>0, <1>a, <1>b, <2>1, QuietKeys
<1>1. CASE GatheringDone(t)
  <2>1. NICE_CANDIDATES_RECEIVED \in IceState
    BY DEF IceState
  <2> QED BY <1>1, <2>1, IceKeys DEF GatheringDone, NiceLoop
<1>2. ASSUME NEW c \in Components, NewSelectedPair(t, c) \/ ComponentFailed(t, c)
      PROVE  Keys(t)
  <2>1. NICE_READY \in IceState /\ NICE_FAILED \in IceState
    BY DEF IceState
  <2>2. PICK v \in IceState : ComponentReported(t, c, v) /\ (v = NICE_READY => t \in creds)
    BY <1>2, <2>1 DEF NewSelectedPair, ComponentFailed
  <2> QED BY <2>2, IceKeys DEF ComponentReported, NiceLoop
<1>3. ASSUME NEW c \in Components, DtlsPacket(t, c) PROVE Keys(t)
  <2>1. /\ t \in inbound
        /\ cur' = [cur EXCEPT ![t]["data"] = c]
        /\ UNCHANGED <<bundle, local, remote, server, comps, creds, fed, ready, ice,
                       inbound, flight>>
    BY <1>3 DEF DtlsPacket
  <2>2. \A u \in Media : u # t => cur'[u] = cur[u]
    BY <2>1 DEF TypeOK
  <2>3. \A th \in Threads : pc'[t][th] \in {pc[t][th], "read", "done"}
    <3>1. CASE pc' = [pc EXCEPT ![t]["data"] = "read"]
      BY <1>0, <3>1, Update DEF TypeOK
    <3>2. CASE pc' = [pc EXCEPT ![t]["data"] = "read", ![t][TimerOf(c)] = "done"]
      BY <1>0, <3>2 DEF TypeOK
    <3> QED BY <1>3, <3>1, <3>2 DEF DtlsPacket
  <2> QED BY <2>1, <2>2, <2>3, QuietKeys
<1>4. ASSUME NEW c \in Components, Timeout(t, c) PROVE Keys(t)
  <2>1. tstate'[t] = TRANSPORT_FAILED
    BY <1>4 DEF Timeout, SetTransportState, TypeOK
  <2>2. PICK p : pc' = [pc EXCEPT ![t][TimerOf(c)] = p]
    BY <1>4 DEF Timeout, SetTransportState
  <2>3. \A uh \in Threads : pc'[t][uh] = IF uh = TimerOf(c) THEN p ELSE pc[t][uh]
    BY <1>0, <2>2, Update DEF TypeOK
  <2>4. UNCHANGED <<bundle, local, remote, server, comps, creds, fed, ready, ice, inbound,
                    cur, flight>>
    BY <1>4 DEF Timeout
  <2> QED BY <1>0, <1>a, <2>1, <2>3, <2>4, QuietKeys
<1>5. ASSUME NEW c \in Components, NEW o \in SslOutcomes, DtlsStart(t, c, o)
      PROVE  Keys(t)
  <2>1. t \in inbound
    BY <1>5, <1>a DEF DtlsStart
  <2> QED BY <1>5, <2>1, HandshakeKeys DEF DtlsStart
<1>6. ASSUME NEW o \in SslOutcomes, DtlsRead(t, o) PROVE Keys(t)
  <2>1. t \in inbound /\ cur[t]["data"] \in comps[t]
    BY <1>6, <1>a DEF DtlsRead, ReadsComponent
  <2> QED BY <1>6, <2>1, HandshakeKeys DEF DtlsRead
<1>7. CASE DtlsStarted(t) \/ NiceExit(t)
  <2>1. PICK p \in {"loop", "exited"} : pc' = [pc EXCEPT ![t]["nice"] = p]
    BY <1>7 DEF DtlsStarted, NiceExit
  <2> QED BY <1>0, <1>7, <1>b, <2>1 DEF DtlsStarted, NiceExit
<1>8. CASE DataLoop(t) \/ MediaPacket(t)
  <2>1. PICK p \in {"get", "exited", "top"} : pc' = [pc EXCEPT ![t]["data"] = p]
    BY <1>8 DEF DataLoop, MediaPacket
  <2> QED BY <1>0, <1>8, <1>b, <2>1 DEF DataLoop, MediaPacket
<1>11. CASE DataWoken(t)
  <2>1. CASE pc' = pc
    BY <1>0, <1>a, <1>11, <2>1, QuietKeys DEF DataWoken
  <2>2. CASE pc' = [pc EXCEPT ![t]["data"] = "exited"]
    BY <1>0, <1>11, <1>b, <2>2 DEF DataWoken
  <2> QED BY <1>11, <2>1, <2>2 DEF DataWoken
<1>12. CASE LateIceState(t)
  <2>1. /\ pc' = pc /\ tstate' = tstate /\ pc[t]["nice"] = "loop"
        /\ late[t] \in {NICE_CANDIDATES_RECEIVED, NICE_READY}
        /\ ice' = [ice EXCEPT ![t] = late[t]]
        /\ inbound' = IF late[t] = NICE_READY THEN inbound \cup {t} ELSE inbound
        /\ UNCHANGED <<bundle, local, remote, server, comps, creds, fed, ready, cur, flight>>
    BY <1>12 DEF LateIceState, LateCallback
  <2>2. ice'[t] = late[t] /\ \A u \in Media : u # t => ice'[u] = ice[u]
    BY <2>1 DEF TypeOK
  <2>3. KeyFrame(t)
    BY <2>1, <2>2 DEF KeyFrame
  <2>4. KeysGrow(t) /\ StaysAsleep(t) /\ ReportsWhatItMay(t)
    BY <2>1 DEF KeysGrow, StaysAsleep, ReportsWhatItMay
  <2>5. IceGrows(t)
    BY <2>1, <2>2 DEF IceGrows, LateCallback
  <2> QED BY <2>3, <2>4, <2>5 DEF Keys
<1>9. ASSUME NEW th \in {"nice", "data"}, ScheduleCancels(t, th) PROVE Keys(t)
  <2>1. PICK timer \in Threads : pc' = [pc EXCEPT ![t][timer] = "done"]
    BY <1>0, <1>9 DEF ScheduleCancels
  <2> QED BY <1>9, <1>b, <2>1 DEF ScheduleCancels
<1>10. ASSUME NEW th \in {"nice", "data"}, ScheduleResend(t, th) PROVE Keys(t)
  <2> DEFINE timer == TimerOf(cur[t][th])
  <2>0. th \in Threads /\ timer \in Threads /\ th # timer
    BY <1>0
  <2>1. /\ t \in inbound
        /\ cur' = [cur EXCEPT ![t][th] = "none"]
        /\ flight' = [flight EXCEPT ![t][th] = FALSE]
        /\ UNCHANGED <<bundle, local, remote, server, comps, creds, fed, ready, ice, inbound>>
    BY <1>10, <1>a DEF ScheduleResend
  <2>2. \A u \in Media : u # t => cur'[u] = cur[u] /\ flight'[u] = flight[u]
    BY <2>1 DEF TypeOK
  <2>3. \A uh \in Threads : pc'[t][uh] = "report" => pc[t][uh] = "report"
    BY <1>10, <2>0 DEF ScheduleResend, Resume, TypeOK
  <2> HIDE DEF timer
  <2> QED BY <2>1, <2>2, <2>3, QuietKeys
<1> QED BY <1>1, <1>2, <1>3, <1>4, <1>5, <1>6, <1>7, <1>8, <1>9, <1>10, <1>11, <1>12
        DEF TransportStep, StartStep, ReadStep, ScheduleStep

-----------------------------------------------------------------------------
(***************************************************************************)
(* updateState.                                                            *)
(***************************************************************************)

\* A thread inside updateState disturbs nothing of the transports, coming or going.
LEMMA ReportFrame ==
  ASSUME TypeOK, ReadyInv, NEW t \in Media, NEW th \in Threads,
         pc[t][th] \in {"report", "commit"}, pc'[t][th] # "none",
         UNCHANGED <<user, bundle, local, remote, server, comps, creds, ice, inbound, ready,
                     tstate, flight>>,
         \A u \in Media, uh \in Threads :
           ~(u = t /\ uh = th) => /\ pc'[u][uh] = pc[u][uh]
                                 /\ val'[u][uh] = val[u][uh]
                                 /\ cur'[u][uh] = cur[u][uh],
         t \notin inbound => /\ cur'[t][th] = "none"
                            /\ pc'[t][th] \notin {"start", "read", "resend"},
         \/ val'[t][th] = TRANSPORT_INITIAL
         \/ val'[t][th] = val[t][th] /\ pc'[t][th] = "commit"
  PROVE  /\ \A u \in Media : Created(u)' = Created(u)
         /\ Channels' = Channels
         /\ Keyed' = Keyed
         /\ IceFirst'
         /\ SdpFirst'
         /\ ReadyIsKeyed'
         /\ GatheredIsEarly'
<1>0. "data" \in Threads /\ "nice" \in Threads
  BY DEF Threads
<1>1. \A u \in Media : Created(u)' = Created(u)
  BY <1>0 DEF Created
<1>2. \A u \in Media : AllReady(u)' = AllReady(u)
  BY DEF AllReady
<1>3. Channels' = Channels /\ Channels \subseteq Media
  BY DEF Channels, TypeOK, Sdp, Media
<1>4. Keyed' = Keyed
  BY <1>1, <1>2, <1>3 DEF Keyed
<1>5. IceFirst'
  <2>1. ASSUME NEW u \in Media, u \notin inbound, Asleep(u) PROVE Asleep(u)'
    <3>1. ready'[u] = {} /\ \A uh \in Threads : cur'[u][uh] = "none" /\ ~flight'[u][uh]
      BY <2>1 DEF Asleep
    <3>2. pc'[u]["nice"] \notin {"start", "resend"} /\ pc'[u]["data"] \notin {"read", "resend"}
      BY <1>0, <2>1 DEF Asleep
    <3> QED BY <3>1, <3>2 DEF Asleep
  <2> QED BY <1>1, <2>1 DEF ReadyInv, IceFirst
<1>6. SdpFirst'
  <2>1. Created("video")' = Created("video") /\ Created("audio")' = Created("audio")
    BY <1>1 DEF Media
  <2> QED BY <2>1 DEF ReadyInv, SdpFirst
<1>7. ReadyIsKeyed'
  BY <1>2 DEF ReadyInv, ReadyIsKeyed
<1>8. GatheredIsEarly'
  BY DEF ReadyInv, GatheredIsEarly
<1> QED BY <1>1, <1>3, <1>4, <1>5, <1>6, <1>7, <1>8

\* A report that returns is such a step.
LEMMA ReturnFrame ==
  ASSUME TypeOK, ReadyInv, NEW t \in Media, NEW th \in Threads,
         pc[t][th] \in {"report", "commit"}, ReturnFromReport(t, th),
         UNCHANGED <<user, bundle, local, remote, server, comps, creds, ice, inbound, ready,
                     tstate, flight>>
  PROVE  /\ pc'[t][th] # "commit"
         /\ \A u \in Media, uh \in Threads : ~(u = t /\ uh = th) => pc'[u][uh] = pc[u][uh]
         /\ \A u \in Media : Created(u)' = Created(u)
         /\ Keyed' = Keyed
         /\ IceFirst' /\ SdpFirst' /\ ReadyIsKeyed' /\ GatheredIsEarly'
<1>1. /\ pc' = [pc EXCEPT ![t][th] = AfterReport(t, th)]
      /\ val' = [val EXCEPT ![t][th] = TRANSPORT_INITIAL]
      /\ cur' \in {cur, [cur EXCEPT ![t][th] = "none"]}
  BY DEF ReturnFromReport
<1>2. /\ \A u \in Media, uh \in Threads :
           ~(u = t /\ uh = th) => /\ pc'[u][uh] = pc[u][uh]
                                 /\ val'[u][uh] = val[u][uh]
                                 /\ cur'[u][uh] = cur[u][uh]
      /\ pc'[t][th] = AfterReport(t, th)
      /\ val'[t][th] = TRANSPORT_INITIAL
      /\ cur'[t][th] \in {cur[t][th], "none"}
  BY <1>1, Update DEF TypeOK
<1>3. AfterReport(t, th) \in {"start", "resend", "loop", "top", "done"}
  BY DEF AfterReport, Resume
<1>4. t \notin inbound => /\ cur'[t][th] = "none"
                         /\ pc'[t][th] \notin {"start", "read", "resend"}
  BY <1>2 DEF ReadyInv, IceFirst, Asleep, AfterReport, Resume
<1> QED BY <1>2, <1>3, <1>4, ReportFrame

\* A transport with all its keys receives packets, and a bundle has only the video
\* transport.
LEMMA KeyedReceives ==
  ASSUME ReadyInv, NEW t \in Media, AllReady(t)
  PROVE  t \in inbound /\ remote.media # {} /\ Created(t)
<1>1. ready[t] # {}
  BY DEF ReadyInv, ReadyIsKeyed, AllReady
<1>2. t \in inbound /\ Created(t) /\ t \in creds
  BY <1>1 DEF ReadyInv, IceFirst, Asleep
<1> QED BY <1>2 DEF ReadyInv, SdpFirst

\* With BUNDLE the transport is the one of video.
LEMMA BundleIsVideo ==
  ASSUME ReadyInv, NEW t \in Media, Created(t), bundle
  PROVE  t = "video"
  BY DEF ReadyInv, SdpFirst, Media

\* What updateState decides: READY only with all keys, GATHERED only while they are
\* missing and with the candidates passed on.
LEMMA EvaluateReady ==
  ASSUME TypeOK, FailureInv, ReadyInv, NEW t \in Media, NEW th \in Threads, Evaluate(t, th)
  PROVE  ReadyInv'
<1> USE DEF sdpVars, connVars, setupVars, iceVars, dtlsVars
<1>1. /\ pc[t][th] = "report"
      /\ UpdateStateMutexFree
      /\ global # CONN_FAILED
      /\ temp' = Aggregate(val[t][th])
      /\ fed' = FedByUpdateState(val[t][th])
      /\ pc' = [pc EXCEPT ![t][th] = "commit"]
      /\ UNCHANGED <<user, bundle, local, remote, server, comps, creds, ice, inbound, ready,
                     tstate, val, cur, flight, global>>
  BY DEF Evaluate, ConnectionFailed
<1>2. \A u \in Media, uh \in Threads :
        pc'[u][uh] = IF u = t /\ uh = th THEN "commit" ELSE pc[u][uh]
  BY <1>1, Update DEF TypeOK
<1>3. Created(t)
  BY <1>1, ThreadsAreOwned
<1>4. t \notin inbound => cur[t][th] = "none"
  BY DEF ReadyInv, IceFirst, Asleep
<1>5. /\ Keyed' = Keyed
      /\ IceFirst' /\ SdpFirst' /\ ReadyIsKeyed' /\ GatheredIsEarly'
  BY <1>1, <1>2, <1>4, ReportFrame
<1>6. \/ temp' \in {global, CONN_FAILED}
      \/ /\ temp' = CONN_READY
         /\ val[t][th] = TRANSPORT_READY
         /\ bundle \/ AllIn(remote.media, TRANSPORT_READY)
      \/ /\ temp' = CONN_GATHERED
         /\ val[t][th] = TRANSPORT_GATHERED
         /\ bundle \/ AllIn(local, TRANSPORT_GATHERED)
  <2>1. val[t][th] # TRANSPORT_STARTED
    BY DEF ReadyInv, GatheredIsEarly
  <2>2. CASE val[t][th] = TRANSPORT_GATHERED
    BY <1>1, <2>2 DEF Aggregate
  <2>3. CASE val[t][th] = TRANSPORT_READY
    BY <1>1, <2>3 DEF Aggregate
  <2>4. CASE val[t][th] \notin {TRANSPORT_GATHERED, TRANSPORT_READY}
    BY <1>1, <2>1, <2>4 DEF Aggregate
  <2> QED BY <2>2, <2>3, <2>4
<1>7. ASSUME temp' = CONN_READY, val[t][th] = TRANSPORT_READY,
             bundle \/ AllIn(remote.media, TRANSPORT_READY)
      PROVE  remote.media # {} /\ Keyed
  <2>1. AllReady(t)
    BY <1>7 DEF ReadyInv, ReadyIsKeyed
  <2>2. CASE bundle
    BY <1>3, <2>1, <2>2, KeyedReceives, BundleIsVideo DEF Keyed, Channels
  <2>3. CASE ~bundle
    <3>1. remote.media \subseteq Media
      BY DEF TypeOK, Sdp
    <3> QED BY <1>7, <2>1, <2>3, <3>1, KeyedReceives
            DEF Keyed, Channels, AllIn, ReadyInv, ReadyIsKeyed
  <2> QED BY <2>2, <2>3
<1>8. ASSUME val[t][th] = TRANSPORT_GATHERED, bundle \/ AllIn(local, TRANSPORT_GATHERED)
      PROVE  global # CONN_READY
  <2> SUFFICES ASSUME global = CONN_READY PROVE FALSE
    OBVIOUS
  <2>1. remote.media # {} /\ Keyed
    BY DEF ReadyInv, ReadyDecided
  <2>2. ~AllReady(t)
    BY <1>8, KeyedReceives DEF ReadyInv, GatheredIsEarly
  <2>3. CASE bundle
    BY <1>3, <2>1, <2>2, <2>3, BundleIsVideo DEF Keyed, Channels
  <2>4. CASE ~bundle
    <3>1. PICK u \in Media : u \in remote.media
      BY <2>1 DEF TypeOK, Sdp
    <3>2. tstate[u] >= TRANSPORT_READY
      BY <2>1, <2>4, <3>1 DEF Keyed, Channels, ReadyInv, ReadyIsKeyed
    <3>3. tstate[u] = TRANSPORT_GATHERED
      BY <1>8, <2>1, <2>4, <3>1 DEF AllIn, ReadyInv, SdpFirst
    <3> QED BY <3>2, <3>3
  <2> QED BY <2>3, <2>4
<1>9. ReadyDecided'
  BY <1>1, <1>5, <1>6, <1>7 DEF ReadyInv, ReadyDecided
<1>10. DecidesForward'
  <2>1. temp' >= global \/ user = "destroyed"
    <3>1. global = CONN_FINISHED => user = "destroyed"
      BY DEF FailureInv, FinishedByDestructor
    <3>2. global \in ConnState
      BY DEF TypeOK
    <3>3. val[t][th] = TRANSPORT_GATHERED /\ temp' = CONN_GATHERED /\ temp' # global
          => global # CONN_READY
      BY <1>6, <1>8
    <3> QED BY <1>1, <1>6, <3>1, <3>2, <3>3 DEF ConnState
  <2> QED BY <1>1, <1>2, <2>1 DEF DecidesForward, UpdateStateMutexFree
<1>11. GatheredFed'
  <2>1. fed \subseteq fed'
    BY <1>1 DEF FedByUpdateState
  <2>2. ASSUME ~server["video"], val[t][th] = TRANSPORT_GATHERED
        PROVE  /\ remote.media # {}
               /\ bundle /\ remote.cands /\ "video" \in remote.media => "video" \in fed'
    <3>1. remote.media # {}
      BY <1>3, <2>2 DEF ReadyInv, SdpFirst, Media
    <3> QED BY <1>1, <2>2, <3>1 DEF FedByUpdateState
  <2>3. ASSUME ~server["video"], CONN_GATHERED \in {global, temp'}
        PROVE  /\ remote.media # {}
               /\ bundle /\ remote.cands /\ "video" \in remote.media => "video" \in fed'
    <3>1. global = CONN_GATHERED \/ val[t][th] = TRANSPORT_GATHERED
      BY <1>6, <2>3
    <3>2. CASE global = CONN_GATHERED
      BY <2>1, <2>3, <3>2 DEF ReadyInv, GatheredFed
    <3> QED BY <2>2, <2>3, <3>1, <3>2
  <2> QED BY <1>1, <2>3 DEF GatheredFed
<1> QED BY <1>5, <1>9, <1>10, <1>11 DEF ReadyInv

\* What was decided becomes globalState_, and nobody else has decided meanwhile.
LEMMA CommitReady ==
  ASSUME TypeOK, FailureInv, ReadyInv, NEW t \in Media, NEW th \in Threads, Commit(t, th)
  PROVE  ReadyInv'
<1> USE DEF sdpVars, connVars, setupVars, iceVars, dtlsVars
<1>1. /\ pc[t][th] = "commit"
      /\ global' = temp
      /\ ReturnFromReport(t, th)
      /\ UNCHANGED <<user, bundle, local, remote, server, comps, creds, ice, inbound, ready,
                     tstate, flight, temp, fed>>
  BY DEF Commit
<1>2. /\ pc'[t][th] # "commit"
      /\ \A u \in Media, uh \in Threads : ~(u = t /\ uh = th) => pc'[u][uh] = pc[u][uh]
      /\ Keyed' = Keyed
      /\ IceFirst' /\ SdpFirst' /\ ReadyIsKeyed' /\ GatheredIsEarly'
  BY <1>1, ReturnFrame
<1>3. ReadyDecided'
  BY <1>1, <1>2 DEF ReadyInv, ReadyDecided
<1>4. DecidesForward'
  BY <1>1, <1>2 DEF DecidesForward, FailureInv, OneCommitter
<1>5. GatheredFed'
  BY <1>1 DEF ReadyInv, GatheredFed
<1> QED BY <1>2, <1>3, <1>4, <1>5 DEF ReadyInv

\* A failed connection ignores the report.
LEMMA EvaluateIgnoredReady ==
  ASSUME TypeOK, FailureInv, ReadyInv, NEW t \in Media, NEW th \in Threads,
         EvaluateIgnored(t, th)
  PROVE  ReadyInv'
<1> USE DEF sdpVars, connVars, setupVars, iceVars, dtlsVars
<1>1. /\ pc[t][th] = "report"
      /\ ReturnFromReport(t, th)
      /\ UNCHANGED <<user, bundle, local, remote, server, comps, creds, ice, inbound, ready,
                     tstate, flight, global, temp, fed>>
  BY DEF EvaluateIgnored
<1>2. /\ pc'[t][th] # "commit"
      /\ \A u \in Media, uh \in Threads : ~(u = t /\ uh = th) => pc'[u][uh] = pc[u][uh]
      /\ Keyed' = Keyed
      /\ IceFirst' /\ SdpFirst' /\ ReadyIsKeyed' /\ GatheredIsEarly'
  BY <1>1, ReturnFrame
<1>3. ReadyDecided' /\ GatheredFed'
  BY <1>1, <1>2 DEF ReadyInv, ReadyDecided, GatheredFed
<1>4. DecidesForward'
  BY <1>1, <1>2 DEF ReadyInv, DecidesForward
<1> QED BY <1>2, <1>3, <1>4 DEF ReadyInv

-----------------------------------------------------------------------------
(***************************************************************************)
(* The application thread.                                                 *)
(***************************************************************************)

\* Steps that leave the transports alone, or only close them.
LEMMA QuietUserReady ==
  ASSUME TypeOK, ReadyInv,
         UNCHANGED <<bundle, local, server, comps, creds, inbound, ready, pc, val, cur, flight>>,
         remote'.media = remote.media,
         \A u \in Media : ice'[u] = ice[u] \/ ice'[u] >= NICE_READY,
         \A u \in Media : tstate'[u] = tstate[u] \/ tstate'[u] = TRANSPORT_FINISHED,
         temp' = temp,
         \/ global' = global /\ (user = "destroyed" => user' = "destroyed")
         \/ global' = CONN_FINISHED /\ user' = "destroyed",
         user' \in {"sdpVideo", "sdpAudio", "sdpCands"} => user' = user,
         fed \subseteq fed',
         \/ remote'.cands = remote.cands
         \/ bundle => "video" \in fed'
  PROVE  ReadyInv'
<1>1. /\ \A u \in Media : Created(u)' = Created(u) /\ AllReady(u)' = AllReady(u)
      /\ Channels' = Channels
  BY DEF Created, AllReady, Channels
<1>2. Created("video")' = Created("video") /\ Created("audio")' = Created("audio")
  BY DEF Created
<1>3. Keyed' = Keyed
  BY DEF Keyed, Created, AllReady, Channels
<1>4. IceFirst'
  <2>1. \A u \in Media : Asleep(u)' = Asleep(u)
    BY DEF Asleep
  <2> QED BY <1>1, <2>1 DEF ReadyInv, IceFirst
<1>5. SdpFirst'
  BY <1>2 DEF ReadyInv, SdpFirst
<1>6. ReadyIsKeyed'
  BY <1>1 DEF ReadyInv, ReadyIsKeyed
<1>7. GatheredIsEarly'
  BY DEF ReadyInv, GatheredIsEarly
<1>8. ReadyDecided'
  BY <1>3 DEF ReadyInv, ReadyDecided
<1>9. DecidesForward'
  BY DEF ReadyInv, DecidesForward
<1>10. GatheredFed'
  BY DEF ReadyInv, GatheredFed
<1> QED BY <1>4, <1>5, <1>6, <1>7, <1>8, <1>9, <1>10 DEF ReadyInv

\* A new transport has no keys yet, and its creator has seen to the order.
LEMMA CreateReady ==
  ASSUME TypeOK, FailureInv, ReadyInv, NEW t \in Media, NEW isServer \in BOOLEAN, NEW mux,
         ~Created(t), CreateTransport(t, isServer, mux),
         UNCHANGED <<remote, global, temp, fed, ice, inbound, ready, tstate, val, cur, flight>>,
         creds \subseteq creds',
         isServer => t = "video",
         \/ UNCHANGED <<bundle, local>> /\ remote.media # {}
         \/ isServer /\ creds' = creds /\ user' = "idle" /\ remote.media = {},
         t = "audio" => ~bundle /\ remote.media # {},
         user # "destroyed"
  PROVE  ReadyInv'
<1>0. "data" \in Threads /\ "nice" \in Threads /\ "video" \in Media /\ "audio" \in Media
  BY DEF Threads, Media
<1>1. \A u \in Media, uh \in Threads :
        pc'[u][uh] = IF u = t /\ uh = "nice" THEN "loop"
                     ELSE IF u = t /\ uh = "data" THEN "top" ELSE pc[u][uh]
  BY <1>0 DEF CreateTransport, TypeOK
<1>2. /\ comps'[t] # {}
      /\ \A u \in Media : u # t => comps'[u] = comps[u] /\ server'[u] = server[u]
      /\ server'[t] = isServer
  BY DEF CreateTransport, TypeOK, Components
<1>3. Created(t)' /\ \A u \in Media : u # t => Created(u)' = Created(u)
  BY <1>0, <1>1 DEF Created
<1>4. t \notin inbound /\ Asleep(t) /\ ready[t] = {}
  BY DEF ReadyInv, IceFirst, Asleep
<1>5. ~AllReady(t) /\ ~AllReady(t)'
  BY <1>2, <1>4 DEF AllReady, ReadyInv, ReadyIsKeyed
<1>6. \A u \in Media : u # t => AllReady(u)' = AllReady(u)
  BY <1>2 DEF AllReady
<1>7. IceFirst'
  <2>1. Asleep(t)'
    BY <1>0, <1>1, <1>4 DEF Asleep
  <2>2. \A u \in Media : u # t /\ Asleep(u) => Asleep(u)'
    BY <1>0, <1>1 DEF Asleep
  <2> QED BY <1>3, <1>4, <2>1, <2>2 DEF ReadyInv, IceFirst
<1>8. SdpFirst'
  BY <1>0, <1>2, <1>3 DEF ReadyInv, SdpFirst
<1>9. ReadyIsKeyed'
  BY <1>2, <1>5, <1>6 DEF ReadyInv, ReadyIsKeyed
<1>10. GatheredIsEarly'
  <2>1. \A uh \in Threads : pc[t][uh] = "none"
    BY DEF FailureInv, NothingBeforeCreation
  <2> QED BY <1>1, <2>1 DEF ReadyInv, GatheredIsEarly
<1>11. ReadyDecided'
  <2> SUFFICES ASSUME CONN_READY \in {global, temp} PROVE remote.media # {} /\ Keyed'
    BY DEF ReadyDecided
  <2>1. remote.media # {} /\ Keyed
    BY DEF ReadyInv, ReadyDecided
  <2>2. Channels' = Channels /\ Channels \subseteq Media
    BY <2>1 DEF Channels, TypeOK, Sdp, Media
  <2>3. t \notin Channels
    BY <2>1 DEF Keyed
  <2>4. Keyed'
    BY <1>3, <1>6, <2>1, <2>2, <2>3 DEF Keyed
  <2> QED BY <2>1, <2>4
<1>12. DecidesForward'
  BY <1>1 DEF ReadyInv, DecidesForward
<1>13. GatheredFed'
  <2>1. CASE isServer
    BY <1>2, <2>1 DEF GatheredFed
  <2>2. CASE ~isServer
    <3>1. server["video"] => server'["video"]
      BY <1>0, <1>2 DEF ReadyInv, SdpFirst
    <3> QED BY <2>2, <3>1 DEF ReadyInv, GatheredFed
  <2> QED BY <2>1, <2>2
<1> QED BY <1>7, <1>8, <1>9, <1>10, <1>11, <1>12, <1>13 DEF ReadyInv

\* The descriptions arrive before anything could become READY, or an answerer GATHERED.
LEMMA SetRemoteSdpReady ==
  ASSUME TypeOK, ReadyInv, NEW r \in RemoteSdps, SetRemoteSdp(r)
  PROVE  ReadyInv'
<1> USE DEF sdpVars, connVars, setupVars, iceVars, dtlsVars
<1>1. r \in Sdp /\ r.media # {}
  BY InputAssumption DEF InputAssumption
<1>2. /\ user = "idle" /\ user' = "sdpVideo"
      /\ remote.media = {} /\ remote'.media = r.media /\ local' = r.media
      /\ UNCHANGED <<global, temp, server, comps, creds, fed, ice, inbound, tstate, ready, pc,
                     val, cur, flight>>
  BY <1>1 DEF SetRemoteSdp, Sdp
<1>3. \A u \in Media : /\ Created(u)' = Created(u)
                       /\ AllReady(u)' = AllReady(u)
                       /\ Asleep(u)' = Asleep(u)
  BY <1>2 DEF Created, AllReady, Asleep
<1>4. IceFirst' /\ ReadyIsKeyed' /\ GatheredIsEarly'
  BY <1>2, <1>3 DEF ReadyInv, IceFirst, ReadyIsKeyed, GatheredIsEarly
<1>5. SdpFirst'
  <2>1. Created("video")' = Created("video") /\ Created("audio")' = Created("audio")
    BY <1>3 DEF Media
  <2> QED BY <1>1, <1>2, <2>1 DEF ReadyInv, SdpFirst
<1>6. ReadyDecided' /\ DecidesForward' /\ GatheredFed'
  BY <1>2 DEF ReadyInv, ReadyDecided, DecidesForward, GatheredFed
<1> QED BY <1>4, <1>5, <1>6 DEF ReadyInv

\* Every step of the application preserves the invariant.
LEMMA UserReady ==
  ASSUME TypeOK, TypeOK', FailureInv, ReadyInv, UserStep
  PROVE  ReadyInv'
<1> USE DEF sdpVars, connVars, setupVars, iceVars, dtlsVars
<1>1. CASE CreateOffer
  <2>1. /\ ~Created("video") /\ CreateTransport("video", TRUE, TRUE)
        /\ user = "idle" /\ remote.media = {}
        /\ UNCHANGED <<user, remote, global, temp, creds, fed, ice, inbound, ready, tstate, val,
                       cur, flight>>
    BY <1>1 DEF CreateOffer
  <2> QED BY <2>1, CreateReady DEF Media
<1>2. ASSUME NEW t \in Media, NEW needed, NEW here, NEW next,
             SetRemoteSdpTransport(t, here, next, needed),
             here # "destroyed", remote.media # {},
             needed /\ t = "audio" => ~bundle
      PROVE  ReadyInv'
  <2>1. /\ user = here /\ user' = next
        /\ creds \subseteq creds'
        /\ UNCHANGED <<bundle, local, remote, global, temp, fed, ice, inbound, tstate, ready,
                       val, cur, flight>>
    BY <1>2 DEF SetRemoteSdpTransport
  <2>2. CASE needed /\ ~Created(t)
    <3>1. CreateTransport(t, FALSE, remote.mux)
      BY <1>2, <2>2 DEF SetRemoteSdpTransport
    <3> QED BY <1>2, <2>1, <2>2, <3>1, CreateReady
  <2>3. CASE ~(needed /\ ~Created(t))
    <3>1. UNCHANGED <<server, comps, running, pc>>
      BY <1>2, <2>3 DEF SetRemoteSdpTransport
    <3>2. \A u \in Media : /\ Created(u)' = Created(u)
                           /\ AllReady(u)' = AllReady(u)
                           /\ Asleep(u)' = Asleep(u)
      BY <2>1, <3>1 DEF Created, AllReady, Asleep
    <3>3. IceFirst' /\ ReadyIsKeyed' /\ GatheredIsEarly'
      BY <2>1, <3>1, <3>2 DEF ReadyInv, IceFirst, ReadyIsKeyed, GatheredIsEarly
    <3>4. SdpFirst'
      <4>1. Created("video")' = Created("video") /\ Created("audio")' = Created("audio")
        BY <3>2 DEF Media
      <4> QED BY <1>2, <2>1, <3>1, <4>1 DEF ReadyInv, SdpFirst
    <3>5. Keyed' = Keyed
      BY <2>1, <3>1 DEF Keyed, Channels, Created, AllReady
    <3>6. ReadyDecided' /\ DecidesForward' /\ GatheredFed'
      BY <1>2, <2>1, <3>1, <3>5 DEF ReadyInv, ReadyDecided, DecidesForward, GatheredFed
    <3> QED BY <3>3, <3>4, <3>6 DEF ReadyInv
  <2> QED BY <2>2, <2>3
<1>3. CASE SetRemoteSdpVideo
  <2>1. PICK needed : SetRemoteSdpTransport("video", "sdpVideo", "sdpAudio", needed)
    BY <1>3 DEF SetRemoteSdpVideo
  <2>2. remote.media # {}
    BY <2>1 DEF SetRemoteSdpTransport, ReadyInv, SdpFirst
  <2> QED BY <1>2, <2>1, <2>2 DEF Media
<1>4. CASE SetRemoteSdpAudio
  <2>1. PICK needed : /\ SetRemoteSdpTransport("audio", "sdpAudio", "sdpCands", needed)
                      /\ needed => ~bundle
    BY <1>4 DEF SetRemoteSdpAudio
  <2>2. remote.media # {}
    BY <2>1 DEF SetRemoteSdpTransport, ReadyInv, SdpFirst
  <2> QED BY <1>2, <2>1, <2>2 DEF Media
<1>5. CASE SetRemoteSdpCandidates
  BY <1>5, QuietUserReady DEF SetRemoteSdpCandidates
<1>6. ASSUME NEW m \in Media, NEW end \in BOOLEAN, NEW parsed \in BOOLEAN,
             AddRemoteCandidate(m, end, parsed)
      PROVE  ReadyInv'
  <2>1. remote'.media = remote.media /\ (remote'.cands = remote.cands \/ parsed)
    BY <1>6 DEF AddRemoteCandidate, TypeOK, Sdp
  <2>2. fed \subseteq fed' /\ (parsed /\ bundle => "video" \in fed')
    BY <1>6 DEF AddRemoteCandidate
  <2> QED BY <1>6, <2>1, <2>2, QuietUserReady DEF AddRemoteCandidate
<1>7. CASE Destroy
  BY <1>7, QuietUserReady DEF Destroy
<1>8. ASSUME NEW t \in Media, NEW s, CloseTransport(t, s) PROVE ReadyInv'
  <2>1. \A u \in Media : ice'[u] = ice[u] \/ ice'[u] >= NICE_READY
    BY <1>8, IceNumbered DEF CloseTransport, TypeOK
  <2> QED BY <1>8, <2>1, QuietUserReady DEF CloseTransport
<1>9. ASSUME NEW t \in Media, JoinNice(t) \/ JoinData(t) PROVE ReadyInv'
  <2>1. \A u \in Media : tstate'[u] = tstate[u] \/ tstate'[u] = TRANSPORT_FINISHED
    BY <1>9 DEF JoinNice, JoinData, TypeOK
  <2> QED BY <1>9, <2>1, QuietUserReady DEF JoinNice, JoinData
<1>10. CASE Destroyed
  BY <1>10, QuietUserReady DEF Destroyed
<1>11. ASSUME NEW t \in Media, NEW c \in Components, ResenderDestroyed(t, c)
       PROVE  ReadyInv'
  <2>1. TimerOf(c) \in Threads /\ TimerOf(c) \notin {"nice", "data"}
        /\ "nice" \in Threads /\ "data" \in Threads
    BY DEF TimerOf, Threads
  <2>2. /\ pc[t][TimerOf(c)] = "armed"
        /\ pc' = [pc EXCEPT ![t][TimerOf(c)] = "done"]
        /\ UNCHANGED <<user, global, temp, closing, running, tstate, val>>
    BY <1>11 DEF ResenderDestroyed
  <2>3. QuietMove(t)
    <3>1. "done" \notin {"none", "report", "commit"} /\ tstate' = tstate /\ val' = val
          /\ pc[t][TimerOf(c)] \notin {"report", "commit", "exited"}
      BY <2>2
    <3> QED BY <2>1, <2>2, <3>1, PcMoves
  <2>4. Moves(t)
    BY <2>1, <2>2, <2>3, ThreadsAreOwned DEF Moves
  <2>5. \A uh \in Threads : pc'[t][uh] = IF uh = TimerOf(c) THEN "done" ELSE pc[t][uh]
    BY <2>1, <2>2, Update DEF TypeOK
  <2>6. \/ t \in inbound
        \/ /\ pc[t]["nice"] \notin {"start", "resend"}
           /\ pc[t]["data"] \notin {"read", "resend"}
    BY DEF ReadyInv, IceFirst, Asleep
  <2>7. UNCHANGED <<bundle, local, remote, server, comps, creds, fed, ready, ice, inbound, cur,
                    flight>>
    BY <1>11 DEF ResenderDestroyed
  <2>8. Keys(t)
    BY <2>1, <2>5, <2>6, <2>7, QuietKeys
  <2> QED BY <2>4, <2>8, KeysInv
<1>12. CASE JoinSender
  BY <1>12, QuietUserReady DEF JoinSender
<1> QED BY <1>1, <1>3, <1>4, <1>5, <1>6, <1>7, <1>8, <1>9, <1>10, <1>11, <1>12,
           SetRemoteSdpReady
        DEF UserStep, SetRemoteSdpStep, CloseStep

-----------------------------------------------------------------------------
\* The invariant holds initially.
LEMMA ReadyInit == Init => ReadyInv
<1> SUFFICES ASSUME Init PROVE ReadyInv
  OBVIOUS
<1>1. /\ \A t \in Media, th \in Threads : /\ pc[t][th] = "none"
                                         /\ val[t][th] = TRANSPORT_INITIAL
                                         /\ cur[t][th] = "none"
      /\ \A t \in Media : /\ ready[t] = {} /\ comps[t] = {"rtp"}
                          /\ tstate[t] = TRANSPORT_INITIAL
      /\ inbound = {} /\ creds = {} /\ remote.media = {}
      /\ global = CONN_INITIAL /\ temp = CONN_INITIAL /\ user = "idle"
  BY DEF Init, NoSdp
<1>2. \A t \in Media, th \in Threads : ~flight[t][th]
  BY DEF Init
<1>3. "nice" \in Threads /\ "data" \in Threads /\ "video" \in Media /\ "audio" \in Media
  BY DEF Threads, Media
<1>4. \A t \in Media : ~Created(t) /\ ~AllReady(t)
  BY <1>1, <1>3 DEF Created, AllReady
<1>5. IceFirst
  BY <1>1, <1>2, <1>3 DEF IceFirst, Asleep
<1>6. ~server["video"]
  BY <1>3 DEF Init
<1>7. SdpFirst
  BY <1>1, <1>3, <1>4, <1>6 DEF SdpFirst
<1>8. ReadyIsKeyed /\ GatheredIsEarly
  BY <1>1, <1>4 DEF ReadyIsKeyed, GatheredIsEarly
<1>9. ReadyDecided /\ DecidesForward /\ GatheredFed
  BY <1>1 DEF ReadyDecided, DecidesForward, GatheredFed
<1> QED BY <1>5, <1>7, <1>8, <1>9 DEF ReadyInv

\* No callback is under way at the start, and one that meets close() keeps to the rules:
\* nobody else makes ICE READY meanwhile.
LEMMA LateInit == Init => LateCallback
  BY DEF Init, LateCallback

LEMMA LateNext == TypeOK /\ ReadyInv /\ LateCallback /\ [Next]_vars => LateCallback'
<1> SUFFICES ASSUME TypeOK, ReadyInv, LateCallback, [Next]_vars PROVE LateCallback'
  OBVIOUS
<1> USE DEF sdpVars, connVars, setupVars, iceVars, dtlsVars
<1>1. ASSUME late' = late, creds \subseteq creds',
             \A u \in Media : u \in inbound' => u \in inbound \/ late[u] = NICE_INITIAL
      PROVE  LateCallback'
  BY <1>1 DEF LateCallback
<1>2. ASSUME NEW t \in Media, NEW s, UpdateIceState(t, s), late[t] = NICE_INITIAL
      PROVE  \A u \in Media : u \in inbound' => u \in inbound \/ late[u] = NICE_INITIAL
  BY <1>2 DEF UpdateIceState
<1>3. ASSUME NEW t \in Media, GatheringDone(t) PROVE LateCallback'
  BY <1>1, <1>2, <1>3 DEF GatheringDone, NiceLoop
<1>4. ASSUME NEW t \in Media, NEW c, NEW s, ComponentReported(t, c, s) PROVE LateCallback'
  <2>1. late' = late /\ creds' = creds /\ late[t] = NICE_INITIAL
    BY <1>4 DEF ComponentReported, NiceLoop
  <2>2. UpdateIceState(t, s) \/ inbound' = inbound
    BY <1>4 DEF ComponentReported
  <2> QED BY <1>1, <1>2, <2>1, <2>2
<1>5. ASSUME NEW t \in Media, LateIceState(t) PROVE LateCallback'
  <2>1. /\ creds' = creds
        /\ late'[t] = NICE_INITIAL
        /\ \A u \in Media : u # t => late'[u] = late[u] /\ (u \in inbound' <=> u \in inbound)
    BY <1>5 DEF LateIceState, TypeOK
  <2> QED BY <2>1 DEF LateCallback
<1>6. ASSUME NEW t \in Media, NEW s \in NICE_INITIAL..NICE_READY, CloseTransport(t, s)
      PROVE  LateCallback'
  <2>1. /\ creds' = creds /\ inbound' = inbound
        /\ late'[t] = s
        /\ \A u \in Media : u # t => late'[u] = late[u]
        /\ s # NICE_INITIAL => s > ice[t]
        /\ s = NICE_READY => t \in creds
    BY <1>6 DEF CloseTransport, TypeOK
  <2>2. s = NICE_CANDIDATES_RECEIVED => t \notin inbound
    BY <2>1, IceNumbered DEF ReadyInv, IceFirst
  <2>3. s \in {NICE_INITIAL, NICE_CANDIDATES_RECEIVED, NICE_READY}
    OBVIOUS
  <2> QED BY <2>1, <2>2, <2>3 DEF LateCallback
<1>7. ASSUME NEW t \in Media, TransportStep(t) PROVE LateCallback'
  <2>1. ASSUME NEW th \in Threads, ReportStep(t, th) PROVE LateCallback'
    BY <1>1, <2>1 DEF ReportStep, EvaluateIgnored, Evaluate, Commit
  <2>2. CASE \/ \E c \in Components : DtlsPacket(t, c) \/ Timeout(t, c)
             \/ StartStep(t) \/ DtlsStarted(t) \/ DataLoop(t) \/ MediaPacket(t) \/ ReadStep(t)
             \/ \E th \in {"nice", "data"} : ScheduleStep(t, th)
             \/ NiceExit(t) \/ DataWoken(t)
    BY <1>1, <2>2 DEF DtlsPacket, Timeout, StartStep, DtlsStart, DtlsStarted, DataLoop,
       MediaPacket, ReadStep, DtlsRead, ScheduleStep, ScheduleCancels, ScheduleResend,
       NiceExit, DataWoken
  <2> QED BY <1>3, <1>4, <1>5, <1>7, <2>1, <2>2
          DEF TransportStep, NewSelectedPair, ComponentFailed
<1>8. CASE UserStep
  <2>1. CASE CloseStep
    BY <1>1, <1>6, <2>1 DEF CloseStep, JoinSender, JoinNice, JoinData, Destroyed
  <2>2. CASE SetRemoteSdpStep
    BY <1>1, <2>2 DEF SetRemoteSdpStep, SetRemoteSdpVideo, SetRemoteSdpAudio,
       SetRemoteSdpTransport, SetRemoteSdpCandidates
  <2> QED BY <1>1, <1>8, <2>1, <2>2
          DEF UserStep, CreateOffer, SetRemoteSdp, AddRemoteCandidate, Destroy, ResenderDestroyed
<1>9. CASE SendTest \/ SendWakeup \/ Terminated \/ Hung \/ UNCHANGED vars
  BY <1>1, <1>9 DEF SendTest, SendWakeup, Terminated, Hung, vars
<1> QED BY <1>7, <1>8, <1>9 DEF Next

\* And every step preserves it.
LEMMA ReadyNext ==
  TypeOK /\ ReadsComponent /\ FailureInv /\ LateCallback /\ ReadyInv /\ [Next]_vars
  => ReadyInv'
<1> SUFFICES ASSUME TypeOK, ReadsComponent, FailureInv, LateCallback, ReadyInv, [Next]_vars
             PROVE  ReadyInv'
  OBVIOUS
<1>0. TypeOK'
  BY TypeNext
<1>1. CASE UserStep
  BY <1>0, <1>1, UserReady
<1>2. ASSUME NEW t \in Media, TransportStep(t) PROVE ReadyInv'
  <2>1. ASSUME NEW th \in Threads, ReportStep(t, th) PROVE ReadyInv'
    BY <2>1, EvaluateIgnoredReady, EvaluateReady, CommitReady DEF ReportStep
  <2>2. CASE \A th \in Threads : ~ReportStep(t, th)
    <3>1. IceFirst
      BY DEF ReadyInv
    <3>2. Moves(t) /\ Keys(t)
      BY <1>2, <2>2, <3>1, TransportMoves, TransportKeys
    <3> QED BY <1>0, <3>2, KeysInv
  <2> QED BY <2>1, <2>2
<1>3. CASE SendTest \/ SendWakeup \/ Terminated \/ Hung \/ UNCHANGED vars
  BY <1>3, QuietUserReady
     DEF SendTest, SendWakeup, Terminated, Hung, vars, sdpVars, connVars, setupVars, iceVars, dtlsVars
<1> QED BY <1>1, <1>2, <1>3 DEF Next

\* WebRtcConnection is READY only when all channels are: in every reachable state of
\* every instance, a READY connection has keys on all components of all its channels.
THEOREM ReadyIsReady == Spec => []ReadyMeansAllKeyed
<1>1. ReadyInv => ReadyMeansAllKeyed
  BY DEF ReadyInv, ReadyDecided, Keyed, ReadyMeansAllKeyed
<1> QED BY <1>1, ReadyInit, ReadyNext, LateInit, LateNext, FailureInit, FailureNext, InitTypes,
           TypeNext, ReadsComponentInit, ReadsComponentNext, PTL DEF Spec

\* globalState_ never goes back, whichever reports come late: only the destructor
\* overwrites it.
THEOREM StateAdvances == Spec => GlobalStateAdvances
<1>1. ASSUME TypeOK, ReadyInv, [Next]_vars
      PROVE  [global' >= global \/ user' = "destroyed"]_global
  <2> USE DEF sdpVars, connVars
  <2>1. ASSUME NEW t \in Media, NEW th \in Threads, Commit(t, th)
        PROVE  global' >= global \/ user' = "destroyed"
    <3>1. pc[t][th] = "commit" /\ global' = temp /\ user' = user
      BY <2>1 DEF Commit
    <3>2. temp >= global \/ user = "destroyed"
      BY <1>1, <3>1 DEF ReadyInv, DecidesForward
    <3> QED BY <3>1, <3>2
  <2>2. CASE Destroyed
    BY <2>2 DEF Destroyed
  <2>3. CASE UserStep
    <3>1. CASE CloseStep
      BY <2>2, <3>1 DEF CloseStep, JoinSender, CloseTransport, JoinNice, JoinData
    <3> QED BY <2>3, <3>1
            DEF UserStep, CreateOffer, SetRemoteSdp, SetRemoteSdpStep, SetRemoteSdpVideo,
                SetRemoteSdpAudio, SetRemoteSdpTransport, SetRemoteSdpCandidates,
                AddRemoteCandidate, Destroy, ResenderDestroyed
  <2>4. ASSUME NEW t \in Media, TransportStep(t)
        PROVE  [global' >= global \/ user' = "destroyed"]_global
    <3>1. ASSUME NEW th \in Threads, ReportStep(t, th)
          PROVE  [global' >= global \/ user' = "destroyed"]_global
      BY <2>1, <3>1 DEF ReportStep, EvaluateIgnored, Evaluate
    <3>2. CASE \A th \in Threads : ~ReportStep(t, th)
      BY <2>4, <3>2
         DEF TransportStep, GatheringDone, NewSelectedPair, ComponentFailed, ComponentReported,
             DtlsPacket, Timeout, StartStep, DtlsStart, DtlsStarted, DataLoop, MediaPacket,
             ReadStep, DtlsRead, ScheduleStep, ScheduleCancels, ScheduleResend, NiceExit,
             DataWoken, LateIceState
    <3> QED BY <3>1, <3>2
  <2>5. CASE SendTest \/ SendWakeup \/ Terminated \/ Hung \/ UNCHANGED vars
    BY <2>5 DEF SendTest, SendWakeup, Terminated, Hung, vars
  <2> QED BY <1>1, <2>3, <2>4, <2>5 DEF Next
<1> QED BY <1>1, ReadyInit, ReadyNext, LateInit, LateNext, FailureInit, FailureNext, InitTypes,
           TypeNext, ReadsComponentInit, ReadsComponentNext, PTL DEF Spec, GlobalStateAdvances

\* An answerer that has GATHERED has handed the candidates of the remote description to
\* its agent, whichever of updateState and setRemoteSdp came second.
THEOREM CandidatesArrive == Spec => []AnswererCandidatesReachIce
<1>1. ReadyInv => AnswererCandidatesReachIce
  BY DEF ReadyInv, GatheredFed, AnswererCandidatesReachIce, CandidatesReachIce
<1> QED BY <1>1, ReadyInit, ReadyNext, LateInit, LateNext, FailureInit, FailureNext, InitTypes,
           TypeNext, ReadsComponentInit, ReadsComponentNext, PTL DEF Spec
=============================================================================
