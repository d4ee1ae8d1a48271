------------------------------ MODULE SdpInfo ------------------------------
(***************************************************************************)
(* Session descriptions: SdpInfo (parser, payload type maps, answer and    *)
(* offer, writer) as WebRtcConnection uses it: remoteSdp_ is read from the *)
(* peer's text, localSdp_ is made from it or from the codecs this client   *)
(* knows, and getSdp writes localSdp_ for the peer.                        *)
(*                                                                         *)
(* A line of text is a record: its tag and what the parser reads from it.  *)
(* The peer writes its description line by line, within a section in any   *)
(* order; processSdp is one call, and taking its loop line by line only    *)
(* enumerates the texts.                                                   *)
(***************************************************************************)
EXTENDS Integers, Sequences, SequencesExt

CONSTANTS
  Offers,       \* what peers may write: the lines they begin with (`first`) and, for the
                \* session, the audio and the video section, the lines they may add
  LocalCands,   \* candidates ICE may find here: address and type
  Trickled,     \* candidate lines the peer sends later
  MaxLocal,     \* bound: candidates found here
  MaxRemote     \* bound: candidates of the peer

Media == {"audio", "video"}

ASSUME SdpAssumption ==
  /\ \A o \in Offers : DOMAIN o = {"first", "session"} \cup Media /\ o.first \in Seq(Range(o.first))
  /\ \A l \in Trickled : l.tag = "candidate"
  /\ MaxLocal \in Nat /\ MaxRemote \in Nat

\* The codecs this client knows, by name and clock rate.
internalPayloadVector_ ==
  <<[codec |-> "VP8",    pt |-> 100, media |-> "video"],
    [codec |-> "red",    pt |-> 116, media |-> "video"],
    [codec |-> "ulpfec", pt |-> 117, media |-> "video"],
    [codec |-> "PCMU",   pt |-> 0,   media |-> "audio"],
    [codec |-> "telephone-event", pt |-> 126, media |-> "audio"]>>

RED_90000_PT == 116

Dirs == {"sendrecv", "sendonly", "recvonly"}

VARIABLES
  offer,      \* the lines this peer may write
  text,       \* the lines it has written
  phase,      \* "text": the peer writes; "set": setRemoteSdp has returned
  st,         \* remoteSdp_ and the locals of processSdp
  local,      \* localSdp_
  transports, \* media with a transport
  bundle_,    \* WebRtcConnection's
  written     \* what getSdp wrote, while localSdp_ is as it was then

vars == <<offer, text, phase, st, local, transports, bundle_, written>>

remote == st.sdp

\* The constructor.  It leaves the directions uninitialized ("?").
NewSdpInfo ==
  [isBundle |-> FALSE, isRtcpMux |-> FALSE, fingerprint |-> "",
   has |-> [m \in Media |-> FALSE], mLine |-> [m \in Media |-> -1],
   direction |-> [m \in Media |-> "?"],
   username |-> [m \in Media |-> ""], password |-> [m \in Media |-> ""],
   ssrc |-> [m \in Media |-> 0], videoRtxSsrc |-> 0, videoBandwidth |-> 0,
   codecs |-> [m \in Media |-> 0], payloadVector |-> <<>>,
   inOutPTMap |-> <<>>, outInPTMap |-> <<>>,
   bundleTags |-> <<>>, extMapVector |-> <<>>, candidateVector |-> <<>>,
   cryptoVector |-> <<>>]

\* What processSdp starts with.  The feedback lines it collects are kept by payload type:
\* their order only matters within one.
Start(sdp, media) == [sdp |-> sdp, mtype |-> media, mlineNum |-> -1, feedback |-> <<>>]

-----------------------------------------------------------------------------
(***************************************************************************)
(* processSdp.                                                             *)
(***************************************************************************)
\* std::map::operator[] as the target of an assignment.
Put(map, k, v) == [x \in DOMAIN map \cup {k} |-> IF x = k THEN v ELSE map[x]]

\* The feedback lines of a payload type.
Given(feedback, pt) == IF pt \in DOMAIN feedback THEN feedback[pt] ELSE <<>>

\* Directions and credentials outside of any section count for the video.
Owner(mtype) == IF mtype = "audio" THEN "audio" ELSE "video"
\* Codecs count for the audio there.
Counted(mtype) == IF mtype = "video" THEN "video" ELSE "audio"

Candidate(l, mtype) ==
  [media |-> mtype, addr |-> l.addr, username |-> "", password |-> "", isBundle |-> FALSE,
   hostType |-> IF l.type \in {"srflx", "prflx", "relay"} THEN l.type ELSE "host"]

\* libnice does not support TCP candidates, they are ignored.
processCandidate(sdp, l, mtype) ==
  IF l.proto = "udp"
  THEN [sdp EXCEPT !.candidateVector = Append(@, Candidate(l, mtype))]
  ELSE sdp

\* The entries for a codec; the last one counts.
EntriesFor(codec) == {k \in DOMAIN internalPayloadVector_ : internalPayloadVector_[k].codec = codec}

\* Faulty: the map to the outside is not kept.
processRtpMap_OneWay(sdp, l, mtype) ==
  LET known == EntriesFor(l.codec)
  IN IF known = {}
     THEN sdp
     ELSE [sdp EXCEPT
             !.outInPTMap = Put(@, l.pt, internalPayloadVector_[Max(known)].pt),
             !.codecs[Counted(mtype)] = @ + 1,
             !.payloadVector = Append(@, [pt |-> l.pt, codec |-> l.codec, media |-> mtype,
                                          feedback |-> <<>>, format |-> <<>>])]

\* a=rtpmap: a codec this client does not know leaves no trace.
processRtpMap(sdp, l, mtype) ==
  LET known == EntriesFor(l.codec)
  IN IF known = {}
     THEN sdp
     ELSE [sdp EXCEPT
             !.outInPTMap = Put(@, l.pt, internalPayloadVector_[Max(known)].pt),
             !.inOutPTMap = Put(@, internalPayloadVector_[Max(known)].pt, l.pt),
             !.codecs[Counted(mtype)] = @ + 1,
             !.payloadVector = Append(@, [pt |-> l.pt, codec |-> l.codec, media |-> mtype,
                                          feedback |-> <<>>, format |-> <<>>])]

\* To every entry of payloadVector with this payload type.
ToPayload(sdp, pt, Op(_)) ==
  [sdp EXCEPT !.payloadVector = [i \in DOMAIN @ |-> IF @[i].pt = pt THEN Op(@[i]) ELSE @[i]]]

\* One turn of the loop.
processLine(s, l) ==
  LET sdp == s.sdp
      own == Owner(s.mtype)
      With(new) == [s EXCEPT !.sdp = new]
  IN CASE l.tag \in Media ->
            [s EXCEPT !.mlineNum = @ + 1, !.mtype = l.tag,
                      !.sdp = [sdp EXCEPT !.mLine[l.tag] = s.mlineNum + 1,
                                          !.has[l.tag] = TRUE]]
       [] l.tag = "rtcp-mux"    -> With([sdp EXCEPT !.isRtcpMux = TRUE])
       [] l.tag \in Dirs        -> With([sdp EXCEPT !.direction[own] = l.tag])
       [] l.tag = "fingerprint" -> With([sdp EXCEPT !.fingerprint = l.value])
       [] l.tag = "group" ->
            With([sdp EXCEPT !.isBundle = (@ \/ l.kind = "BUNDLE"),
                             !.bundleTags = @ \o [i \in DOMAIN l.ids |->
                                                    [id |-> l.ids[i], media |-> "other"]]])
       [] l.tag = "candidate"   -> With(processCandidate(sdp, l, s.mtype))
       [] l.tag = "crypto"      ->
            With([sdp EXCEPT !.cryptoVector = Append(@, [key |-> l.value, media |-> s.mtype])])
       [] l.tag = "ice-ufrag"   -> With([sdp EXCEPT !.username[own] = l.value])
       [] l.tag = "ice-pwd"     -> With([sdp EXCEPT !.password[own] = l.value])
       [] l.tag = "mid" ->
            With(IF sdp.isBundle
                 THEN [sdp EXCEPT !.bundleTags =
                         [i \in DOMAIN @ |-> IF @[i].id = l.value
                                             THEN [@[i] EXCEPT !.media = s.mtype] ELSE @[i]]]
                 ELSE sdp)
       [] l.tag = "ssrc" ->
            With(IF s.mtype \in Media /\ sdp.ssrc[own] = 0
                 THEN [sdp EXCEPT !.ssrc[own] = l.value] ELSE sdp)
       [] l.tag = "ssrc-group" ->
            With(IF s.mtype = "video" THEN [sdp EXCEPT !.videoRtxSsrc = l.value] ELSE sdp)
       [] l.tag = "rtpmap"      -> With(processRtpMap(sdp, l, s.mtype))
       [] l.tag = "extmap"      ->
            With([sdp EXCEPT !.extMapVector = Append(@, [uri |-> l.value, media |-> s.mtype])])
       [] l.tag = "rtcp-fb"     ->
            [s EXCEPT !.feedback = Put(@, l.pt, Append(Given(@, l.pt), l.value))]
       [] l.tag = "fmtp"        ->
            With(ToPayload(sdp, l.pt, LAMBDA r : [r EXCEPT !.format = Put(@, l.option, l.value)]))
       [] l.tag = "bandwidth"   ->
            With(IF s.mtype = "video" THEN [sdp EXCEPT !.videoBandwidth = l.value] ELSE sdp)
       [] OTHER -> s

\* After the loop.  Credentials of one medium serve both, ...
Credentials(sdp) ==
  LET Copied(from) == [sdp EXCEPT !.username = [m \in Media |-> @[from]],
                                  !.password = [m \in Media |-> @[from]]]
  IN CASE sdp.username["video"] = "" -> Copied("audio")
       [] sdp.username["audio"] = "" -> Copied("video")
       [] OTHER -> sdp

\* ... each candidate gets those of its medium, ...
CandidateCredentials(sdp) ==
  [sdp EXCEPT !.candidateVector = [i \in DOMAIN @ |->
     LET m == Counted(@[i].media)
     IN [@[i] EXCEPT !.isBundle = sdp.isBundle,
                     !.username = sdp.username[m], !.password = sdp.password[m]]]]

Told(r, lines) == [r EXCEPT !.feedback = @ \o lines]

\* Faulty: the loop begins with the second line.
Feedback_FromSecond(sdp, feedback) ==
  [sdp EXCEPT !.payloadVector =
     [i \in DOMAIN @ |-> LET lines == Given(feedback, @[i].pt)
                         IN Told(@[i], SubSeq(lines, 2, Len(lines)))]]

\* ... and the feedback lines, kept until all codecs are known, are given out.
Feedback(sdp, feedback) ==
  [sdp EXCEPT !.payloadVector = [i \in DOMAIN @ |-> Told(@[i], Given(feedback, @[i].pt))]]

\* Without any credentials processSdp returns false before all that.
HasCredentials(sdp) == \E m \in Media : sdp.username[m] # ""

\* Faulty: the candidates get their credentials before the empty ones are filled.
finishSdp_TooEarly(s) ==
  IF HasCredentials(s.sdp)
  THEN Feedback(Credentials(CandidateCredentials(s.sdp)), s.feedback)
  ELSE s.sdp

finishSdp(s) ==
  IF HasCredentials(s.sdp)
  THEN Feedback(CandidateCredentials(Credentials(s.sdp)), s.feedback)
  ELSE s.sdp

processSdp(sdp, lines, media) == finishSdp(FoldLeft(processLine, Start(sdp, media), lines))

-----------------------------------------------------------------------------
(***************************************************************************)
(* Payload types.                                                          *)
(***************************************************************************)
getInternalPT(sdp, pt) == IF pt \in DOMAIN sdp.outInPTMap THEN sdp.outInPTMap[pt] ELSE pt
getExternalPT(sdp, pt) == IF pt \in DOMAIN sdp.inOutPTMap THEN sdp.inOutPTMap[pt] ELSE pt

\* supportPayloadType looks the payload types of the peer up among those of this
\* client, with operator[], which adds 0 for a missing one, until one is found.
LookedUp(sdp, pt) ==
  {i \in DOMAIN sdp.payloadVector :
     /\ pt \in DOMAIN sdp.inOutPTMap
     /\ \A j \in 1 .. i - 1 : LET e == sdp.payloadVector[j].pt
                              IN e \in DOMAIN sdp.inOutPTMap => sdp.inOutPTMap[e] # pt}
supportPayloadType(sdp, pt) ==
  [sdp EXCEPT !.inOutPTMap =
     [x \in DOMAIN @ \cup {sdp.payloadVector[i].pt : i \in LookedUp(sdp, pt)} |->
        IF x \in DOMAIN @ THEN @[x] ELSE 0]]

-----------------------------------------------------------------------------
(***************************************************************************)
(* Offer and answer.                                                       *)
(***************************************************************************)
Default(m) == IF m = "audio" THEN 44444 ELSE 55543

createOfferSdp(sdp) ==
  [sdp EXCEPT
     !.payloadVector = [i \in DOMAIN internalPayloadVector_ |->
                          LET r == internalPayloadVector_[i]
                          IN [pt |-> r.pt, codec |-> r.codec, media |-> r.media,
                              feedback |-> <<>>, format |-> <<>>]],
     !.isBundle = TRUE, !.isRtcpMux = TRUE,
     !.mLine = [m \in Media |-> 0],
     !.codecs = [m \in Media |->
                   @[m] + Cardinality({i \in DOMAIN internalPayloadVector_ :
                                         internalPayloadVector_[i].media = m})],
     !.has = [m \in Media |-> TRUE],
     !.direction = [m \in Media |-> "sendrecv"]]

\* A direction that was never set reads as anything.
Mirrored(d) == CASE d = "sendonly" -> {"recvonly"}
                 [] d = "recvonly" -> {"sendonly"}
                 [] d = "sendrecv" -> {"sendrecv"}
                 [] d = "?"        -> Dirs

\* Faulty: the number of codecs is not taken over.
setOfferSdp_KeepsCodecs(sdp, from, dir) ==
  [sdp EXCEPT
     !.payloadVector = from.payloadVector,
     !.isBundle = from.isBundle, !.isRtcpMux = from.isRtcpMux, !.mLine = from.mLine,
     !.inOutPTMap = from.inOutPTMap, !.outInPTMap = from.outInPTMap, !.has = from.has,
     !.bundleTags = from.bundleTags, !.extMapVector = from.extMapVector,
     !.direction = dir]

setOfferSdp(sdp, from, dir) ==
  [sdp EXCEPT
     !.codecs = from.codecs, !.payloadVector = from.payloadVector,
     !.isBundle = from.isBundle, !.isRtcpMux = from.isRtcpMux, !.mLine = from.mLine,
     !.inOutPTMap = from.inOutPTMap, !.outInPTMap = from.outInPTMap, !.has = from.has,
     !.bundleTags = from.bundleTags, !.extMapVector = from.extMapVector,
     !.direction = dir]

\* DtlsTransport::processLocalSdp for the transports there are.
processLocalSdp(sdp, ts, bundle) ==
  LET Known(m) == IF bundle THEN "video" \in ts ELSE m \in ts
      Name(m) == IF bundle \/ m = "video" THEN "ice-video" ELSE "ice-audio"
  IN [sdp EXCEPT !.fingerprint = IF ts = {} THEN @ ELSE "mine",
                 !.username = [m \in Media |-> IF Known(m) THEN Name(m) ELSE @[m]],
                 !.password = [m \in Media |-> IF Known(m) THEN Name(m) ELSE @[m]]]

-----------------------------------------------------------------------------
(***************************************************************************)
(* getSdp.                                                                 *)
(***************************************************************************)
Line(t) == [tag |-> t]
Valued(t, v) == [tag |-> t, value |-> v]
When(cond, lines) == IF cond THEN lines ELSE <<>>
Mapped(q, Test(_), Op(_)) == LET s == SelectSeq(q, Test) IN [i \in DOMAIN s |-> Op(s[i])]
Joined(seqs) == FoldLeft(LAMBDA a, b : a \o b, <<>>, seqs)

\* The list in the m= line, by the places in payloadVector: a blank follows each payload
\* type but the last one, as counted by `codecs`; two numbers without a blank in between
\* become one.
PayloadList(sdp, m) ==
  LET here == {i \in DOMAIN sdp.payloadVector : sdp.payloadVector[i].media = m}
      codecCounter(i) == Cardinality({j \in here : j <= i})
  IN [i \in here |-> [pt |-> sdp.payloadVector[i].pt, blank |-> codecCounter(i) < sdp.codecs[m]]]

stringifyCandidate(c) ==
  [tag |-> "candidate", proto |-> "udp", addr |-> c.addr, type |-> c.hostType]

\* A codec's lines; feedback is written for video only.
CodecLines(r) ==
  <<[tag |-> "rtpmap", pt |-> r.pt, codec |-> r.codec]>>
  \o When(r.media = "video",
          [i \in DOMAIN r.feedback |-> [tag |-> "rtcp-fb", pt |-> r.pt, value |-> r.feedback[i]]])
  \o LET options == SetToSeq(DOMAIN r.format)
     IN [i \in DOMAIN options |-> [tag |-> "fmtp", pt |-> r.pt, option |-> options[i],
                                   value |-> r.format[options[i]]]]

\* Faulty: only the audio transport's candidates, even if there is no such transport.
SectionCands_OwnOnly(sdp, m) == SelectSeq(sdp.candidateVector, LAMBDA c : c.media = m)

\* The candidates a section lists: with BUNDLE, the audio section lists all.
SectionCands(sdp, m) ==
  SelectSeq(sdp.candidateVector, LAMBDA c : c.media = m \/ (m = "audio" /\ sdp.isBundle))

SectionLines(sdp, m) ==
  LET Here(r) == r.media = m
      creds == IF sdp.username[m] = "" THEN "video" ELSE m
      cands == SectionCands(sdp, m)
  IN <<[tag |-> m, list |-> PayloadList(sdp, m)]>>
     \o [i \in DOMAIN cands |-> stringifyCandidate(cands[i])]
     \o <<Valued("ice-ufrag", sdp.username[creds]), Valued("ice-pwd", sdp.password[creds])>>
     \o When(sdp.fingerprint # "", <<Valued("fingerprint", sdp.fingerprint)>>)
     \o <<Line(sdp.direction[m])>>
     \o Mapped(sdp.extMapVector, Here, LAMBDA e : Valued("extmap", e.uri))
     \o Mapped(sdp.bundleTags, Here, LAMBDA t : Valued("mid", t.id))
     \o When(sdp.isRtcpMux, <<Line("rtcp-mux")>>)
     \o Mapped(sdp.cryptoVector, Here, LAMBDA c : Valued("crypto", c.key))
     \o Joined(Mapped(sdp.payloadVector, Here, CodecLines))
     \o <<Valued("ssrc", sdp.ssrc[m])>>

\* Audio comes first, whatever the offer's order was.
getSdp(sdp) ==
  When(sdp.isBundle, <<[tag |-> "group", kind |-> "BUNDLE",
                        ids |-> [i \in DOMAIN sdp.bundleTags |-> sdp.bundleTags[i].id]]>>)
  \o When(sdp.has["audio"], SectionLines(sdp, "audio"))
  \o When(sdp.has["video"], SectionLines(sdp, "video"))

\* An SSRC that is still 0 gets its default while it is written.
Ssrcs(sdp) == [sdp EXCEPT !.ssrc = [m \in Media |-> IF sdp.has[m] /\ @[m] = 0
                                                    THEN Default(m) ELSE @[m]]]

\* getLocalSdp.
getLocalSdp(sdp, ts, bundle) ==
  /\ local' = Ssrcs(processLocalSdp(sdp, ts, bundle))
  /\ written' = getSdp(local')

-----------------------------------------------------------------------------
(***************************************************************************)
(* WebRtcConnection's use of it, and the peer.                             *)
(***************************************************************************)
Init ==
  /\ offer \in Offers
  /\ text = <<>>
  /\ phase = "text"
  /\ st = Start(NewSdpInfo, "other")
  /\ local = NewSdpInfo
  /\ transports = {}
  /\ bundle_ = FALSE
  /\ written = <<>>

\* Before the peer's description arrives, this client may make an offer.
createOffer ==
  /\ phase = "text"
  /\ text = <<>>
  /\ transports = {}
  /\ bundle_' = TRUE
  /\ transports' = {"video"}
  /\ getLocalSdp([createOfferSdp(local) EXCEPT !.ssrc = [m \in Media |-> Default(m)]],
                 transports', TRUE)
  /\ UNCHANGED <<offer, text, phase, st>>

\* The section the line at i belongs to.
SectionOf(lines, i) ==
  LET starts == {j \in 1 .. i : lines[j].tag \in Media}
  IN IF starts = {} THEN "session" ELSE lines[Max(starts)].tag

\* A section has a user name and a password, in any order, or none (of the same value
\* here, to tell the sections apart).
Credential(l) == l.tag \in {"ice-ufrag", "ice-pwd"}
Paired ==
  \A i \in DOMAIN text : Credential(text[i]) =>
    /\ text[i].value # ""
    /\ \E j \in DOMAIN text : /\ Credential(text[j]) /\ text[j].tag # text[i].tag
                              /\ SectionOf(text, j) = SectionOf(text, i)
    /\ \A j \in DOMAIN text : Credential(text[j]) /\ SectionOf(text, j) = SectionOf(text, i)
                              => text[j].value = text[i].value

\* The peer writes another line: the next one it begins with, the begin of a section, or
\* an attribute of it.
ReadLine(l) ==
  /\ phase = "text"
  /\ IF Len(text) < Len(offer.first)
     THEN l = offer.first[Len(text) + 1]
     ELSE \/ l.tag \in Media /\ ~remote.has[l.tag] /\ Paired
          \/ /\ l \in offer[IF st.mtype = "other" THEN "session" ELSE st.mtype]
             /\ \A i \in DOMAIN text : text[i] = l
                  => SectionOf(text, i) # SectionOf(text, Len(text))
  /\ text' = Append(text, l)
  /\ st' = processLine(st, l)
  /\ UNCHANGED <<offer, phase, local, transports, bundle_, written>>

\* The end of the text and the rest of setRemoteSdp, which ignores the result of
\* initWithSdp.  Without a fingerprint no transport is created.
setRemoteSdp(dir) ==
  /\ phase = "text"
  /\ \E m \in Media : st.sdp.has[m]
  /\ Paired
  /\ \A m \in Media : dir[m] \in Mirrored(st.sdp.direction[m])
  /\ LET sdp == finishSdp(st)
         secured == sdp.fingerprint # ""
     IN /\ st' = [st EXCEPT !.sdp = sdp]
        /\ bundle_' = sdp.isBundle
        /\ transports' = transports
             \cup {m \in Media : secured /\ (\/ m = "video" /\ (sdp.has[m] \/ sdp.isBundle)
                                             \/ m = "audio" /\ sdp.has[m] /\ ~sdp.isBundle)}
        /\ getLocalSdp([setOfferSdp(local, sdp, dir) EXCEPT
                          !.ssrc = [m \in Media |-> Default(m)]], transports', sdp.isBundle)
  /\ phase' = "set"
  /\ UNCHANGED <<offer, text>>

\* A candidate the peer sends by itself; the section is named or numbered.
addRemoteCandidate(m, l) ==
  /\ phase = "set"
  /\ Len(remote.candidateVector) < MaxRemote
  /\ "video" \in transports
  /\ remote.has[m]
  /\ LET ours == [NewSdpInfo EXCEPT !.username = [x \in Media |-> remote.username[m]],
                                    !.password = [x \in Media |-> remote.password[m]]]
         temp == finishSdp(processLine(Start(ours, m), l))
     IN st' = [st EXCEPT !.sdp.candidateVector = @ \o temp.candidateVector]
  /\ UNCHANGED <<offer, text, phase, local, transports, bundle_, written>>

\* ICE has gathered a candidate.
onCandidate(m, c) ==
  /\ m \in transports
  /\ Len(local.candidateVector) < MaxLocal
  /\ local' = [local EXCEPT !.candidateVector = Append(@, Candidate(c, m))]
  /\ written' = <<>>
  /\ UNCHANGED <<offer, text, phase, st, transports, bundle_>>

\* The application asks for the description again, with the candidates there are.
GetLocalSdp ==
  /\ phase = "set"
  /\ getLocalSdp(local, transports, bundle_)
  /\ UNCHANGED <<offer, text, phase, st, transports, bundle_>>

\* deliverVideoData_ with a RED packet, outside of slide-show mode: what it does to the
\* maps (the packet itself is passed on, or turned into raw VP8).
deliverRed ==
  /\ phase = "set"
  /\ "video" \in transports
  /\ remote.has["video"]
  /\ st' = [st EXCEPT !.sdp = supportPayloadType(remote, RED_90000_PT)]
  /\ UNCHANGED <<offer, text, phase, local, transports, bundle_, written>>

Lines == {Line(m) : m \in Media}
         \cup UNION {Range(o.first) \cup o["session"] \cup o["audio"] \cup o["video"] : o \in Offers}

Next ==
  \/ createOffer
  \/ \E l \in Lines : ReadLine(l)
  \/ \E dir \in [Media -> Dirs] : setRemoteSdp(dir)
  \/ \E m \in Media, l \in Trickled : addRemoteCandidate(m, l)
  \/ \E m \in Media, c \in LocalCands : onCandidate(m, c)
  \/ GetLocalSdp
  \/ deliverRed

Spec == Init /\ [][Next]_vars

-----------------------------------------------------------------------------
(***************************************************************************)
(* Properties.                                                             *)
(***************************************************************************)
\* The vectors hold entries of their types, a payload type map has an entry for every
\* negotiated codec, and there is a transport for whatever is asked of one.
TypeOK ==
  /\ phase \in {"text", "set"}
  /\ st.mtype \in Media \cup {"other"}
  /\ transports \subseteq Media
  /\ \A sdp \in {remote, local} :
       /\ \A m \in Media : sdp.direction[m] \in Dirs \cup {"?"} /\ sdp.codecs[m] \in Nat
       /\ \A i \in DOMAIN sdp.payloadVector : sdp.payloadVector[i].media \in Media \cup {"other"}
       /\ \A i \in DOMAIN sdp.candidateVector : sdp.candidateVector[i].media \in Media \cup {"other"}
  /\ DOMAIN remote.outInPTMap = {remote.payloadVector[i].pt : i \in DOMAIN remote.payloadVector}

\* Each remote candidate, written in the description or sent later, has a user name and
\* the password that goes with it: those of its own section if it has any, and otherwise
\* some the peer did write.  In which order the lines came makes no difference.
CandidatesCredentialed ==
  phase = "set" /\ HasCredentials(remote)
  => \A k \in DOMAIN remote.candidateVector :
       LET c == remote.candidateVector[k]
           Users(sections) == {text[i].value : i \in {i \in DOMAIN text :
                                 text[i].tag = "ice-ufrag" /\ SectionOf(text, i) \in sections}}
       IN /\ c.password = c.username
          /\ c.username \in IF Users({c.media}) # {} THEN Users({c.media})
                            ELSE Users({"session"} \cup Media)

\* A codec has all the feedback messages the peer wrote for it, in their order, also
\* those before its rtpmap line: the n-th one is that of the n-th such line.
FeedbackLines(pt) == {i \in DOMAIN text : text[i].tag = "rtcp-fb" /\ text[i].pt = pt}
FeedbackComplete ==
  phase = "set" /\ HasCredentials(remote)
  => \A k \in DOMAIN remote.payloadVector :
       LET r == remote.payloadVector[k]
           at == FeedbackLines(r.pt)
       IN /\ Len(r.feedback) = Cardinality(at)
          /\ \A i \in at : r.feedback[Cardinality({j \in at : j <= i})] = text[i].value

\* No payload type and no codec occurs twice among the codecs both sides know.
Unambiguous(sdp) ==
  \A i, j \in DOMAIN sdp.payloadVector :
    i # j => /\ sdp.payloadVector[i].pt # sdp.payloadVector[j].pt
             /\ sdp.payloadVector[i].codec # sdp.payloadVector[j].codec

\* Packets change their payload type on the way in and back on the way out: an internal
\* number stands for the codec the peer gave the external one to, whatever numbers the
\* peer chose, and the lookups for RED packets between them do not disturb it.
PayloadTypesAgree ==
  Unambiguous(remote)
  => \A i \in DOMAIN remote.payloadVector : \A k \in DOMAIN internalPayloadVector_ :
       LET out == remote.payloadVector[i]
           int == internalPayloadVector_[k]
       IN out.codec = int.codec => /\ getInternalPT(remote, out.pt) = int.pt
                                   /\ getExternalPT(remote, int.pt) = out.pt

\* No two payload types in the m= line run into one number, after an offer, an answer and
\* whatever codecs the peer left.  (The types are a part of it.)
PayloadListReadable ==
  /\ TypeOK
  /\ written # <<>> => \A m \in Media : local.has[m] =>
       LET list == PayloadList(local, m)
       IN \A k, n \in DOMAIN list : k < n => list[k].blank

\* What the peer reads in the description this client sends is what this client keeps:
\* media, directions, codecs with format and (video) feedback, bundle, credentials,
\* SSRCs and the candidates of the transport that serves a section.  The tags are kept for
\* any kind of a=group line and read back with BUNDLE only, when they are all written.
CodecsOf(sdp, m) ==
  LET q == SelectSeq(sdp.payloadVector, LAMBDA r : r.media = m)
  IN IF m = "video" THEN q ELSE [i \in DOMAIN q |-> [q[i] EXCEPT !.feedback = <<>>]]
AnswerReadsBack ==
  written # <<>> /\ transports # {} /\ Unambiguous(local)
  => LET read == processSdp(NewSdpInfo, written, "other")
         Listed(cs, Test(_)) == {<<c.addr, c.hostType>> : c \in Range(SelectSeq(cs, Test))}
     IN /\ read.has = local.has
        /\ read.isBundle = local.isBundle
        /\ read.bundleTags = When(local.isBundle, local.bundleTags)
        /\ \A m \in Media : local.has[m] =>
             /\ read.direction[m] = local.direction[m]
             /\ read.username[m] = local.username[m] /\ read.password[m] = local.password[m]
             /\ read.ssrc[m] = local.ssrc[m]
             /\ CodecsOf(read, m) = CodecsOf(local, m)
             /\ Listed(read.candidateVector, LAMBDA c : c.media = m)
                = Listed(local.candidateVector, LAMBDA c : c.media = m \/ local.isBundle)

=============================================================================
