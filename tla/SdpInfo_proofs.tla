--------------------------- MODULE SdpInfo_proofs ---------------------------
(***************************************************************************)
(* Proofs about SdpInfo, for every set of offers, candidates and bounds:   *)
(* the payload type maps, the list of the m= line, the credentials of the  *)
(* candidates and the feedback of the codecs, whatever lines a peer writes *)
(* and in whatever order.                                                  *)
(*                                                                         *)
(* First what a line does to a description, by its kind; then what follows *)
(* the loop; then, for each property, the part of the invariant that it    *)
(* needs and how a line, and the end of the text, keep it; at last one     *)
(* lemma per action.                                                       *)
(***************************************************************************)
EXTENDS SdpInfo, SequenceTheorems, FiniteSetTheorems, WellFoundedInduction, TLAPS

-----------------------------------------------------------------------------
(***************************************************************************)
(* The shape of descriptions.                                              *)
(***************************************************************************)
\* mtype has a value outside of all sections.
MediaTypes == Media \cup {"other"}

\* A std::vector, of whatever.
IsVector(q) == \E S : q \in Seq(S)

SdpFields == {"isBundle", "isRtcpMux", "fingerprint", "has", "mLine", "direction", "username",
              "password", "ssrc", "videoRtxSsrc", "videoBandwidth", "codecs", "payloadVector",
              "inOutPTMap", "outInPTMap", "bundleTags", "extMapVector", "candidateVector",
              "cryptoVector"}
CodecFields == {"pt", "codec", "media", "feedback", "format"}
CandFields == {"media", "addr", "username", "password", "isBundle", "hostType"}

CodecsShaped(q) ==
  IsVector(q) /\ \A i \in DOMAIN q : DOMAIN q[i] = CodecFields /\ q[i].media \in MediaTypes
CandsShaped(q) ==
  IsVector(q) /\ \A i \in DOMAIN q : DOMAIN q[i] = CandFields /\ q[i].media \in MediaTypes

\* What the proofs need to know of the types of a description.
Shaped(sdp) ==
  /\ DOMAIN sdp = SdpFields
  /\ sdp.direction \in [Media -> Dirs \cup {"?"}]
  /\ DOMAIN sdp.username = Media /\ DOMAIN sdp.password = Media
  /\ sdp.codecs \in [Media -> Nat]
  /\ CodecsShaped(sdp.payloadVector)
  /\ CandsShaped(sdp.candidateVector)

\* processSdp with its locals.
Reading(s) ==
  /\ DOMAIN s = {"sdp", "mtype", "mlineNum", "feedback"}
  /\ Shaped(s.sdp)
  /\ s.mtype \in MediaTypes

\* The same codecs under the same numbers, in the same order.
SameCodecs(q, r) ==
  /\ DOMAIN q = DOMAIN r
  /\ \A i \in DOMAIN q : q[i].pt = r[i].pt /\ q[i].codec = r[i].codec /\ q[i].media = r[i].media

SameMaps(d, e) == d.inOutPTMap = e.inOutPTMap /\ d.outInPTMap = e.outInPTMap /\ d.codecs = e.codecs
SameNames(d, e) == d.username = e.username /\ d.password = e.password

-----------------------------------------------------------------------------
\* Append makes a sequence one longer.
LEMMA Appended ==
  ASSUME NEW q, IsVector(q), NEW x
  PROVE  /\ IsVector(Append(q, x))
         /\ Len(q) \in Nat /\ DOMAIN q = 1 .. Len(q)
         /\ DOMAIN Append(q, x) = 1 .. Len(q) + 1
         /\ Append(q, x)[Len(q) + 1] = x
         /\ \A i \in DOMAIN q : i \in DOMAIN Append(q, x) /\ Append(q, x)[i] = q[i]
  <1>1. PICK S : q \in Seq(S)
    BY DEF IsVector
  <1>2. q \in Seq(S \cup {x}) /\ x \in S \cup {x}
    BY <1>1
  <1>3. Append(q, x) \in Seq(S \cup {x})
    BY <1>2
  <1>4. IsVector(Append(q, x))
    BY <1>3 DEF IsVector
  <1>5. /\ Len(q) \in Nat /\ DOMAIN q = 1 .. Len(q)
        /\ Len(Append(q, x)) = Len(q) + 1
        /\ DOMAIN Append(q, x) = 1 .. Len(Append(q, x))
        /\ Append(q, x)[Len(q) + 1] = x
        /\ \A i \in 1 .. Len(q) : Append(q, x)[i] = q[i]
    BY <1>2
  <1> QED
    BY <1>4, <1>5

\* A function over the places of a vector is one.
LEMMA Rewritten ==
  ASSUME NEW q, IsVector(q), NEW r, r = [i \in DOMAIN q |-> r[i]]
  PROVE  IsVector(r)
  <1>1. PICK S : q \in Seq(S)
    BY DEF IsVector
  <1>2. Len(q) \in Nat /\ DOMAIN q = 1 .. Len(q)
    BY <1>1
  <1> DEFINE T == {r[i] : i \in DOMAIN q}
  <1>3. r \in [1 .. Len(q) -> T]
    BY <1>2
  <1>4. r \in Seq(T)
    BY <1>2, <1>3
  <1> QED
    BY <1>4 DEF IsVector

\* A m= line.
LEMMA SectionLine ==
  ASSUME NEW s, Reading(s), NEW l, l.tag \in Media
  PROVE  LET r == processLine(s, l)
         IN /\ Reading(r) /\ r.mtype = l.tag
            /\ SameMaps(r.sdp, s.sdp) /\ SameNames(r.sdp, s.sdp)
            /\ r.sdp.payloadVector = s.sdp.payloadVector
  <1> DEFINE d == [s.sdp EXCEPT !.mLine[l.tag] = s.mlineNum + 1, !.has[l.tag] = TRUE]
             r == [s EXCEPT !.mlineNum = @ + 1, !.mtype = l.tag, !.sdp = d]
  <1>1. processLine(s, l) = r
    BY DEF processLine, Media, Dirs
  <1>2. r.sdp = d /\ r.mtype = l.tag /\ DOMAIN r = DOMAIN s
    BY DEF Reading
  <1>3. /\ DOMAIN d = SdpFields
        /\ \A f \in SdpFields \ {"mLine", "has"} : d[f] = s.sdp[f]
    BY DEF Reading, Shaped, SdpFields
  <1>4. Shaped(d) /\ SameMaps(d, s.sdp) /\ SameNames(d, s.sdp)
        /\ d.payloadVector = s.sdp.payloadVector
    BY <1>3 DEF Reading, Shaped, SdpFields, SameMaps, SameNames
  <1> QED
    BY <1>1, <1>2, <1>4 DEF Reading, MediaTypes

\* A line about something else: it changes one field of its own, or adds a candidate.
OwnFields == {"isRtcpMux", "direction", "fingerprint", "isBundle", "bundleTags", "cryptoVector",
              "ssrc", "videoRtxSsrc", "extMapVector", "videoBandwidth", "candidateVector"}

\* Changing such fields keeps codecs, maps and credentials.
LEMMA PlainSdp ==
  ASSUME NEW s, Reading(s), NEW d, DOMAIN d = SdpFields,
         \A f \in SdpFields \ OwnFields : d[f] = s.sdp[f],
         d.direction \in [Media -> Dirs \cup {"?"}],
         CandsShaped(d.candidateVector)
  PROVE  LET r == [s EXCEPT !.sdp = d]
         IN /\ Reading(r) /\ r.mtype = s.mtype
            /\ SameMaps(r.sdp, s.sdp) /\ SameNames(r.sdp, s.sdp)
            /\ r.sdp.payloadVector = s.sdp.payloadVector
  <1>1. Shaped(d) /\ SameMaps(d, s.sdp) /\ SameNames(d, s.sdp)
        /\ d.payloadVector = s.sdp.payloadVector
    BY DEF Reading, Shaped, SdpFields, OwnFields, SameMaps, SameNames
  <1> DEFINE r == [s EXCEPT !.sdp = d]
  <1>2. r.sdp = d /\ r.mtype = s.mtype /\ DOMAIN r = DOMAIN s
    BY DEF Reading
  <1> QED
    BY <1>1, <1>2 DEF Reading

\* processLine of such a line.
LEMMA PlainLine ==
  ASSUME NEW s, Reading(s), NEW l,
         l.tag \notin Media \cup {"rtpmap", "fmtp", "ice-ufrag", "ice-pwd"}
  PROVE  LET r == processLine(s, l)
         IN /\ Reading(r) /\ r.mtype = s.mtype
            /\ SameMaps(r.sdp, s.sdp) /\ SameNames(r.sdp, s.sdp)
            /\ r.sdp.payloadVector = s.sdp.payloadVector
  <1> DEFINE sdp == s.sdp
             own == Owner(s.mtype)
             Good(d) == /\ DOMAIN d = SdpFields
                        /\ \A f \in SdpFields \ OwnFields : d[f] = s.sdp[f]
                        /\ d.direction \in [Media -> Dirs \cup {"?"}]
                        /\ CandsShaped(d.candidateVector)
  <1>0. /\ Shaped(sdp) /\ DOMAIN sdp = SdpFields
        /\ sdp.direction \in [Media -> Dirs \cup {"?"}]
        /\ CandsShaped(sdp.candidateVector)
        /\ own \in Media
    BY DEF Reading, Shaped, Owner, Media
  <1>1. CASE l.tag \in Dirs
    <2> DEFINE d == [sdp EXCEPT !.direction[own] = l.tag]
    <2>1. processLine(s, l) = [s EXCEPT !.sdp = d]
      BY <1>1 DEF processLine, Media, Dirs
    <2>2. Good(d)
      BY <1>0, <1>1 DEF SdpFields, OwnFields
    <2> HIDE DEF d
    <2> QED
      BY <2>1, <2>2, PlainSdp
  <1>2. CASE l.tag = "candidate"
    <2> DEFINE d == processCandidate(sdp, l, s.mtype)
    <2>1. processLine(s, l) = [s EXCEPT !.sdp = d]
      BY <1>2 DEF processLine, Media, Dirs
    <2>2. CASE l.proto = "udp"
      <3> DEFINE q == sdp.candidateVector
                 c == Candidate(l, s.mtype)
      <3>1. d = [sdp EXCEPT !.candidateVector = Append(q, c)]
        BY <2>2 DEF processCandidate
      <3>2. DOMAIN c = CandFields /\ c.media \in MediaTypes
        BY DEF Candidate, CandFields, Reading
      <3>3. CandsShaped(Append(q, c))
        BY <1>0, <3>2, Appended DEF CandsShaped
      <3>4. /\ DOMAIN d = SdpFields /\ d.candidateVector = Append(q, c)
            /\ \A f \in SdpFields \ {"candidateVector"} : d[f] = sdp[f]
        BY <1>0, <3>1 DEF SdpFields
      <3>5. Good(d)
        BY <1>0, <3>3, <3>4 DEF SdpFields, OwnFields
      <3> QED
        BY <2>1, <3>5, PlainSdp
    <2>3. CASE l.proto # "udp"
      <3>1. Good(d)
        BY <1>0, <2>3 DEF processCandidate
      <3> QED
        BY <2>1, <3>1, PlainSdp
    <2> QED
      BY <2>2, <2>3
  <1>3. CASE l.tag = "rtcp-fb"
    <2>1. processLine(s, l)
          = [s EXCEPT !.feedback = Put(@, l.pt, Append(Given(@, l.pt), l.value))]
      BY <1>3 DEF processLine, Media, Dirs
    <2> QED
      BY <2>1 DEF Reading, SameMaps, SameNames
  <1>4. CASE l.tag \notin Dirs \cup {"candidate", "rtcp-fb"}
    <2>1. CASE l.tag = "rtcp-mux"
      <3> DEFINE d == [sdp EXCEPT !.isRtcpMux = TRUE]
      <3>1. processLine(s, l) = [s EXCEPT !.sdp = d]
        BY <2>1 DEF processLine, Media, Dirs
      <3>2. Good(d)
        BY <1>0 DEF SdpFields, OwnFields
      <3> HIDE DEF d
      <3> QED
        BY <3>1, <3>2, PlainSdp
    <2>2. CASE l.tag = "fingerprint"
      <3> DEFINE d == [sdp EXCEPT !.fingerprint = l.value]
      <3>1. processLine(s, l) = [s EXCEPT !.sdp = d]
        BY <2>2 DEF processLine, Media, Dirs
      <3>2. Good(d)
        BY <1>0 DEF SdpFields, OwnFields
      <3> HIDE DEF d
      <3> QED
        BY <3>1, <3>2, PlainSdp
    <2>3. CASE l.tag = "group"
      <3> DEFINE d == [sdp EXCEPT !.isBundle = (@ \/ l.kind = "BUNDLE"),
                                !.bundleTags = @ \o [i \in DOMAIN l.ids |->
                                                      [id |-> l.ids[i], media |-> "other"]]]
      <3>1. processLine(s, l) = [s EXCEPT !.sdp = d]
        BY <2>3 DEF processLine, Media, Dirs
      <3>2. Good(d)
        BY <1>0 DEF SdpFields, OwnFields
      <3> HIDE DEF d
      <3> QED
        BY <3>1, <3>2, PlainSdp
    <2>4. CASE l.tag = "crypto"
      <3> DEFINE d == [sdp EXCEPT !.cryptoVector =
                                Append(@, [key |-> l.value, media |-> s.mtype])]
      <3>1. processLine(s, l) = [s EXCEPT !.sdp = d]
        BY <2>4 DEF processLine, Media, Dirs
      <3>2. Good(d)
        BY <1>0 DEF SdpFields, OwnFields
      <3> HIDE DEF d
      <3> QED
        BY <3>1, <3>2, PlainSdp
    <2>5. CASE l.tag = "mid"
      <3> DEFINE d == IF sdp.isBundle
                      THEN [sdp EXCEPT !.bundleTags =
                              [i \in DOMAIN @ |-> IF @[i].id = l.value
                                                  THEN [@[i] EXCEPT !.media = s.mtype] ELSE @[i]]]
                      ELSE sdp
      <3>1. processLine(s, l) = [s EXCEPT !.sdp = d]
        BY <2>5 DEF processLine, Media, Dirs
      <3>2. Good(d)
        BY <1>0 DEF SdpFields, OwnFields
      <3> HIDE DEF d
      <3> QED
        BY <3>1, <3>2, PlainSdp
    <2>6. CASE l.tag = "ssrc"
      <3> DEFINE d == IF s.mtype \in Media /\ sdp.ssrc[own] = 0
                      THEN [sdp EXCEPT !.ssrc[own] = l.value] ELSE sdp
      <3>1. processLine(s, l) = [s EXCEPT !.sdp = d]
        BY <2>6 DEF processLine, Media, Dirs
      <3>2. Good(d)
        BY <1>0 DEF SdpFields, OwnFields
      <3> HIDE DEF d
      <3> QED
        BY <3>1, <3>2, PlainSdp
    <2>7. CASE l.tag = "ssrc-group"
      <3> DEFINE d == IF s.mtype = "video"
                      THEN [sdp EXCEPT !.videoRtxSsrc = l.value] ELSE sdp
      <3>1. processLine(s, l) = [s EXCEPT !.sdp = d]
        BY <2>7 DEF processLine, Media, Dirs
      <3>2. Good(d)
        BY <1>0 DEF SdpFields, OwnFields
      <3> HIDE DEF d
      <3> QED
        BY <3>1, <3>2, PlainSdp
    <2>8. CASE l.tag = "extmap"
      <3> DEFINE d == [sdp EXCEPT !.extMapVector =
                                Append(@, [uri |-> l.value, media |-> s.mtype])]
      <3>1. processLine(s, l) = [s EXCEPT !.sdp = d]
        BY <2>8 DEF processLine, Media, Dirs
      <3>2. Good(d)
        BY <1>0 DEF SdpFields, OwnFields
      <3> HIDE DEF d
      <3> QED
        BY <3>1, <3>2, PlainSdp
    <2>9. CASE l.tag = "bandwidth"
      <3> DEFINE d == IF s.mtype = "video"
                      THEN [sdp EXCEPT !.videoBandwidth = l.value] ELSE sdp
      <3>1. processLine(s, l) = [s EXCEPT !.sdp = d]
        BY <2>9 DEF processLine, Media, Dirs
      <3>2. Good(d)
        BY <1>0 DEF SdpFields, OwnFields
      <3> HIDE DEF d
      <3> QED
        BY <3>1, <3>2, PlainSdp
    <2>10. CASE l.tag \notin {"rtcp-mux", "fingerprint", "group", "crypto", "mid", "ssrc",
                              "ssrc-group", "extmap", "bandwidth"}
      <3>1. processLine(s, l) = s
        BY <1>4, <2>10 DEF processLine, Media, Dirs
      <3> QED
        BY <3>1 DEF SameMaps, SameNames
    <2> QED
      BY <2>1, <2>2, <2>3, <2>4, <2>5, <2>6, <2>7, <2>8, <2>9, <2>10
  <1> QED
    BY <1>1, <1>2, <1>3, <1>4

\* A user name or a password.
Renamed(d, sdp, own, l) ==
  /\ d.username = IF l.tag = "ice-ufrag"
                  THEN [sdp.username EXCEPT ![own] = l.value] ELSE sdp.username
  /\ d.password = IF l.tag = "ice-pwd"
                  THEN [sdp.password EXCEPT ![own] = l.value] ELSE sdp.password

\* processLine of such a line: it goes to the medium that owns the section.
LEMMA NameLine ==
  ASSUME NEW s, Reading(s), NEW l, l.tag \in {"ice-ufrag", "ice-pwd"}
  PROVE  LET r == processLine(s, l)
             own == Owner(s.mtype)
         IN /\ Reading(r) /\ r.mtype = s.mtype
            /\ SameMaps(r.sdp, s.sdp)
            /\ r.sdp.payloadVector = s.sdp.payloadVector
            /\ Renamed(r.sdp, s.sdp, own, l)
  <1> DEFINE sdp == s.sdp
             own == Owner(s.mtype)
             d == IF l.tag = "ice-ufrag" THEN [sdp EXCEPT !.username[own] = l.value]
                  ELSE [sdp EXCEPT !.password[own] = l.value]
  <1>1. processLine(s, l) = [s EXCEPT !.sdp = d]
    BY DEF processLine, Media, Dirs
  <1>2. /\ DOMAIN d = SdpFields
        /\ \A f \in SdpFields \ {"username", "password"} : d[f] = sdp[f]
        /\ Renamed(d, sdp, own, l)
    BY DEF Reading, Shaped, SdpFields, Renamed
  <1> HIDE DEF d
  <1>3. Shaped(d) /\ SameMaps(d, sdp) /\ d.payloadVector = sdp.payloadVector
    BY <1>2 DEF Reading, Shaped, SdpFields, SameMaps, Renamed
  <1> DEFINE r == [s EXCEPT !.sdp = d]
  <1>4. r.sdp = d /\ r.mtype = s.mtype /\ DOMAIN r = DOMAIN s
    BY DEF Reading
  <1> HIDE DEF r
  <1> QED
    BY <1>1, <1>2, <1>3, <1>4 DEF Reading, r

\* A format line leaves the codecs in their places.
LEMMA FormatLine ==
  ASSUME NEW s, Reading(s), NEW l, l.tag = "fmtp"
  PROVE  LET r == processLine(s, l)
         IN /\ Reading(r) /\ r.mtype = s.mtype
            /\ SameMaps(r.sdp, s.sdp) /\ SameNames(r.sdp, s.sdp)
            /\ SameCodecs(r.sdp.payloadVector, s.sdp.payloadVector)
            /\ \A i \in DOMAIN s.sdp.payloadVector :
                 r.sdp.payloadVector[i].feedback = s.sdp.payloadVector[i].feedback
  <1> DEFINE sdp == s.sdp
             q == sdp.payloadVector
             p == [i \in DOMAIN q |->
                     IF q[i].pt = l.pt THEN [q[i] EXCEPT !.format = Put(@, l.option, l.value)]
                     ELSE q[i]]
             d == [sdp EXCEPT !.payloadVector = p]
  <1>1. processLine(s, l) = [s EXCEPT !.sdp = d]
    BY DEF processLine, Media, Dirs, ToPayload
  <1>2. /\ DOMAIN d = SdpFields /\ d.payloadVector = p
        /\ \A f \in SdpFields \ {"payloadVector"} : d[f] = sdp[f]
    BY DEF Reading, Shaped, SdpFields
  <1>3. CodecsShaped(q)
    BY DEF Reading, Shaped
  <1>4. IsVector(p)
    BY <1>3, Rewritten DEF CodecsShaped
  <1>5. /\ CodecsShaped(p) /\ SameCodecs(p, q)
        /\ \A i \in DOMAIN q : p[i].feedback = q[i].feedback
    BY <1>3, <1>4 DEF CodecsShaped, SameCodecs, CodecFields
  <1> HIDE DEF d, p
  <1>6. Shaped(d) /\ SameMaps(d, sdp) /\ SameNames(d, sdp) /\ SameCodecs(d.payloadVector, q)
    BY <1>2, <1>5 DEF Reading, Shaped, SdpFields, SameMaps, SameNames
  <1> DEFINE r == [s EXCEPT !.sdp = d]
  <1>7. r.sdp = d /\ r.mtype = s.mtype /\ DOMAIN r = DOMAIN s
    BY DEF Reading
  <1> HIDE DEF r
  <1> QED
    BY <1>1, <1>2, <1>5, <1>6, <1>7 DEF Reading, r

\* A codec this client knows gets the place after the last one.
LEMMA CodecLine ==
  ASSUME NEW s, Reading(s), NEW l, l.tag = "rtpmap"
  PROVE  LET r == processLine(s, l)
             d == r.sdp
             sdp == s.sdp
             int == internalPayloadVector_[Max(EntriesFor(l.codec))].pt
             new == [pt |-> l.pt, codec |-> l.codec, media |-> s.mtype,
                     feedback |-> <<>>, format |-> <<>>]
         IN /\ Reading(r) /\ r.mtype = s.mtype /\ SameNames(d, sdp)
            /\ IF EntriesFor(l.codec) = {}
               THEN SameMaps(d, sdp) /\ d.payloadVector = sdp.payloadVector
               ELSE /\ d.outInPTMap = Put(sdp.outInPTMap, l.pt, int)
                    /\ d.inOutPTMap = Put(sdp.inOutPTMap, int, l.pt)
                    /\ d.codecs = [sdp.codecs EXCEPT ![Counted(s.mtype)] = @ + 1]
                    /\ d.payloadVector = Append(sdp.payloadVector, new)
  <1> DEFINE sdp == s.sdp
             d == processRtpMap(sdp, l, s.mtype)
             r == [s EXCEPT !.sdp = d]
             int == internalPayloadVector_[Max(EntriesFor(l.codec))].pt
             new == [pt |-> l.pt, codec |-> l.codec, media |-> s.mtype,
                     feedback |-> <<>>, format |-> <<>>]
  <1>1. processLine(s, l) = r
    BY DEF processLine, Media, Dirs
  <1>2. r.sdp = d /\ r.mtype = s.mtype /\ DOMAIN r = DOMAIN s
    BY DEF Reading
  <1>3. CASE EntriesFor(l.codec) = {}
    <2>1. d = sdp
      BY <1>3 DEF processRtpMap
    <2> QED
      BY <1>1, <1>2, <1>3, <2>1 DEF Reading, SameMaps, SameNames
  <1>4. CASE EntriesFor(l.codec) # {}
    <2>1. /\ DOMAIN d = SdpFields
          /\ \A f \in SdpFields \ {"outInPTMap", "inOutPTMap", "codecs", "payloadVector"} :
               d[f] = sdp[f]
          /\ d.outInPTMap = Put(sdp.outInPTMap, l.pt, int)
          /\ d.inOutPTMap = Put(sdp.inOutPTMap, int, l.pt)
          /\ d.codecs = [sdp.codecs EXCEPT ![Counted(s.mtype)] = @ + 1]
          /\ d.payloadVector = Append(sdp.payloadVector, new)
      BY <1>4 DEF processRtpMap, Reading, Shaped, SdpFields
    <2> HIDE DEF d
    <2>2. DOMAIN new = CodecFields /\ new.media \in MediaTypes
      BY DEF CodecFields, Reading
    <2>3. CodecsShaped(sdp.payloadVector)
      BY DEF Reading, Shaped
    <2> HIDE DEF new
    <2>4. CodecsShaped(Append(sdp.payloadVector, new))
      BY <2>2, <2>3, Appended DEF CodecsShaped
    <2>5. sdp.codecs \in [Media -> Nat] /\ Counted(s.mtype) \in Media
      BY DEF Reading, Shaped, Counted, Media
    <2>6. [sdp.codecs EXCEPT ![Counted(s.mtype)] = @ + 1] \in [Media -> Nat]
      BY <2>5
    <2>7. Shaped(d) /\ SameNames(d, sdp)
      BY <2>1, <2>4, <2>6 DEF Reading, Shaped, SdpFields, SameNames
    <2> HIDE DEF r
    <2> QED
      BY <1>1, <1>2, <1>4, <2>1, <2>7 DEF Reading, new
  <1> QED
    BY <1>3, <1>4

-----------------------------------------------------------------------------
(***************************************************************************)
(* The payload type maps.                                                  *)
(***************************************************************************)
\* For codecs that occur once, each map leads to the other's entry.
Agreed(d) ==
  LET pv == d.payloadVector
      ipv == internalPayloadVector_
  IN /\ DOMAIN d.outInPTMap = {pv[i].pt : i \in DOMAIN pv}
     /\ Unambiguous(d) => \A i \in DOMAIN pv, k \in DOMAIN ipv : pv[i].codec = ipv[k].codec =>
          /\ d.outInPTMap[pv[i].pt] = ipv[k].pt
          /\ ipv[k].pt \in DOMAIN d.inOutPTMap
          /\ d.inOutPTMap[ipv[k].pt] = pv[i].pt

\* The entries of a medium are counted by its number of codecs.
Entries(d, m) == {i \in DOMAIN d.payloadVector : d.payloadVector[i].media = m}
CountsAll(d) == \A m \in Media : Cardinality(Entries(d, m)) <= d.codecs[m]

\* The client's own codecs are all different.
LEMMA OwnCodecs ==
  \A j, k \in DOMAIN internalPayloadVector_ :
    \/ internalPayloadVector_[j].codec = internalPayloadVector_[k].codec
    \/ internalPayloadVector_[j].pt = internalPayloadVector_[k].pt
    => j = k
  BY DEF internalPayloadVector_

\* There are five of them.
LEMMA OwnPlaces == DOMAIN internalPayloadVector_ = 1 .. 5
  BY DEF internalPayloadVector_

\* A codec this client knows has one entry.
LEMMA OneEntry ==
  ASSUME NEW c, EntriesFor(c) # {}
  PROVE  /\ Max(EntriesFor(c)) \in DOMAIN internalPayloadVector_
         /\ \A k \in DOMAIN internalPayloadVector_ :
              internalPayloadVector_[k].codec = c <=> k = Max(EntriesFor(c))
  <1>1. PICK k \in EntriesFor(c) : TRUE
    OBVIOUS
  <1>2. /\ k \in DOMAIN internalPayloadVector_ /\ k \in Int
        /\ internalPayloadVector_[k].codec = c
    BY <1>1, OwnPlaces DEF EntriesFor
  <1>3. EntriesFor(c) = {k}
    BY <1>2, OwnCodecs DEF EntriesFor
  <1>4. Max(EntriesFor(c)) = k
    BY <1>2, <1>3 DEF Max
  <1> QED
    BY <1>2, <1>4, OwnCodecs

\* What leaves the codecs in their places leaves the maps in order.
LEMMA AgreedKept ==
  ASSUME NEW d, NEW e, SameMaps(e, d), SameCodecs(e.payloadVector, d.payloadVector),
         Agreed(d), CountsAll(d)
  PROVE  Agreed(e) /\ CountsAll(e)
  <1>1. Unambiguous(e) => Unambiguous(d)
    BY DEF Unambiguous, SameCodecs
  <1>2. {e.payloadVector[i].pt : i \in DOMAIN e.payloadVector}
        = {d.payloadVector[i].pt : i \in DOMAIN d.payloadVector}
    BY DEF SameCodecs
  <1>3. \A m \in Media : Entries(e, m) = Entries(d, m)
    BY DEF SameCodecs, Entries
  <1>4. Agreed(e)
    BY <1>1, <1>2 DEF Agreed, SameCodecs, SameMaps
  <1> QED
    BY <1>3, <1>4 DEF CountsAll, SameMaps

\* A new codec: a number and a name that were not there before get entries of their own.
LEMMA AgreedCodec ==
  ASSUME NEW d, NEW e, NEW new, NEW k \in DOMAIN internalPayloadVector_,
         IsVector(d.payloadVector), Agreed(d),
         new.codec = internalPayloadVector_[k].codec,
         e.payloadVector = Append(d.payloadVector, new),
         e.outInPTMap = Put(d.outInPTMap, new.pt, internalPayloadVector_[k].pt),
         e.inOutPTMap = Put(d.inOutPTMap, internalPayloadVector_[k].pt, new.pt)
  PROVE  Agreed(e)
  <1> DEFINE q == d.payloadVector
             n == Len(q) + 1
             int == internalPayloadVector_[k].pt
  <1>1. /\ Len(q) \in Nat /\ DOMAIN q = 1 .. Len(q)
        /\ DOMAIN e.payloadVector = 1 .. n
        /\ e.payloadVector[n] = new
        /\ \A i \in DOMAIN q : i \in DOMAIN e.payloadVector /\ e.payloadVector[i] = q[i]
    BY Appended
  <1>2. \A i \in DOMAIN e.payloadVector : i = n \/ i \in DOMAIN q
    BY <1>1
  <1>3. /\ DOMAIN e.outInPTMap = DOMAIN d.outInPTMap \cup {new.pt}
        /\ e.outInPTMap[new.pt] = int
        /\ \A x \in DOMAIN d.outInPTMap : x # new.pt => e.outInPTMap[x] = d.outInPTMap[x]
    BY DEF Put
  <1>4. /\ DOMAIN e.inOutPTMap = DOMAIN d.inOutPTMap \cup {int}
        /\ e.inOutPTMap[int] = new.pt
        /\ \A x \in DOMAIN d.inOutPTMap : x # int => e.inOutPTMap[x] = d.inOutPTMap[x]
    BY DEF Put
  <1>5. n \in DOMAIN e.payloadVector /\ n \notin DOMAIN q
    BY <1>1
  <1> HIDE DEF n, int, q
  <1>6. {e.payloadVector[i].pt : i \in DOMAIN e.payloadVector}
        = {q[i].pt : i \in DOMAIN q} \cup {new.pt}
    BY <1>1, <1>2, <1>5
  <1>7. DOMAIN e.outInPTMap = {e.payloadVector[i].pt : i \in DOMAIN e.payloadVector}
    BY <1>3, <1>6 DEF Agreed, q
  <1>8. ASSUME Unambiguous(e),
               NEW i \in DOMAIN e.payloadVector, NEW j \in DOMAIN internalPayloadVector_,
               e.payloadVector[i].codec = internalPayloadVector_[j].codec
        PROVE  /\ e.outInPTMap[e.payloadVector[i].pt] = internalPayloadVector_[j].pt
               /\ internalPayloadVector_[j].pt \in DOMAIN e.inOutPTMap
               /\ e.inOutPTMap[internalPayloadVector_[j].pt] = e.payloadVector[i].pt
    <2>1. CASE i = n
      <3>1. j = k
        BY <1>1, <1>8, <2>1, OwnCodecs
      <3> QED
        BY <1>1, <1>3, <1>4, <2>1, <3>1 DEF int
    <2>2. CASE i # n
      <3>1. i \in DOMAIN q /\ e.payloadVector[i] = q[i]
        BY <1>1, <1>2, <2>2
      <3>2. q[i].pt # new.pt /\ q[i].codec # new.codec
        BY <1>1, <1>5, <1>8, <2>2, <3>1 DEF Unambiguous
      <3>3. internalPayloadVector_[j].pt # int
        BY <1>8, <3>1, <3>2, OwnCodecs DEF int
      <3>4. Unambiguous(d)
        BY <1>1, <1>8 DEF Unambiguous, q
      <3>5. /\ d.outInPTMap[q[i].pt] = internalPayloadVector_[j].pt
            /\ internalPayloadVector_[j].pt \in DOMAIN d.inOutPTMap
            /\ d.inOutPTMap[internalPayloadVector_[j].pt] = q[i].pt
            /\ q[i].pt \in DOMAIN d.outInPTMap
        BY <1>8, <3>1, <3>4 DEF Agreed, q
      <3> QED
        BY <1>3, <1>4, <3>1, <3>2, <3>3, <3>5
    <2> QED
      BY <2>1, <2>2
  <1> QED
    BY <1>7, <1>8 DEF Agreed

\* The entries of a vector are finitely many.
LEMMA FiniteEntries ==
  ASSUME NEW d, IsVector(d.payloadVector), NEW m
  PROVE  IsFiniteSet(Entries(d, m)) /\ Cardinality(Entries(d, m)) \in Nat
  <1>1. Len(d.payloadVector) \in Nat /\ DOMAIN d.payloadVector = 1 .. Len(d.payloadVector)
    BY Appended
  <1>2. IsFiniteSet(1 .. Len(d.payloadVector))
    BY <1>1, FS_Interval
  <1>3. Entries(d, m) \subseteq 1 .. Len(d.payloadVector)
    BY <1>1 DEF Entries
  <1> QED
    BY <1>2, <1>3, FS_Subset, FS_CardinalityType

\* processRtpMap counts the codec it appends: for its medium, or for the audio.
LEMMA CountedCodec ==
  ASSUME NEW d, NEW e, NEW new, new.media \in MediaTypes,
         IsVector(d.payloadVector), CountsAll(d), d.codecs \in [Media -> Nat],
         e.payloadVector = Append(d.payloadVector, new),
         e.codecs = [d.codecs EXCEPT ![Counted(new.media)] = @ + 1]
  PROVE  CountsAll(e)
  <1> SUFFICES ASSUME NEW m \in Media
               PROVE  Cardinality(Entries(e, m)) <= e.codecs[m]
    BY DEF CountsAll
  <1> DEFINE q == d.payloadVector
             n == Len(q) + 1
  <1>1. /\ Len(q) \in Nat /\ DOMAIN q = 1 .. Len(q)
        /\ DOMAIN e.payloadVector = 1 .. n
        /\ e.payloadVector[n] = new
        /\ \A i \in DOMAIN q : i \in DOMAIN e.payloadVector /\ e.payloadVector[i] = q[i]
    BY Appended
  <1>2. n \notin Entries(d, m) /\ n \in DOMAIN e.payloadVector
        /\ DOMAIN e.payloadVector = DOMAIN q \cup {n}
    BY <1>1 DEF Entries
  <1>3. Cardinality(Entries(d, m)) <= d.codecs[m] /\ d.codecs[m] \in Nat
    BY DEF CountsAll
  <1>4. IsFiniteSet(Entries(d, m)) /\ Cardinality(Entries(d, m)) \in Nat
    BY FiniteEntries
  <1> HIDE DEF n
  <1>5. CASE new.media = m
    <2>1. Entries(e, m) = Entries(d, m) \cup {n}
      BY <1>1, <1>2, <1>5 DEF Entries
    <2>2. Cardinality(Entries(e, m)) = Cardinality(Entries(d, m)) + 1
      BY <1>2, <1>4, <2>1, FS_AddElement
    <2>3. e.codecs[m] = d.codecs[m] + 1
      BY <1>5 DEF Counted, Media
    <2> QED
      BY <1>3, <1>4, <2>2, <2>3
  <1>6. CASE new.media # m
    <2>1. Entries(e, m) = Entries(d, m)
      BY <1>1, <1>2, <1>6 DEF Entries
    <2>2. e.codecs[m] \in {d.codecs[m], d.codecs[m] + 1}
      BY <1>3
    <2> QED
      BY <1>3, <1>4, <2>1, <2>2
  <1> QED
    BY <1>5, <1>6

\* One turn of the loop.
LEMMA AgreedLine ==
  ASSUME NEW s, Reading(s), Agreed(s.sdp), CountsAll(s.sdp), NEW l
  PROVE  LET r == processLine(s, l)
         IN Reading(r) /\ Agreed(r.sdp) /\ CountsAll(r.sdp)
  <1> DEFINE r == processLine(s, l)
  <1>1. CASE l.tag \notin {"rtpmap", "fmtp"}
    <2>1. /\ Reading(r) /\ SameMaps(r.sdp, s.sdp)
          /\ r.sdp.payloadVector = s.sdp.payloadVector
      <3>1. CASE l.tag \in Media
        BY <3>1, SectionLine
      <3>2. CASE l.tag \in {"ice-ufrag", "ice-pwd"}
        BY <3>2, NameLine
      <3>3. CASE l.tag \notin Media \cup {"rtpmap", "fmtp", "ice-ufrag", "ice-pwd"}
        BY <3>3, PlainLine
      <3> QED
        BY <1>1, <3>1, <3>2, <3>3
    <2>2. SameCodecs(r.sdp.payloadVector, s.sdp.payloadVector)
      BY <2>1 DEF SameCodecs
    <2> QED
      BY <2>1, <2>2, AgreedKept
  <1>2. CASE l.tag = "fmtp"
    BY <1>2, FormatLine, AgreedKept
  <1>3. CASE l.tag = "rtpmap"
    <2> DEFINE d == r.sdp
               sdp == s.sdp
               k == Max(EntriesFor(l.codec))
               int == internalPayloadVector_[k].pt
               new == [pt |-> l.pt, codec |-> l.codec, media |-> s.mtype,
                       feedback |-> <<>>, format |-> <<>>]
    <2>1. /\ Reading(r)
          /\ IF EntriesFor(l.codec) = {}
             THEN SameMaps(d, sdp) /\ d.payloadVector = sdp.payloadVector
             ELSE /\ d.outInPTMap = Put(sdp.outInPTMap, l.pt, int)
                  /\ d.inOutPTMap = Put(sdp.inOutPTMap, int, l.pt)
                  /\ d.codecs = [sdp.codecs EXCEPT ![Counted(s.mtype)] = @ + 1]
                  /\ d.payloadVector = Append(sdp.payloadVector, new)
      BY <1>3, CodecLine, ZenonT(60)
    <2>2. CASE EntriesFor(l.codec) = {}
      <3>1. SameCodecs(d.payloadVector, sdp.payloadVector)
        BY <2>1, <2>2 DEF SameCodecs
      <3> QED
        BY <2>1, <2>2, <3>1, AgreedKept
    <2>3. CASE EntriesFor(l.codec) # {}
      <3>1. k \in DOMAIN internalPayloadVector_ /\ internalPayloadVector_[k].codec = l.codec
        BY <2>3, OneEntry
      <3>2. /\ IsVector(sdp.payloadVector) /\ sdp.codecs \in [Media -> Nat]
            /\ s.mtype \in MediaTypes
        BY DEF Reading, Shaped, CodecsShaped
      <3>3. new.pt = l.pt /\ new.codec = l.codec /\ new.media = s.mtype
        OBVIOUS
      <3> HIDE DEF new, k, d, r
      <3>4. Agreed(d)
        BY <2>1, <2>3, <3>1, <3>2, <3>3, AgreedCodec
      <3>5. CountsAll(d)
        BY <2>1, <2>3, <3>2, <3>3, CountedCodec
      <3> QED
        BY <2>1, <3>4, <3>5 DEF d, r
    <2> QED
      BY <2>2, <2>3
  <1> QED
    BY <1>1, <1>2, <1>3

-----------------------------------------------------------------------------
(***************************************************************************)
(* After the loop.                                                         *)
(***************************************************************************)
\* The fields that stay as they are.
SameBut(e, d, fields) == \A f \in SdpFields \ fields : e[f] = d[f]

\* The credentials of one medium serve both when the other has none.
LEMMA CredentialsKeep ==
  ASSUME NEW d, Shaped(d), HasCredentials(d)
  PROVE  LET e == Credentials(d)
         IN /\ Shaped(e) /\ SameBut(e, d, {"username", "password"})
            /\ IF d.username["video"] = ""
               THEN \A m \in Media : /\ e.username[m] = d.username["audio"]
                                     /\ e.password[m] = d.password["audio"]
               ELSE IF d.username["audio"] = ""
               THEN \A m \in Media : /\ e.username[m] = d.username["video"]
                                     /\ e.password[m] = d.password["video"]
               ELSE SameNames(e, d)
  <1> DEFINE Copied(from) == [d EXCEPT !.username = [m \in Media |-> @[from]],
                                       !.password = [m \in Media |-> @[from]]]
  <1>1. ASSUME NEW from \in Media
        PROVE  /\ Shaped(Copied(from)) /\ SameBut(Copied(from), d, {"username", "password"})
               /\ \A m \in Media : /\ Copied(from).username[m] = d.username[from]
                                    /\ Copied(from).password[m] = d.password[from]
    <2>1. /\ DOMAIN Copied(from) = SdpFields
          /\ SameBut(Copied(from), d, {"username", "password"})
          /\ Copied(from).username = [m \in Media |-> d.username[from]]
          /\ Copied(from).password = [m \in Media |-> d.password[from]]
      BY DEF Shaped, SdpFields, SameBut
    <2> HIDE DEF Copied
    <2>2. Shaped(Copied(from))
      BY <2>1 DEF Shaped, SdpFields, SameBut
    <2> QED
      BY <2>1, <2>2
  <1>2. Credentials(d) = IF d.username["video"] = "" THEN Copied("audio")
                         ELSE IF d.username["audio"] = "" THEN Copied("video") ELSE d
    BY DEF Credentials, HasCredentials, Media
  <1> HIDE DEF Copied
  <1>3. "audio" \in Media /\ "video" \in Media
    BY DEF Media
  <1>4. CASE d.username["video"] = ""
    BY <1>1, <1>2, <1>3, <1>4
  <1>5. CASE d.username["video"] # "" /\ d.username["audio"] = ""
    BY <1>1, <1>2, <1>3, <1>5
  <1>6. CASE d.username["video"] # "" /\ d.username["audio"] # ""
    BY <1>2, <1>6 DEF SameBut, SameNames
  <1> QED
    BY <1>4, <1>5, <1>6

\* Every candidate has the credentials its description keeps for its medium.
CandsNamed(d) ==
  \A k \in DOMAIN d.candidateVector :
    LET c == d.candidateVector[k]
    IN c.username = d.username[Counted(c.media)] /\ c.password = d.password[Counted(c.media)]

\* The candidates get those of their media and stay the same otherwise.
LEMMA CandidatesKeep ==
  ASSUME NEW d, Shaped(d)
  PROVE  LET e == CandidateCredentials(d)
         IN /\ Shaped(e) /\ SameBut(e, d, {"candidateVector"}) /\ CandsNamed(e)
            /\ DOMAIN e.candidateVector = DOMAIN d.candidateVector
            /\ \A k \in DOMAIN d.candidateVector :
                 e.candidateVector[k].media = d.candidateVector[k].media
  <1> DEFINE q == d.candidateVector
             p == [i \in DOMAIN q |->
                     LET m == Counted(q[i].media)
                     IN [q[i] EXCEPT !.isBundle = d.isBundle,
                                     !.username = d.username[m], !.password = d.password[m]]]
             e == [d EXCEPT !.candidateVector = p]
  <1>1. CandidateCredentials(d) = e
    BY DEF CandidateCredentials
  <1>2. DOMAIN e = SdpFields /\ SameBut(e, d, {"candidateVector"}) /\ e.candidateVector = p
    BY DEF Shaped, SdpFields, SameBut
  <1>3. CandsShaped(q)
    BY DEF Shaped
  <1>4. IsVector(p)
    BY <1>3, Rewritten DEF CandsShaped
  <1>5. /\ DOMAIN p = DOMAIN q
        /\ \A i \in DOMAIN q : /\ DOMAIN p[i] = CandFields /\ p[i].media = q[i].media
                               /\ p[i].username = d.username[Counted(q[i].media)]
                               /\ p[i].password = d.password[Counted(q[i].media)]
    BY <1>3 DEF CandsShaped, CandFields
  <1> HIDE DEF e, p
  <1>6. CandsShaped(p)
    BY <1>3, <1>4, <1>5 DEF CandsShaped
  <1>7. Shaped(e)
    BY <1>2, <1>6 DEF Shaped, SdpFields, SameBut
  <1>8. CandsNamed(e)
    BY <1>2, <1>5 DEF CandsNamed, SdpFields, SameBut
  <1> QED
    BY <1>1, <1>2, <1>5, <1>7, <1>8

\* The codecs get their feedback lines and stay the same otherwise.
LEMMA FeedbackKeeps ==
  ASSUME NEW d, Shaped(d), NEW feedback
  PROVE  LET e == Feedback(d, feedback)
         IN /\ Shaped(e) /\ SameBut(e, d, {"payloadVector"})
            /\ SameCodecs(e.payloadVector, d.payloadVector)
            /\ \A i \in DOMAIN d.payloadVector :
                 e.payloadVector[i].feedback
                 = d.payloadVector[i].feedback \o Given(feedback, d.payloadVector[i].pt)
  <1> DEFINE q == d.payloadVector
             p == [i \in DOMAIN q |-> Told(q[i], Given(feedback, q[i].pt))]
             e == [d EXCEPT !.payloadVector = p]
  <1>1. Feedback(d, feedback) = e
    BY DEF Feedback
  <1>2. DOMAIN e = SdpFields /\ SameBut(e, d, {"payloadVector"}) /\ e.payloadVector = p
    BY DEF Shaped, SdpFields, SameBut
  <1>3. CodecsShaped(q)
    BY DEF Shaped
  <1>4. IsVector(p)
    BY <1>3, Rewritten DEF CodecsShaped
  <1>5. ASSUME NEW i \in DOMAIN q, NEW lines
        PROVE  LET r == Told(q[i], lines)
               IN /\ DOMAIN r = CodecFields
                  /\ \A f \in CodecFields \ {"feedback"} : r[f] = q[i][f]
                  /\ r.feedback = q[i].feedback \o lines
    BY <1>3, <1>5 DEF CodecsShaped, CodecFields, Told
  <1>6. /\ DOMAIN p = DOMAIN q
        /\ \A i \in DOMAIN q : p[i] = Told(q[i], Given(feedback, q[i].pt))
    OBVIOUS
  <1> HIDE DEF e, p
  <1>7. CodecsShaped(p) /\ SameCodecs(p, q)
    <2>1. ASSUME NEW i \in DOMAIN q
          PROVE  /\ DOMAIN p[i] = CodecFields
                 /\ p[i].pt = q[i].pt /\ p[i].codec = q[i].codec /\ p[i].media = q[i].media
      <3>1. /\ DOMAIN p[i] = CodecFields
            /\ \A f \in CodecFields \ {"feedback"} : p[i][f] = q[i][f]
        BY <1>5, <1>6
      <3> QED
        BY <3>1 DEF CodecFields
    <2> QED
      BY <1>3, <1>4, <1>6, <2>1 DEF CodecsShaped, SameCodecs
  <1>8. \A i \in DOMAIN q : p[i].feedback = q[i].feedback \o Given(feedback, q[i].pt)
    BY <1>5, <1>6
  <1>9. Shaped(e)
    BY <1>2, <1>7 DEF Shaped, SdpFields, SameBut
  <1> QED
    BY <1>1, <1>2, <1>7, <1>8, <1>9

\* The end of processSdp.
LEMMA Finished ==
  ASSUME NEW s, Reading(s), HasCredentials(s.sdp)
  PROVE  LET d == s.sdp
             c == Credentials(d)
             e == finishSdp(s)
         IN /\ Shaped(e) /\ SameBut(e, d, {"username", "password", "candidateVector", "payloadVector"})
            /\ SameCodecs(e.payloadVector, d.payloadVector)
            /\ SameNames(e, c) /\ CandsNamed(e)
            /\ DOMAIN e.candidateVector = DOMAIN d.candidateVector
            /\ \A k \in DOMAIN d.candidateVector :
                 e.candidateVector[k].media = d.candidateVector[k].media
            /\ \A i \in DOMAIN d.payloadVector :
                 e.payloadVector[i].feedback
                 = d.payloadVector[i].feedback \o Given(s.feedback, d.payloadVector[i].pt)
  <1> DEFINE d == s.sdp
             c == Credentials(d)
             n == CandidateCredentials(c)
             e == Feedback(n, s.feedback)
  <1>1. finishSdp(s) = e
    BY DEF finishSdp
  <1>2. Shaped(d)
    BY DEF Reading
  <1>3. Shaped(c) /\ SameBut(c, d, {"username", "password"})
    BY <1>2, CredentialsKeep
  <1> HIDE DEF c
  <1>4. /\ Shaped(n) /\ SameBut(n, c, {"candidateVector"}) /\ CandsNamed(n)
        /\ DOMAIN n.candidateVector = DOMAIN c.candidateVector
        /\ \A k \in DOMAIN c.candidateVector :
             n.candidateVector[k].media = c.candidateVector[k].media
    BY <1>3, CandidatesKeep
  <1> HIDE DEF n
  <1>5. /\ Shaped(e) /\ SameBut(e, n, {"payloadVector"})
        /\ SameCodecs(e.payloadVector, n.payloadVector)
        /\ \A i \in DOMAIN n.payloadVector :
             e.payloadVector[i].feedback
             = n.payloadVector[i].feedback \o Given(s.feedback, n.payloadVector[i].pt)
    BY <1>4, FeedbackKeeps
  <1> HIDE DEF e
  <1>6. SameBut(e, d, {"username", "password", "candidateVector", "payloadVector"})
    BY <1>3, <1>4, <1>5 DEF SameBut
  <1>7. n.payloadVector = d.payloadVector /\ c.candidateVector = d.candidateVector
    BY <1>3, <1>4 DEF SameBut, SdpFields
  <1>8. /\ e.candidateVector = n.candidateVector /\ SameNames(e, c)
        /\ e.username = n.username /\ e.password = n.password
    BY <1>4, <1>5 DEF SameBut, SdpFields, SameNames
  <1>9. CandsNamed(e)
    BY <1>4, <1>8 DEF CandsNamed
  <1> QED
    BY <1>1, <1>4, <1>5, <1>6, <1>7, <1>8, <1>9 DEF c

\* The maps survive it.
LEMMA AgreedFinish ==
  ASSUME NEW s, Reading(s), Agreed(s.sdp), CountsAll(s.sdp)
  PROVE  LET e == finishSdp(s)
         IN Shaped(e) /\ Agreed(e) /\ CountsAll(e)
  <1>1. CASE HasCredentials(s.sdp)
    <2> DEFINE e == finishSdp(s)
    <2>1. /\ Shaped(e) /\ SameCodecs(e.payloadVector, s.sdp.payloadVector)
          /\ SameBut(e, s.sdp, {"username", "password", "candidateVector", "payloadVector"})
      BY <1>1, Finished
    <2>2. SameMaps(e, s.sdp)
      BY <2>1 DEF SameBut, SdpFields, SameMaps
    <2> QED
      BY <2>1, <2>2, AgreedKept
  <1>2. CASE ~HasCredentials(s.sdp)
    BY <1>2 DEF finishSdp, Reading
  <1> QED
    BY <1>1, <1>2

\* Looking a payload type up adds entries and changes none.
LEMMA AgreedLookup ==
  ASSUME NEW d, Shaped(d), Agreed(d), CountsAll(d), NEW pt
  PROVE  LET e == supportPayloadType(d, pt)
         IN Shaped(e) /\ Agreed(e) /\ CountsAll(e) /\ SameBut(e, d, {"inOutPTMap"})
  <1> DEFINE seen == {d.payloadVector[i].pt : i \in LookedUp(d, pt)}
             map == [x \in DOMAIN d.inOutPTMap \cup seen |->
                       IF x \in DOMAIN d.inOutPTMap THEN d.inOutPTMap[x] ELSE 0]
             e == [d EXCEPT !.inOutPTMap = map]
  <1>1. supportPayloadType(d, pt) = e
    BY DEF supportPayloadType
  <1>2. DOMAIN e = SdpFields /\ SameBut(e, d, {"inOutPTMap"}) /\ e.inOutPTMap = map
    BY DEF Shaped, SdpFields, SameBut
  <1>3. \A x \in DOMAIN d.inOutPTMap : x \in DOMAIN map /\ map[x] = d.inOutPTMap[x]
    OBVIOUS
  <1> HIDE DEF e, map
  <1>4. /\ e.payloadVector = d.payloadVector /\ e.outInPTMap = d.outInPTMap
        /\ e.codecs = d.codecs
    BY <1>2 DEF SameBut, SdpFields
  <1>5. Shaped(e)
    BY <1>2 DEF Shaped, SdpFields, SameBut
  <1>6. Agreed(e)
    BY <1>2, <1>3, <1>4 DEF Agreed, Unambiguous
  <1>7. CountsAll(e)
    BY <1>4 DEF CountsAll, Entries
  <1> QED
    BY <1>1, <1>2, <1>5, <1>6, <1>7

-----------------------------------------------------------------------------
(***************************************************************************)
(* Sections and credentials.                                               *)
(***************************************************************************)
\* The sections of a text, and the one the parser is in.
SectionNames == {"session"} \cup Media
InSection(mtype) == IF mtype = "other" THEN "session" ELSE mtype

\* The values of the lines with a tag in a section.
ValuesIn(q, t, sec) ==
  {q[i].value : i \in {i \in DOMAIN q : q[i].tag = t /\ SectionOf(q, i) = sec}}

\* A set of places has a last one.
LEMMA LastIsIn ==
  ASSUME NEW n \in Nat, NEW T, T \subseteq 1 .. n, T # {}
  PROVE  Max(T) \in T
  <1> DEFINE R == OpToRel(<, Nat)
             D == {n - x : x \in T}
  <1>0. \A x \in T : x \in Nat /\ n - x \in Nat
    OBVIOUS
  <1>1. PICK d \in D : \A y \in D : <<y, d>> \notin R
    <2>1. IsWellFoundedOn(R, Nat)
      BY NatLessThanWellFounded, Zenon
    <2>2. D \subseteq Nat /\ D # {}
      BY <1>0
    <2> HIDE DEF R, D
    <2> QED
      BY <2>1, <2>2, WFMin
  <1>2. PICK x \in T : d = n - x
    BY <1>1
  <1>3. \A y \in T : ~(n - y < n - x)
    BY <1>0, <1>1, <1>2 DEF OpToRel
  <1>4. ASSUME NEW y \in T
        PROVE  x >= y
    <2>1. x \in Nat /\ y \in Nat /\ ~(n - y < n - x)
      BY <1>0, <1>3
    <2> HIDE DEF R, D
    <2> QED
      BY <2>1
  <1> QED
    BY <1>4 DEF Max

\* A new line leaves the others in their sections; it begins one or belongs to the last.
LEMMA SectionAppended ==
  ASSUME NEW q, IsVector(q), NEW l
  PROVE  LET r == Append(q, l)
         IN /\ \A i \in DOMAIN q : SectionOf(r, i) = SectionOf(q, i)
            /\ SectionOf(r, Len(q) + 1) = IF l.tag \in Media THEN l.tag ELSE SectionOf(q, Len(q))
  <1> DEFINE r == Append(q, l)
             n == Len(q) + 1
             Starts(x, i) == {j \in 1 .. i : x[j].tag \in Media}
  <1>1. /\ Len(q) \in Nat /\ DOMAIN q = 1 .. Len(q)
        /\ DOMAIN r = 1 .. n /\ r[n] = l
        /\ \A i \in DOMAIN q : r[i] = q[i]
    BY Appended
  <1> HIDE DEF r
  <1>2. \A i \in 0 .. Len(q) : Starts(r, i) = Starts(q, i) /\ Starts(q, i) \subseteq DOMAIN q
    BY <1>1
  <1>3. ASSUME NEW i \in 0 .. Len(q)
        PROVE  SectionOf(r, i) = SectionOf(q, i)
    <2>1. Starts(r, i) = Starts(q, i) /\ Starts(q, i) \subseteq DOMAIN q
      BY <1>2
    <2>2. CASE Starts(q, i) = {}
      BY <2>1, <2>2 DEF SectionOf
    <2>3. CASE Starts(q, i) # {}
      <3>1. Max(Starts(q, i)) \in Starts(q, i)
        BY <1>1, <2>1, <2>3, LastIsIn
      <3> QED
        BY <1>1, <2>1, <2>3, <3>1 DEF SectionOf
    <2> QED
      BY <2>2, <2>3
  <1>4. CASE l.tag \in Media
    <2>1. Starts(r, n) = Starts(q, Len(q)) \cup {n} /\ \A j \in Starts(q, Len(q)) : j < n /\ j \in Int
      BY <1>1, <1>4
    <2>2. Max(Starts(r, n)) = n
      BY <1>1, <2>1 DEF Max
    <2>3. SectionOf(r, n) = l.tag
      BY <1>1, <2>1, <2>2 DEF SectionOf
    <2> QED
      BY <1>1, <1>3, <1>4, <2>3 DEF r
  <1>5. CASE l.tag \notin Media
    <2>1. Starts(r, n) = Starts(r, Len(q))
      BY <1>1, <1>5
    <2>2. SectionOf(r, n) = SectionOf(r, Len(q))
      BY <2>1 DEF SectionOf
    <2>3. SectionOf(r, Len(q)) = SectionOf(q, Len(q))
      BY <1>1, <1>3
    <2> QED
      BY <1>1, <1>3, <1>5, <2>2, <2>3 DEF r
  <1> QED
    BY <1>4, <1>5

\* A new line adds its value to its own section, and to no other.
LEMMA ValuesAppended ==
  ASSUME NEW q, IsVector(q), NEW l, NEW t, NEW sec
  PROVE  LET r == Append(q, l)
         IN ValuesIn(r, t, sec)
            = IF l.tag = t /\ SectionOf(r, Len(q) + 1) = sec
              THEN ValuesIn(q, t, sec) \cup {l.value} ELSE ValuesIn(q, t, sec)
  <1> DEFINE r == Append(q, l)
             n == Len(q) + 1
             At(x) == {i \in DOMAIN x : x[i].tag = t /\ SectionOf(x, i) = sec}
  <1>1. /\ Len(q) \in Nat /\ DOMAIN q = 1 .. Len(q)
        /\ DOMAIN r = DOMAIN q \cup {n} /\ r[n] = l
        /\ \A i \in DOMAIN q : r[i] = q[i]
    BY Appended
  <1>2. \A i \in DOMAIN q : SectionOf(r, i) = SectionOf(q, i)
    BY SectionAppended
  <1> HIDE DEF r, n
  <1>3. At(r) = IF l.tag = t /\ SectionOf(r, n) = sec THEN At(q) \cup {n} ELSE At(q)
    BY <1>1, <1>2
  <1>4. \A i \in At(q) : r[i].value = q[i].value
    BY <1>1
  <1>5. /\ ValuesIn(r, t, sec) = {r[i].value : i \in At(r)}
        /\ ValuesIn(q, t, sec) = {q[i].value : i \in At(q)}
    BY DEF ValuesIn
  <1> HIDE DEF At
  <1>6. ASSUME l.tag = t, SectionOf(r, n) = sec
        PROVE  ValuesIn(r, t, sec) = ValuesIn(q, t, sec) \cup {l.value}
    <2>1. At(r) = At(q) \cup {n} /\ r[n].value = l.value
      BY <1>1, <1>3, <1>6
    <2>2. {r[i].value : i \in At(q) \cup {n}} = {r[i].value : i \in At(q)} \cup {r[n].value}
      OBVIOUS
    <2>3. {r[i].value : i \in At(q)} = {q[i].value : i \in At(q)}
      BY <1>4
    <2> QED
      BY <1>5, <2>1, <2>2, <2>3
  <1>7. ASSUME ~(l.tag = t /\ SectionOf(r, n) = sec)
        PROVE  ValuesIn(r, t, sec) = ValuesIn(q, t, sec)
    BY <1>3, <1>4, <1>5, <1>7
  <1> QED
    BY <1>6, <1>7 DEF n, r

\* While the text is read: where its lines belong, ...
Placed(q, mtype) ==
  /\ IsVector(q)
  /\ SectionOf(q, Len(q)) = InSection(mtype)
  /\ \A i \in DOMAIN q : SectionOf(q, i) \in SectionNames
  /\ mtype = "other" => \A i \in DOMAIN q : SectionOf(q, i) = "session"

\* ... and what the names are: those of the section, or of the session for the video, or none.
Source(q, t, m) ==
  IF ValuesIn(q, t, m) # {} THEN ValuesIn(q, t, m)
  ELSE IF m = "video" /\ ValuesIn(q, t, "session") # {} THEN ValuesIn(q, t, "session")
  ELSE {""}
NamesFrom(q, t, names) == \A m \in Media : names[m] \in Source(q, t, m)

\* The section a line belongs to is the one the parser's mtype stands for.
LEMMA PlacedLine ==
  ASSUME NEW s, Reading(s), NEW q, Placed(q, s.mtype), NEW l
  PROVE  Placed(Append(q, l), processLine(s, l).mtype)
  <1> DEFINE r == Append(q, l)
             n == Len(q) + 1
  <1>1. processLine(s, l).mtype = IF l.tag \in Media THEN l.tag ELSE s.mtype
    <2>1. CASE l.tag \in Media
      BY <2>1, SectionLine
    <2>2. CASE l.tag \in {"ice-ufrag", "ice-pwd"}
      BY <2>2, NameLine DEF Media
    <2>3. CASE l.tag = "fmtp"
      BY <2>3, FormatLine DEF Media
    <2>4. CASE l.tag = "rtpmap"
      BY <2>4, CodecLine DEF Media
    <2>5. CASE l.tag \notin Media \cup {"rtpmap", "fmtp", "ice-ufrag", "ice-pwd"}
      BY <2>5, PlainLine
    <2> QED
      BY <2>1, <2>2, <2>3, <2>4, <2>5
  <1>2. IsVector(q)
    BY DEF Placed
  <1>3. /\ IsVector(r) /\ Len(q) \in Nat /\ DOMAIN q = 1 .. Len(q)
        /\ DOMAIN r = 1 .. n
    BY <1>2, Appended
  <1>4. Len(r) = n
    BY <1>2 DEF IsVector
  <1>5. /\ \A i \in DOMAIN q : SectionOf(r, i) = SectionOf(q, i)
        /\ SectionOf(r, n) = IF l.tag \in Media THEN l.tag ELSE SectionOf(q, Len(q))
    BY <1>2, SectionAppended
  <1>6. \A i \in DOMAIN r : i \in DOMAIN q \/ i = n
    BY <1>3
  <1> HIDE DEF r, n
  <1>7. s.mtype \in MediaTypes
    BY DEF Reading
  <1>8. SectionOf(r, n) = InSection(processLine(s, l).mtype)
    BY <1>1, <1>5 DEF Placed, InSection, Media
  <1>9. InSection(processLine(s, l).mtype) \in SectionNames
    BY <1>1, <1>7 DEF InSection, SectionNames, MediaTypes, Media
  <1>10. \A i \in DOMAIN r : SectionOf(r, i) \in SectionNames
    BY <1>5, <1>6, <1>8, <1>9 DEF Placed
  <1>11. processLine(s, l).mtype = "other" => \A i \in DOMAIN r : SectionOf(r, i) = "session"
    BY <1>1, <1>5, <1>6, <1>8 DEF Placed, InSection, Media
  <1> QED
    BY <1>3, <1>4, <1>8, <1>10, <1>11 DEF Placed, r

\* A line with this tag sets the name of the section's owner.
LEMMA SourceTagged ==
  ASSUME NEW q, NEW mtype \in MediaTypes, Placed(q, mtype), NEW t, NEW names,
         DOMAIN names = Media, NamesFrom(q, t, names),
         NEW l, l.tag = t, t \notin Media
  PROVE  NamesFrom(Append(q, l), t, [names EXCEPT ![Owner(mtype)] = l.value])
  <1> DEFINE r == Append(q, l)
             sec == InSection(mtype)
             own == Owner(mtype)
  <1>1. IsVector(q) /\ SectionOf(r, Len(q) + 1) = sec
    BY SectionAppended DEF Placed
  <1>2. \A x : ValuesIn(r, t, x) = IF x = sec THEN ValuesIn(q, t, x) \cup {l.value}
                                   ELSE ValuesIn(q, t, x)
    BY <1>1, ValuesAppended
  <1> HIDE DEF r
  <1>3. CASE mtype = "other"
    <2>1. sec = "session" /\ own = "video"
      BY <1>3 DEF InSection, Owner
    <2>2. ValuesIn(q, t, "video") = {} /\ ValuesIn(q, t, "audio") = {}
      BY <1>3 DEF Placed, ValuesIn
    <2> QED
      BY <1>2, <2>1, <2>2 DEF NamesFrom, Source, Media, r
  <1>4. CASE mtype # "other"
    <2>1. sec = mtype /\ own = mtype /\ mtype \in Media
      BY <1>4 DEF InSection, Owner, MediaTypes, Media
    <2> QED
      BY <1>2, <2>1 DEF NamesFrom, Source, Media, r
  <1> QED
    BY <1>3, <1>4

\* Other lines say nothing about it.
LEMMA SourceOther ==
  ASSUME NEW q, IsVector(q), NEW t, NEW names, NamesFrom(q, t, names), NEW l, l.tag # t
  PROVE  NamesFrom(Append(q, l), t, names)
  <1>1. \A x : ValuesIn(Append(q, l), t, x) = ValuesIn(q, t, x)
    BY ValuesAppended
  <1> QED
    BY <1>1 DEF NamesFrom, Source

\* A line leaves in a description the credentials that the text has in its sections.
LEMMA NamesLine ==
  ASSUME NEW s, Reading(s), NEW q, Placed(q, s.mtype), NEW l,
         NamesFrom(q, "ice-ufrag", s.sdp.username), NamesFrom(q, "ice-pwd", s.sdp.password)
  PROVE  /\ NamesFrom(Append(q, l), "ice-ufrag", processLine(s, l).sdp.username)
         /\ NamesFrom(Append(q, l), "ice-pwd", processLine(s, l).sdp.password)
  <1> DEFINE d == processLine(s, l).sdp
  <1>1. /\ IsVector(q) /\ s.mtype \in MediaTypes
        /\ DOMAIN s.sdp.username = Media /\ DOMAIN s.sdp.password = Media
        /\ "ice-ufrag" \notin Media /\ "ice-pwd" \notin Media
    BY DEF Placed, Reading, Shaped, Media
  <1>2. CASE l.tag = "ice-ufrag"
    <2>1. Renamed(d, s.sdp, Owner(s.mtype), l)
      BY <1>2, NameLine
    <2>2. /\ d.username = [s.sdp.username EXCEPT ![Owner(s.mtype)] = l.value]
          /\ d.password = s.sdp.password
      BY <1>2, <2>1 DEF Renamed
    <2>3. NamesFrom(Append(q, l), "ice-ufrag", d.username)
      BY <1>1, <1>2, <2>2, SourceTagged
    <2>4. NamesFrom(Append(q, l), "ice-pwd", d.password)
      BY <1>1, <1>2, <2>2, SourceOther
    <2> QED
      BY <2>3, <2>4
  <1>3. CASE l.tag = "ice-pwd"
    <2>1. Renamed(d, s.sdp, Owner(s.mtype), l)
      BY <1>3, NameLine
    <2>2. /\ d.password = [s.sdp.password EXCEPT ![Owner(s.mtype)] = l.value]
          /\ d.username = s.sdp.username
      BY <1>3, <2>1 DEF Renamed
    <2>3. NamesFrom(Append(q, l), "ice-pwd", d.password)
      BY <1>1, <1>3, <2>2, SourceTagged
    <2>4. NamesFrom(Append(q, l), "ice-ufrag", d.username)
      BY <1>1, <1>3, <2>2, SourceOther
    <2> QED
      BY <2>3, <2>4
  <1>4. CASE l.tag \notin {"ice-ufrag", "ice-pwd"}
    <2>1. SameNames(d, s.sdp)
      <3>1. CASE l.tag \in Media
        BY <3>1, SectionLine
      <3>2. CASE l.tag = "fmtp"
        BY <3>2, FormatLine
      <3>3. CASE l.tag = "rtpmap"
        BY <3>3, CodecLine
      <3>4. CASE l.tag \notin Media \cup {"rtpmap", "fmtp", "ice-ufrag", "ice-pwd"}
        BY <3>4, PlainLine
      <3> QED
        BY <1>4, <3>1, <3>2, <3>3, <3>4
    <2>2. d.username = s.sdp.username /\ d.password = s.sdp.password
      BY <2>1 DEF SameNames
    <2> QED
      BY <1>1, <1>4, <2>2, SourceOther
  <1> QED
    BY <1>2, <1>3, <1>4

\* After the end of the text: every medium has a name, its password, and that of its own
\* section if there is one.
AllValues(q, t) == UNION {ValuesIn(q, t, sec) : sec \in SectionNames}
NameOf(q, m, name) ==
  name \in IF ValuesIn(q, "ice-ufrag", m) # {} THEN ValuesIn(q, "ice-ufrag", m)
           ELSE AllValues(q, "ice-ufrag")
NamesSet(d, q) ==
  \A m \in Media : /\ d.username[m] # "" /\ d.password[m] = d.username[m]
                   /\ NameOf(q, m, d.username[m])

\* Pairs: a section's passwords are its user names, and it has at most one.
LEMMA PairedValues ==
  ASSUME Paired, NEW sec
  PROVE  LET U == ValuesIn(text, "ice-ufrag", sec)
         IN /\ ValuesIn(text, "ice-pwd", sec) = U
            /\ \A x, y \in U : x = y
            /\ "" \notin U
  <1> DEFINE In(t) == {i \in DOMAIN text : text[i].tag = t /\ SectionOf(text, i) = sec}
             Tags == {"ice-ufrag", "ice-pwd"}
  <1>1. ASSUME NEW t \in Tags, NEW u \in Tags, t # u, NEW i \in In(t)
        PROVE  \E j \in In(u) : text[j].value = text[i].value
    <2>1. i \in DOMAIN text /\ text[i].tag = t /\ SectionOf(text, i) = sec /\ Credential(text[i])
      BY <1>1 DEF Credential
    <2>2. PICK j \in DOMAIN text : /\ Credential(text[j]) /\ text[j].tag # text[i].tag
                                  /\ SectionOf(text, j) = SectionOf(text, i)
      BY <2>1 DEF Paired
    <2>3. text[j].value = text[i].value
      BY <2>1, <2>2 DEF Paired
    <2>4. text[j].tag = u
      BY <1>1, <2>1, <2>2 DEF Credential
    <2> QED
      BY <2>1, <2>2, <2>3, <2>4
  <1>2. ASSUME NEW i \in In("ice-ufrag"), NEW j \in In("ice-ufrag")
        PROVE  text[i].value = text[j].value
    <2>1. /\ i \in DOMAIN text /\ Credential(text[i]) /\ SectionOf(text, i) = sec
          /\ j \in DOMAIN text /\ Credential(text[j]) /\ SectionOf(text, j) = sec
      BY <1>2 DEF Credential
    <2> QED
      BY <2>1 DEF Paired
  <1>3. \A i \in In("ice-ufrag") : text[i].value # ""
    BY DEF Paired, Credential
  <1>4. \A t : ValuesIn(text, t, sec) = {text[i].value : i \in In(t)}
    BY DEF ValuesIn
  <1>5. ASSUME NEW t \in Tags, NEW u \in Tags, t # u
        PROVE  ValuesIn(text, t, sec) \subseteq ValuesIn(text, u, sec)
    <2> SUFFICES ASSUME NEW i \in In(t)
                 PROVE  text[i].value \in {text[j].value : j \in In(u)}
      BY <1>4
    <2>1. PICK j \in In(u) : text[j].value = text[i].value
      BY <1>1, <1>5
    <2> HIDE DEF In
    <2> QED
      BY <2>1
  <1>6. ValuesIn(text, "ice-pwd", sec) = ValuesIn(text, "ice-ufrag", sec)
    BY <1>5
  <1> HIDE DEF In
  <1> QED
    BY <1>2, <1>3, <1>4, <1>6, ZenonT(60)

\* The end of processSdp: a medium without a name of its own takes over one that was
\* written, with its password, and the candidates get them.
LEMMA NamesFinish ==
  ASSUME Reading(st), Paired, HasCredentials(st.sdp),
         NamesFrom(text, "ice-ufrag", st.sdp.username), NamesFrom(text, "ice-pwd", st.sdp.password)
  PROVE  NamesSet(finishSdp(st), text) /\ CandsNamed(finishSdp(st))
  <1> DEFINE d == st.sdp
             c == Credentials(d)
             e == finishSdp(st)
             u == d.username
             V(sec) == ValuesIn(text, "ice-ufrag", sec)
  <1>1. SameNames(e, c) /\ CandsNamed(e)
    BY Finished
  <1>2. IF u["video"] = ""
        THEN \A m \in Media : c.username[m] = u["audio"] /\ c.password[m] = d.password["audio"]
        ELSE IF u["audio"] = ""
        THEN \A m \in Media : c.username[m] = u["video"] /\ c.password[m] = d.password["video"]
        ELSE SameNames(c, d)
    BY CredentialsKeep DEF Reading
  <1>3. \A m \in Media : u[m] \in Source(text, "ice-ufrag", m)
    BY DEF NamesFrom
  <1>4. \A m \in Media : d.password[m] \in Source(text, "ice-pwd", m)
    BY DEF NamesFrom
  <1>5. \A sec : /\ ValuesIn(text, "ice-pwd", sec) = V(sec)
                 /\ \A x, y \in V(sec) : x = y
                 /\ "" \notin V(sec)
    BY PairedValues
  <1>6. ASSUME NEW m \in Media PROVE d.password[m] = u[m]
    <2>1. u[m] \in Source(text, "ice-ufrag", m) /\ d.password[m] \in Source(text, "ice-pwd", m)
      BY <1>3, <1>4
    <2>2. Source(text, "ice-pwd", m) = Source(text, "ice-ufrag", m)
      BY <1>5 DEF Source
    <2>3. \/ \E sec : Source(text, "ice-ufrag", m) = V(sec)
          \/ Source(text, "ice-ufrag", m) = {""}
      BY DEF Source
    <2>4. CASE Source(text, "ice-ufrag", m) = {""}
      BY <2>1, <2>2, <2>4
    <2>5. ASSUME NEW sec, Source(text, "ice-ufrag", m) = V(sec) PROVE d.password[m] = u[m]
      <3>1. u[m] \in V(sec) /\ d.password[m] \in V(sec)
        BY <2>1, <2>2, <2>5
      <3>2. \A x, y \in V(sec) : x = y
        BY <1>5
      <3> HIDE DEF V, u, d
      <3> QED
        BY <3>1, <3>2
    <2> QED
      BY <2>3, <2>4, <2>5
  <1>7. \A m \in Media : u[m] # "" => NameOf(text, m, u[m]) /\ u[m] \in AllValues(text, "ice-ufrag")
    BY <1>3 DEF Source, NameOf, AllValues, SectionNames
  <1>8. \A m \in Media : u[m] = "" => V(m) = {}
    BY <1>3, <1>5 DEF Source
  <1>9. u["audio"] # "" \/ u["video"] # ""
    BY DEF HasCredentials, Media
  <1> HIDE DEF c, e, u, V, d
  <1>10. "audio" \in Media /\ "video" \in Media /\ \A m \in Media : m = "audio" \/ m = "video"
    BY DEF Media
  <1>11. \A m \in Media : c.username[m] # "" /\ c.password[m] = c.username[m]
                          /\ NameOf(text, m, c.username[m])
    <2>1. CASE u["video"] = ""
      BY <1>2, <1>6, <1>7, <1>8, <1>9, <1>10, <2>1 DEF NameOf, V
    <2>2. CASE u["video"] # "" /\ u["audio"] = ""
      BY <1>2, <1>6, <1>7, <1>8, <1>10, <2>2 DEF NameOf, V
    <2>3. CASE u["video"] # "" /\ u["audio"] # ""
      BY <1>2, <1>6, <1>7, <1>10, <2>3 DEF SameNames, u
    <2> QED
      BY <2>1, <2>2, <2>3
  <1>12. NamesSet(e, text)
    BY <1>1, <1>11 DEF NamesSet, SameNames
  <1> QED
    BY <1>1, <1>12 DEF e

-----------------------------------------------------------------------------
(***************************************************************************)
(* The description this client sends.                                      *)
(***************************************************************************)
\* Only the codecs and their numbers count.
LEMMA CountsKept ==
  ASSUME NEW d, NEW e, CountsAll(d), e.codecs = d.codecs, e.payloadVector = d.payloadVector
  PROVE  CountsAll(e)
  BY DEF CountsAll, Entries

\* processLocalSdp and the default SSRCs leave the codecs alone.
LEMMA LocalKeeps ==
  ASSUME NEW d, Shaped(d), CountsAll(d), NEW ts, NEW b
  PROVE  LET e == Ssrcs(processLocalSdp(d, ts, b))
         IN Shaped(e) /\ CountsAll(e)
  <1> DEFINE p == processLocalSdp(d, ts, b)
             e == Ssrcs(p)
  <1>1. /\ DOMAIN p = SdpFields /\ SameBut(p, d, {"fingerprint", "username", "password"})
        /\ DOMAIN p.username = Media /\ DOMAIN p.password = Media
    BY DEF processLocalSdp, Shaped, SdpFields, SameBut
  <1> HIDE DEF p
  <1>2. DOMAIN e = SdpFields /\ SameBut(e, p, {"ssrc"})
    BY <1>1 DEF Ssrcs, SdpFields, SameBut
  <1> HIDE DEF e
  <1>3. Shaped(e)
    BY <1>1, <1>2 DEF Shaped, SdpFields, SameBut
  <1>4. e.codecs = d.codecs /\ e.payloadVector = d.payloadVector
    BY <1>1, <1>2 DEF SdpFields, SameBut
  <1>5. CountsAll(e)
    BY <1>4, CountsKept
  <1> QED
    BY <1>3, <1>5 DEF e, p

\* An offer counts this client's codecs.
LEMMA OfferShaped ==
  ASSUME NEW d, Shaped(d), NEW x
  PROVE  LET e == [createOfferSdp(d) EXCEPT !.ssrc = x]
         IN Shaped(e) /\ CountsAll(e)
  <1> DEFINE c == createOfferSdp(d)
             e == [c EXCEPT !.ssrc = x]
             ipv == internalPayloadVector_
             pv == [i \in DOMAIN ipv |->
                      LET r == ipv[i]
                      IN [pt |-> r.pt, codec |-> r.codec, media |-> r.media,
                          feedback |-> <<>>, format |-> <<>>]]
             Of(m) == {i \in DOMAIN ipv : ipv[i].media = m}
  <1>1. /\ DOMAIN c = SdpFields /\ c.payloadVector = pv
        /\ c.codecs = [m \in Media |-> d.codecs[m] + Cardinality(Of(m))]
        /\ c.direction = [m \in Media |-> "sendrecv"]
        /\ SameBut(c, d, {"payloadVector", "isBundle", "isRtcpMux", "mLine", "codecs", "has",
                          "direction"})
    BY DEF createOfferSdp, Shaped, SdpFields, SameBut
  <1> HIDE DEF c
  <1>2. DOMAIN e = SdpFields /\ SameBut(e, c, {"ssrc"})
    BY <1>1 DEF SdpFields, SameBut
  <1> HIDE DEF e
  <1>3. ASSUME NEW m \in Media
        PROVE  Cardinality(Of(m)) \in Nat
    <2>1. IsFiniteSet(1 .. 5)
      <3>1. \A a, b \in Int : IsFiniteSet(a .. b)
        BY FS_Interval
      <3>2. 1 \in Int /\ 5 \in Int
        OBVIOUS
      <3> QED
        BY <3>1, <3>2, Zenon
    <2>2. Of(m) \subseteq 1 .. 5
      BY OwnPlaces
    <2> HIDE DEF Of
    <2> QED
      BY <2>1, <2>2, FS_Subset, FS_CardinalityType
  <1>4. DOMAIN pv = 1 .. 5
    BY OwnPlaces
  <1>5. \A i \in DOMAIN pv : DOMAIN pv[i] = CodecFields /\ pv[i].media \in MediaTypes
                            /\ pv[i].media = ipv[i].media
    <2>1. \A i \in DOMAIN ipv : ipv[i].media \in MediaTypes
      BY DEF internalPayloadVector_, MediaTypes, Media
    <2> QED
      BY <2>1 DEF CodecFields
  <1>6. IsVector(pv)
    <2>1. <<1, 2, 3, 4, 5>> \in Seq(Nat) /\ DOMAIN <<1, 2, 3, 4, 5>> = 1 .. 5
      OBVIOUS
    <2>2. IsVector(<<1, 2, 3, 4, 5>>)
      BY <2>1 DEF IsVector
    <2>3. pv = [i \in 1 .. 5 |-> pv[i]]
      BY OwnPlaces
    <2> HIDE DEF pv
    <2> QED
      BY <2>1, <2>2, <2>3, Rewritten
  <1>7. \A m \in Media : d.codecs[m] \in Nat
    BY DEF Shaped
  <1>8. \A m \in Media : {i \in DOMAIN pv : pv[i].media = m} = Of(m)
    BY <1>5
  <1> HIDE DEF pv, Of
  <1>9. c.codecs \in [Media -> Nat]
    BY <1>1, <1>3, <1>7
  <1>10. CodecsShaped(pv)
    BY <1>5, <1>6 DEF CodecsShaped
  <1>11. Shaped(e)
    BY <1>1, <1>2, <1>9, <1>10 DEF Shaped, SdpFields, SameBut, Dirs
  <1>12. CountsAll(e)
    <2>1. e.payloadVector = pv /\ e.codecs = c.codecs
      BY <1>1, <1>2 DEF SdpFields, SameBut
    <2>2. \A m \in Media : Entries(e, m) = Of(m)
      BY <1>8, <2>1 DEF Entries
    <2> QED
      BY <1>1, <1>3, <1>7, <2>1, <2>2 DEF CountsAll
  <1> QED
    BY <1>11, <1>12 DEF e, c

\* An answer takes codecs and numbers over together.
LEMMA AnswerShaped ==
  ASSUME NEW d, Shaped(d), NEW f, Shaped(f), CountsAll(f), NEW dir \in [Media -> Dirs], NEW x
  PROVE  LET e == [setOfferSdp(d, f, dir) EXCEPT !.ssrc = x]
         IN Shaped(e) /\ CountsAll(e)
  <1> DEFINE c == setOfferSdp(d, f, dir)
             e == [c EXCEPT !.ssrc = x]
  <1>1. /\ DOMAIN c = SdpFields /\ c.payloadVector = f.payloadVector /\ c.codecs = f.codecs
        /\ c.direction = dir /\ c.username = d.username /\ c.password = d.password
        /\ c.candidateVector = d.candidateVector
    BY DEF setOfferSdp, Shaped, SdpFields
  <1> HIDE DEF c
  <1>2. DOMAIN e = SdpFields /\ SameBut(e, c, {"ssrc"})
    BY <1>1 DEF SdpFields, SameBut
  <1> HIDE DEF e
  <1>3. Shaped(e)
    BY <1>1, <1>2 DEF Shaped, SdpFields, SameBut
  <1>4. e.codecs = f.codecs /\ e.payloadVector = f.payloadVector
    BY <1>1, <1>2 DEF SdpFields, SameBut
  <1>5. CountsAll(e)
    BY <1>4, CountsKept
  <1> QED
    BY <1>3, <1>5 DEF e, c

\* A list with as many entries as are counted has its blanks.
LEMMA Blanks ==
  ASSUME NEW d, Shaped(d), CountsAll(d), NEW m \in Media,
         NEW k \in DOMAIN PayloadList(d, m), NEW n \in DOMAIN PayloadList(d, m), k < n
  PROVE  PayloadList(d, m)[k].blank
  <1> DEFINE here == Entries(d, m)
             upTo == {j \in here : j <= k}
             fewer == Cardinality(upTo) < d.codecs[m]
  <1>1. /\ DOMAIN PayloadList(d, m) = here
        /\ PayloadList(d, m)[k] = [pt |-> d.payloadVector[k].pt, blank |-> fewer]
    BY DEF PayloadList, Entries
  <1>2. IsVector(d.payloadVector) /\ d.codecs[m] \in Nat
    BY DEF Shaped, CodecsShaped
  <1>3. IsFiniteSet(here) /\ Cardinality(here) \in Nat /\ Cardinality(here) <= d.codecs[m]
    BY <1>2, FiniteEntries DEF CountsAll
  <1>4. here \subseteq Nat
    BY <1>2, Appended DEF Entries
  <1>5. upTo \subseteq here /\ n \in here /\ n \notin upTo
    BY <1>1, <1>4
  <1> HIDE DEF here, upTo
  <1>6. Cardinality(upTo) < Cardinality(here) /\ Cardinality(upTo) \in Nat
    BY <1>3, <1>5, FS_Subset, FS_CardinalityType
  <1>7. fewer
    BY <1>2, <1>3, <1>6
  <1> HIDE DEF fewer
  <1>8. PayloadList(d, m)[k].blank = fewer
    BY <1>1
  <1> QED
    BY <1>7, <1>8, Zenon

-----------------------------------------------------------------------------
(***************************************************************************)
(* Feedback lines.                                                         *)
(***************************************************************************)
\* Their places in a text.
FeedbackAt(q, pt) == {i \in DOMAIN q : q[i].tag = "rtcp-fb" /\ q[i].pt = pt}

\* The n-th value is that of the n-th line.
Follows(v, q, pt) ==
  LET at == FeedbackAt(q, pt)
  IN /\ IsVector(v) /\ Len(v) = Cardinality(at)
     /\ \A i \in at : v[Cardinality({j \in at : j <= i})] = q[i].value

\* Feedback is not given out while the text is read.
NoFeedback(q) == \A i \in DOMAIN q : q[i].feedback = <<>>

\* The rank of a feedback line is one of the numbers of feedback lines.
LEMMA FeedbackPlaces ==
  ASSUME NEW q, IsVector(q), NEW pt
  PROVE  LET at == FeedbackAt(q, pt)
         IN /\ IsFiniteSet(at) /\ Cardinality(at) \in Nat /\ at \subseteq Nat
            /\ \A i \in at : Cardinality({j \in at : j <= i}) \in 1 .. Cardinality(at)
  <1> DEFINE at == FeedbackAt(q, pt)
  <1>1. Len(q) \in Nat /\ DOMAIN q = 1 .. Len(q)
    BY Appended
  <1>2. IsFiniteSet(1 .. Len(q))
    BY <1>1, FS_Interval
  <1>3. at \subseteq 1 .. Len(q) /\ at \subseteq Nat
    BY <1>1 DEF FeedbackAt
  <1> HIDE DEF at
  <1>4. IsFiniteSet(at) /\ Cardinality(at) \in Nat
    BY <1>2, <1>3, FS_Subset, FS_CardinalityType
  <1>5. ASSUME NEW i \in at
        PROVE  Cardinality({j \in at : j <= i}) \in 1 .. Cardinality(at)
    <2> DEFINE T == {j \in at : j <= i}
    <2>1. T \subseteq at /\ i \in T
      BY <1>3
    <2> HIDE DEF T
    <2>2. IsFiniteSet(T) /\ Cardinality(T) \in Nat /\ Cardinality(T) <= Cardinality(at)
      BY <1>4, <2>1, FS_Subset, FS_CardinalityType
    <2>3. Cardinality(T) # 0
      BY <2>1, <2>2, FS_EmptySet
    <2> QED
      BY <1>4, <2>2, <2>3 DEF T
  <1> QED
    BY <1>3, <1>4, <1>5 DEF at

\* Another line.
LEMMA FollowsOther ==
  ASSUME NEW v, NEW q, IsVector(q), NEW pt, Follows(v, q, pt),
         NEW l, ~(l.tag = "rtcp-fb" /\ l.pt = pt)
  PROVE  Follows(v, Append(q, l), pt)
  <1> DEFINE r == Append(q, l)
             n == Len(q) + 1
  <1>1. /\ DOMAIN q = 1 .. Len(q) /\ Len(q) \in Nat /\ DOMAIN r = 1 .. n /\ r[n] = l
        /\ \A i \in DOMAIN q : i \in DOMAIN r /\ r[i] = q[i]
    BY Appended
  <1>2. \A i \in DOMAIN r : i \in DOMAIN q \/ i = n
    BY <1>1
  <1> HIDE DEF r, n
  <1>3. FeedbackAt(r, pt) = FeedbackAt(q, pt)
    BY <1>1, <1>2 DEF FeedbackAt
  <1>4. \A i \in FeedbackAt(q, pt) : r[i].value = q[i].value
    BY <1>1 DEF FeedbackAt
  <1> QED
    BY <1>3, <1>4 DEF Follows, r

\* A line for this payload type.
LEMMA FollowsOne ==
  ASSUME NEW v, NEW q, IsVector(q), NEW pt, Follows(v, q, pt),
         NEW l, l.tag = "rtcp-fb", l.pt = pt
  PROVE  Follows(Append(v, l.value), Append(q, l), pt)
  <1> DEFINE r == Append(q, l)
             n == Len(q) + 1
             w == Append(v, l.value)
             at == FeedbackAt(q, pt)
             new == FeedbackAt(r, pt)
  <1>1. /\ DOMAIN q = 1 .. Len(q) /\ Len(q) \in Nat /\ DOMAIN r = 1 .. n /\ r[n] = l
        /\ \A i \in DOMAIN q : i \in DOMAIN r /\ r[i] = q[i]
    BY Appended
  <1>2. \A i \in DOMAIN r : i \in DOMAIN q \/ i = n
    BY <1>1
  <1>3. n \in DOMAIN r /\ n \notin DOMAIN q /\ n \in Nat /\ \A i \in DOMAIN q : i < n /\ i \in Nat
    BY <1>1
  <1>4. IsVector(v) /\ Len(v) = Cardinality(at)
    BY DEF Follows
  <1>5. /\ IsVector(w) /\ Len(v) \in Nat /\ DOMAIN v = 1 .. Len(v) /\ w[Len(v) + 1] = l.value
        /\ \A i \in DOMAIN v : w[i] = v[i]
    BY <1>4, Appended
  <1>6. Len(w) = Len(v) + 1
    BY <1>4 DEF IsVector
  <1> HIDE DEF r, n, w
  <1>7. new = at \cup {n} /\ n \notin at
    BY <1>1, <1>2, <1>3 DEF FeedbackAt
  <1>8. /\ IsFiniteSet(at) /\ Cardinality(at) \in Nat
        /\ \A i \in at : Cardinality({j \in at : j <= i}) \in 1 .. Cardinality(at)
    BY FeedbackPlaces
  <1>9. \A i \in at : i < n /\ i \in Nat /\ r[i] = q[i]
    BY <1>1, <1>3 DEF FeedbackAt
  <1>10. \A i \in at : v[Cardinality({j \in at : j <= i})] = q[i].value
    BY DEF Follows
  <1> HIDE DEF at, new
  <1>11. Cardinality(new) = Cardinality(at) + 1
    BY <1>7, <1>8, FS_AddElement
  <1>12. ASSUME NEW i \in new
         PROVE  w[Cardinality({j \in new : j <= i})] = r[i].value
    <2>1. CASE i = n
      <3>1. {j \in new : j <= i} = new
        BY <1>3, <1>7, <1>9, <2>1
      <3> QED
        BY <1>1, <1>4, <1>5, <1>11, <2>1, <3>1
    <2>2. CASE i # n
      <3>1. i \in at
        BY <1>7, <2>2
      <3>2. {j \in new : j <= i} = {j \in at : j <= i}
        BY <1>3, <1>7, <1>9, <3>1
      <3>3. Cardinality({j \in at : j <= i}) \in DOMAIN v
        BY <1>4, <1>5, <1>8, <3>1
      <3> QED
        BY <1>5, <1>9, <1>10, <3>1, <3>2, <3>3
    <2> QED
      BY <2>1, <2>2
  <1>13. Len(w) = Cardinality(new)
    BY <1>4, <1>6, <1>11
  <1> QED
    BY <1>5, <1>12, <1>13 DEF Follows, r, w, new

\* One turn of the loop: what is collected follows the text, and no codec has any yet.
LEMMA CollectedLine ==
  ASSUME NEW s, Reading(s), NEW q, IsVector(q), NEW l,
         \A pt : Follows(Given(s.feedback, pt), q, pt)
  PROVE  \A pt : Follows(Given(processLine(s, l).feedback, pt), Append(q, l), pt)
  <1> DEFINE r == processLine(s, l)
  <1> SUFFICES ASSUME NEW pt
               PROVE  Follows(Given(r.feedback, pt), Append(q, l), pt)
    OBVIOUS
  <1>1. CASE l.tag = "rtcp-fb"
    <2> DEFINE old == Given(s.feedback, l.pt)
    <2>1. r.feedback = Put(s.feedback, l.pt, Append(old, l.value))
      BY <1>1 DEF processLine, Media, Dirs, Reading
    <2> HIDE DEF r
    <2>2. Given(r.feedback, pt) = IF pt = l.pt THEN Append(Given(s.feedback, pt), l.value)
                                  ELSE Given(s.feedback, pt)
      BY <2>1 DEF Put, Given
    <2>3. CASE pt = l.pt
      BY <1>1, <2>2, <2>3, FollowsOne
    <2>4. CASE pt # l.pt
      BY <1>1, <2>2, <2>4, FollowsOther
    <2> QED
      BY <2>3, <2>4
  <1>2. CASE l.tag # "rtcp-fb"
    <2>1. r.feedback = s.feedback
      BY <1>2 DEF processLine, Reading
    <2> HIDE DEF r
    <2> QED
      BY <1>2, <2>1, FollowsOther
  <1> QED
    BY <1>1, <1>2

\* No line gives a codec feedback before the end of the text.
LEMMA NoneLine ==
  ASSUME NEW s, Reading(s), NoFeedback(s.sdp.payloadVector), NEW l
  PROVE  NoFeedback(processLine(s, l).sdp.payloadVector)
  <1> DEFINE r == processLine(s, l)
             q == s.sdp.payloadVector
  <1>1. CASE l.tag \notin {"rtpmap", "fmtp"}
    <2>1. r.sdp.payloadVector = q
      <3>1. CASE l.tag \in Media
        BY <3>1, SectionLine
      <3>2. CASE l.tag \in {"ice-ufrag", "ice-pwd"}
        BY <3>2, NameLine
      <3>3. CASE l.tag \notin Media \cup {"rtpmap", "fmtp", "ice-ufrag", "ice-pwd"}
        BY <3>3, PlainLine
      <3> QED
        BY <1>1, <3>1, <3>2, <3>3
    <2> QED
      BY <2>1
  <1>2. CASE l.tag = "fmtp"
    BY <1>2, FormatLine DEF NoFeedback, SameCodecs
  <1>3. CASE l.tag = "rtpmap"
    <2> DEFINE new == [pt |-> l.pt, codec |-> l.codec, media |-> s.mtype,
                       feedback |-> <<>>, format |-> <<>>]
    <2>1. r.sdp.payloadVector = q \/ r.sdp.payloadVector = Append(q, new)
      BY <1>3, CodecLine, ZenonT(60)
    <2>2. new.feedback = <<>>
      OBVIOUS
    <2>3. IsVector(q)
      BY DEF Reading, Shaped, CodecsShaped
    <2> HIDE DEF new, r
    <2>4. NoFeedback(Append(q, new))
      <3>1. /\ Len(q) \in Nat /\ DOMAIN q = 1 .. Len(q) /\ DOMAIN Append(q, new) = 1 .. Len(q) + 1
            /\ Append(q, new)[Len(q) + 1] = new
            /\ \A i \in DOMAIN q : Append(q, new)[i] = q[i]
        BY <2>3, Appended
      <3> QED
        BY <2>2, <3>1 DEF NoFeedback
    <2> QED
      BY <2>1, <2>4 DEF r
  <1> QED
    BY <1>1, <1>2, <1>3

\* The end of processSdp gives them out.
GivenOut(d, q) == \A i \in DOMAIN d.payloadVector :
                    Follows(d.payloadVector[i].feedback, q, d.payloadVector[i].pt)

\* Every codec gets those of its payload type.
LEMMA GivenFinish ==
  ASSUME NEW s, Reading(s), HasCredentials(s.sdp), NoFeedback(s.sdp.payloadVector), NEW q,
         \A pt : Follows(Given(s.feedback, pt), q, pt)
  PROVE  GivenOut(finishSdp(s), q)
  <1> DEFINE d == s.sdp
             e == finishSdp(s)
  <1>1. /\ SameCodecs(e.payloadVector, d.payloadVector)
        /\ \A i \in DOMAIN d.payloadVector :
             e.payloadVector[i].feedback
             = d.payloadVector[i].feedback \o Given(s.feedback, d.payloadVector[i].pt)
    BY Finished
  <1> HIDE DEF e
  <1>2. ASSUME NEW i \in DOMAIN d.payloadVector
        PROVE  e.payloadVector[i].feedback = Given(s.feedback, d.payloadVector[i].pt)
    <2> DEFINE v == Given(s.feedback, d.payloadVector[i].pt)
    <2>1. e.payloadVector[i].feedback = <<>> \o v
      BY <1>1 DEF NoFeedback
    <2>2. IsVector(v)
      BY DEF Follows
    <2> HIDE DEF v
    <2>3. PICK S : v \in Seq(S)
      BY <2>2 DEF IsVector
    <2>4. <<>> \o v = v
      BY <2>3, ConcatEmptySeq
    <2> QED
      BY <2>1, <2>4 DEF v
  <1> QED
    BY <1>1, <1>2 DEF GivenOut, SameCodecs, e

-----------------------------------------------------------------------------
(***************************************************************************)
(* The invariant.                                                          *)
(***************************************************************************)
\* What the peer offered: the maps agree and its codecs are counted.
MapsInv == Reading(st) /\ Agreed(st.sdp) /\ CountsAll(st.sdp)
\* What this client keeps: its codecs are counted.
LocalInv == Shaped(local) /\ CountsAll(local)
\* The credentials are those of the text, and from setRemoteSdp on every candidate has its own.
NamesInv ==
  /\ Placed(text, st.mtype)
  /\ phase = "text" => /\ NamesFrom(text, "ice-ufrag", st.sdp.username)
                       /\ NamesFrom(text, "ice-pwd", st.sdp.password)
  /\ phase = "set" /\ HasCredentials(st.sdp) => NamesSet(st.sdp, text) /\ CandsNamed(st.sdp)
\* The feedback lines wait in their order, and are then with their codecs.
FeedbackInv ==
  /\ phase = "text" => /\ \A pt : Follows(Given(st.feedback, pt), text, pt)
                       /\ NoFeedback(st.sdp.payloadVector)
  /\ phase = "set" /\ HasCredentials(st.sdp) => GivenOut(st.sdp, text)

SdpInv ==
  /\ phase \in {"text", "set"} /\ transports \subseteq Media
  /\ MapsInv /\ LocalInv /\ NamesInv /\ FeedbackInv

\* A new description has nothing that could be wrong.
LEMMA NewShaped == Shaped(NewSdpInfo) /\ Agreed(NewSdpInfo) /\ CountsAll(NewSdpInfo)
  <1> DEFINE d == NewSdpInfo
  <1>1. /\ DOMAIN d = SdpFields /\ d.payloadVector = <<>> /\ d.candidateVector = <<>>
        /\ d.inOutPTMap = <<>> /\ d.outInPTMap = <<>>
        /\ d.codecs = [m \in Media |-> 0] /\ d.direction = [m \in Media |-> "?"]
        /\ d.username = [m \in Media |-> ""] /\ d.password = [m \in Media |-> ""]
    BY DEF NewSdpInfo, SdpFields
  <1>2. <<>> \in Seq({}) /\ DOMAIN <<>> = {}
    OBVIOUS
  <1>3. CodecsShaped(<<>>) /\ CandsShaped(<<>>)
    BY <1>2 DEF CodecsShaped, CandsShaped, IsVector
  <1> HIDE DEF d
  <1>4. Shaped(d)
    <2>1. d.direction \in [Media -> Dirs \cup {"?"}]
      BY <1>1
    <2>11. d.codecs \in [Media -> Nat]
      <3>1. [m \in Media |-> 0] \in [Media -> Nat]
        OBVIOUS
      <3> QED
        BY <1>1, <3>1, Zenon
    <2>2. DOMAIN d.username = Media /\ DOMAIN d.password = Media
      BY <1>1
    <2>3. CodecsShaped(d.payloadVector) /\ CandsShaped(d.candidateVector)
      BY <1>1, <1>3
    <2> QED
      BY <1>1, <2>1, <2>11, <2>2, <2>3 DEF Shaped
  <1>5. Agreed(d)
    BY <1>1, <1>2 DEF Agreed
  <1>6. \A m \in Media : Entries(d, m) = {} /\ d.codecs[m] = 0
    BY <1>1, <1>2 DEF Entries
  <1>7. Cardinality({}) = 0
    BY FS_EmptySet
  <1>8. CountsAll(d)
    BY <1>6, <1>7 DEF CountsAll
  <1> QED
    BY <1>4, <1>5, <1>8 DEF d

\* A connection starts in the invariant.
LEMMA SdpInit == Init => SdpInv
  <1> SUFFICES ASSUME Init PROVE SdpInv
    OBVIOUS
  <1>1. /\ DOMAIN st = {"sdp", "mtype", "mlineNum", "feedback"}
        /\ st.sdp = NewSdpInfo /\ st.mtype = "other"
    BY DEF Init, Start
  <1>2. MapsInv
    BY <1>1, NewShaped DEF MapsInv, Reading, MediaTypes
  <1>3. LocalInv
    BY NewShaped DEF LocalInv, Init
  <1>4. text = <<>> /\ Len(<<>>) = 0 /\ DOMAIN <<>> = {} /\ <<>> \in Seq({})
    BY DEF Init
  <1>5. SectionOf(<<>>, 0) = "session"
    BY DEF SectionOf
  <1>6. Placed(text, st.mtype)
    BY <1>1, <1>4, <1>5 DEF Placed, InSection, IsVector
  <1>7. \A t, sec : ValuesIn(<<>>, t, sec) = {}
    BY <1>4 DEF ValuesIn
  <1>8. \A m \in Media : NewSdpInfo.username[m] = "" /\ NewSdpInfo.password[m] = ""
    BY DEF NewSdpInfo
  <1>9. NamesInv
    BY <1>1, <1>4, <1>6, <1>7, <1>8 DEF NamesInv, NamesFrom, Source, Init
  <1>10. FeedbackInv
    <2>1. \A pt : FeedbackAt(<<>>, pt) = {}
      BY <1>4 DEF FeedbackAt
    <2>2. Cardinality({}) = 0
      BY FS_EmptySet
    <2>3. \A pt : Given(st.feedback, pt) = <<>>
      BY <1>4 DEF Given, Init, Start
    <2>4. \A pt : Follows(<<>>, <<>>, pt)
      BY <1>4, <2>1, <2>2 DEF Follows, IsVector
    <2>5. st.sdp.payloadVector = <<>>
      <3>1. NewSdpInfo.payloadVector = <<>>
        BY DEF NewSdpInfo
      <3> QED
        BY <1>1, <3>1
    <2>6. NoFeedback(<<>>)
      BY <1>4 DEF NoFeedback
    <2> QED
      BY <1>4, <2>3, <2>4, <2>5, <2>6 DEF FeedbackInv, Init
  <1> QED
    BY <1>2, <1>3, <1>9, <1>10 DEF SdpInv, Init

\* getLocalSdp.
LEMMA LocalStep ==
  ASSUME NEW d, Shaped(d), CountsAll(d), NEW ts, NEW b, getLocalSdp(d, ts, b)
  PROVE  LocalInv'
  BY LocalKeeps DEF getLocalSdp, LocalInv

\* A line of the peer.
LEMMA ReadStep ==
  ASSUME SdpInv, NEW l, ReadLine(l)
  PROVE  SdpInv'
  <1>1. /\ phase = "text" /\ phase' = phase /\ text' = Append(text, l) /\ st' = processLine(st, l)
        /\ local' = local /\ transports' = transports
    BY DEF ReadLine
  <1>2. Reading(st) /\ Agreed(st.sdp) /\ CountsAll(st.sdp) /\ Placed(text, st.mtype)
    BY DEF SdpInv, MapsInv, NamesInv
  <1>3. MapsInv'
    BY <1>1, <1>2, AgreedLine DEF MapsInv
  <1>4. Placed(text, st.mtype)'
    BY <1>1, <1>2, PlacedLine
  <1>5. /\ NamesFrom(text, "ice-ufrag", st.sdp.username)
        /\ NamesFrom(text, "ice-pwd", st.sdp.password)
    BY <1>1 DEF SdpInv, NamesInv
  <1>6. /\ NamesFrom(Append(text, l), "ice-ufrag", processLine(st, l).sdp.username)
        /\ NamesFrom(Append(text, l), "ice-pwd", processLine(st, l).sdp.password)
    BY <1>2, <1>5, NamesLine
  <1>7. NamesInv'
    BY <1>1, <1>4, <1>6 DEF NamesInv
  <1>8. /\ \A pt : Follows(Given(st.feedback, pt), text, pt)
        /\ NoFeedback(st.sdp.payloadVector)
    BY <1>1 DEF SdpInv, FeedbackInv
  <1>9. \A pt : Follows(Given(processLine(st, l).feedback, pt), Append(text, l), pt)
    BY <1>2, <1>8, CollectedLine DEF Placed
  <1>10. NoFeedback(processLine(st, l).sdp.payloadVector)
    BY <1>2, <1>8, NoneLine
  <1>11. FeedbackInv'
    BY <1>1, <1>9, <1>10 DEF FeedbackInv
  <1> QED
    BY <1>1, <1>3, <1>7, <1>11 DEF SdpInv, LocalInv

\* setRemoteSdp.
LEMMA RemoteStep ==
  ASSUME SdpInv, NEW dir \in [Media -> Dirs], setRemoteSdp(dir)
  PROVE  SdpInv'
  <1> DEFINE e == finishSdp(st)
             x == [m \in Media |-> Default(m)]
             d == [setOfferSdp(local, e, dir) EXCEPT !.ssrc = x]
  <1>1. /\ phase = "text" /\ phase' = "set" /\ text' = text /\ Paired
        /\ st' = [st EXCEPT !.sdp = e]
        /\ transports' \subseteq Media
        /\ getLocalSdp(d, transports', e.isBundle)
    BY DEF setRemoteSdp, SdpInv
  <1>2. Reading(st) /\ Agreed(st.sdp) /\ CountsAll(st.sdp)
    BY DEF SdpInv, MapsInv
  <1>3. Shaped(e) /\ Agreed(e) /\ CountsAll(e)
    BY <1>2, AgreedFinish
  <1> HIDE DEF e, x
  <1>4. st'.sdp = e /\ st'.mtype = st.mtype /\ DOMAIN st' = DOMAIN st
    BY <1>1, <1>2 DEF Reading
  <1>5. MapsInv'
    BY <1>2, <1>3, <1>4 DEF MapsInv, Reading
  <1>6. Shaped(d) /\ CountsAll(d)
    BY <1>3, AnswerShaped DEF SdpInv, LocalInv
  <1> HIDE DEF d
  <1>7. LocalInv'
    BY <1>1, <1>6, LocalStep
  <1>8. NamesInv'
    <2>1. CASE HasCredentials(st.sdp)
      <3>1. NamesSet(e, text) /\ CandsNamed(e)
        BY <1>1, <1>2, <2>1, NamesFinish DEF SdpInv, NamesInv, e
      <3> QED
        BY <1>1, <1>4, <3>1 DEF NamesInv, SdpInv
    <2>2. CASE ~HasCredentials(st.sdp)
      <3>1. e = st.sdp
        BY <2>2 DEF finishSdp, e
      <3> QED
        BY <1>1, <1>4, <2>2, <3>1 DEF NamesInv, SdpInv
    <2> QED
      BY <2>1, <2>2
  <1>9. FeedbackInv'
    <2>1. CASE HasCredentials(st.sdp)
      <3>1. GivenOut(e, text)
        BY <1>1, <1>2, <2>1, GivenFinish DEF SdpInv, FeedbackInv, e
      <3> QED
        BY <1>1, <1>4, <3>1 DEF FeedbackInv
    <2>2. CASE ~HasCredentials(st.sdp)
      <3>1. e = st.sdp
        BY <2>2 DEF finishSdp, e
      <3> QED
        BY <1>1, <1>4, <2>2, <3>1 DEF FeedbackInv
    <2> QED
      BY <2>1, <2>2
  <1> QED
    BY <1>1, <1>5, <1>7, <1>8, <1>9 DEF SdpInv

\* createOffer.
LEMMA OfferStep ==
  ASSUME SdpInv, createOffer
  PROVE  SdpInv'
  <1> DEFINE x == [m \in Media |-> Default(m)]
             d == [createOfferSdp(local) EXCEPT !.ssrc = x]
  <1>1. /\ phase' = phase /\ text' = text /\ st' = st /\ transports' = {"video"}
        /\ getLocalSdp(d, transports', TRUE)
    BY DEF createOffer
  <1> HIDE DEF x
  <1>2. Shaped(d) /\ CountsAll(d)
    BY OfferShaped DEF SdpInv, LocalInv
  <1> HIDE DEF d
  <1>3. LocalInv'
    BY <1>1, <1>2, LocalStep
  <1> QED
    BY <1>1, <1>3 DEF SdpInv, MapsInv, NamesInv, FeedbackInv, Media

\* getLocalSdp.
LEMMA AskStep ==
  ASSUME SdpInv, GetLocalSdp
  PROVE  SdpInv'
  <1>1. LocalInv'
    BY LocalStep DEF GetLocalSdp, SdpInv, LocalInv
  <1> QED
    BY <1>1 DEF SdpInv, MapsInv, NamesInv, FeedbackInv, GetLocalSdp

\* onCandidate.
LEMMA FoundStep ==
  ASSUME SdpInv, NEW m \in Media, NEW c, onCandidate(m, c)
  PROVE  SdpInv'
  <1> DEFINE q == local.candidateVector
             new == Candidate(c, m)
  <1>1. /\ phase' = phase /\ text' = text /\ st' = st /\ transports' = transports
        /\ local' = [local EXCEPT !.candidateVector = Append(q, new)]
    BY DEF onCandidate
  <1>2. Shaped(local) /\ CountsAll(local)
    BY DEF SdpInv, LocalInv
  <1>3. DOMAIN new = CandFields /\ new.media \in MediaTypes
    BY DEF Candidate, CandFields, MediaTypes
  <1> HIDE DEF new
  <1>4. CandsShaped(Append(q, new))
    BY <1>2, <1>3, Appended DEF Shaped, CandsShaped
  <1>5. /\ DOMAIN local' = SdpFields /\ local'.candidateVector = Append(q, new)
        /\ \A f \in SdpFields \ {"candidateVector"} : local'[f] = local[f]
    BY <1>1, <1>2 DEF Shaped, SdpFields
  <1>6. Shaped(local')
    BY <1>2, <1>4, <1>5 DEF Shaped, SdpFields
  <1>7. local'.codecs = local.codecs /\ local'.payloadVector = local.payloadVector
    BY <1>5 DEF SdpFields
  <1>8. CountsAll(local')
    BY <1>2, <1>7, CountsKept
  <1> QED
    BY <1>1, <1>6, <1>8 DEF SdpInv, MapsInv, NamesInv, FeedbackInv, LocalInv

\* The lookup that a RED packet causes adds entries to inOutPTMap and changes none.
LEMMA RedStep ==
  ASSUME SdpInv, deliverRed
  PROVE  SdpInv'
  <1> DEFINE e == supportPayloadType(st.sdp, RED_90000_PT)
  <1>1. /\ phase' = phase /\ text' = text /\ transports' = transports /\ local' = local
        /\ phase = "set" /\ st' = [st EXCEPT !.sdp = e]
    BY DEF deliverRed, remote
  <1>2. Reading(st) /\ Agreed(st.sdp) /\ CountsAll(st.sdp)
    BY DEF SdpInv, MapsInv
  <1>3. Shaped(e) /\ Agreed(e) /\ CountsAll(e) /\ SameBut(e, st.sdp, {"inOutPTMap"})
    BY <1>2, AgreedLookup DEF Reading
  <1> HIDE DEF e
  <1>4. st'.sdp = e /\ st'.mtype = st.mtype /\ DOMAIN st' = DOMAIN st
    BY <1>1, <1>2 DEF Reading
  <1>5. MapsInv'
    BY <1>2, <1>3, <1>4 DEF MapsInv, Reading
  <1>6. /\ e.username = st.sdp.username /\ e.password = st.sdp.password
        /\ e.candidateVector = st.sdp.candidateVector
    BY <1>3 DEF SameBut, SdpFields
  <1>7. ASSUME HasCredentials(e)
        PROVE  NamesSet(e, text) /\ CandsNamed(e)
    <2>1. HasCredentials(st.sdp)
      BY <1>6, <1>7 DEF HasCredentials
    <2>2. NamesSet(st.sdp, text) /\ CandsNamed(st.sdp)
      BY <1>1, <2>1 DEF SdpInv, NamesInv
    <2>3. NamesSet(e, text)
      BY <1>6, <2>2 DEF NamesSet
    <2>4. CandsNamed(e)
      BY <1>6, <2>2 DEF CandsNamed
    <2> QED
      BY <2>3, <2>4
  <1>8. NamesInv'
    BY <1>1, <1>4, <1>7 DEF SdpInv, NamesInv
  <1>9. e.payloadVector = st.sdp.payloadVector
    BY <1>3 DEF SameBut, SdpFields
  <1>10. FeedbackInv'
    BY <1>1, <1>4, <1>6, <1>9 DEF SdpInv, FeedbackInv, HasCredentials, GivenOut
  <1> QED
    BY <1>1, <1>5, <1>8, <1>10 DEF SdpInv, LocalInv

\* Sequences one after the other.
LEMMA Joint ==
  ASSUME NEW q, IsVector(q), NEW r, IsVector(r)
  PROVE  /\ IsVector(q \o r)
         /\ \A i \in DOMAIN (q \o r) : \/ i \in DOMAIN q /\ (q \o r)[i] = q[i]
                                      \/ \E j \in DOMAIN r : (q \o r)[i] = r[j]
  <1>1. PICK S : q \in Seq(S)
    BY DEF IsVector
  <1>2. PICK T : r \in Seq(T)
    BY DEF IsVector
  <1>3. q \in Seq(S \cup T) /\ r \in Seq(S \cup T)
    BY <1>1, <1>2
  <1>4. q \o r \in Seq(S \cup T)
    BY <1>3
  <1>5. /\ Len(q) \in Nat /\ Len(r) \in Nat /\ DOMAIN q = 1 .. Len(q) /\ DOMAIN r = 1 .. Len(r)
        /\ Len(q \o r) = Len(q) + Len(r) /\ DOMAIN (q \o r) = 1 .. Len(q \o r)
        /\ \A i \in 1 .. Len(q) + Len(r) :
             (q \o r)[i] = IF i <= Len(q) THEN q[i] ELSE r[i - Len(q)]
    BY <1>3
  <1>6. ASSUME NEW i \in DOMAIN (q \o r), i \notin DOMAIN q
        PROVE  \E j \in DOMAIN r : (q \o r)[i] = r[j]
    <2>1. i - Len(q) \in DOMAIN r /\ (q \o r)[i] = r[i - Len(q)]
      BY <1>5, <1>6
    <2> QED
      BY <2>1
  <1>7. \A i \in DOMAIN q : i \in DOMAIN (q \o r) => (q \o r)[i] = q[i]
    BY <1>5
  <1> QED
    BY <1>4, <1>6, <1>7 DEF IsVector

\* A candidate sent by itself carries the credentials it was given.
Prepared(ours, u, p) ==
  /\ Shaped(ours) /\ ours.candidateVector = <<>>
  /\ \A x \in Media : ours.username[x] = u /\ ours.password[x] = p
Carries(q, m, u, p) ==
  /\ CandsShaped(q)
  /\ u # "" => \A k \in DOMAIN q : q[k].media = m /\ q[k].username = u /\ q[k].password = p

\* processSdp of the one line that addRemoteCandidate hands to it.
LEMMA AloneNamed ==
  ASSUME NEW m \in Media, NEW l, l.tag = "candidate", NEW u, NEW p, NEW ours, Prepared(ours, u, p)
  PROVE  Carries(finishSdp(processLine(Start(ours, m), l)).candidateVector, m, u, p)
  <1> DEFINE s == Start(ours, m)
             r == processLine(s, l)
             temp == finishSdp(r)
  <1>1. \A x \in Media : ours.username[x] = u /\ ours.password[x] = p
    BY DEF Prepared
  <1>2. Shaped(ours) /\ DOMAIN ours = SdpFields
    BY DEF Shaped, Prepared
  <1>3. ours.candidateVector = <<>>
    BY DEF Prepared
  <1>4. s.sdp = ours /\ s.mtype = m /\ DOMAIN s = {"sdp", "mtype", "mlineNum", "feedback"}
    BY DEF Start
  <1>5. Reading(s)
    BY <1>2, <1>4 DEF Reading, MediaTypes
  <1> HIDE DEF s
  <1>6. Reading(r) /\ SameNames(r.sdp, ours)
    BY <1>4, <1>5, PlainLine DEF Media
  <1>7. r.sdp = processCandidate(ours, l, m)
    BY <1>4, <1>5 DEF processLine, Media, Dirs, Reading
  <1>8. \A k \in DOMAIN r.sdp.candidateVector : r.sdp.candidateVector[k].media = m
    <2>1. CASE l.proto = "udp"
      <3>1. r.sdp.candidateVector = Append(<<>>, Candidate(l, m))
        BY <1>2, <1>3, <1>7, <2>1 DEF processCandidate, SdpFields
      <3>2. IsVector(<<>>) /\ Len(<<>>) = 0
        BY DEF IsVector
      <3>3. DOMAIN Append(<<>>, Candidate(l, m)) = 1 .. 1
            /\ Append(<<>>, Candidate(l, m))[1] = Candidate(l, m)
        BY <3>2, Appended
      <3>4. Candidate(l, m).media = m
        BY DEF Candidate
      <3> QED
        BY <3>1, <3>3, <3>4
    <2>2. CASE l.proto # "udp"
      BY <1>3, <1>7, <2>2 DEF processCandidate
    <2> QED
      BY <2>1, <2>2
  <1> HIDE DEF r
  <1>9. CASE u # ""
    <2>1. /\ \A x \in Media : r.sdp.username[x] = u /\ r.sdp.password[x] = p
          /\ "audio" \in Media /\ "video" \in Media
      BY <1>1, <1>6 DEF SameNames, Media
    <2>2. HasCredentials(r.sdp)
      BY <1>9, <2>1 DEF HasCredentials
    <2>3. SameNames(Credentials(r.sdp), r.sdp)
      BY <1>6, <1>9, <2>1, <2>2, CredentialsKeep DEF Reading
    <2>4. /\ Shaped(temp) /\ SameNames(temp, Credentials(r.sdp)) /\ CandsNamed(temp)
          /\ DOMAIN temp.candidateVector = DOMAIN r.sdp.candidateVector
          /\ \A k \in DOMAIN r.sdp.candidateVector :
               temp.candidateVector[k].media = r.sdp.candidateVector[k].media
      BY <1>6, <2>2, Finished
    <2> HIDE DEF temp
    <2>5. \A x \in Media : temp.username[x] = u /\ temp.password[x] = p
      BY <2>1, <2>3, <2>4 DEF SameNames
    <2>6. Counted(m) \in Media
      BY DEF Counted, Media
    <2>7. \A k \in DOMAIN temp.candidateVector :
            /\ temp.candidateVector[k].media = m
            /\ temp.candidateVector[k].username = u
            /\ temp.candidateVector[k].password = p
      BY <1>8, <2>4, <2>5, <2>6 DEF CandsNamed
    <2> QED
      BY <2>4, <2>7 DEF Shaped, Carries, temp, r, s
  <1>10. CASE u = ""
    <2>1. ~HasCredentials(r.sdp)
      BY <1>1, <1>6, <1>10 DEF HasCredentials, SameNames
    <2>2. CandsShaped(temp.candidateVector)
      BY <1>6, <2>1 DEF finishSdp, Reading, Shaped
    <2> HIDE DEF temp
    <2> QED
      BY <1>10, <2>2 DEF Carries, temp, r, s
  <1> QED
    BY <1>9, <1>10

\* addRemoteCandidate.
LEMMA TrickleStep ==
  ASSUME SdpInv, NEW m \in Media, NEW l \in Trickled, addRemoteCandidate(m, l)
  PROVE  SdpInv'
  <1> DEFINE u == st.sdp.username[m]
             p == st.sdp.password[m]
             ours == [NewSdpInfo EXCEPT !.username = [x \in Media |-> u],
                                        !.password = [x \in Media |-> p]]
             temp == finishSdp(processLine(Start(ours, m), l))
             q == st.sdp.candidateVector
             r == temp.candidateVector
             e == [st.sdp EXCEPT !.candidateVector = q \o r]
  <1>1. /\ phase' = phase /\ text' = text /\ transports' = transports /\ local' = local
        /\ phase = "set" /\ st' = [st EXCEPT !.sdp = e]
    BY DEF addRemoteCandidate, remote
  <1>2. Reading(st) /\ Agreed(st.sdp) /\ CountsAll(st.sdp)
    BY DEF SdpInv, MapsInv
  <1>3. l.tag = "candidate"
    BY SdpAssumption
  <1>4. /\ CandsShaped(r)
        /\ st.sdp.username[m] # "" => \A k \in DOMAIN r :
             /\ r[k].media = m /\ r[k].username = st.sdp.username[m]
             /\ r[k].password = st.sdp.password[m]
    <2>1. /\ DOMAIN ours = SdpFields /\ SameBut(ours, NewSdpInfo, {"username", "password"})
          /\ ours.username = [x \in Media |-> u] /\ ours.password = [x \in Media |-> p]
      BY NewShaped DEF Shaped, SdpFields, SameBut
    <2> HIDE DEF u, p, ours
    <2>2. Shaped(ours)
      BY <2>1, NewShaped DEF Shaped, SdpFields, SameBut
    <2>3. /\ ours.candidateVector = <<>>
          /\ \A x \in Media : ours.username[x] = u /\ ours.password[x] = p
      BY <2>1 DEF SameBut, SdpFields, NewSdpInfo
    <2>4. Carries(r, m, u, p)
      BY <1>3, <2>2, <2>3, AloneNamed DEF Prepared
    <2> QED
      BY <2>4 DEF Carries, u, p
  <1> HIDE DEF ours, temp, r
  <1>5. DOMAIN e = SdpFields /\ SameBut(e, st.sdp, {"candidateVector"}) /\ e.candidateVector = q \o r
    BY <1>2 DEF Reading, Shaped, SdpFields, SameBut
  <1>6. CandsShaped(q)
    BY <1>2 DEF Reading, Shaped
  <1> HIDE DEF e, q
  <1>7. /\ IsVector(q \o r)
        /\ \A i \in DOMAIN (q \o r) : \/ i \in DOMAIN q /\ (q \o r)[i] = q[i]
                                     \/ \E j \in DOMAIN r : (q \o r)[i] = r[j]
    <2>1. IsVector(q) /\ IsVector(r)
      BY <1>4, <1>6 DEF CandsShaped
    <2> QED
      BY <2>1, Joint
  <1>8. CandsShaped(q \o r)
    <2> DEFINE Fits(c) == DOMAIN c = CandFields /\ c.media \in MediaTypes
    <2>1. (\A i \in DOMAIN q : Fits(q[i])) /\ (\A j \in DOMAIN r : Fits(r[j]))
      BY <1>4, <1>6 DEF CandsShaped
    <2> HIDE DEF Fits
    <2>2. ASSUME NEW i \in DOMAIN (q \o r) PROVE Fits((q \o r)[i])
      <3>1. CASE i \in DOMAIN q /\ (q \o r)[i] = q[i]
        BY <2>1, <3>1
      <3>2. CASE \E j \in DOMAIN r : (q \o r)[i] = r[j]
        BY <2>1, <3>2
      <3> QED
        BY <1>7, <3>1, <3>2
    <2> QED
      BY <1>7, <2>2 DEF CandsShaped, Fits
  <1>9. Shaped(e)
    BY <1>2, <1>5, <1>8 DEF Reading, Shaped, SdpFields, SameBut
  <1>10. /\ SameMaps(e, st.sdp) /\ e.payloadVector = st.sdp.payloadVector
         /\ e.username = st.sdp.username /\ e.password = st.sdp.password
    BY <1>5 DEF SameBut, SdpFields, SameMaps
  <1>11. SameCodecs(e.payloadVector, st.sdp.payloadVector)
    BY <1>10 DEF SameCodecs
  <1>12. Agreed(e) /\ CountsAll(e)
    BY <1>2, <1>10, <1>11, AgreedKept
  <1>13. st'.sdp = e /\ st'.mtype = st.mtype /\ DOMAIN st' = DOMAIN st
    BY <1>1, <1>2 DEF Reading
  <1>14. MapsInv'
    BY <1>2, <1>9, <1>12, <1>13 DEF MapsInv, Reading
  <1>15. ASSUME HasCredentials(e)
         PROVE  NamesSet(e, text) /\ CandsNamed(e)
    <2>1. HasCredentials(st.sdp)
      BY <1>10, <1>15 DEF HasCredentials
    <2>2. NamesSet(st.sdp, text) /\ CandsNamed(st.sdp)
      BY <1>1, <2>1 DEF SdpInv, NamesInv
    <2>3. NamesSet(e, text)
      BY <1>10, <2>2 DEF NamesSet
    <2>4. st.sdp.username[m] # "" /\ Counted(m) = m
      BY <2>2 DEF NamesSet, Counted, Media
    <2>5. \A k \in DOMAIN r : /\ r[k].username = e.username[Counted(r[k].media)]
                              /\ r[k].password = e.password[Counted(r[k].media)]
      BY <1>4, <1>10, <2>4
    <2>6. \A k \in DOMAIN q : /\ q[k].username = e.username[Counted(q[k].media)]
                              /\ q[k].password = e.password[Counted(q[k].media)]
      BY <1>10, <2>2 DEF CandsNamed, q
    <2>7. CandsNamed(e)
      BY <1>5, <1>7, <2>5, <2>6 DEF CandsNamed
    <2> QED
      BY <2>3, <2>7
  <1>16. NamesInv'
    BY <1>1, <1>13, <1>15 DEF SdpInv, NamesInv
  <1>17. FeedbackInv'
    BY <1>1, <1>10, <1>13 DEF SdpInv, FeedbackInv, HasCredentials, GivenOut
  <1> QED
    BY <1>1, <1>14, <1>16, <1>17 DEF SdpInv, LocalInv

\* Every action preserves the invariant.
LEMMA SdpNext == SdpInv /\ [Next]_vars => SdpInv'
  <1> SUFFICES ASSUME SdpInv, [Next]_vars PROVE SdpInv'
    OBVIOUS
  <1>1. CASE createOffer
    BY <1>1, OfferStep
  <1>2. CASE \E l \in Lines : ReadLine(l)
    BY <1>2, ReadStep
  <1>3. CASE \E dir \in [Media -> Dirs] : setRemoteSdp(dir)
    BY <1>3, RemoteStep
  <1>4. CASE \E m \in Media, l \in Trickled : addRemoteCandidate(m, l)
    BY <1>4, TrickleStep
  <1>5. CASE \E m \in Media, c \in LocalCands : onCandidate(m, c)
    BY <1>5, FoundStep
  <1>6. CASE GetLocalSdp
    BY <1>6, AskStep
  <1>7. CASE deliverRed
    BY <1>7, RedStep
  <1>8. CASE UNCHANGED vars
    BY <1>8 DEF vars, SdpInv, MapsInv, LocalInv, NamesInv, FeedbackInv
  <1> QED
    BY <1>1, <1>2, <1>3, <1>4, <1>5, <1>6, <1>7, <1>8 DEF Next

\* The invariant holds in every reachable state.
LEMMA SdpInvariant == Spec => []SdpInv
  BY SdpInit, SdpNext, PTL DEF Spec

-----------------------------------------------------------------------------
\* getInternalPT and getExternalPT undo each other for every codec both sides know, whatever
\* numbers the peer gave in its a=rtpmap lines and in whatever order, and although
\* supportPayloadType adds entries to the map while packets are delivered.
THEOREM NumbersTranslated == Spec => []PayloadTypesAgree
  <1>1. SdpInv => PayloadTypesAgree
    <2> SUFFICES ASSUME SdpInv, Unambiguous(remote),
                        NEW i \in DOMAIN remote.payloadVector,
                        NEW k \in DOMAIN internalPayloadVector_,
                        remote.payloadVector[i].codec = internalPayloadVector_[k].codec
                 PROVE  /\ getInternalPT(remote, remote.payloadVector[i].pt) = internalPayloadVector_[k].pt
                        /\ getExternalPT(remote, internalPayloadVector_[k].pt) = remote.payloadVector[i].pt
      BY DEF PayloadTypesAgree
    <2>1. Agreed(remote)
      BY DEF SdpInv, MapsInv, remote
    <2>2. /\ remote.outInPTMap[remote.payloadVector[i].pt] = internalPayloadVector_[k].pt
          /\ internalPayloadVector_[k].pt \in DOMAIN remote.inOutPTMap
          /\ remote.inOutPTMap[internalPayloadVector_[k].pt] = remote.payloadVector[i].pt
          /\ remote.payloadVector[i].pt \in DOMAIN remote.outInPTMap
      BY <2>1 DEF Agreed
    <2> QED
      BY <2>2 DEF getInternalPT, getExternalPT
  <1> QED
    BY <1>1, SdpInvariant, PTL

\* The m= line that getSdp writes for this client's offer or answer has a blank after every
\* payload type but the last, since videoCodecs and audioCodecs count the entries of
\* payloadVector wherever they came from.
THEOREM ListsReadable == Spec => []PayloadListReadable
  <1>1. SdpInv => TypeOK
    <2> SUFFICES ASSUME SdpInv PROVE TypeOK
      OBVIOUS
    <2>1. /\ Shaped(st.sdp) /\ Shaped(local) /\ st.mtype \in MediaTypes
          /\ DOMAIN st.sdp.outInPTMap
             = {st.sdp.payloadVector[i].pt : i \in DOMAIN st.sdp.payloadVector}
      BY DEF SdpInv, MapsInv, LocalInv, Reading, Agreed
    <2>2. ASSUME NEW sdp, Shaped(sdp)
          PROVE  /\ \A m \in Media : sdp.direction[m] \in Dirs \cup {"?"} /\ sdp.codecs[m] \in Nat
                 /\ \A i \in DOMAIN sdp.payloadVector : sdp.payloadVector[i].media \in MediaTypes
                 /\ \A i \in DOMAIN sdp.candidateVector : sdp.candidateVector[i].media \in MediaTypes
      BY <2>2 DEF Shaped, CodecsShaped, CandsShaped
    <2> QED
      BY <2>1, <2>2 DEF TypeOK, SdpInv, remote, MediaTypes
  <1>2. SdpInv => \A m \in Media : \A k, n \in DOMAIN PayloadList(local, m) :
                    k < n => PayloadList(local, m)[k].blank
    BY Blanks DEF SdpInv, LocalInv
  <1>3. SdpInv => PayloadListReadable
    BY <1>1, <1>2 DEF PayloadListReadable
  <1> QED
    BY <1>3, SdpInvariant, PTL

\* processSdp gives every candidate the credentials of its section, or some that the peer
\* wrote, with their password, also those that addRemoteCandidate adds later.
THEOREM CredentialsFound == Spec => []CandidatesCredentialed
  <1>1. SdpInv => CandidatesCredentialed
    <2> SUFFICES ASSUME SdpInv, phase = "set", HasCredentials(st.sdp)
                 PROVE  CandidatesCredentialed
      BY DEF CandidatesCredentialed, remote
    <2> DEFINE Users(sections) == {text[i].value : i \in {i \in DOMAIN text :
                                 text[i].tag = "ice-ufrag" /\ SectionOf(text, i) \in sections}}
    <2>1. NamesSet(st.sdp, text) /\ CandsNamed(st.sdp) /\ Placed(text, st.mtype)
      BY DEF SdpInv, NamesInv
    <2>2. CandsShaped(st.sdp.candidateVector)
      BY DEF SdpInv, MapsInv, Reading, Shaped
    <2>3. \A m : Users({m}) = ValuesIn(text, "ice-ufrag", m)
      BY DEF ValuesIn
    <2>4. Users(SectionNames) = AllValues(text, "ice-ufrag")
      BY DEF AllValues, ValuesIn
    <2>5. Users({"other"}) = {}
      BY <2>1 DEF Placed, SectionNames, Media
    <2>6. \A m \in Media : ValuesIn(text, "ice-ufrag", m) \subseteq AllValues(text, "ice-ufrag")
      BY DEF AllValues, SectionNames
    <2> HIDE DEF Users
    <2>7. ASSUME NEW k \in DOMAIN st.sdp.candidateVector
          PROVE  LET c == st.sdp.candidateVector[k]
                 IN /\ c.password = c.username
                    /\ c.username \in IF Users({c.media}) # {} THEN Users({c.media})
                                      ELSE Users(SectionNames)
      <3> DEFINE c == st.sdp.candidateVector[k]
                 m == Counted(c.media)
      <3>1. c.media \in MediaTypes /\ m \in Media
        BY <2>2 DEF CandsShaped, Counted, Media
      <3>2. c.username = st.sdp.username[m] /\ c.password = st.sdp.password[m]
        BY <2>1 DEF CandsNamed
      <3>3. st.sdp.password[m] = st.sdp.username[m] /\ NameOf(text, m, st.sdp.username[m])
        BY <2>1, <3>1 DEF NamesSet
      <3>4. st.sdp.username[m] \in AllValues(text, "ice-ufrag")
        BY <2>6, <3>1, <3>3 DEF NameOf
      <3>5. c.media \in Media => m = c.media
        BY DEF Counted, Media
      <3> HIDE DEF c, m
      <3>6. CASE c.media \in Media
        BY <2>3, <2>4, <3>2, <3>3, <3>5, <3>6 DEF NameOf, c
      <3>7. CASE c.media = "other"
        BY <2>4, <2>5, <3>2, <3>3, <3>4, <3>7 DEF c
      <3> QED
        BY <3>1, <3>6, <3>7 DEF MediaTypes
    <2> QED
      BY <2>7 DEF CandidatesCredentialed, remote, Users, SectionNames
  <1> QED
    BY <1>1, SdpInvariant, PTL

\* processSdp gives a codec all of its a=rtcp-fb lines in their order, also those that
\* precede its a=rtpmap line.
THEOREM FeedbackArrives == Spec => []FeedbackComplete
  <1>1. SdpInv => FeedbackComplete
    <2> SUFFICES ASSUME SdpInv, phase = "set", HasCredentials(remote),
                        NEW k \in DOMAIN remote.payloadVector
                 PROVE  LET r == remote.payloadVector[k]
                            at == FeedbackLines(r.pt)
                        IN /\ Len(r.feedback) = Cardinality(at)
                           /\ \A i \in at : r.feedback[Cardinality({j \in at : j <= i})]
                                           = text[i].value
      BY DEF FeedbackComplete
    <2>1. GivenOut(remote, text)
      BY DEF SdpInv, FeedbackInv, remote
    <2>2. Follows(remote.payloadVector[k].feedback, text, remote.payloadVector[k].pt)
      BY <2>1 DEF GivenOut
    <2>3. \A pt : FeedbackLines(pt) = FeedbackAt(text, pt)
      BY DEF FeedbackLines, FeedbackAt
    <2> QED
      BY <2>2, <2>3 DEF Follows
  <1> QED
    BY <1>1, SdpInvariant, PTL
=============================================================================
