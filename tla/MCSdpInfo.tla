----------------------------- MODULE MCSdpInfo -----------------------------
(* Instances of SdpInfo for TLC: one offer per topic.                       *)
EXTENDS SdpInfo

Cand(a, p, t) == [tag |-> "candidate", addr |-> a, proto |-> p, type |-> t]
Map(pt, c) == [tag |-> "rtpmap", pt |-> pt, codec |-> c]
Pair(v) == {Valued("ice-ufrag", v), Valued("ice-pwd", v)}
Group(k, ids) == [tag |-> "group", kind |-> k, ids |-> ids]
Fp == Valued("fingerprint", "theirs")

PairFirst(v) == <<Valued("ice-ufrag", v), Valued("ice-pwd", v)>>

\* Credentials and candidates, per session and per section.
IceOffer == [first |-> <<Fp>>, session |-> Pair("s"),
             audio |-> Pair("a") \cup {Cand("a1", "udp", "host")},
             video |-> Pair("v") \cup {Cand("v1", "udp", "relay")}]
\* Codecs under other numbers, with feedback.
CodecOffer == [first |-> <<Fp>> \o PairFirst("s"), session |-> {},
               audio |-> {Map(0, "PCMU")},
               video |-> {Map(96, "VP8"), Map(98, "red"),
                          [tag |-> "rtcp-fb", pt |-> 96, value |-> "nack"],
                          [tag |-> "rtcp-fb", pt |-> 96, value |-> "pli"]}]
\* A codec offered twice, one under this client's number for RED, and one this client
\* does not know under its number for VP8; a format.
TwiceOffer == [first |-> <<Fp>> \o PairFirst("s"), session |-> {},
               audio |-> {},
               video |-> {Map(96, "VP8"), Map(97, "VP8"), Map(116, "ulpfec"), Map(100, "H264"),
                          [tag |-> "fmtp", pt |-> 96, option |-> "max", value |-> "1"]}]
\* BUNDLE, directions and SSRCs.
BundleOffer == [first |-> PairFirst("s"),
                session |-> {Fp, Group("BUNDLE", <<"0", "1">>), Group("LS", <<"9">>)},
                audio |-> {Valued("mid", "0"), Line("sendonly")},
                video |-> {Valued("mid", "1"), Line("recvonly"), Valued("ssrc", 7)}]
\* The rest of the lines.
RestOffer == [first |-> <<Line("rtcp-mux")>> \o PairFirst("s"),
              session |-> {Line("sendrecv"), Group("LS", <<"0">>)}, audio |-> {Fp, Valued("mid", "0")},
              video |-> {Valued("extmap", "uri"), Valued("crypto", "key"),
                         Valued("bandwidth", 300), Valued("ssrc-group", 8)}]

AllOffers == {IceOffer, CodecOffer, TwiceOffer, BundleOffer, RestOffer}
Found == {[addr |-> "l1", type |-> "srflx"]}
TrickledLines == {Cand("t1", "udp", "srflx"), Cand("t2", "tcp", "host")}
=============================================================================
