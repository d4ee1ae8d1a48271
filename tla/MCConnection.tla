---------------------------- MODULE MCConnection ----------------------------
(* Instances of Connection for TLC: the remote descriptions a peer sends.   *)
EXTENDS Connection

SdpOf(b, ms, mux, c) == [bundle |-> b, media |-> ms, mux |-> mux, cands |-> c]

BundleSdps   == {SdpOf(TRUE, Media, TRUE, TRUE)}
NoMuxSdps    == {SdpOf(TRUE, Media, FALSE, TRUE)}
\* Keys are absent unless the handshake completes.
SslAll   == {o \in Outcomes : o.res # "none" => o.keys = "absent"}
\* One flight, no retransmission: the peer's answer completes or breaks it.
SslShort == {o \in SslAll : ~o.out}

\* The same, and the peer always authenticates.
SslKeyed == {o \in SslShort : o.res = "none" => o.keys # "absent"}

SeparateSdps == {SdpOf(FALSE, ms, TRUE, FALSE) : ms \in {Media, {"audio"}}}
VariantSdps  == NoMuxSdps \cup SeparateSdps
=============================================================================
