----------------------------- MODULE SlideShow ------------------------------
(***************************************************************************)
(* The slide-show mode of WebRtcConnection: in it only key frames are sent,*)
(* so the sequence numbers of outgoing video packets are rewritten and the *)
(* sequence numbers in the receiver's feedback are shifted back.           *)
(*                                                                         *)
(* The media thread runs deliverVideoData_, the application thread runs    *)
(* setSlideShowMode; no lock protects seqNo_, sendSeqNo_, seqNoOffset_,    *)
(* grace_ and slideShowMode_ (slideShowMutex_ is commented out in the      *)
(* header), so either function is taken one statement at a time, and a     *)
(* statement that reads two of them, or reads and writes one, in two steps *)
(* where the order matters.  The numbers are uint16_t: arithmetic is       *)
(* modulo Modulus.                                                         *)
(***************************************************************************)
EXTENDS Integers

CONSTANTS
  Modulus,      \* 2^16 in the code
  MaxPackets,   \* bound on the packets the publisher sends
  MaxSwitches   \* bound on the calls of setSlideShowMode

ASSUME SlideShowAssumption ==
  /\ Modulus \in Nat \ {0}
  /\ MaxPackets \in Nat
  /\ MaxSwitches \in Nat

VARIABLES
  slide,      \* slideShowMode_
  seqNo,      \* seqNo_
  sendSeqNo,  \* sendSeqNo_
  offset,     \* seqNoOffset_
  grace,      \* grace_
  feedback,   \* shouldSendFeedback_
  input,      \* sequence number of the publisher's next packet
  frame,      \* the packet deliverVideoData_ is working on, <<>> if none
  branch,     \* where deliverVideoData_ is: "none" before it has read the mode
  number,     \* what seqNo_++ has read, 0 outside of it
  app,        \* the next statement of setSlideShowMode, "idle" outside of it
  term,       \* the term of the new offset that has been read, 0 if none
  packets,    \* packets published so far
  switches,   \* effective calls of setSlideShowMode so far
  met,        \* history: how often a packet and a call were under way together
  since,      \* history: switches and met when the stretch of calls and packets
              \* that overlap, which the last call belongs to, began
  last,       \* history: the last packet sent: its number, its index, and switches and
              \* met when it arrived, or when the stretch it belongs to began
  astray,     \* history: a packet was to be renumbered 0, or the mode was switched on
              \* before there was a packet to take the number of
  report      \* history: the feedback just handled, as it came and as it is handed on

app_vars == <<slide, offset, feedback, app, term, switches, since>>
media_vars == <<sendSeqNo, input, frame, branch, number, packets, last>>
vars == <<app_vars, media_vars, seqNo, grace, met, astray, report>>

Counts == [calls |-> switches, met |-> met]

Init ==
  /\ slide = FALSE
  /\ seqNo = 1000 % Modulus
  /\ sendSeqNo = 0
  /\ offset = 0
  /\ grace = FALSE
  /\ feedback = TRUE
  /\ input \in 0 .. Modulus - 1
  /\ frame = <<>>
  /\ branch = "none"
  /\ number = 0
  /\ app = "idle"
  /\ term = 0
  /\ packets = 0
  /\ switches = 0
  /\ met = 0
  /\ since = [calls |-> 0, met |-> 0]
  /\ last = <<>>
  /\ astray = FALSE
  /\ report = <<>>

-----------------------------------------------------------------------------
(***************************************************************************)
(* The media thread: deliverVideoData_.                                    *)
(***************************************************************************)
\* A packet arrives, which may begin a key frame and may carry the marker bit:
\* sendSeqNo_ = h->getSeqNumber().
Arrive(key, marker) ==
  /\ frame = <<>>
  /\ packets < MaxPackets
  /\ packets' = packets + 1
  /\ frame' = <<[key |-> key, marker |-> marker,
                 since |-> IF app = "idle" THEN Counts ELSE since]>>
  /\ met' = IF app = "idle" THEN met ELSE met + 1
  /\ sendSeqNo' = input
  /\ input' = (input + 1) % Modulus
  /\ report' = <<>>
  /\ UNCHANGED <<app_vars, seqNo, grace, branch, number, last, astray>>

ReadMode ==
  /\ frame # <<>>
  /\ branch = "none"
  /\ branch' = IF slide THEN "slide" ELSE "normal"
  /\ report' = <<>>
  /\ UNCHANGED <<app_vars, seqNo, grace, sendSeqNo, input, frame, number, packets, met,
                 last, astray>>

\* queueData(.., seqNum): the packet is renumbered only if seqNum is not 0.
Queue(seqNum, renumber) ==
  /\ last' = <<[seq   |-> IF seqNum # 0 THEN seqNum ELSE sendSeqNo,
                index |-> packets,
                since |-> frame[1].since]>>
  /\ astray' = (astray \/ (renumber /\ seqNum = 0))
  /\ frame' = <<>>
  /\ branch' = "none"
  /\ report' = <<>>

\* if (!payload->frameType) grace_ = 1;
SlideKeyFrame ==
  /\ branch = "slide"
  /\ grace' = (grace \/ frame[1].key)
  /\ branch' = "grace"
  /\ report' = <<>>
  /\ UNCHANGED <<app_vars, seqNo, sendSeqNo, input, frame, number, packets, met, last,
                 astray>>

\* if (grace_): otherwise the packet is not sent.
SlideDrop ==
  /\ branch = "grace"
  /\ ~grace
  /\ frame' = <<>>
  /\ branch' = "none"
  /\ report' = <<>>
  /\ UNCHANGED <<app_vars, seqNo, grace, sendSeqNo, input, number, packets, met, last,
                 astray>>

\* seqNo_++ reads; setSlideShowMode may write seqNo_ before it writes.
SlideNumber ==
  /\ branch = "grace"
  /\ grace
  /\ number' = seqNo
  /\ branch' = "number"
  /\ report' = <<>>
  /\ UNCHANGED <<app_vars, seqNo, grace, sendSeqNo, input, frame, packets, met, last,
                 astray>>

\* The packet is sent with that number; the marker ends the frame.
SlideSend ==
  /\ branch = "number"
  /\ seqNo' = (number + 1) % Modulus
  /\ Queue(number, TRUE)
  /\ grace' = (grace /\ ~frame[1].marker)
  /\ number' = 0
  /\ UNCHANGED <<app_vars, sendSeqNo, input, packets, met>>

\* seqNoOffset_ is read twice, but an offset that has become 0 in between does what
\* the other branch does, so it is one step.
DeliverNormal ==
  /\ branch = "normal"
  /\ IF offset > 0
     THEN Queue((sendSeqNo - offset) % Modulus, TRUE)
     ELSE Queue(0, FALSE)
  /\ UNCHANGED <<app_vars, seqNo, grace, sendSeqNo, input, number, packets, met>>

-----------------------------------------------------------------------------
(***************************************************************************)
(* The application thread: setSlideShowMode, statement by statement.       *)
(***************************************************************************)
\* The call is entered, in the other mode than the one asked for.
EnterCall(next) ==
  /\ app = "idle"
  /\ switches < MaxSwitches
  /\ switches' = switches + 1
  /\ met' = IF frame = <<>> THEN met ELSE met + 1
  /\ since' = IF frame = <<>> THEN Counts ELSE frame[1].since
  /\ app' = next
  /\ report' = <<>>

GoOn(here, next) ==
  /\ app = here
  /\ app' = next
  /\ term' = 0
  /\ report' = <<>>
  /\ UNCHANGED <<media_vars, switches, since, met, astray>>

\* seqNo_ = sendSeqNo_ - seqNoOffset_;
OnSeqNo ==
  /\ ~slide
  /\ EnterCall("on_grace")
  /\ seqNo' = (sendSeqNo - offset) % Modulus
  /\ astray' = (astray \/ packets = 0)
  /\ UNCHANGED <<media_vars, slide, offset, feedback, grace, term>>

\* grace_ = 0;
OnGrace ==
  /\ GoOn("on_grace", "on_mode")
  /\ grace' = FALSE
  /\ UNCHANGED <<slide, offset, feedback, seqNo>>

\* slideShowMode_ = true; shouldSendFeedback_ = false; which are one step, as nothing that
\* reads one of them reads or writes the other.
OnMode ==
  /\ GoOn("on_mode", "idle")
  /\ slide' = TRUE
  /\ feedback' = FALSE
  /\ UNCHANGED <<offset, seqNo, grace>>

\* seqNoOffset_ = sendSeqNo_ - seqNo_ + 1; the terms are read in either order.
OffRead ==
  /\ slide
  /\ \/ EnterCall("off_seqno") /\ term' = sendSeqNo
     \/ EnterCall("off_sendseqno") /\ term' = seqNo
  /\ UNCHANGED <<media_vars, slide, offset, feedback, seqNo, grace, astray>>

\* Faulty: the offset is one too small.
OffOffset_Skips ==
  /\ \/ GoOn("off_seqno", "off_mode") /\ offset' = (term - seqNo) % Modulus
     \/ GoOn("off_sendseqno", "off_mode") /\ offset' = (sendSeqNo - term) % Modulus
  /\ UNCHANGED <<slide, feedback, seqNo, grace>>

OffOffset ==
  /\ \/ GoOn("off_seqno", "off_mode") /\ offset' = (term - seqNo + 1) % Modulus
     \/ GoOn("off_sendseqno", "off_mode") /\ offset' = (sendSeqNo - term + 1) % Modulus
  /\ UNCHANGED <<slide, feedback, seqNo, grace>>

\* slideShowMode_ = false; shouldSendFeedback_ = true;
OffMode ==
  /\ GoOn("off_mode", "idle")
  /\ slide' = FALSE
  /\ feedback' = TRUE
  /\ UNCHANGED <<offset, seqNo, grace>>

\* setFeedbackReports, as far as it is about feedback.
SetFeedbackReports(shouldSendFb) ==
  /\ GoOn("idle", "idle")
  /\ feedback' = shouldSendFb
  /\ UNCHANGED <<slide, offset, seqNo, grace>>

-----------------------------------------------------------------------------
(***************************************************************************)
(* The data thread of the receiver's transport: onTransportData.           *)
(***************************************************************************)
\* The highest number received or the number of a lost packet, and how many cycles are
\* added.  The sum that is tested is an int in the code, so it is never below a term of it.
Adjusted(kind, n) ==
  [cycles |-> IF kind = "rr" /\ n + offset < n THEN 1 ELSE 0,
   number |-> (n + offset) % Modulus]

\* A receiver report or a NACK about the packet last sent.
Feedback(kind) ==
  /\ feedback
  /\ last # <<>>
  /\ report' = LET n == last[1].seq IN
               <<[kind |-> kind, number |-> n,
                  out |-> IF offset > 0 THEN Adjusted(kind, n)
                          ELSE [cycles |-> 0, number |-> n]]>>
  /\ UNCHANGED <<app_vars, media_vars, seqNo, grace, met, astray>>

Next ==
  \/ \E key, marker \in BOOLEAN : Arrive(key, marker)
  \/ ReadMode
  \/ SlideKeyFrame \/ SlideDrop \/ SlideNumber \/ SlideSend
  \/ DeliverNormal
  \/ OnSeqNo \/ OnGrace \/ OnMode
  \/ OffRead \/ OffOffset \/ OffMode
  \/ \E should \in BOOLEAN : SetFeedbackReports(should)
  \/ \E kind \in {"rr", "nack"} : Feedback(kind)

Spec == Init /\ [][Next]_vars

-----------------------------------------------------------------------------
Numbers == 0 .. Modulus - 1
IsCount(c) == c.calls \in 0 .. MaxSwitches /\ c.met \in Nat

\* The sequence numbers stay uint16_t, whatever is added to or taken from them, and either
\* thread is at a statement of its function.
TypeOK ==
  /\ slide \in BOOLEAN /\ grace \in BOOLEAN /\ feedback \in BOOLEAN /\ astray \in BOOLEAN
  /\ seqNo \in Numbers /\ sendSeqNo \in Numbers /\ offset \in Numbers
  /\ input \in Numbers /\ number \in Numbers /\ term \in Numbers
  /\ frame = <<>> => branch = "none"
  /\ frame # <<>> => /\ frame[1].key \in BOOLEAN /\ frame[1].marker \in BOOLEAN
                     /\ IsCount(frame[1].since)
  /\ branch \in {"none", "slide", "grace", "number", "normal"}
  /\ app \in {"idle", "on_grace", "on_mode", "off_seqno", "off_sendseqno", "off_mode"}
  /\ packets \in 0 .. MaxPackets
  /\ switches \in 0 .. MaxSwitches
  /\ met \in Nat
  /\ IsCount(since)
  /\ last # <<>> => /\ last[1].seq \in Numbers /\ last[1].index \in 0 .. MaxPackets
                    /\ IsCount(last[1].since)

\* The number of a packet follows the last one sent, also across the wrap, unless calls
\* of setSlideShowMode were made since that one arrived, or overlapped with it.  Then it
\* goes back by at most one for every call, plus one for every time a packet and a call
\* were under way together, and it skips at most the latter.  In particular the numbers
\* are consecutive again as soon as the calls are over, however the threads' unlocked
\* steps fell among each other.  Numbers the code declines to write (0) and the number a
\* slide show gets before any packet are excepted.
NumberFollowsLast ==
  [][(last # <<>> /\ ~astray' /\ last' # last)
     => LET calls   == switches - last[1].since.calls
            overlap == met - last[1].since.met
            skipped == last'[1].seq - (last[1].seq + 1)
        IN  \/ skipped % Modulus <= overlap
            \/ (-skipped) % Modulus <= calls + overlap]_last
=============================================================================
