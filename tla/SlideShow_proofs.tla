-------------------------- MODULE SlideShow_proofs --------------------------
(***************************************************************************)
(* Proofs about SlideShow, for every Modulus and any number of packets and *)
(* calls: the numbers stay numbers, and packets sent one after the other   *)
(* without a call of setSlideShowMode in between have consecutive numbers, *)
(* whatever earlier calls did in the middle of earlier packets.  This is   *)
(* the part of NumberFollowsLast where neither a call nor an overlap is to *)
(* be counted.                                                             *)
(***************************************************************************)
EXTENDS SlideShow, TLAPS

\* A packet that follows one since whose arrival no call was made, and which no call
\* overlapped, has the next number (deliverVideoData_ after setSlideShowMode has
\* returned); numbers the code declines to write are excepted.
SettledNumbersFollow ==
  [][(last # <<>> /\ ~astray' /\ last' # last /\ last[1].since.calls = switches)
     => last'[1].seq = (last[1].seq + 1) % Modulus]_last

-----------------------------------------------------------------------------
(***************************************************************************)
(* The inductive invariant.                                                *)
(***************************************************************************)
\* A number minus another.
Less(a, b) == (a - b) % Modulus

\* Which packets are where: the publisher's numbers are consecutive.
Ordered ==
  /\ packets > 0 => input = (sendSeqNo + 1) % Modulus
  /\ frame # <<>> => packets > 0

\* Stretches follow each other, and a call belongs to one that began before it.
Stretches ==
  /\ frame # <<>> => frame[1].since.calls <= switches
  /\ last # <<>> => last[1].since.calls <= switches
  /\ frame # <<>> /\ last # <<>> => last[1].since.calls <= frame[1].since.calls
  /\ app # "idle" => /\ since.calls < switches
                     /\ frame # <<>> => frame[1].since.calls <= since.calls
                     /\ last # <<>> => last[1].since.calls <= since.calls

\* The packet at hand arrived after the last call.
Undisturbed == frame # <<>> /\ frame[1].since.calls = switches

\* Such a packet is treated as the mode says, and has read the number in force.
InForce ==
  Undisturbed => /\ branch # "none" => (branch = "normal" <=> ~slide)
                 /\ branch = "number" => number = seqNo

\* The number that the packet at hand gets, or else the next one.
Upcoming == IF slide THEN seqNo
            ELSE Less(IF frame = <<>> THEN input ELSE sendSeqNo, offset)

\* It is the one after the last.
Settled ==
  last # <<>> /\ ~astray /\ last[1].since.calls = switches
    => Upcoming = (last[1].seq + 1) % Modulus

\* All of it.
IInv == TypeOK /\ Ordered /\ Stretches /\ InForce /\ Settled
-----------------------------------------------------------------------------
(***************************************************************************)
(* Arithmetic of the sequence numbers.                                     *)
(***************************************************************************)
\* The modulus.
LEMMA ModulusType == Modulus \in Nat /\ Modulus > 0
BY SlideShowAssumption DEF SlideShowAssumption

\* Sums and differences wrap around at most once.
LEMMA Wrap ==
  ASSUME NEW a \in Numbers, NEW b \in Numbers
  PROVE  /\ Less(a, b) = IF b <= a THEN a - b ELSE a - b + Modulus
         /\ (a + 1) % Modulus = IF a + 1 < Modulus THEN a + 1 ELSE 0
<1> USE ModulusType DEF Numbers
<1>1. Less(a, b) = IF b <= a THEN a - b ELSE a - b + Modulus
  BY DEF Less
<1>2. (a + 1) % Modulus = IF a + 1 < Modulus THEN a + 1 ELSE 0
  OBVIOUS
<1> QED BY <1>1, <1>2

\* They are sequence numbers again.
LEMMA NumbersClosed ==
  ASSUME NEW a \in Numbers, NEW b \in Numbers
  PROVE  /\ Less(a, b) \in Numbers
         /\ (a + 1) % Modulus \in Numbers
         /\ (a - b + 1) % Modulus \in Numbers
         /\ 0 \in Numbers
<1> USE ModulusType DEF Numbers
<1>1. Less(a, b) \in Numbers
  <2>1. Less(a, b) = IF b <= a THEN a - b ELSE a - b + Modulus
    BY Wrap
  <2> QED BY <2>1
<1>2. (a + 1) % Modulus \in Numbers
  <2>1. (a + 1) % Modulus = IF a + 1 < Modulus THEN a + 1 ELSE 0
    BY Wrap
  <2> QED BY <2>1
<1>3. (a - b + 1) % Modulus \in Numbers
  <2>1. a - b + 1 \in Int
    OBVIOUS
  <2> QED BY <2>1
<1> QED BY <1>1, <1>2, <1>3

\* Nothing taken away.
LEMMA LessNothing ==
  ASSUME NEW a \in Numbers
  PROVE  Less(a, 0) = a
<1>1. Less(a, 0) = IF 0 <= a THEN a - 0 ELSE a - 0 + Modulus
  BY Wrap, NumbersClosed
<1> QED BY <1>1, ModulusType DEF Numbers

\* The number after, less an offset.
LEMMA LessNext ==
  ASSUME NEW a \in Numbers, NEW b \in Numbers
  PROVE  Less((a + 1) % Modulus, b) = (Less(a, b) + 1) % Modulus
<1> DEFINE n == (a + 1) % Modulus
           d == Less(a, b)
<1>1. n \in Numbers /\ d \in Numbers
  BY NumbersClosed
<1>2. n = IF a + 1 < Modulus THEN a + 1 ELSE 0
  BY Wrap
<1>3. d = IF b <= a THEN a - b ELSE a - b + Modulus
  BY Wrap
<1> HIDE DEF n, d
<1>4. Less(n, b) = IF b <= n THEN n - b ELSE n - b + Modulus
  BY <1>1, Wrap
<1>5. (d + 1) % Modulus = IF d + 1 < Modulus THEN d + 1 ELSE 0
  BY <1>1, Wrap
<1>6. Less(n, b) = (d + 1) % Modulus
  BY <1>1, <1>2, <1>3, <1>4, <1>5, ModulusType DEF Numbers
<1> QED BY <1>6 DEF n, d

-----------------------------------------------------------------------------
(***************************************************************************)
(* What a step does, field by field.                                       *)
(***************************************************************************)
\* What queueData is given.
LEMMA Queued ==
  ASSUME NEW n, NEW r \in BOOLEAN, Queue(n, r)
  PROVE  /\ last' # <<>> /\ frame' = <<>> /\ branch' = "none"
         /\ last'[1].seq = (IF n # 0 THEN n ELSE sendSeqNo)
         /\ last'[1].index = packets
         /\ last'[1].since = frame[1].since
         /\ astray' = (astray \/ (r /\ n = 0))
<1> DEFINE e == [seq   |-> IF n # 0 THEN n ELSE sendSeqNo,
                 index |-> packets,
                 since |-> frame[1].since]
<1>1. last' = <<e>>
  BY DEF Queue
<1>2. last' # <<>> /\ last'[1] = e
  BY <1>1
<1>3. astray' = (astray \/ (r /\ n = 0)) /\ frame' = <<>> /\ branch' = "none"
  BY DEF Queue
<1> QED BY <1>2, <1>3

\* A packet that arrives belongs to the stretch in progress, or begins one.
LEMMA Arrived ==
  ASSUME NEW key, NEW marker, Arrive(key, marker)
  PROVE  /\ frame' # <<>> /\ frame'[1].key = key /\ frame'[1].marker = marker
         /\ app = "idle" => frame'[1].since.calls = switches /\ frame'[1].since.met = met
         /\ app # "idle" => frame'[1].since = since
<1> DEFINE f == [key |-> key, marker |-> marker,
                 since |-> IF app = "idle" THEN Counts ELSE since]
<1>1. frame' = <<f>>
  BY DEF Arrive
<1>2. frame' # <<>> /\ frame'[1] = f
  BY <1>1
<1> QED BY <1>2 DEF Counts

\* A call that is entered.
LEMMA Entered ==
  ASSUME NEW next, EnterCall(next)
  PROVE  /\ app = "idle" /\ app' = next /\ switches' = switches + 1
         /\ switches < MaxSwitches
         /\ met' = (IF frame = <<>> THEN met ELSE met + 1)
         /\ frame = <<>> => since'.calls = switches /\ since'.met = met
         /\ frame # <<>> => since' = frame[1].since
<1>1. since' = IF frame = <<>> THEN Counts ELSE frame[1].since
  BY DEF EnterCall
<1>2. Counts.calls = switches /\ Counts.met = met
  BY DEF Counts
<1> QED BY <1>1, <1>2 DEF EnterCall

\* The number a packet gets outside of a slide show.
LEMMA NormalNumber ==
  ASSUME TypeOK, DeliverNormal
  PROVE  /\ last' # <<>> /\ frame' = <<>> /\ branch' = "none"
         /\ last'[1].seq \in Numbers
         /\ ~astray' => ~astray /\ last'[1].seq = Less(sendSeqNo, offset)
         /\ last'[1].index = packets
         /\ last'[1].since = frame[1].since
         /\ astray' \in BOOLEAN
<1> DEFINE d == Less(sendSeqNo, offset)
<1>0. sendSeqNo \in Numbers /\ offset \in Numbers /\ d \in Numbers
  BY NumbersClosed DEF TypeOK
<1>1. CASE offset > 0
  <2>1. Queue(d, TRUE)
    BY <1>1 DEF DeliverNormal, Less
  <2> HIDE DEF d
  <2>2. /\ last' # <<>> /\ frame' = <<>> /\ branch' = "none"
        /\ last'[1].seq = (IF d # 0 THEN d ELSE sendSeqNo)
        /\ last'[1].index = packets /\ last'[1].since = frame[1].since
        /\ astray' = (astray \/ (TRUE /\ d = 0))
    BY <2>1, Queued
  <2>3. last'[1].seq \in Numbers
    BY <1>0, <2>2
  <2>4. ~astray' => ~astray /\ d # 0
    BY <2>2, Zenon
  <2>5. astray' \in BOOLEAN
    BY <2>2, Zenon
  <2> QED BY <2>2, <2>3, <2>4, <2>5 DEF d
<1>2. CASE ~(offset > 0)
  <2>1. offset = 0
    BY <1>0, <1>2, ModulusType DEF Numbers
  <2>2. Queue(0, FALSE)
    BY <1>2 DEF DeliverNormal
  <2>3. /\ last' # <<>> /\ frame' = <<>> /\ branch' = "none"
        /\ last'[1].seq = (IF 0 # 0 THEN 0 ELSE sendSeqNo)
        /\ last'[1].index = packets /\ last'[1].since = frame[1].since
        /\ astray' = (astray \/ (FALSE /\ 0 = 0))
    BY <2>2, Queued
  <2>4. d = sendSeqNo
    BY <1>0, <2>1, LessNothing
  <2>5. ~astray' => ~astray
    BY <2>3, Zenon
  <2>6. astray' \in BOOLEAN
    BY <2>3, Zenon
  <2> QED BY <1>0, <2>3, <2>4, <2>5, <2>6
<1> QED BY <1>1, <1>2

\* The number a packet gets in a slide show.
LEMMA SlideNumbered ==
  ASSUME TypeOK, SlideSend
  PROVE  /\ last' # <<>> /\ frame' = <<>> /\ branch' = "none"
         /\ last'[1].seq \in Numbers
         /\ ~astray' => ~astray /\ last'[1].seq = number
         /\ last'[1].index = packets
         /\ last'[1].since = frame[1].since
         /\ astray' \in BOOLEAN
         /\ seqNo' = (number + 1) % Modulus
<1>0. number \in Numbers /\ sendSeqNo \in Numbers
  BY DEF TypeOK
<1>1. Queue(number, TRUE) /\ seqNo' = (number + 1) % Modulus
  BY DEF SlideSend
<1>2. /\ last' # <<>> /\ frame' = <<>> /\ branch' = "none"
      /\ last'[1].seq = (IF number # 0 THEN number ELSE sendSeqNo)
      /\ last'[1].index = packets /\ last'[1].since = frame[1].since
      /\ astray' = (astray \/ (TRUE /\ number = 0))
  BY <1>1, Queued
<1>3. ~astray' => ~astray /\ number # 0
  BY <1>2, Zenon
<1>4. astray' \in BOOLEAN
  BY <1>2, Zenon
<1> QED BY <1>0, <1>1, <1>2, <1>3, <1>4

-----------------------------------------------------------------------------
(***************************************************************************)
(* Types.                                                                  *)
(***************************************************************************)
\* The steps of the media thread keep the types.
LEMMA MediaTypes ==
  ASSUME TypeOK,
         \/ \E key, marker \in BOOLEAN : Arrive(key, marker)
         \/ ReadMode \/ SlideKeyFrame \/ SlideDrop \/ SlideNumber \/ SlideSend
         \/ DeliverNormal
  PROVE  TypeOK'
<1>0. /\ input \in Numbers /\ sendSeqNo \in Numbers /\ seqNo \in Numbers /\ number \in Numbers
      /\ switches \in 0 .. MaxSwitches /\ packets \in 0 .. MaxPackets /\ met \in Nat
      /\ MaxPackets \in Nat /\ 0 \in Numbers
  BY SlideShowAssumption, NumbersClosed DEF TypeOK, SlideShowAssumption
<1>1. ASSUME NEW key \in BOOLEAN, NEW marker \in BOOLEAN, Arrive(key, marker)
      PROVE  TypeOK'
  <2>1. input' \in Numbers /\ sendSeqNo' \in Numbers
    BY <1>0, <1>1, NumbersClosed DEF Arrive
  <2>2. packets' \in 0 .. MaxPackets /\ met' \in Nat
    BY <1>0, <1>1 DEF Arrive
  <2>3. frame' # <<>> /\ frame'[1].key \in BOOLEAN /\ frame'[1].marker \in BOOLEAN
    BY <1>1, Arrived
  <2>4. IsCount(frame'[1].since)
    BY <1>0, <1>1, Arrived DEF TypeOK, IsCount
  <2>5. IsCount(frame[1].since)'
    BY <2>4 DEF IsCount
  <2> QED BY <1>1, <2>1, <2>2, <2>3, <2>5 DEF TypeOK, Arrive, app_vars, IsCount
<1>2. CASE ReadMode
  <2>1. branch' \in {"none", "slide", "grace", "number", "normal"}
    BY <1>2 DEF ReadMode
  <2> QED BY <1>2, <2>1 DEF TypeOK, ReadMode, app_vars, IsCount
<1>3. CASE SlideKeyFrame
  <2>1. grace' \in BOOLEAN /\ frame # <<>>
    BY <1>3, Zenon DEF SlideKeyFrame, TypeOK
  <2> QED BY <1>3, <2>1 DEF TypeOK, SlideKeyFrame, app_vars, IsCount
<1>4. CASE SlideDrop
  BY <1>4 DEF TypeOK, SlideDrop, app_vars, IsCount
<1>5. CASE SlideNumber
  BY <1>5 DEF TypeOK, SlideNumber, app_vars, IsCount
<1>6. CASE SlideSend
  <2>1. /\ last'[1].seq \in Numbers /\ last'[1].index = packets
        /\ last'[1].since = frame[1].since /\ astray' \in BOOLEAN
        /\ frame' = <<>> /\ branch' = "none" /\ seqNo' = (number + 1) % Modulus
    BY <1>6, SlideNumbered
  <2>2. grace' \in BOOLEAN
    BY <1>6, Zenon DEF SlideSend
  <2>3. IsCount(last[1].since)'
    BY <1>6, <2>1 DEF SlideSend, TypeOK, IsCount
  <2>4. seqNo' \in Numbers
    BY <1>0, <2>1, NumbersClosed
  <2> QED BY <1>0, <1>6, <2>1, <2>2, <2>3, <2>4 DEF TypeOK, SlideSend, app_vars, IsCount
<1>7. CASE DeliverNormal
  <2>1. /\ last'[1].seq \in Numbers /\ last'[1].index = packets
        /\ last'[1].since = frame[1].since /\ astray' \in BOOLEAN
        /\ frame' = <<>> /\ branch' = "none"
    BY <1>7, NormalNumber
  <2>2. IsCount(last[1].since)'
    BY <1>7, <2>1 DEF DeliverNormal, TypeOK, IsCount
  <2> QED BY <1>0, <1>7, <2>1, <2>2 DEF TypeOK, DeliverNormal, app_vars, IsCount
<1> QED BY <1>1, <1>2, <1>3, <1>4, <1>5, <1>6, <1>7

\* So do the steps of setSlideShowMode.
LEMMA AppTypes ==
  ASSUME TypeOK,
         \/ OnSeqNo \/ OnGrace \/ OnMode \/ OffRead \/ OffOffset \/ OffMode
         \/ \E should \in BOOLEAN : SetFeedbackReports(should)
  PROVE  TypeOK'
<1>0. /\ sendSeqNo \in Numbers /\ seqNo \in Numbers /\ offset \in Numbers /\ term \in Numbers
      /\ switches \in 0 .. MaxSwitches /\ met \in Nat /\ MaxSwitches \in Nat /\ 0 \in Numbers
  BY SlideShowAssumption, NumbersClosed DEF TypeOK, SlideShowAssumption
<1>1. ASSUME NEW next, EnterCall(next)
      PROVE  switches' \in 0 .. MaxSwitches /\ met' \in Nat /\ IsCount(since')
  <2>1. switches' \in 0 .. MaxSwitches /\ met' \in Nat
    BY <1>0, <1>1, Entered
  <2>2. IsCount(since')
    BY <1>0, <1>1, Entered DEF TypeOK, IsCount
  <2> QED BY <2>1, <2>2
<1>2. CASE OnSeqNo
  <2>1. seqNo' \in Numbers
    BY <1>0, <1>2, NumbersClosed DEF OnSeqNo, Less
  <2>2. switches' \in 0 .. MaxSwitches /\ met' \in Nat /\ IsCount(since') /\ app' = "on_grace"
    BY <1>1, <1>2, Entered DEF OnSeqNo
  <2>3. astray' \in BOOLEAN
    BY <1>2, Zenon DEF OnSeqNo
  <2> QED BY <1>2, <2>1, <2>2, <2>3 DEF TypeOK, OnSeqNo, media_vars, IsCount
<1>3. CASE OnGrace
  BY <1>0, <1>3 DEF TypeOK, OnGrace, GoOn, media_vars, IsCount
<1>4. CASE OnMode
  BY <1>0, <1>4 DEF TypeOK, OnMode, GoOn, media_vars, IsCount
<1>5. CASE OffRead
  <2>1. PICK next \in {"off_seqno", "off_sendseqno"} : EnterCall(next) /\ term' \in Numbers
    BY <1>0, <1>5 DEF OffRead
  <2>2. switches' \in 0 .. MaxSwitches /\ met' \in Nat /\ IsCount(since') /\ app' = next
    BY <1>1, <2>1, Entered
  <2> QED BY <1>5, <2>1, <2>2 DEF TypeOK, OffRead, media_vars, IsCount
<1>6. CASE OffOffset
  <2>1. offset' \in Numbers
    BY <1>0, <1>6, NumbersClosed DEF OffOffset
  <2> QED BY <1>0, <1>6, <2>1 DEF TypeOK, OffOffset, GoOn, media_vars, IsCount
<1>7. CASE OffMode
  BY <1>0, <1>7 DEF TypeOK, OffMode, GoOn, media_vars, IsCount
<1>8. ASSUME NEW should \in BOOLEAN, SetFeedbackReports(should)
      PROVE  TypeOK'
  BY <1>0, <1>8 DEF TypeOK, SetFeedbackReports, GoOn, media_vars, IsCount
<1> QED BY <1>2, <1>3, <1>4, <1>5, <1>6, <1>7, <1>8

\* The types hold at first.
LEMMA InitTyped == Init => TypeOK
<1> SUFFICES ASSUME Init PROVE TypeOK
  OBVIOUS
<1>1. 1000 % Modulus \in Numbers /\ 0 \in Numbers
  BY ModulusType DEF Numbers
<1>2. MaxSwitches \in Nat /\ MaxPackets \in Nat
  BY SlideShowAssumption DEF SlideShowAssumption
<1>3. IsCount(since)
  BY <1>2 DEF Init, IsCount
<1>4. /\ seqNo \in Numbers /\ sendSeqNo \in Numbers /\ offset \in Numbers
      /\ input \in Numbers /\ number \in Numbers /\ term \in Numbers
  BY <1>1 DEF Init, Numbers
<1>5. packets \in 0 .. MaxPackets /\ switches \in 0 .. MaxSwitches /\ met \in Nat
  BY <1>2 DEF Init
<1> QED BY <1>3, <1>4, <1>5 DEF Init, TypeOK

\* And after every step.
LEMMA TypeNext == TypeOK /\ [Next]_vars => TypeOK'
<1> SUFFICES ASSUME TypeOK, [Next]_vars PROVE TypeOK'
  OBVIOUS
<1>1. CASE \E kind \in {"rr", "nack"} : Feedback(kind)
  BY <1>1 DEF TypeOK, Feedback, app_vars, media_vars, IsCount
<1>2. CASE UNCHANGED vars
  BY <1>2 DEF TypeOK, vars, app_vars, media_vars, IsCount
<1> QED BY <1>1, <1>2, MediaTypes, AppTypes DEF Next

\* The sequence numbers are uint16_t at every step of deliverVideoData_ and
\* setSlideShowMode.
THEOREM TypeCorrect == Spec => []TypeOK
BY InitTyped, TypeNext, PTL DEF Spec

-----------------------------------------------------------------------------
(***************************************************************************)
(* Numbers that follow each other.                                         *)
(***************************************************************************)
\* No call is under way as long as the packet at hand, or the last one, has met none.
LEMMA NoCall ==
  ASSUME TypeOK, Stretches,
         Undisturbed \/ (last # <<>> /\ last[1].since.calls = switches)
  PROVE  app = "idle"
<1>1. switches \in Int /\ (app # "idle" => since.calls \in Int)
  BY DEF TypeOK, IsCount
<1>2. frame # <<>> => frame[1].since.calls \in Int
  BY DEF TypeOK, IsCount
<1>3. last # <<>> => last[1].since.calls \in Int
  BY DEF TypeOK, IsCount
<1> QED BY <1>1, <1>2, <1>3 DEF Stretches, Undisturbed

\* A packet after one that met no call meets none so far either.
LEMMA StillUndisturbed ==
  ASSUME TypeOK, Stretches, last # <<>>, last[1].since.calls = switches, frame # <<>>
  PROVE  Undisturbed
<1>1. switches \in Int /\ frame[1].since.calls \in Int
  BY DEF TypeOK, IsCount
<1> QED BY <1>1 DEF Stretches, Undisturbed

\* A packet arrives.
LEMMA ArriveInv ==
  ASSUME IInv, NEW key, NEW marker, Arrive(key, marker)
  PROVE  Ordered' /\ Stretches' /\ InForce' /\ Settled'
<1> USE DEF IInv
<1>0. /\ frame = <<>> /\ UNCHANGED <<app_vars, seqNo, branch, number, last, astray>>
      /\ branch = "none" /\ packets' = packets + 1 /\ packets \in Nat
      /\ sendSeqNo' = input /\ input' = (input + 1) % Modulus
      /\ switches \in Int /\ since.calls \in Int
  BY DEF Arrive, TypeOK, IsCount
<1>1. Ordered'
  BY <1>0 DEF Ordered
<1>2. /\ frame' # <<>>
      /\ app = "idle" => frame'[1].since.calls = switches
      /\ app # "idle" => frame'[1].since.calls = since.calls
  BY Arrived
<1>3. Stretches'
  BY <1>0, <1>2 DEF Stretches, app_vars
<1>4. InForce'
  BY <1>0 DEF InForce
<1>5. Upcoming' = Upcoming
  BY <1>0, <1>2 DEF Upcoming, Less, app_vars
<1>6. Settled'
  BY <1>0, <1>5 DEF Settled, app_vars
<1> QED BY <1>1, <1>3, <1>4, <1>6

\* The steps before a packet is sent, and the one that drops it.
LEMMA WorkInv ==
  ASSUME IInv, ReadMode \/ SlideKeyFrame \/ SlideDrop \/ SlideNumber
  PROVE  Ordered' /\ Stretches' /\ InForce' /\ Settled'
<1> USE DEF IInv
<1>0. /\ UNCHANGED <<slide, offset, app, switches, since, seqNo, sendSeqNo, input, packets,
                     last, astray>>
      /\ frame' = frame \/ (frame' = <<>> /\ SlideDrop)
  BY DEF ReadMode, SlideKeyFrame, SlideDrop, SlideNumber, app_vars
<1>1. Ordered' /\ Stretches'
  BY <1>0 DEF Ordered, Stretches
<1>2. InForce'
  <2>1. CASE ReadMode
    BY <2>1, <1>0 DEF ReadMode, InForce, Undisturbed
  <2>2. CASE SlideKeyFrame
    BY <2>2, <1>0 DEF SlideKeyFrame, InForce, Undisturbed
  <2>3. CASE SlideDrop
    BY <2>3, <1>0 DEF SlideDrop, InForce, Undisturbed
  <2>4. CASE SlideNumber
    BY <2>4, <1>0 DEF SlideNumber, InForce, Undisturbed
  <2> QED BY <2>1, <2>2, <2>3, <2>4
<1>3. Settled'
  <2>1. CASE frame' = frame
    BY <1>0, <2>1 DEF Settled, Upcoming
  <2>2. CASE SlideDrop
    <3> SUFFICES ASSUME last' # <<>>, ~astray', last'[1].since.calls = switches'
                 PROVE  Upcoming' = (last'[1].seq + 1) % Modulus
      BY DEF Settled
    <3>1. frame # <<>> /\ branch = "grace"
      BY <2>2 DEF SlideDrop, TypeOK
    <3>2. Undisturbed
      BY <1>0, <3>1, StillUndisturbed
    <3>3. slide
      BY <3>1, <3>2 DEF InForce, TypeOK
    <3> QED BY <1>0, <3>3 DEF Settled, Upcoming
  <2> QED BY <1>0, <2>1, <2>2
<1> QED BY <1>1, <1>2, <1>3

\* A packet is sent.
LEMMA SendInv ==
  ASSUME IInv, SlideSend \/ DeliverNormal
  PROVE  /\ Ordered' /\ Stretches' /\ InForce' /\ Settled'
         /\ last # <<>> /\ ~astray' /\ last[1].since.calls = switches
              => last'[1].seq = (last[1].seq + 1) % Modulus
<1> USE DEF IInv
<1>0. /\ UNCHANGED <<slide, offset, app, switches, since, sendSeqNo, input, packets>>
      /\ frame # <<>> /\ branch \in {"number", "normal"}
      /\ branch = "number" <=> SlideSend
  BY DEF SlideSend, DeliverNormal, app_vars, TypeOK
<1>1. /\ last' # <<>> /\ frame' = <<>> /\ branch' = "none"
      /\ ~astray' => ~astray /\ last'[1].seq = (IF branch = "number" THEN number
                                              ELSE Less(sendSeqNo, offset))
      /\ last'[1].since = frame[1].since
      /\ branch = "number" => seqNo' = (number + 1) % Modulus
      /\ branch = "normal" => seqNo' = seqNo
  BY <1>0, SlideNumbered, NormalNumber DEF SlideSend, DeliverNormal
<1>2. Ordered'
  BY <1>0, <1>1 DEF Ordered
<1>3. Stretches'
  BY <1>0, <1>1 DEF Stretches
<1>4. InForce'
  BY <1>1 DEF InForce, Undisturbed
<1>5. Settled'
  <2> SUFFICES ASSUME ~astray', last'[1].since.calls = switches'
               PROVE  Upcoming' = (last'[1].seq + 1) % Modulus
    BY DEF Settled
  <2>1. Undisturbed
    BY <1>0, <1>1 DEF Undisturbed
  <2>2. CASE branch = "number"
    BY <1>0, <1>1, <2>1, <2>2 DEF InForce, Upcoming
  <2>3. CASE branch = "normal"
    <3>1. Upcoming' = Less(input, offset)
      BY <1>0, <1>1, <2>1, <2>3 DEF InForce, Upcoming, Less
    <3>2. input = (sendSeqNo + 1) % Modulus /\ sendSeqNo \in Numbers /\ offset \in Numbers
      BY <1>0 DEF Ordered, TypeOK
    <3>3. Less(input, offset) = (Less(sendSeqNo, offset) + 1) % Modulus
      BY <3>2, LessNext
    <3> QED BY <1>1, <2>3, <3>1, <3>3
  <2> QED BY <1>0, <2>2, <2>3
<1>6. ASSUME last # <<>>, ~astray', last[1].since.calls = switches
      PROVE  last'[1].seq = (last[1].seq + 1) % Modulus
  <2>1. Undisturbed
    BY <1>0, <1>6, StillUndisturbed
  <2>2. last'[1].seq = Upcoming
    BY <1>0, <1>1, <1>6, <2>1 DEF InForce, Upcoming, Undisturbed
  <2> QED BY <1>1, <1>6, <2>2 DEF Settled
<1> QED BY <1>2, <1>3, <1>4, <1>5, <1>6

\* A call begins: from here on nothing is undisturbed.
LEMMA EnterInv ==
  ASSUME IInv, OnSeqNo \/ OffRead
  PROVE  Ordered' /\ Stretches' /\ InForce' /\ Settled'
<1> USE DEF IInv
<1>0. UNCHANGED <<sendSeqNo, input, frame, branch, number, packets, last>>
  BY DEF OnSeqNo, OffRead, media_vars
<1>1. PICK next \in {"on_grace", "off_seqno", "off_sendseqno"} : EnterCall(next)
  BY DEF OnSeqNo, OffRead
<1>2. /\ app' # "idle" /\ switches' = switches + 1 /\ switches \in Int
      /\ frame = <<>> => since'.calls = switches
      /\ frame # <<>> => since' = frame[1].since
  BY <1>1, Entered DEF TypeOK
<1>3. Ordered'
  BY <1>0 DEF Ordered
<1>4. frame # <<>> => frame[1].since.calls \in Int /\ frame[1].since.calls <= switches
  BY DEF TypeOK, IsCount, Stretches
<1>5. last # <<>> => last[1].since.calls \in Int /\ last[1].since.calls <= switches
  BY DEF TypeOK, IsCount, Stretches
<1>6. Stretches'
  BY <1>0, <1>2, <1>4, <1>5 DEF Stretches
<1>7. InForce'
  BY <1>0, <1>2, <1>4 DEF InForce, Undisturbed
<1>8. Settled'
  BY <1>0, <1>2, <1>5 DEF Settled
<1> QED BY <1>3, <1>6, <1>7, <1>8

\* A call goes on: nothing is undisturbed, before or after.
LEMMA CallInv ==
  ASSUME IInv, OnGrace \/ OnMode \/ OffOffset \/ OffMode
  PROVE  Ordered' /\ Stretches' /\ InForce' /\ Settled'
<1> USE DEF IInv
<1>0. UNCHANGED <<sendSeqNo, input, frame, branch, number, packets, last, switches, since>>
  BY DEF OnGrace, OnMode, OffOffset, OffMode, GoOn, media_vars
<1>1. app # "idle"
  BY DEF OnGrace, OnMode, OffOffset, OffMode, GoOn
<1>2. Ordered' /\ Stretches'
  BY <1>0, <1>1 DEF Ordered, Stretches
<1>3. ~Undisturbed /\ ~(last # <<>> /\ last[1].since.calls = switches)
  BY <1>1, NoCall
<1>4. InForce' /\ Settled'
  BY <1>0, <1>3 DEF InForce, Settled, Undisturbed
<1> QED BY <1>2, <1>4

\* Feedback and its switch have nothing to do with it.
LEMMA FeedbackInv ==
  ASSUME IInv,
         \/ \E should \in BOOLEAN : SetFeedbackReports(should)
         \/ \E kind \in {"rr", "nack"} : Feedback(kind)
         \/ UNCHANGED vars
  PROVE  Ordered' /\ Stretches' /\ InForce' /\ Settled'
<1>0. UNCHANGED <<slide, offset, app, switches, since, seqNo, sendSeqNo, input, frame, branch,
                  number, packets, last, astray>>
  BY DEF SetFeedbackReports, Feedback, GoOn, vars, app_vars, media_vars
<1> QED BY <1>0 DEF IInv, Ordered, Stretches, InForce, Settled, Upcoming, Undisturbed, Less

\* The invariant holds at first.
LEMMA InvInit == Init => IInv
<1> SUFFICES ASSUME Init PROVE IInv
  OBVIOUS
<1>1. TypeOK
  BY InitTyped
<1> QED BY <1>1 DEF Init, IInv, Ordered, Stretches, InForce, Settled, Undisturbed

\* And is kept.
LEMMA InvNext == IInv /\ [Next]_vars => IInv'
<1> SUFFICES ASSUME IInv, [Next]_vars PROVE IInv'
  OBVIOUS
<1>1. TypeOK'
  BY TypeNext DEF IInv
<1>2. Ordered' /\ Stretches' /\ InForce' /\ Settled'
  BY ArriveInv, WorkInv, SendInv, EnterInv, CallInv, FeedbackInv DEF Next
<1> QED BY <1>1, <1>2 DEF IInv

\* Once the calls of setSlideShowMode are over, the numbers deliverVideoData_ gives are
\* consecutive, wherever the calls fell among its unlocked steps.
THEOREM NumbersFollow == Spec => SettledNumbersFollow
<1>1. IInv /\ [Next]_vars
        => [(last # <<>> /\ ~astray' /\ last' # last /\ last[1].since.calls = switches)
            => last'[1].seq = (last[1].seq + 1) % Modulus]_last
  <2> SUFFICES ASSUME IInv, [Next]_vars, last' # last,
                      last # <<>>, ~astray', last[1].since.calls = switches
               PROVE  last'[1].seq = (last[1].seq + 1) % Modulus
    OBVIOUS
  <2>1. SlideSend \/ DeliverNormal
    BY DEF Next, vars, app_vars, media_vars, Arrive, ReadMode, SlideKeyFrame, SlideDrop,
           SlideNumber, OnSeqNo, OnGrace, OnMode, OffRead, OffOffset, OffMode, GoOn,
           SetFeedbackReports, Feedback
  <2> QED BY <2>1, SendInv
<1>2. QED BY <1>1, InvInit, InvNext, PTL DEF Spec, SettledNumbersFollow
=============================================================================
