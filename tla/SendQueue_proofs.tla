-------------------------- MODULE SendQueue_proofs --------------------------
(***************************************************************************)
(* Proofs about SendQueue: the order of the packets and what still leaves  *)
(* after a stop, for every set of packets and every capacity of the queue. *)
(***************************************************************************)
EXTENDS SendQueue, SequenceTheorems, TLAPS

-----------------------------------------------------------------------------
(***************************************************************************)
(* The inductive invariant, in parts.                                      *)
(***************************************************************************)
\* What was accepted is what was taken and what is queued ...
Whole == accepted = popped \o queue

\* ... until the end packet has replaced the queue.
Replaced == /\ ~sending
            /\ IsPrefix(popped, accepted)
            /\ queue \in {<<>>, <<Poison>>}

\* The packet that leaves after the stop is the last: the test of sending_ comes next.
LateIsLast == late # 0 => late = 1 /\ ~sending /\ sender \in {"test", "exited"}

IInv == /\ TypeOK
        /\ Whole \/ Replaced
        /\ LateIsLast

-----------------------------------------------------------------------------
\* A packet held by the send thread is a sequence of at most one packet.
LEMMA HeldIsSeq == TypeOK => held \in Seq(Packets)
<1> SUFFICES ASSUME TypeOK PROVE held \in Seq(Packets)
  OBVIOUS
<1>1. <<>> \in Seq(Packets)
  BY EmptySeq
<1>2. ASSUME NEW p \in Packets PROVE <<p>> \in Seq(Packets)
  OBVIOUS
<1> QED BY <1>1, <1>2 DEF TypeOK

\* What a concatenation begins with is a prefix of it.
LEMMA ConcatPrefix ==
  ASSUME NEW S, NEW s \in Seq(S), NEW t \in Seq(S)
  PROVE  IsPrefix(s, s \o t)
  BY ConcatProperties DEF IsPrefix

\* Moving the head of a queue to the end of what left it before changes nothing.
LEMMA Pop ==
  ASSUME NEW S, NEW out \in Seq(S), NEW q \in Seq(S), q # <<>>
  PROVE  /\ Tail(q) \in Seq(S)
         /\ Append(out, Head(q)) \in Seq(S)
         /\ out \o q = Append(out, Head(q)) \o Tail(q)
<1>1. Head(q) \in S /\ Tail(q) \in Seq(S) /\ <<Head(q)>> \in Seq(S)
  BY HeadTailProperties
<1>2. q = <<Head(q)>> \o Tail(q)
  BY <1>1
<1>3. Append(out, Head(q)) = out \o <<Head(q)>>
  BY <1>1, AppendIsConcat
<1>4. (out \o <<Head(q)>>) \o Tail(q) = out \o (<<Head(q)>> \o Tail(q))
  BY <1>1, ConcatAssociative
<1> QED BY <1>1, <1>2, <1>3, <1>4, AppendProperties

\* The queue that holds one packet is empty without it.
LEMMA Single ==
  ASSUME NEW e
  PROVE  /\ <<e>> \in Seq({e})
         /\ Head(<<e>>) = e
         /\ Tail(<<e>>) = <<>>
<1>1. <<e>> \in Seq({e}) /\ <<e>> # <<>> /\ Len(<<e>>) = 1 /\ Head(<<e>>) = e
  OBVIOUS
<1>2. Tail(<<e>>) \in Seq({e}) /\ Len(Tail(<<e>>)) = 0
  BY <1>1, HeadTailProperties
<1> QED BY <1>1, <1>2, EmptySeq

\* The connection starts in the invariant.
LEMMA InitInv == Init => IInv
<1> SUFFICES ASSUME Init PROVE IInv
  OBVIOUS
<1>1. TypeOK
  <2>1. /\ sending \in BOOLEAN
        /\ videoOn \in BOOLEAN
        /\ slide \in BOOLEAN
        /\ sender \in {"test", "enter", "waiting", "woken", "send", "exited"}
        /\ user \in {"alive", "stopping", "joining", "joined"}
        /\ net \in {"up", "failing", "failed"}
        /\ rate \in Rates
    BY Zenon DEF Init, Rates
  <2>2. /\ queue \in Seq(Packets \cup {Poison})
        /\ accepted \in Seq(Packets)
        /\ popped \in Seq(Packets)
        /\ written \in Seq(Packets)
        /\ held \in {<<>>} \cup {<<p>> : p \in Packets}
    BY EmptySeq DEF Init
  <2>3. unsent \in SUBSET Packets /\ delivering \in SUBSET Packets /\ late \in Nat
    BY DEF Init
  <2> QED BY <2>1, <2>2, <2>3 DEF TypeOK
<1>2. Whole
  BY EmptySeq, ConcatEmptySeq DEF Init, Whole
<1> QED BY <1>1, <1>2 DEF Init, IInv, LateIsLast

-----------------------------------------------------------------------------
\* The block of sendLoop under the mutex keeps types and order, takes a packet only
\* from the front, and stops at the end packet.
LEMMA TakeInv ==
  ASSUME TypeOK, Whole \/ Replaced, TakeOrWait, UNCHANGED accepted
  PROVE  /\ queue' \in Seq(Packets \cup {Poison})
         /\ popped' \in Seq(Packets)
         /\ held' \in {<<>>} \cup {<<p>> : p \in Packets}
         /\ Whole' \/ Replaced'
<1>1. CASE queue = <<>>
  BY <1>1 DEF TakeOrWait, TypeOK, Whole, Replaced
<1>2. CASE queue # <<>> /\ Whole
  <2>1. queue \in Seq(Packets)
    <3>1. ASSUME NEW i \in 1..Len(queue) PROVE queue[i] \in Packets
      <4>1. popped \in Seq(Packets \cup {Poison})
        BY DEF TypeOK
      <4>2. /\ Len(accepted) = Len(popped) + Len(queue)
            /\ \A j \in 1..Len(popped) + Len(queue) :
                 accepted[j] = IF j <= Len(popped) THEN popped[j]
                               ELSE queue[j - Len(popped)]
        BY <1>2, <4>1, ConcatProperties DEF Whole, TypeOK
      <4>3. Len(popped) \in Nat /\ Len(queue) \in Nat
        BY DEF TypeOK
      <4>4. accepted[Len(popped) + i] = queue[i]
        BY <4>2, <4>3
      <4> QED BY <4>2, <4>3, <4>4 DEF TypeOK
    <3> QED BY <3>1 DEF TypeOK
  <2>2. Head(queue) \in Packets /\ Head(queue) # Poison
    BY <1>2, <2>1, HeadTailProperties, PoisonAssumption DEF PoisonAssumption
  <2>3. /\ Tail(queue) \in Seq(Packets)
        /\ Append(popped, Head(queue)) \in Seq(Packets)
        /\ popped \o queue = Append(popped, Head(queue)) \o Tail(queue)
    BY <1>2, <2>1, Pop DEF TypeOK
  <2>4. Tail(queue) \in Seq(Packets \cup {Poison})
    BY <2>3
  <2> QED BY <1>2, <2>2, <2>3, <2>4 DEF TakeOrWait, Whole
<1>3. CASE queue # <<>> /\ Replaced
  <2>1. queue = <<Poison>> /\ Head(queue) = Poison /\ Tail(queue) = <<>>
    BY <1>3, Single DEF Replaced
  <2> QED BY <1>3, <2>1, EmptySeq DEF TakeOrWait, Replaced, TypeOK
<1> QED BY <1>1, <1>2, <1>3

\* Every step of the media threads, of the send thread and of the two that stop it
\* keeps the types.
LEMMA NextTypeOK == IInv /\ [Next]_vars => TypeOK'
<1> SUFFICES ASSUME IInv, [Next]_vars PROVE TypeOK'
  OBVIOUS
<1>0. TypeOK /\ (Whole \/ Replaced)
  BY DEF IInv
<1> USE <1>0 DEF TypeOK
<1>1. ASSUME NEW r \in Rates, SetFeedbackReports(r) PROVE TypeOK'
  <2>1. videoOn' \in BOOLEAN
    BY <1>1, Zenon DEF SetFeedbackReports
  <2> QED BY <1>1, <2>1 DEF SetFeedbackReports, packetVars, histVars
<1>2. ASSUME NEW state \in BOOLEAN, SetSlideShowMode(state) PROVE TypeOK'
  <2>1. slide' \in BOOLEAN
    BY <1>2, Zenon DEF SetSlideShowMode
  <2> QED BY <1>2, <2>1 DEF SetSlideShowMode, packetVars, histVars
<1>3. ASSUME NEW p \in Packets, Deliver(p) PROVE TypeOK'
  <2>1. unsent' \in SUBSET Packets /\ delivering' \in SUBSET Packets
    BY <1>3 DEF Deliver
  <2> QED BY <1>3, <2>1 DEF Deliver, histVars, ctlVars
<1>4. ASSUME NEW p \in Packets, QueueData(p) PROVE TypeOK'
  <2>1. queue' \in Seq(Packets \cup {Poison}) /\ accepted' \in Seq(Packets)
    <3>1. /\ Append(queue, p) \in Seq(Packets \cup {Poison})
          /\ Append(accepted, p) \in Seq(Packets)
      BY AppendProperties
    <3> QED BY <1>4, <3>1 DEF QueueData
  <2>2. sender' \in {"test", "enter", "waiting", "woken", "send", "exited"}
    BY <1>4 DEF QueueData, NotifyOne
  <2> QED BY <1>4, <2>1, <2>2 DEF QueueData, ctlVars
<1>5. CASE QueueEnd
  <2>1. queue' \in Seq(Packets \cup {Poison})
    BY <1>5 DEF QueueEnd
  <2> QED BY <1>5, <2>1 DEF QueueEnd, NotifyOne, packetVars, histVars, ctlVars
<1>6. CASE SendTest
  BY <1>6 DEF SendTest, packetVars, histVars, ctlVars
<1>7. CASE SendEnter
  <2>1. /\ queue' \in Seq(Packets \cup {Poison})
        /\ popped' \in Seq(Packets)
        /\ held' \in {<<>>} \cup {<<p>> : p \in Packets}
    BY <1>7, TakeInv DEF SendEnter
  <2>2. sending' \in BOOLEAN
    BY <1>7, Zenon DEF SendEnter, TakeOrWait
  <2> QED BY <1>7, <2>1, <2>2 DEF SendEnter, TakeOrWait, packetVars, ctlVars
<1>8. CASE SpuriousWakeup
  BY <1>8 DEF SpuriousWakeup, packetVars, histVars, ctlVars
<1>9. CASE SendWoken
  <2>1. CASE sending
    <3>1. /\ queue' \in Seq(Packets \cup {Poison})
          /\ popped' \in Seq(Packets)
          /\ held' \in {<<>>} \cup {<<p>> : p \in Packets}
      BY <1>9, <2>1, TakeInv DEF SendWoken
    <3>2. sending' \in BOOLEAN
      BY <1>9, <2>1, Zenon DEF SendWoken, TakeOrWait
    <3> QED BY <1>9, <2>1, <3>1, <3>2 DEF SendWoken, TakeOrWait, packetVars, ctlVars
  <2>2. CASE ~sending
    BY <1>9, <2>2 DEF SendWoken, packetVars, ctlVars
  <2> QED BY <2>1, <2>2
<1>10. CASE SendPacket
  <2>1. written' \in Seq(Packets)
    BY <1>10, HeldIsSeq, ConcatProperties DEF SendPacket
  <2> QED BY <1>10, <2>1 DEF SendPacket, packetVars, ctlVars
<1>11. CASE FailStop
  BY <1>11 DEF FailStop, packetVars, histVars, ctlVars
<1>12. CASE FailNotify
  BY <1>12 DEF FailNotify, NotifyOne, packetVars, histVars, ctlVars
<1>13. CASE DestructorStop
  BY <1>13 DEF DestructorStop, packetVars, histVars, ctlVars
<1>14. CASE DestructorNotify
  BY <1>14 DEF DestructorNotify, NotifyOne, packetVars, histVars, ctlVars
<1>15. CASE DestructorJoin
  BY <1>15 DEF DestructorJoin, packetVars, histVars, ctlVars
<1>16. CASE UNCHANGED vars
  BY <1>16 DEF vars, packetVars, histVars, ctlVars
<1> QED
  BY <1>1, <1>2, <1>3, <1>4, <1>5, <1>6, <1>7, <1>8, <1>9, <1>10, <1>11, <1>12,
     <1>13, <1>14, <1>15, <1>16
  DEF Next, SenderStep, StopStep

\* Only four places touch the queue: a packet is accepted, the end packet replaces the
\* queue, the send thread takes a packet.  Everybody else may only stop the sending.
LEMMA QueueSteps ==
  [Next]_vars => \/ \E p \in Packets : QueueData(p)
                 \/ QueueEnd
                 \/ TakeOrWait /\ UNCHANGED accepted
                 \/ UNCHANGED <<queue, accepted, popped>> /\ (sending' => sending)
  BY DEF Next, SenderStep, StopStep, SetFeedbackReports, SetSlideShowMode, Deliver,
     SendTest, SendEnter, SpuriousWakeup, SendWoken, SendPacket, FailStop, FailNotify,
     DestructorStop, DestructorNotify, DestructorJoin, vars, packetVars, histVars, ctlVars

\* Every step keeps the order.
LEMMA NextOrder == IInv /\ [Next]_vars => Whole' \/ Replaced'
<1> SUFFICES ASSUME IInv, [Next]_vars PROVE Whole' \/ Replaced'
  OBVIOUS
<1>0. TypeOK /\ (Whole \/ Replaced)
  BY DEF IInv
<1>1. ASSUME NEW p \in Packets, QueueData(p) PROVE Whole' \/ Replaced'
  <2>1. CASE ~sending \/ ~(Len(queue) < Capacity)
    BY <1>0, <1>1, <2>1 DEF QueueData, Whole, Replaced
  <2>2. CASE sending /\ Len(queue) < Capacity
    <3>1. /\ queue \in Seq(Packets \cup {Poison})
          /\ popped \in Seq(Packets \cup {Poison})
          /\ p \in Packets \cup {Poison}
          /\ <<p>> \in Seq(Packets \cup {Poison})
      BY <1>0 DEF TypeOK
    <3>2. Append(popped \o queue, p) = (popped \o queue) \o <<p>>
      BY <3>1, AppendIsConcat, ConcatProperties
    <3>3. (popped \o queue) \o <<p>> = popped \o (queue \o <<p>>)
      BY <3>1, ConcatAssociative
    <3>4. queue \o <<p>> = Append(queue, p)
      BY <3>1, AppendIsConcat
    <3>5. accepted' = Append(accepted, p) /\ queue' = Append(queue, p) /\ popped' = popped
      BY <1>1, <2>2 DEF QueueData
    <3> QED BY <1>0, <2>2, <3>2, <3>3, <3>4, <3>5 DEF Whole, Replaced
  <2> QED BY <2>1, <2>2
<1>2. CASE QueueEnd
  <2>1. Whole /\ popped \in Seq(Packets \cup {Poison})
        /\ queue \in Seq(Packets \cup {Poison})
    BY <1>0, <1>2 DEF QueueEnd, Replaced, TypeOK
  <2>2. IsPrefix(popped, accepted)
    BY <2>1, ConcatPrefix DEF Whole
  <2> QED BY <1>2, <2>2 DEF QueueEnd, Replaced, histVars
<1>3. CASE TakeOrWait /\ UNCHANGED accepted
  BY <1>0, <1>3, TakeInv
<1>4. CASE UNCHANGED <<queue, accepted, popped>> /\ (sending' => sending)
  BY <1>0, <1>4 DEF Whole, Replaced
<1> QED BY <1>1, <1>2, <1>3, <1>4, QueueSteps

\* Every step keeps the bound on what leaves late.
LEMMA NextLate == IInv /\ [Next]_vars => LateIsLast'
<1> SUFFICES ASSUME IInv, [Next]_vars PROVE LateIsLast'
  OBVIOUS
<1> USE DEF IInv, TypeOK, LateIsLast
<1>1. CASE SendPacket
  BY <1>1 DEF SendPacket
<1>2. CASE SendTest
  BY <1>2 DEF SendTest, histVars
<1>3. CASE SendEnter
  BY <1>3 DEF SendEnter
<1>4. CASE SendWoken \/ SpuriousWakeup
  BY <1>4 DEF SendWoken, SpuriousWakeup, histVars
<1>5. CASE \/ \E p \in Packets : QueueData(p)
           \/ QueueEnd \/ FailNotify \/ DestructorNotify
  BY <1>5 DEF QueueData, QueueEnd, FailNotify, DestructorNotify, NotifyOne, histVars
<1>6. CASE UNCHANGED <<late, sender>> /\ (sending' => sending)
  BY <1>6
<1>7. \/ SendPacket \/ SendTest \/ SendEnter \/ SendWoken \/ SpuriousWakeup
      \/ \E p \in Packets : QueueData(p)
      \/ QueueEnd \/ FailNotify \/ DestructorNotify
      \/ UNCHANGED <<late, sender>> /\ (sending' => sending)
  BY DEF Next, SenderStep, StopStep, SetFeedbackReports, SetSlideShowMode, Deliver,
     FailStop, DestructorStop, DestructorJoin, vars, histVars
<1> QED BY <1>1, <1>2, <1>3, <1>4, <1>5, <1>6, <1>7

\* The invariant holds in every reachable state.
LEMMA Invariance == Spec => []IInv
<1>1. IInv /\ [Next]_vars => IInv'
  BY NextTypeOK, NextOrder, NextLate DEF IInv
<1> QED BY InitInv, <1>1, PTL DEF Spec

-----------------------------------------------------------------------------
\* queueData and sendLoop lose, duplicate and reorder nothing that was accepted, until
\* the end packet replaces the queue.
THEOREM OrderKept == Spec => []AcceptedInOrder
<1>1. IInv => AcceptedInOrder
  BY DEF IInv, Whole, Replaced, AcceptedInOrder
<1> QED BY <1>1, Invariance, PTL

\* sending_ is cleared without the mutex, and still only one more packet leaves.
THEOREM StopsPromptly == Spec => []AtMostOneLatePacket
<1>1. IInv => AtMostOneLatePacket
  BY DEF IInv, TypeOK, LateIsLast, AtMostOneLatePacket
<1> QED BY <1>1, Invariance, PTL
=============================================================================
