-------------------------- MODULE Transport_proofs --------------------------
(***************************************************************************)
(* Proofs about the two helpers of a transport that run threads of their   *)
(* own.  NiceConnection: the hand-over between the nice thread and the     *)
(* data thread, and what a close can rely on, for every set of packets and *)
(* every capacity of the queue.  Resender: its safety properties, and that *)
(* it implements ResendTimer, for every retransmission budget, word size   *)
(* and number of flights.                                                  *)
(***************************************************************************)
EXTENDS NiceConnection, Resender, SequenceTheorems, TLAPS

-----------------------------------------------------------------------------
(***************************************************************************)
(* NiceConnection: the inductive invariant, in parts.                      *)
(***************************************************************************)
Closing == user \notin {"new", "open"}
CloseWroteState == user \in {"quit", "joinNice", "joinData", "closed", "destroyed",
                             "terminated"}
CloseSignalled  == user \in {"joinNice", "joinData"}

\* What came in is what went out followed by what is queued.
Fifo == accepted = delivered \o queue

\* DtlsTransport::close clears running_ and nothing sets it again.
ClosingStopsLoop == Closing => ~running

\* The one packet that is delivered late is the last: the loop test comes next.
LateIsLast == late # 0 => late = 1 /\ Closing /\ data \in {"top", "exited"}

\* updateIceState(NICE_FINISHED) of close() has its effect, unless it was overwritten.
StateWritten == CloseWroteState => ice >= NICE_FINISHED \/ regressed

\* The signal of close() is there until the data thread has taken it, and who has
\* taken it finds a final state.
SignalKept == CloseSignalled /\ data \in {"top", "get", "wait"} => event \/ regressed

\* Who waits for a packet that is there has its wake-up.
PacketSignalled == data = "wait" /\ queue # <<>> => event

IInv == /\ TypeOK
        /\ Fifo
        /\ ClosingStopsLoop
        /\ LateIsLast
        /\ StateWritten
        /\ SignalKept
        /\ PacketSignalled
        /\ TerminatesOnlyAfterIceFailure

-----------------------------------------------------------------------------
\* A NiceConnection starts in the invariant.
LEMMA InitInv == Init => IInv
<1> SUFFICES ASSUME Init PROVE IInv
  OBVIOUS
<1>1. TypeOK
  <2>1. /\ nice \in {"none", "loop", "setState", "push", "exited"}
        /\ data \in {"top", "get", "wait", "check", "exited"}
        /\ user \in {"new", "open", "closeTest", "closeSet", "quit", "joinNice",
                     "joinData", "closed", "destroyed", "terminated"}
        /\ event \in BOOLEAN
        /\ quit \in BOOLEAN
        /\ running \in BOOLEAN
        /\ regressed \in BOOLEAN
    BY Zenon DEF Init
  <2>2. /\ ice \in IceState
        /\ newState \in IceState
        /\ late \in Nat
    BY DEF Init, IceState, NICE_INITIAL, NICE_FAILED
  <2>3. /\ queue \in Seq(Packets)
        /\ accepted \in Seq(Packets)
        /\ delivered \in Seq(Packets)
        /\ packet \in {<<>>} \cup {<<p>> : p \in Packets}
        /\ net \in SUBSET Packets
    BY EmptySeq DEF Init
  <2> QED BY <2>1, <2>2, <2>3 DEF TypeOK
<1>2. Fifo
  BY EmptySeq, ConcatEmptySeq DEF Init, Fifo
<1> QED
  BY <1>1, <1>2 DEF Init, IInv, Closing, CloseWroteState, CloseSignalled,
     ClosingStopsLoop, LateIsLast, StateWritten, SignalKept, PacketSignalled,
     TerminatesOnlyAfterIceFailure

-----------------------------------------------------------------------------
\* The packet a callback carries is a sequence of at most one packet.
LEMMA PacketIsSeq == TypeOK => packet \in Seq(Packets)
<1> SUFFICES ASSUME TypeOK PROVE packet \in Seq(Packets)
  OBVIOUS
<1>1. <<>> \in Seq(Packets)
  BY EmptySeq
<1>2. ASSUME NEW p \in Packets PROVE <<p>> \in Seq(Packets)
  OBVIOUS
<1> QED BY <1>1, <1>2 DEF TypeOK

\* Moving the head of a queue to the end of what left it before changes nothing.
LEMMA Pop ==
  ASSUME NEW S, NEW out \in Seq(S), NEW q \in Seq(S), q # <<>>
  PROVE  /\ Tail(q) \in Seq(S)
         /\ Append(out, Head(q)) \in Seq(S)
         /\ out \o q = Append(out, Head(q)) \o Tail(q)
<1>1. Head(q) \in S /\ Tail(q) \in Seq(S) /\ <<Head(q)>> \in Seq(S)
  BY HeadTailProperties
<1>2. q = <<Head(q)>> \o Tail(q)
  BY <1>1
<1>3. Append(out, Head(q)) = out \o <<Head(q)>>
  BY <1>1, AppendIsConcat
<1>4. (out \o <<Head(q)>>) \o Tail(q) = out \o (<<Head(q)>> \o Tail(q))
  BY <1>1, ConcatAssociative
<1> QED BY <1>1, <1>2, <1>3, <1>4, AppendProperties

\* Every step of the three threads keeps the types.
LEMMA NextTypeOK == TypeOK /\ [Next]_vars => TypeOK'
<1> SUFFICES ASSUME TypeOK, [Next]_vars PROVE TypeOK'
  OBVIOUS
<1> USE DEF TypeOK
<1>1. CASE Start
  BY <1>1 DEF Start, argVars, histVars
<1>2. ASSUME NEW s \in IceState, IceTest(s) PROVE TypeOK'
  BY <1>2 DEF IceTest, histVars
<1>3. CASE IceSet
  <2>1. running' \in BOOLEAN /\ regressed' \in BOOLEAN
    BY <1>3, Zenon DEF IceSet
  <2>2. NICE_INITIAL \in IceState
    BY DEF IceState, NICE_INITIAL, NICE_FAILED
  <2> QED BY <1>3, <2>1, <2>2 DEF IceSet
<1>4. ASSUME NEW p \in Packets, RecvTest(p) PROVE TypeOK'
  BY <1>4 DEF RecvTest, histVars
<1>5. CASE RecvPush
  <2>1. queue' \in Seq(Packets) /\ accepted' \in Seq(Packets)
    BY <1>5, PacketIsSeq, ConcatProperties DEF RecvPush
  <2>2. event' \in BOOLEAN
    BY <1>5, Zenon DEF RecvPush
  <2> QED BY <1>5, <2>1, <2>2 DEF RecvPush
<1>6. CASE LoopQuits
  BY <1>6 DEF LoopQuits, argVars, histVars
<1>7. CASE DataTop
  BY <1>7 DEF DataTop, argVars, histVars
<1>8. CASE DataGet
  <2>1. queue' \in Seq(Packets) /\ delivered' \in Seq(Packets)
    <3>1. CASE queue = <<>>
      BY <1>8, <3>1 DEF DataGet
    <3>2. CASE queue # <<>>
      BY <1>8, <3>2, Pop DEF DataGet
    <3> QED BY <3>1, <3>2
  <2> QED BY <1>8, <2>1 DEF DataGet, argVars
<1>9. CASE DataWake
  BY <1>9 DEF DataWake, argVars, histVars
<1>10. CASE DataCheck
  BY <1>10, ZenonT(60) DEF DataCheck, argVars, histVars
<1>11. CASE HandshakeFails
  BY <1>11 DEF HandshakeFails, argVars, histVars
<1>12. CASE CloseBegin
  BY <1>12 DEF CloseBegin, argVars, histVars
<1>13. CASE CloseTest
  BY <1>13 DEF CloseTest, argVars, histVars
<1>14. CASE CloseSet
  <2>1. regressed' \in BOOLEAN
    BY <1>14, Zenon DEF CloseSet
  <2>2. NICE_FINISHED \in IceState
    BY DEF IceState, NICE_INITIAL, NICE_FINISHED, NICE_FAILED
  <2> QED BY <1>14, <2>1, <2>2 DEF CloseSet, argVars
<1>15. CASE CloseQuit
  BY <1>15 DEF CloseQuit, argVars, histVars
<1>16. CASE JoinNice
  BY <1>16 DEF JoinNice, argVars, histVars
<1>17. CASE JoinData
  BY <1>17 DEF JoinData, argVars, histVars
<1>18. CASE DestructorCloses
  BY <1>18 DEF DestructorCloses, argVars, histVars
<1>19. CASE UNCHANGED vars
  BY <1>19 DEF vars, argVars, histVars
<1> QED
  BY <1>1, <1>2, <1>3, <1>4, <1>5, <1>6, <1>7, <1>8, <1>9, <1>10, <1>11, <1>12,
     <1>13, <1>14, <1>15, <1>16, <1>17, <1>18, <1>19
  DEF Next, NiceStep, DataStep, CloseStep, Ended

\* No step loses, duplicates or reorders a packet: only a push and a pop touch the
\* queue, at its two ends.
LEMMA NextFifo == TypeOK /\ Fifo /\ [Next]_vars => Fifo'
<1> SUFFICES ASSUME TypeOK, Fifo, [Next]_vars PROVE Fifo'
  OBVIOUS
<1> USE DEF Fifo
<1>1. CASE RecvPush
  <2>1. packet \in Seq(Packets)
    BY PacketIsSeq
  <2>2. (delivered \o queue) \o packet = delivered \o (queue \o packet)
    BY <2>1, ConcatAssociative, SMTT(60) DEF TypeOK
  <2> QED BY <1>1, <2>2 DEF RecvPush
<1>2. CASE DataGet
  <2>1. CASE queue = <<>>
    BY <1>2, <2>1 DEF DataGet
  <2>2. CASE queue # <<>>
    <3>1. delivered \o queue = Append(delivered, Head(queue)) \o Tail(queue)
      BY <2>2, Pop DEF TypeOK
    <3> QED BY <1>2, <2>2, <3>1 DEF DataGet
  <2> QED BY <2>1, <2>2
<1>3. CASE UNCHANGED <<accepted, delivered, queue>>
  BY <1>3
<1>4. [Next]_vars => RecvPush \/ DataGet \/ UNCHANGED <<accepted, delivered, queue>>
  BY DEF Next, NiceStep, DataStep, CloseStep, Ended, Start, IceTest, IceSet, RecvTest,
     LoopQuits, DataTop, DataWake, DataCheck, HandshakeFails, CloseBegin, CloseTest,
     CloseSet, CloseQuit, JoinNice, JoinData, DestructorCloses, vars, argVars, histVars
<1> QED BY <1>1, <1>2, <1>3, <1>4

\* Every step keeps the rest of the invariant.
LEMMA NextControl == IInv /\ TypeOK' /\ [Next]_vars
                       => /\ ClosingStopsLoop' /\ LateIsLast' /\ StateWritten'
                          /\ SignalKept' /\ PacketSignalled'
                          /\ TerminatesOnlyAfterIceFailure'
<1> SUFFICES ASSUME IInv, TypeOK', [Next]_vars
             PROVE  /\ ClosingStopsLoop' /\ LateIsLast' /\ StateWritten'
                    /\ SignalKept' /\ PacketSignalled'
                    /\ TerminatesOnlyAfterIceFailure'
  OBVIOUS
<1> DEFINE Control == /\ ClosingStopsLoop /\ LateIsLast /\ StateWritten
                      /\ SignalKept /\ PacketSignalled
                      /\ TerminatesOnlyAfterIceFailure
<1> USE DEF IInv, TypeOK, Closing, CloseWroteState, CloseSignalled, ClosingStopsLoop,
        LateIsLast, StateWritten, SignalKept, PacketSignalled,
        TerminatesOnlyAfterIceFailure, IceState, NICE_INITIAL, NICE_FINISHED, NICE_FAILED
<1>1. CASE Start
  BY <1>1 DEF Start, argVars, histVars
<1>2. ASSUME NEW s \in IceState, IceTest(s) PROVE Control'
  BY <1>2 DEF IceTest, histVars
<1>3. CASE IceSet
  <2>1. /\ running' => running
        /\ regressed' <=> regressed \/ newState < ice
    BY <1>3, Zenon DEF IceSet
  <2> QED BY <1>3, <2>1 DEF IceSet
<1>4. ASSUME NEW p \in Packets, RecvTest(p) PROVE Control'
  BY <1>4 DEF RecvTest, histVars
<1>5. CASE RecvPush
  BY <1>5 DEF RecvPush
<1>6. CASE LoopQuits
  BY <1>6 DEF LoopQuits, argVars, histVars
<1>7. CASE DataTop
  BY <1>7 DEF DataTop, argVars, histVars
<1>8. CASE DataGet
  BY <1>8 DEF DataGet, argVars
<1>9. CASE DataWake
  BY <1>9 DEF DataWake, argVars, histVars
<1>10. CASE DataCheck
  BY <1>10 DEF DataCheck, argVars, histVars
<1>11. CASE HandshakeFails
  BY <1>11 DEF HandshakeFails, argVars, histVars
<1>12. CASE CloseBegin
  BY <1>12 DEF CloseBegin, argVars, histVars
<1>13. CASE CloseTest
  BY <1>13 DEF CloseTest, argVars, histVars
<1>14. CASE CloseSet
  BY <1>14 DEF CloseSet, argVars
<1>15. CASE CloseQuit
  BY <1>15 DEF CloseQuit, argVars, histVars
<1>16. CASE JoinNice
  BY <1>16 DEF JoinNice, argVars, histVars
<1>17. CASE JoinData
  BY <1>17 DEF JoinData, argVars, histVars
<1>18. CASE DestructorCloses
  BY <1>18 DEF DestructorCloses, argVars, histVars
<1>19. CASE UNCHANGED vars
  BY <1>19 DEF vars, argVars, histVars
<1> QED
  BY <1>1, <1>2, <1>3, <1>4, <1>5, <1>6, <1>7, <1>8, <1>9, <1>10, <1>11, <1>12,
     <1>13, <1>14, <1>15, <1>16, <1>17, <1>18, <1>19
  DEF Next, NiceStep, DataStep, CloseStep, Ended

\* The invariant holds in every reachable state.
LEMMA Invariance == Spec => []IInv
<1>1. IInv /\ [Next]_vars => IInv'
  BY NextTypeOK, NextFifo, NextControl DEF IInv
<1> QED BY InitInv, <1>1, PTL DEF Spec

-----------------------------------------------------------------------------
\* queueData and getPacket keep the order and lose nothing that was accepted, and
\* after DtlsTransport::close began at most one more packet reaches onNiceData.
THEOREM OrderKept == Spec => []OrderedAndPromptlyStopped
<1>1. IInv => OrderedAndPromptlyStopped
  BY DEF IInv, TypeOK, Fifo, LateIsLast, OrderedAndPromptlyStopped
<1> QED BY <1>1, Invariance, PTL

\* The auto-reset event never swallows a wake-up: the data thread does not sleep on a
\* packet, nor on a close whose final state stands.
THEOREM NoLostWakeup == Spec => []WaiterIsSignalled
<1>1. IInv => WaiterIsSignalled
  BY DEF IInv, SignalKept, PacketSignalled, CloseSignalled, WaiterIsSignalled
<1> QED BY <1>1, Invariance, PTL

\* The second close() of ~NiceConnection joins a joined thread only when ICE had
\* failed, or when an unlocked write undid NICE_FINISHED.
THEOREM SecondCloseIsHarmless == Spec => []TerminatesOnlyAfterIceFailure
<1>1. IInv => TerminatesOnlyAfterIceFailure
  BY DEF IInv
<1> QED BY <1>1, Invariance, PTL

-----------------------------------------------------------------------------
(***************************************************************************)
(* Resender: the inductive invariant, in parts.                            *)
(***************************************************************************)

\* The timer is armed by the caller only while no thread serves it, and none is left
\* when the destructor has returned.
ArmedWhileJoined ==
  caller \in {"arm", "spawn", "destroyed"} => thread \in {"none", "finished"}

\* The first run() stops the io_service for good.
ServedOnce == /\ stopped => thread \in {"starting", "finished"}
              /\ thread = "finished" => stopped

\* A handler that is under way is the only operation of the timer.
OneOperation == thread \in {"handler", "rearm", "failing"} => op = "none"

\* The budget is what has not been retransmitted, until it wraps around.
BudgetCounts ==
  /\ failures = 0 /\ thread # "failing" => budget + resent = MaxResends
  /\ thread = "failing" => failures = 0 /\ resent = MaxResends

\* After the timeout report the thread only has to notice that it is out of work.
TimeoutIsLast ==
  failures # 0 => /\ failures = 1
                  /\ resent = MaxResends
                  /\ stopped \/ (thread = "running" /\ op = "none")

\* There is room for the flight that is being copied.
RoomForFlight == caller = "copy" => flight < MaxFlights

ResenderInv == /\ ResenderTypeOK
               /\ RoomForFlight
               /\ ArmedWhileJoined
               /\ ServedOnce
               /\ OneOperation
               /\ BudgetCounts
               /\ TimeoutIsLast

-----------------------------------------------------------------------------
\* max_resends_-- of an unsigned int: below zero it wraps, above it subtracts.
LEMMA Decrement ==
  ASSUME NEW b \in 0 .. Modulus - 1
  PROVE  /\ (b - 1) % Modulus \in 0 .. Modulus - 1
         /\ b > 0 => (b - 1) % Modulus = b - 1
  BY ResenderAssumption DEF ResenderAssumption

\* A Resender starts in the invariant.
LEMMA ResenderInitInv == ResenderInit => ResenderInv
<1>1. ResenderInit => ResenderTypeOK
  <2>1. MaxResends \in 0 .. Modulus - 1 /\ 0 \in 0 .. MaxFlights
    BY ResenderAssumption DEF ResenderAssumption
  <2>2. ResenderInit => /\ caller \in {"idle", "copy", "join", "arm", "spawn", "destroy",
                                      "destroyed"}
                        /\ thread \in {"none", "starting", "running", "handler", "rearm",
                                      "failing", "finished"}
                        /\ op \in {"none", "waiting", "expired", "aborted"}
                        /\ stopped \in BOOLEAN
                        /\ answered \in BOOLEAN
    BY Zenon DEF ResenderInit
  <2>3. ResenderInit => /\ budget \in 0 .. Modulus - 1
                        /\ flight \in 0 .. MaxFlights
                        /\ resent \in Nat
                        /\ failures \in Nat
    BY <2>1 DEF ResenderInit
  <2> QED BY <2>2, <2>3 DEF ResenderTypeOK
<1>2. ResenderInit => /\ RoomForFlight
                      /\ ArmedWhileJoined
                      /\ ServedOnce
                      /\ OneOperation
                      /\ BudgetCounts
                      /\ TimeoutIsLast
  BY ResenderAssumption
  DEF ResenderAssumption, ResenderInit, RoomForFlight, ArmedWhileJoined, ServedOnce,
      OneOperation, BudgetCounts, TimeoutIsLast
<1> QED BY <1>1, <1>2 DEF ResenderInv

\* Every statement of the caller and of thread_ preserves the invariant.
LEMMA ResenderNextInv == ResenderInv /\ [ResenderNext]_resenderVars => ResenderInv'
<1> SUFFICES ASSUME ResenderInv, [ResenderNext]_resenderVars PROVE ResenderInv'
  OBVIOUS
<1> USE ResenderAssumption DEF ResenderAssumption, ResenderInv, ResenderTypeOK, RoomForFlight,
        ArmedWhileJoined, ServedOnce, OneOperation, BudgetCounts, TimeoutIsLast
<1>1. CASE Cancel
  BY <1>1 DEF Cancel, CancelTimer
<1>2. CASE ScheduleCancel
  BY <1>2 DEF ScheduleCancel, CancelTimer
<1>3. CASE CopyAndWrite
  <2>1. answered' \in BOOLEAN
    BY <1>3, Zenon DEF CopyAndWrite
  <2> QED BY <1>3, <2>1 DEF CopyAndWrite
<1>4. CASE Join
  BY <1>4 DEF Join
<1>5. CASE Arm
  BY <1>5 DEF Arm
<1>6. CASE Spawn
  BY <1>6 DEF Spawn
<1>7. CASE DestroyCancel
  BY <1>7 DEF DestroyCancel, CancelTimer
<1>8. CASE DestroyJoin
  BY <1>8 DEF DestroyJoin
<1>9. CASE RunStart
  BY <1>9 DEF RunStart
<1>10. CASE RunOutOfWork
  BY <1>10 DEF RunOutOfWork
<1>11. CASE Expire
  BY <1>11 DEF Expire
<1>12. CASE Dispatch
  BY <1>12 DEF Dispatch
<1>13. CASE Resend
  <2>1. /\ (budget - 1) % Modulus \in 0 .. Modulus - 1
        /\ budget > 0 => (budget - 1) % Modulus = budget - 1
    BY Decrement
  <2>2. failures = 0 /\ budget + resent = MaxResends /\ ~stopped
    BY <1>13 DEF Resend, ResendIf
  <2>3. CASE budget > 0
    BY <1>13, <2>1, <2>2, <2>3 DEF Resend, ResendIf
  <2>4. CASE ~(budget > 0)
    BY <1>13, <2>1, <2>2, <2>4 DEF Resend, ResendIf
  <2> QED BY <2>3, <2>4
<1>14. CASE Rearm
  BY <1>14 DEF Rearm
<1>15. CASE ReportTimeout
  BY <1>15 DEF ReportTimeout
<1>16. CASE Terminated \/ UNCHANGED resenderVars
  BY <1>16 DEF Terminated, resenderVars
<1> QED
  BY <1>1, <1>2, <1>3, <1>4, <1>5, <1>6, <1>7, <1>8, <1>9, <1>10, <1>11, <1>12,
     <1>13, <1>14, <1>15, <1>16 DEF ResenderNext, CallerStep, ThreadStep

\* The invariant holds in every reachable state of Resender (DtlsTransport.cpp).
THEOREM ResenderInvariance == ResenderSpec => []ResenderInv
  BY ResenderInitInv, ResenderNextInv, PTL DEF ResenderSpec

\* Type correctness: the unsigned budget stays within its word although the code
\* decrements it below zero.
THEOREM ResenderTypeCorrect == ResenderSpec => []ResenderTypeOK
<1>1. ResenderInv => ResenderTypeOK
  BY DEF ResenderInv
<1> QED BY <1>1, ResenderInvariance, PTL

\* At most kMaxResends retransmissions in the life of a Resender, whatever flights
\* are scheduled and cancelled and although the budget wraps around.
THEOREM BudgetKept == ResenderSpec => []ResendsWithinBudget
<1>1. ResenderInv => ResendsWithinBudget
  BY ResenderAssumption
  DEF ResenderAssumption, ResenderInv, ResenderTypeOK, BudgetCounts, TimeoutIsLast,
      ResendsWithinBudget
<1> QED BY <1>1, ResenderInvariance, PTL

\* onHandshakeFailed is called at most once by a Resender, and only after all
\* retransmissions were made.
THEOREM TimeoutOnce == ResenderSpec => []OneTimeoutAfterAllResends
<1>1. ResenderInv => OneTimeoutAfterAllResends
  BY DEF ResenderInv, ResenderTypeOK, TimeoutIsLast, OneTimeoutAfterAllResends
<1> QED BY <1>1, ResenderInvariance, PTL

\* A Resender implements ResendTimer: seen through timerBar every step is a step of
\* the abstract timer or leaves it alone.
THEOREM ResenderRefinement == ResenderSpec => ImplementsResendTimer
<1>1. ResenderInit => Abstract!Init
  BY DEF ResenderInit, Abstract!Init, timerBar
<1>2. ResenderInv /\ [ResenderNext]_resenderVars => [Abstract!Next]_<<timerBar, failures>>
  <2> SUFFICES ASSUME ResenderInv, [ResenderNext]_resenderVars
               PROVE  Abstract!Next \/ (timerBar' = timerBar /\ failures' = failures)
    OBVIOUS
  <2> USE DEF ResenderInv, ResenderTypeOK, ArmedWhileJoined, ServedOnce, OneOperation,
          BudgetCounts, TimeoutIsLast, timerBar
  <2>1. CASE Spawn
    <3>1. timerBar \in {"none", "done"} /\ timerBar' = "armed" /\ failures' = failures
      BY <2>1 DEF Spawn
    <3> QED BY <3>1 DEF Abstract!Next, Abstract!Arm
  <2>2. CASE RunStart
    <3>1. CASE stopped
      BY <2>2, <3>1 DEF RunStart, Abstract!Next, Abstract!Cancel
    <3>2. CASE ~stopped
      BY <2>2, <3>2 DEF RunStart
    <3> QED BY <3>1, <3>2
  <2>3. CASE RunOutOfWork
    <3>1. CASE failures = 0
      BY <2>3, <3>1 DEF RunOutOfWork, Abstract!Next, Abstract!Cancel
    <3>2. CASE failures # 0
      BY <2>3, <3>2 DEF RunOutOfWork, Abstract!Next, Abstract!Finish
    <3> QED BY <3>1, <3>2
  <2>4. CASE ReportTimeout
    <3>1. timerBar = "armed" /\ timerBar' = "fired" /\ failures = 0 /\ failures' = 1
      BY <2>4 DEF ReportTimeout
    <3> QED BY <3>1 DEF Abstract!Next, Abstract!Fire
  <2>5. CASE DestroyJoin
    <3>1. timerBar \in {"none", "done"} /\ timerBar' = "destroyed" /\ failures' = failures
      BY <2>5 DEF DestroyJoin
    <3> QED BY <3>1 DEF Abstract!Next, Abstract!Destroy
  <2>6. CASE Dispatch \/ Resend \/ Rearm \/ Expire
    BY <2>6 DEF Dispatch, Resend, ResendIf, Rearm, Expire
  <2>7. CASE Cancel \/ ScheduleCancel \/ DestroyCancel \/ CopyAndWrite \/ Join
             \/ Arm \/ Terminated \/ UNCHANGED resenderVars
    BY <2>7 DEF Cancel, ScheduleCancel, DestroyCancel, CopyAndWrite, Join, Arm,
       Terminated, resenderVars
  <2> QED BY <2>1, <2>2, <2>3, <2>4, <2>5, <2>6, <2>7
     DEF ResenderNext, CallerStep, ThreadStep
<1> QED BY <1>1, <1>2, ResenderInvariance, PTL DEF ResenderSpec, ImplementsResendTimer, Abstract!Spec
=============================================================================
