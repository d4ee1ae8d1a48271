----------------------------- MODULE SendQueue ------------------------------
(***************************************************************************)
(* The outgoing packet queue of WebRtcConnection: queueData (called by any *)
(* media thread), sendLoop (the send thread), and the two places that stop *)
(* it without taking receiveVideoMutex_, the destructor and the FAILED case*)
(* of updateState.  A critical section under receiveVideoMutex_ is one     *)
(* action; cond_.wait releases the mutex, so the wait and what follows the *)
(* wake-up are two.  sending_ is a plain bool read outside the mutex.      *)
(***************************************************************************)
EXTENDS Integers, Sequences, SequencesExt

CONSTANTS
  Packets,      \* distinct packets the media threads may queue
  VideoPackets, \* those of type VIDEO_PACKET
  Capacity      \* 1000 in the code

ASSUME SendQueueAssumption ==
  /\ VideoPackets \subseteq Packets
  /\ Capacity \in Nat \ {0}

\* The packet with comp == -1 that queueData(-1, ...) leaves in the queue.
Poison == "poison"
ASSUME PoisonAssumption == Poison \notin Packets

Rates == {"off", "mute", "limit"}

VARIABLES
  queue,      \* sendQueue_
  sending,    \* sending_
  sender,     \* program counter of the send thread
  held,       \* the packet p of sendLoop, <<>> if none
  unsent,     \* packets no media thread has offered yet
  delivering, \* packets whose thread found the medium enabled
  accepted,   \* history: the packets pushed, in order
  popped,     \* history: the packets taken by the send thread, in order
  written,    \* history: those given to a transport, in order
  late,       \* history: number written after sending_ became false
  rate,       \* rateControl_: 0, 1 (drop all video) or a bit rate
  videoOn,    \* videoEnabled_
  slide,      \* slideShowMode_
  user,       \* program counter of the destructor
  net         \* program counter of the thread that reports a failure

histVars == <<accepted, popped, written, late>>
ctlVars  == <<rate, videoOn, slide>>
packetVars == <<unsent, delivering>>
vars == <<queue, sending, sender, held, packetVars, histVars, ctlVars, user, net>>

Init ==
  /\ queue = <<>>
  /\ sending = TRUE
  /\ sender = "test"
  /\ held = <<>>
  /\ unsent = Packets
  /\ delivering = {}
  /\ accepted = <<>>
  /\ popped = <<>>
  /\ written = <<>>
  /\ late = 0
  /\ rate = "off"
  /\ videoOn = TRUE
  /\ slide = FALSE
  /\ user = "alive"
  /\ net = "up"

\* Faulty: nobody is notified.
NotifyOne_Lost == UNCHANGED sender

\* cond_.notify_one(): the send thread is the only one that waits.
NotifyOne == sender' = IF sender = "waiting" THEN "woken" ELSE sender

-----------------------------------------------------------------------------
\* setFeedbackReports(.., rateControl): leaving the mute disables video.
SetFeedbackReports(r) ==
  /\ user = "alive"
  /\ videoOn' = (videoOn /\ rate # "mute")
  /\ rate' = r
  /\ UNCHANGED <<slide, queue, sending, sender, held, packetVars, histVars, user, net>>

\* setSlideShowMode, which suspends the rate control (detailed in SlideShow).
SetSlideShowMode(state) ==
  /\ user = "alive"
  /\ slide # state
  /\ slide' = state
  /\ UNCHANGED <<rate, videoOn, queue, sending, sender, held, packetVars, histVars,
                 user, net>>

\* deliverAudioData_ and deliverVideoData_ test that the medium is enabled before
\* queueData takes the mutex.
Deliver(p) ==
  /\ user = "alive"
  /\ p \in unsent
  /\ unsent' = unsent \ {p}
  /\ delivering' = IF p \in VideoPackets /\ ~videoOn THEN delivering
                   ELSE delivering \cup {p}
  /\ UNCHANGED <<queue, sending, sender, held, histVars, ctlVars, user, net>>

\* queueData: refused when the connection stopped, dropped when the queue is full.
QueueData(p) ==
  /\ user # "joined"
  /\ p \in delivering
  /\ delivering' = delivering \ {p}
  /\ IF ~sending
     THEN UNCHANGED <<queue, accepted, sender>>
     ELSE /\ IF Len(queue) < Capacity
             THEN queue' = Append(queue, p) /\ accepted' = Append(accepted, p)
             ELSE UNCHANGED <<queue, accepted>>
          /\ NotifyOne
  /\ UNCHANGED <<unsent, sending, held, popped, written, late, ctlVars, user, net>>

\* queueData with comp == -1: the queue is replaced by the poison packet.
QueueEnd ==
  /\ user = "alive"
  /\ sending
  /\ sending' = FALSE
  /\ queue' = <<Poison>>
  /\ NotifyOne
  /\ UNCHANGED <<held, packetVars, histVars, ctlVars, user, net>>

-----------------------------------------------------------------------------
\* Faulty: while (true).
SendTest_Forever ==
  /\ sender = "test"
  /\ sender' = "enter"
  /\ UNCHANGED <<queue, sending, held, packetVars, histVars, ctlVars, user, net>>

\* while (sending_)
SendTest ==
  /\ sender = "test"
  /\ sender' = IF sending THEN "enter" ELSE "exited"
  /\ UNCHANGED <<queue, sending, held, packetVars, histVars, ctlVars, user, net>>

\* Faulty: the packet is not popped.
TakeOrWait_NoPop ==
  IF queue = <<>>
  THEN sender' = "waiting" /\ UNCHANGED <<queue, sending, held, popped>>
  ELSE /\ UNCHANGED <<queue, sending>>
       /\ IF Head(queue) = Poison
          THEN sender' = "exited" /\ UNCHANGED <<held, popped>>
          ELSE /\ held' = <<Head(queue)>>
               /\ popped' = Append(popped, Head(queue))
               /\ sender' = "send"

\* From the test of the queue, under the mutex, to the end of the block.
TakeOrWait ==
  IF queue = <<>>
  THEN /\ sender' = "waiting"
       /\ UNCHANGED <<queue, sending, held, popped>>
  ELSE /\ queue' = Tail(queue)
       /\ IF Head(queue) = Poison
          THEN /\ sending' = FALSE
               /\ sender' = "exited"
               /\ UNCHANGED <<held, popped>>
          ELSE /\ held' = <<Head(queue)>>
               /\ popped' = Append(popped, Head(queue))
               /\ sender' = "send"
               /\ UNCHANGED sending

SendEnter ==
  /\ sender = "enter"
  /\ TakeOrWait
  /\ UNCHANGED <<packetVars, accepted, written, late, ctlVars, user, net>>

\* cond_.wait may return without a notification.
SpuriousWakeup ==
  /\ sender = "waiting"
  /\ sender' = "woken"
  /\ UNCHANGED <<queue, sending, held, packetVars, histVars, ctlVars, user, net>>

SendWoken ==
  /\ sender = "woken"
  /\ IF sending THEN TakeOrWait
     ELSE sender' = "exited" /\ UNCHANGED <<queue, sending, held, popped>>
  /\ UNCHANGED <<packetVars, accepted, written, late, ctlVars, user, net>>

\* Rate control, header extensions and the write to the transport.
SendPacket ==
  /\ sender = "send"
  /\ sender' = "test"
  /\ held' = <<>>
  /\ \/ /\ Head(held) \in VideoPackets
        /\ rate # "off"
        /\ ~slide
        /\ UNCHANGED <<written, late>>
     \/ /\ Head(held) \in VideoPackets => rate # "mute" \/ slide
        /\ written' = written \o held
        /\ late' = IF sending THEN late ELSE late + 1
  /\ UNCHANGED <<queue, sending, packetVars, accepted, popped, ctlVars, user, net>>

-----------------------------------------------------------------------------
\* updateState(TRANSPORT_FAILED): sending_ = false, then cond_.notify_one().
FailStop ==
  /\ net = "up"
  /\ user = "alive"
  /\ net' = "failing"
  /\ sending' = FALSE
  /\ UNCHANGED <<queue, sender, held, packetVars, histVars, ctlVars, user>>

FailNotify ==
  /\ net = "failing"
  /\ net' = "failed"
  /\ NotifyOne
  /\ UNCHANGED <<queue, sending, held, packetVars, histVars, ctlVars, user>>

\* ~WebRtcConnection: the same two steps, then send_Thread_.join().
DestructorStop ==
  /\ user = "alive"
  /\ user' = "stopping"
  /\ sending' = FALSE
  /\ UNCHANGED <<queue, sender, held, packetVars, histVars, ctlVars, net>>

\* Faulty: the destructor does not notify.
DestructorNotify_Silent ==
  /\ user = "stopping"
  /\ user' = "joining"
  /\ UNCHANGED <<queue, sending, sender, held, packetVars, histVars, ctlVars, net>>

DestructorNotify ==
  /\ user = "stopping"
  /\ user' = "joining"
  /\ NotifyOne
  /\ UNCHANGED <<queue, sending, held, packetVars, histVars, ctlVars, net>>

DestructorJoin ==
  /\ user = "joining"
  /\ sender = "exited"
  /\ user' = "joined"
  /\ UNCHANGED <<queue, sending, sender, held, packetVars, histVars, ctlVars, net>>

SenderStep == SendTest \/ SendEnter \/ SendWoken \/ SendPacket
StopStep   == FailNotify \/ DestructorNotify \/ DestructorJoin

Next == \/ \E r \in Rates : SetFeedbackReports(r)
        \/ \E state \in BOOLEAN : SetSlideShowMode(state)
        \/ \E p \in Packets : Deliver(p) \/ QueueData(p)
        \/ QueueEnd
        \/ SenderStep
        \/ SpuriousWakeup
        \/ FailStop
        \/ DestructorStop
        \/ StopStep

Spec == Init /\ [][Next]_vars

\* The send thread runs when it can and a stop that has begun is carried out.
FairSpec == Spec /\ WF_vars(SenderStep) /\ WF_vars(StopStep)

-----------------------------------------------------------------------------
\* The queue and the histories hold packets, the program counters known places.
TypeOK ==
  /\ queue \in Seq(Packets \cup {Poison})
  /\ sending \in BOOLEAN
  /\ sender \in {"test", "enter", "waiting", "woken", "send", "exited"}
  /\ held \in {<<>>} \cup {<<p>> : p \in Packets}
  /\ unsent \in SUBSET Packets
  /\ delivering \in SUBSET Packets
  /\ accepted \in Seq(Packets)
  /\ popped \in Seq(Packets)
  /\ written \in Seq(Packets)
  /\ late \in Nat
  /\ rate \in Rates
  /\ videoOn \in BOOLEAN
  /\ slide \in BOOLEAN
  /\ user \in {"alive", "stopping", "joining", "joined"}
  /\ net \in {"up", "failing", "failed"}

\* Nothing is lost, duplicated or reordered between queueData and the transport:
\* what was accepted is what was taken followed by what is still queued, up to
\* the point where the poison packet replaces the queue.  (The types are a part of it.)
AcceptedInOrder ==
  /\ TypeOK
  /\ \/ accepted = popped \o queue
     \/ ~sending /\ IsPrefix(popped, accepted) /\ queue \in {<<>>, <<Poison>>}

\* After the connection was stopped (failure, destructor or end packet) at most
\* one more packet reaches a transport: the one the send thread was about to take.
AtMostOneLatePacket == late <= 1

\* A packet accepted while the connection is sending leaves the queue, or the
\* connection stops: the send thread never sleeps on a non-empty queue.
NoStrandedPacket ==
  \A p \in Packets :
    (\E i \in 1..Len(queue) : queue[i] = p)
      ~> (~sending \/ \A i \in 1..Len(queue) : queue[i] # p)

\* A stop that finds the send thread waiting, or a packet still queued, ends the
\* thread, and the destructor's join returns.
StopEndsBusyOrWaitingSender ==
  (user = "stopping" /\ (sender = "waiting" \/ queue # <<>>)) ~> (user = "joined")
=============================================================================
