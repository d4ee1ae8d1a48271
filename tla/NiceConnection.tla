--------------------------- MODULE NiceConnection ---------------------------
(***************************************************************************)
(* The inbound side of a transport in detail: NiceConnection's packet queue*)
(* (queueData in the nice thread, getPacket in the transport's data        *)
(* thread), the auto-reset event between them, iceState_, which both the   *)
(* nice thread and close() test and set without a lock, and the closing of *)
(* the pair by DtlsTransport::close followed by ~NiceConnection, which     *)
(* calls close() a second time.                                            *)
(***************************************************************************)
EXTENDS ErizoStates, Sequences

CONSTANTS
  Packets,    \* distinct packets the network may deliver
  Capacity    \* 1000 in the code

ASSUME NiceAssumption == Capacity \in Nat \ {0}

VARIABLES
  ice,        \* iceState_
  queue,      \* niceQueue_
  event,      \* m_ShouldContinue of the event cond_
  quit,       \* g_main_loop_quit was called
  running,    \* DtlsTransport::running_
  nice,       \* program counter of the nice thread
  newState,   \* argument of the updateIceState it is in
  packet,     \* argument of the queueData it is in, <<>> if none
  data,       \* program counter of the data thread
  user,       \* program counter of the thread that starts and closes
  net,        \* packets the network has not delivered yet
  accepted,   \* history: packets pushed, in order
  delivered,  \* history: packets given to onNiceData, in order
  late,       \* history: packets delivered after the close began
  regressed   \* history: an unlocked write of iceState_ undid a later state

argVars  == <<newState, packet>>
histVars == <<accepted, delivered, late, regressed>>
vars == <<ice, queue, event, quit, running, nice, argVars, data, user, net, histVars>>

Init ==
  /\ ice = NICE_INITIAL
  /\ queue = <<>>
  /\ event = FALSE
  /\ quit = FALSE
  /\ running = TRUE
  /\ nice = "none"
  /\ newState = NICE_INITIAL
  /\ packet = <<>>
  /\ data = "top"
  /\ user = "new"
  /\ net = Packets
  /\ accepted = <<>>
  /\ delivered = <<>>
  /\ late = 0
  /\ regressed = FALSE

Start ==
  /\ user = "new"
  /\ ice = NICE_INITIAL
  /\ user' = "open"
  /\ nice' = "loop"
  /\ UNCHANGED <<ice, queue, event, quit, running, argVars, data, net, histVars>>

-----------------------------------------------------------------------------
\* The nice thread: updateIceState tests and then sets iceState_.
IceTest(s) ==
  /\ nice = "loop"
  /\ s > ice
  /\ nice' = "setState"
  /\ newState' = s
  /\ UNCHANGED <<packet, ice, queue, event, quit, running, data, user, net, histVars>>

\* A failure also stops the data loop, unless the listener is already NULL.
IceSet ==
  /\ nice = "setState"
  /\ nice' = "loop"
  /\ ice' = newState
  /\ newState' = NICE_INITIAL
  /\ running' = (running /\ (newState = NICE_FAILED => user # "open"))
  /\ regressed' = (regressed \/ newState < ice)
  /\ UNCHANGED <<packet, queue, event, quit, data, user, net, accepted, delivered,
                 late>>

\* queueData: the state is tested before the queue's mutex is taken.
RecvTest(p) ==
  /\ nice = "loop"
  /\ p \in net
  /\ net' = net \ {p}
  /\ IF ice = NICE_READY
     THEN nice' = "push" /\ packet' = <<p>>
     ELSE UNCHANGED <<nice, packet>>
  /\ UNCHANGED <<newState, ice, queue, event, quit, running, data, user, histVars>>

\* Faulty: the waiter is not signalled.
RecvPush_Unsignalled ==
  /\ nice = "push"
  /\ nice' = "loop"
  /\ packet' = <<>>
  /\ IF Len(queue) < Capacity
     THEN queue' = queue \o packet /\ accepted' = accepted \o packet
     ELSE UNCHANGED <<queue, accepted>>
  /\ UNCHANGED <<newState, ice, event, quit, running, data, user, net, delivered,
                 late, regressed>>

RecvPush ==
  /\ nice = "push"
  /\ nice' = "loop"
  /\ packet' = <<>>
  /\ IF Len(queue) < Capacity
     THEN /\ queue' = queue \o packet
          /\ accepted' = accepted \o packet
          /\ event' = TRUE
     ELSE UNCHANGED <<queue, accepted, event>>
  /\ UNCHANGED <<newState, ice, quit, running, data, user, net, delivered, late,
                 regressed>>

\* Faulty: the loop goes on while packets are queued.
LoopQuits_Drained ==
  /\ nice = "loop"
  /\ quit
  /\ queue = <<>>
  /\ nice' = "exited"
  /\ UNCHANGED <<ice, queue, event, quit, running, argVars, data, user, net, histVars>>

LoopQuits ==
  /\ nice = "loop"
  /\ quit
  /\ nice' = "exited"
  /\ UNCHANGED <<ice, queue, event, quit, running, argVars, data, user, net, histVars>>

-----------------------------------------------------------------------------
\* Faulty: running_ is not tested.
DataTop_Untested ==
  /\ data = "top"
  /\ data' = "get"
  /\ UNCHANGED <<ice, queue, event, quit, running, nice, argVars, user, net, histVars>>

\* The data thread: getNiceDataLoop and getPacket.
DataTop ==
  /\ data = "top"
  /\ data' = IF running THEN "get" ELSE "exited"
  /\ UNCHANGED <<ice, queue, event, quit, running, nice, argVars, user, net, histVars>>

\* Under queueMutex_: pop and hand to onNiceData, or go and wait.
DataGet ==
  /\ data = "get"
  /\ IF queue = <<>>
     THEN data' = "wait" /\ UNCHANGED <<queue, delivered, late>>
     ELSE /\ queue' = Tail(queue)
          /\ delivered' = Append(delivered, Head(queue))
          /\ late' = IF user \in {"new", "open"} THEN late ELSE late + 1
          /\ data' = "top"
  /\ UNCHANGED <<ice, event, quit, running, nice, argVars, user, net, accepted,
                 regressed>>

DataWake ==
  /\ data = "wait"
  /\ event
  /\ event' = FALSE
  /\ data' = "check"
  /\ UNCHANGED <<ice, queue, quit, running, nice, argVars, user, net, histVars>>

\* Faulty: a READY agent counts as finished.
DataCheck_TooEarly ==
  /\ data = "check"
  /\ data' = IF ice >= NICE_READY THEN "exited" ELSE "get"
  /\ UNCHANGED <<ice, queue, event, quit, running, nice, argVars, user, net, histVars>>

DataCheck ==
  /\ data = "check"
  /\ IF ice >= NICE_FINISHED
     THEN data' = "exited" /\ running' = FALSE
     ELSE data' = "get" /\ UNCHANGED running
  /\ UNCHANGED <<ice, queue, event, quit, nice, argVars, user, net, histVars>>

\* A failed handshake stops the loop from another thread.
HandshakeFails ==
  /\ user = "open"
  /\ running' = FALSE
  /\ UNCHANGED <<ice, queue, event, quit, nice, argVars, data, user, net, histVars>>

-----------------------------------------------------------------------------
\* DtlsTransport::close: running_ and the listener are cleared first.
CloseBegin ==
  /\ user = "open"
  /\ user' = "closeTest"
  /\ running' = FALSE
  /\ UNCHANGED <<ice, queue, event, quit, nice, argVars, data, net, histVars>>

\* NiceConnection::close: nothing when already FINISHED; otherwise
\* updateIceState(NICE_FINISHED), whose test lets a FAILED state stand.
CloseTest ==
  /\ user = "closeTest"
  /\ user' = IF ice < NICE_FINISHED THEN "closeSet" ELSE "quit"
  /\ UNCHANGED <<ice, queue, event, quit, running, nice, argVars, data, net, histVars>>

CloseSet ==
  /\ user = "closeSet"
  /\ user' = "quit"
  /\ ice' = NICE_FINISHED
  /\ regressed' = (regressed \/ ice > NICE_FINISHED)
  /\ UNCHANGED <<queue, event, quit, running, nice, argVars, data, net, accepted,
                 delivered, late>>

CloseQuit ==
  /\ user = "quit"
  /\ user' = "joinNice"
  /\ quit' = TRUE
  /\ event' = TRUE
  /\ UNCHANGED <<ice, queue, running, nice, argVars, data, net, histVars>>

JoinNice ==
  /\ user = "joinNice"
  /\ nice = "exited"
  /\ user' = "joinData"
  /\ UNCHANGED <<ice, queue, event, quit, running, nice, argVars, data, net, histVars>>

JoinData ==
  /\ user = "joinData"
  /\ data = "exited"
  /\ user' = "closed"
  /\ UNCHANGED <<ice, queue, event, quit, running, nice, argVars, data, net, histVars>>

\* Faulty: close() has no early return.
DestructorCloses_Twice ==
  /\ user = "closed"
  /\ user' = "terminated"
  /\ UNCHANGED <<ice, queue, event, quit, running, nice, argVars, data, net, histVars>>

\* ~NiceConnection: close() again.  Only FINISHED returns early; otherwise the
\* thread that was joined before is joined again, std::thread throws, and the
\* exception leaves a destructor.
DestructorCloses ==
  /\ user = "closed"
  /\ user' = IF ice = NICE_FINISHED THEN "destroyed" ELSE "terminated"
  /\ UNCHANGED <<ice, queue, event, quit, running, nice, argVars, data, net, histVars>>

Ended == user \in {"destroyed", "terminated"} /\ UNCHANGED vars

NiceStep  == IceSet \/ RecvPush \/ LoopQuits
DataStep  == DataTop \/ DataGet \/ DataWake \/ DataCheck
CloseStep == CloseTest \/ CloseSet \/ CloseQuit \/ JoinNice \/ JoinData
             \/ DestructorCloses

Next == \/ Start
        \/ \E s \in IceState : IceTest(s)
        \/ \E p \in Packets : RecvTest(p)
        \/ NiceStep \/ DataStep
        \/ HandshakeFails
        \/ CloseBegin \/ CloseStep
        \/ Ended

Spec == Init /\ [][Next]_vars

\* Callbacks and calls that have begun go on; the data thread runs.
FairSpec == Spec /\ WF_vars(NiceStep) /\ WF_vars(DataStep) /\ WF_vars(CloseStep)

-----------------------------------------------------------------------------
\* The queue holds packets, iceState_ is one of the enum, the program counters
\* are at known places.
TypeOK ==
  /\ ice \in IceState
  /\ queue \in Seq(Packets)
  /\ event \in BOOLEAN
  /\ quit \in BOOLEAN
  /\ running \in BOOLEAN
  /\ nice \in {"none", "loop", "setState", "push", "exited"}
  /\ newState \in IceState
  /\ packet \in {<<>>} \cup {<<p>> : p \in Packets}
  /\ data \in {"top", "get", "wait", "check", "exited"}
  /\ user \in {"new", "open", "closeTest", "closeSet", "quit", "joinNice",
               "joinData", "closed", "destroyed", "terminated"}
  /\ net \in SUBSET Packets
  /\ accepted \in Seq(Packets)
  /\ delivered \in Seq(Packets)
  /\ late \in Nat
  /\ regressed \in BOOLEAN

\* The data thread never sleeps on a non-empty queue with the event down: while
\* it waits, every queued packet has its wake-up, and so has a close that is past
\* its signal (unless iceState_ was overwritten under it).
WaiterIsSignalled ==
  data = "wait" /\ (\/ queue # <<>>
                    \/ user \in {"joinNice", "joinData"} /\ ~regressed)
  => event

\* A packet leaves the queue in the order it came, and at most one is delivered
\* after the transport began to close.  (The types are a part of it.)
OrderedAndPromptlyStopped == TypeOK /\ accepted = delivered \o queue /\ late <= 1

\* The second close() of the destructor is harmless unless ICE had failed: only
\* NICE_FAILED, which updateIceState ranks above NICE_FINISHED, or an overwritten
\* FINISHED defeats the early return and makes the program terminate.
TerminatesOnlyAfterIceFailure ==
  user = "terminated" => ice = NICE_FAILED \/ regressed

\* Closing a transport ends both threads and returns, unless the nice thread
\* overwrote NICE_FINISHED between the close's write and the data thread's test.
CloseReturnsUnlessOverwritten ==
  (user = "closeTest") ~> (user \in {"destroyed", "terminated"} \/ regressed)

\* A queued packet is delivered unless the loop is told to stop.
QueuedPacketLeaves ==
  \A p \in Packets : (\E i \in 1..Len(queue) : queue[i] = p)
                       ~> (~running \/ \A i \in 1..Len(queue) : queue[i] # p)

\* iceState_ only moves forward: updateIceState returns on any state that is not
\* above the current one.  The test and the write are not one step.
IceStateAdvances == [][ice' >= ice]_ice
=============================================================================
