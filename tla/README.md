# A TLA+ verification of sfup-client-win

sfup-client-win is a Windows client of a selective forwarding unit. Its core,
`src/sfup-core`, is a WebRTC endpoint (descended from Licode's Erizo): a
`WebRtcConnection` negotiates SDP, owns one or two DTLS/ICE transports, and
forwards RTP. Several threads per transport report to one connection object,
mostly without locks. This project models that part and checks it with TLC and
TLAPS. The client around it, `src/Client`, keeps a signalling session with a room
server and creates the peer connections; it is modelled where it has a protocol.

## 1. The system

| component | state | operations | talks to |
|---|---|---|---|
| `WebRtcConnection` | `globalState_`, `bundle_`, `localSdp_`/`remoteSdp_`, `sending_`, `sendQueue_`, slide-show counters | `createOffer`, `setRemoteSdp`, `addRemoteCandidate`, `updateState`, `queueData`, `sendLoop`, `setSlideShowMode`, destructor | owns the transports; they call `updateState` from their own threads |
| `Transport` / `DtlsTransport` | `state_`, `running_`, `isServer_`, `readyRtp`/`readyRtcp` | `updateTransportState`, `updateIceState`, `onNiceData`, `onHandshakeCompleted`/`Failed`, `close` | owns a `NiceConnection`, one `DtlsSocketContext` and one `Resender` per ICE component |
| `DtlsSocket` | `mHandshakeCompleted`, the SSL object | `startClient`, `handlePacketMaybe`, `doHandshakeIteration` | OpenSSL (external); calls back the transport |
| `Resender` | `max_resends_`, `data_`, timer, io_service, thread | `ScheduleResend`, `Cancel`, `Resend`, `Run`, destructor | boost (external); calls `onHandshakeFailed` |
| `NiceConnection` | `iceState_`, `comp_state_list_`, `niceQueue_`, event, `receivedLastCandidate_` | libnice callbacks, `updateComponentState`, `updateIceState`, `queueData`, `getPacket`, `close` | libnice (external); the data thread of the transport takes its packets |
| `SdpInfo` | payload maps, candidates, bundle tags | parse and print SDP, offer/answer | used by `WebRtcConnection` |
| `OneToManyProcessor` | publisher, subscriber map | add, remove, deliver, `closeAll` | forwards packets to connections |
| `RtcpForwarder`, `RtcpAggregator` | per-source report data | analyse, build and forward RTCP | `WebRtcConnection` |
| `RtpPacketQueue`, `Stats`, `SrtpChannel` | packet list; counters; libsrtp sessions | push/pop; update; protect | media path |
| `Client/` | signalling session, peer connection, UI | `ConnectionClient`, `Conductor`, `cPacketizer`, `cByteBuffer`, windows | room server, libwebrtc |
| `Common/`, `Include/` | thread pool, `cQueue`, `cEvent`, `cCriticalSection` | Windows threading wrappers | everyone |

Everything else in the tree (libnice, OpenSSL, boost, websocketpp, DuiLib,
webrtc) is vendored and is modelled only by how the code uses it.

### What is hard

A transport has a *nice* thread (libnice's main loop), a *data* thread
(`getNiceDataLoop`) and one retransmission thread per ICE component. All of them
may call `Transport::updateTransportState`, which compares and writes `state_`
without a lock and then enters `WebRtcConnection::updateState`, which takes
`updateStateMutex_` but reads the other transport's `state_` and `bundle_`,
`remoteSdp_` unlocked. The application thread writes those in `setRemoteSdp`
without taking the mutex. Closing joins all threads in a fixed order. The
questions are whether READY is ever announced too early, whether a failure can be
lost, whether a late report can undo a later state, whether wake-ups are lost, and
whether every join returns. The one-to-many processor destroys connections, and so
joins their threads, while it holds the lock their packets need, and hands feedback
back without it. The signalling client is single-threaded, but its handlers sign out
and drop peers in the middle of the loop over the bytes TCP happened to deliver. The
text of a session description comes in any order. `PROJECT.json` lists these as hazards, each at its line.

What makes each part correct:

* connection: READY only when every channel has keys; no failure is swallowed;
  `globalState_` only advances; remote candidates reach the ICE agent; the
  destructor returns;
* send queue: what is accepted is sent in order, nothing is stranded, and a stop
  takes effect;
* resender: the budget holds although its counter wraps; one timeout at most;
  joins end;
* ICE transport: no lost wake-up, order kept, the double close is harmless;
* byte buffer: no byte that was written and not committed is lost, reordered or
  overwritten, whatever fails half-way;
* slide show: outgoing numbers are consecutive except around mode switches, where they are
  off by no more than the switches explain;
* session descriptions: credentials, candidates and feedback do not depend on the order of
  the peer's lines (format parameters do: an fmtp line before its rtpmap line is lost), the
  payload-type maps invert each other, and what this client writes reads back as what
  it keeps;
* one-to-many: every subscriber gets everything since it was added, feedback finds its
  way back, calls return, and nobody is inside a destroyed processor;
* signalling: the stream is cut into the server's packets whatever the segments are,
  the client speaks when and as the server expects, and peer connections and windows
  agree.

## 2. Modules

| module | models | used by |
|---|---|---|
| `ErizoStates` | the three state enumerations with the code's numeric values | all |
| `Connection` | `WebRtcConnection`'s state machine with up to two `DtlsTransport`s, their ICE and DTLS progress and all their threads | `MCConnection`, `Connection_proofs` |
| `ResendTimer` | abstract: what a resender promises to a transport | `Resender` (refinement) |
| `Resender` | the retransmission timer, statement by statement | `MCResender`, `Transport_proofs` |
| `NiceConnection` | inbound packet queue, event, unlocked `iceState_`, double close | `MCNiceConnection`, `Transport_proofs` |
| `SendQueue` | outgoing packet queue and send thread | `MCSendQueue`, `SendQueue_proofs` |
| `SlideShow` | renumbering of video packets and of receiver reports | `MCSlideShow`, `SlideShow_proofs` |
| `ByteFifo` | abstract: what the byte buffer promises its callers | `ByteBuffer` (refinement) |
| `ByteBuffer` | the ring buffer `cByteBuffer` with its integer and string readers and writers | `MCByteBuffer`, `ByteBuffer_proofs` |
| `SdpInfo` | parser, payload-type maps, offer, answer and writer of session descriptions, as `WebRtcConnection` uses them | `MCSdpInfo`, `SdpInfo_proofs` |
| `OneToMany` | `OneToManyProcessor` between a publisher's and the subscribers' connections, with `RtcpForwarder` | `MCOneToMany`, `OneToMany_proofs` |
| `Session` | `ConnectionClient` with its callbacks into `Conductor` and `MainFrame`, and the room server | `MCSession`, `Session_proofs` |
| `Connection_proofs`, `Transport_proofs` (`NiceConnection` and `Resender`), `SendQueue_proofs`, `ByteBuffer_proofs`, `OneToMany_proofs`, `SlideShow_proofs`, `Session_proofs`, `SdpInfo_proofs` | theorems, section 4 | |

`Connection` composes the components: it contains ICE and DTLS progress of every
transport, and each retransmission thread is one program counter that behaves as
`ResendTimer` says (none, armed, reporting, done), which `Resender` is shown to
implement. That it is armed only once in `Connection` is `Resender`'s `ServedOnce`
(section 4): later flights are not served. Three components are detailed on their own because they share only a
little state with the rest: the inbound queue (`Connection` keeps `inbound`: the
queue may hold packets), the send queue (`sending`, and `sender`: where the send thread
is when the destructor comes to join it), and the slide show.

Operators whose comment begins with "Faulty:" are not part of any specification.
Each is a plausible mistake in the definition it is named after (`X_Why` for `X`);
putting it in X's place must break the property it is paired with in
`PROJECT.json`, which shows that the property depends on the code.

### Connection

* `user` is the application thread: `CreateOffer`, `SetRemoteSdp` followed by its
  three further steps (video transport, audio transport, candidates: the function
  takes no lock, so other threads run in between), `AddRemoteCandidate`, `Destroy`
  and the steps of `close()`. One offer/answer exchange is modelled. A candidate for an
  audio transport that does not exist would be given to a null pointer; the step is left
  out, as the program is over.
* A report is three steps. `SetTransportState` is `updateTransportState` (compare,
  write, go and report). `Evaluate` takes `updateStateMutex_` and computes `temp`,
  `Commit` writes `globalState_` and releases the mutex. They are apart because
  `setRemoteSdp` reads `globalState_` and writes what `Evaluate` reads, without the
  mutex. `EvaluateIgnored` is the early return of a failed connection.
* `UpdateIceState` is `NiceConnection::updateIceState` together with
  `DtlsTransport::updateIceState`. It is atomic here; `NiceConnection` takes it
  apart.
* `DoHandshakeIteration` is one pass of the handshake. What OpenSSL does is one of
  `SslOutcomes`; which state is reported follows `onHandshakeCompleted` and
  `onHandshakeFailed`. `HandshakeMutexFree` and `SessionMutexFree` are
  `handshakeMutex_` and `sessionMutex_`, held across the report. A flight to send
  leads to `ScheduleCancels` and `ScheduleResend`, which join the earlier
  retransmission thread.
* `SSL` errors are permanent; a completed socket ignores later packets.
* Destruction: `Destroy` clears `sending_` and notifies, `JoinSender` joins the send thread,
  then `CloseTransport`, `JoinNice`, `JoinData` for video and then audio,
  `Destroyed`; a timer thread may outlive the destructor's body until `~Resender`
  (`ResenderDestroyed`). The two races that can keep a join from returning are steps of the
  model. The notification takes no mutex, so the send thread may be past its test of
  `sending_` and wait after it (`sender` is "waiting"; only a later failure's notification or
  a spurious wake-up helps). And a callback may have found its state to be new just before
  `close()` wrote `NICE_FINISHED` and write after it (`LateIceState`); the data thread, woken
  once (`DataWoken`), then finds nothing to be over and waits again.

### Resender

`caller` is the thread holding `handshakeMutex_`, `thread` is `thread_`. `op` is
the outstanding `async_wait`. boost is external: an expired handler cannot be
cancelled any more; `run()` returns when there is no work left and leaves the
io_service stopped; it is never reset, so only the first flight's thread serves the
timer. `ResendTimer` promises nothing about the retransmission of later flights. It says
that at most one failure is reported, while a flight is being served, and that the resender
is not gone before its timer is. `budget` is `max_resends_`, an unsigned int modulo `Modulus`. The names of the
specification begin with `Resender` because `Transport_proofs` extends it together with
`NiceConnection`.

### NiceConnection

`nice`, `data` and `user` are the three threads. `IceTest`/`IceSet` and
`CloseTest`/`CloseSet` are the test and the write of `iceState_`, for which there
is no lock. `event` is the auto-reset `cEvent`. `DestructorCloses` is the second
`close()`; joining a `std::thread` that was joined already ends the program
(`terminated`).

### SendQueue

Every critical section of `receiveVideoMutex_` is an action. `cond_.wait` is two.
The destructor and `updateState(TRANSPORT_FAILED)` clear `sending_` and notify
without the mutex: two actions each. Rate control's arithmetic is a choice: with a
bit-rate limit a video packet may be dropped or sent.

### SlideShow

`deliverVideoData_` and `setSlideShowMode` run in two threads and share `seqNo_`,
`sendSeqNo_`, `seqNoOffset_`, `grace_` and `slideShowMode_` without a lock, so both are taken
statement by statement: a packet `Arrive`s, `ReadMode` is the test of the mode,
`SlideNumber` and `SlideSend` are the read and the write of `seqNo_++`; `OnSeqNo`, `OnGrace`
and `OnMode` switch the mode on, `OffRead` (twice), `OffOffset` and `OffMode` switch it off.
Numbers are modulo `Modulus` (2^16 in the code). `met`, `since`, `last`, `astray` and
`report` are history variables. A packet that meets a call half-way may get a number that is
skipped or used again; `met` counts such meetings, and `NumberFollowsLast` says that a number
is off by no more than the calls and the meetings since the last packet account for.
`Feedback` is a receiver report or a NACK, shifted back by the offset of now; `report` keeps
what came and what is handed on, and no property is about it (section 5).

### SdpInfo

A line of text is a record with its tag and what the parser reads from it. The peer
(`ReadLine`, external) writes lines of an offer in any order within a section and may
leave any out; since `processSdp` is one call without interleaving, each line goes
through `processLine` at once and `finishSdp` is what follows the loop, so the text is
enumerated as it is read; an offer's `first` lines come before all others, in their order.
`text` is kept for the properties. The feedback lines that `processSdp` collects are kept by
payload type, since `finishSdp` tells apart nothing else. `setRemoteSdp` then makes `localSdp_` and the
transports, `addRemoteCandidate` and `onCandidate` add candidates of either side, and
`written` is what `getSdp` wrote. `createOffer` may come before. An `a=group` line adds its
tags whatever its semantics, and sets `isBundle` only if it says BUNDLE. The m= line's list is
modelled, by the places in `payloadVector`, with the blanks the code counts. Uninitialized directions are "?" and
read as any direction. `deliverRed` is the lookup that a RED packet causes, with
its side effect on the map.

### OneToMany

`pc` and `hand` are the publisher's data threads (one with BUNDLE, otherwise one per
medium), `thr` those of the subscribers, `app` the application thread inside a call.
`monitor` is `myMonitor_`. A fan-out is `DeliverEnter` and one `DeliverNext` per
subscriber; destroying a connection is closing, the end of its data thread and the
return (`Substitute`, `Removed`, `SubscriberDestroyed`, `PublisherDestroyed`). Feedback
is tested and called in two steps, as `feedbackSink_` is not protected. `Read` is what
`onTransportData` takes for the SSRC: an APP packet leaves it uninitialized, SDES and BYE
are read as RTP (`Stray`; feedback about such a packet names no stream and is not counted as
dropped). Feedback is a sequence of blocks (`Block`), each a receiver report or another
report with the SSRC it is about. `AddSubscriber` needs a publisher: the code uses it without a
test, so without one the program would be over. The application gives a connection its sinks when it sets it. No
other source file of the repository calls `OneToManyProcessor`: the calls are those of its
interface.

### Session

All of this code runs on the UI thread, so an action is a window message or one turn of
the loops that a received segment drives: `OnRead`, `DecryptBlock` (a block of
`DataReceived`), `DispatchPacket` (a packet of `AddReceivedData`, with its handler and
the handler's calls into `Conductor` and `MainFrame`). A packet is two pieces, so that
TCP may cut it; a piece encrypted with another key than the reader's is garbage, which
the loop takes for a packet of any size. A handler that gets another kind's packet of its
type, which happens after a lost connection, does what it makes of it (`Misreads`). What a
member says has two client IDs (`Saying`): of its sender, and the one in the message, which
may be missing. `OfflineMessage` takes the sender's dialog away and then, if there is an ID,
the peer connection of that ID (`DeletePeerConnection`; all of them if it is this client's
own). The server is external and behaves as the client
expects. `fresh` says that a connection was begun by a client in its initial state: `OnClose`
resets nothing but `m_bConnect`, so later connections need not be. A key made while there is
no socket is no server's (`NewKey`). The model is about a
`Conductor` built with a `ConnectionClient`, and the factory returns a peer
connection.

### ByteBuffer

One thread uses a buffer, so a call is an action. `buf`, `start`, `write`, `read` are
`m_Buffer`, `m_DataStart`, `m_WritePos`, `m_ReadPos`; `Size` is `m_BufferSize`.
`CopyIn`/`CopyOut` are the copies in two parts at the end of the ring, shared by
`Write`, `WriteBuf`, `ReadBuf` and `ReadString`. The code's alphabet is scaled: a byte
has `2 * B` values (B is 0x80) and the integers have `ShortBytes`, `IntBytes` and
`LongBytes` bytes; `Encode` and `VarValues` are the loops of `WriteVarInt32/64` and
`ReadVarInt32/64` in base B. A VarInt with more digits than its type has room for is
undefined behaviour in C++ and reads as any value. A call that fails half-way
(`ReadVarIntCut`, `ReadPrefixed`, `WriteVarUTF8String`) leaves what the code leaves.
`io` is the last call as its caller sees it, and is shared with `ByteFifo`, which
says for each call what becomes of the bytes read since the last commit (`taken`)
and of those not yet read (`rest`).

## 3. Runs

All bounds are constants of the cfg files.

| run | checks | what it shows |
|---|---|---|
| `bundle` | `TypeOK`, `NoSilentFailure`, `FailureReachesConnection`, `DestructorReturns` | one bundled transport with rtcp-mux, both roles, trickle or not, all TLS outcomes: failures are told; with fair threads a failure arrives, and the destructor ends unless the send thread missed its notification or `NICE_FINISHED` was overwritten |
| `variants` | `ReadyMeansAllKeyed`, `AnswererCandidatesReachIce`, `GlobalStateAdvances` | two ICE components on one transport, audio and video transports racing to report, audio alone: READY implies keys, `globalState_` never goes back, a bundling connection that answers never loses the candidates of the description |
| `offer_race` (violation) | `CandidatesReachIce` | for an offerer the candidates can be lost, see section 5 |
| `send_queue` | `AcceptedInOrder`, `AtMostOneLatePacket`, `NoStrandedPacket`, `StopEndsBusyOrWaitingSender` | order and progress of the outgoing queue at its capacity |
| `resender` | `ResenderTypeOK`, `ResendsWithinBudget`, `OneTimeoutAfterAllResends`, `FirstFlightResolved`, `JoinsReturn`, `ImplementsResendTimer` | four flights with the code's budget of 5 and the wrap of the counter; what the transport relies on (`ResendTimer`) |
| `nice_connection` | `WaiterIsSignalled`, `OrderedAndPromptlyStopped`, `TerminatesOnlyAfterIceFailure`, `CloseReturnsUnlessOverwritten`, `QueuedPacketLeaves` | no lost wake-up; order; when the double close is harmless |
| `ice_state_race` (violation) | `IceStateAdvances` | the unlocked test-and-set of `iceState_` |
| `slide_show` | `NumberFollowsLast` | how far numbers can be off around switches, for every interleaving of the statements of both functions, and across the wrap |
| `byte_buffer` | `WrittenIntsDecode`, `ImplementsByteFifo` | the ring buffer is a bounded FIFO with a cursor that can be rolled back, through wraps, refusals and half-done calls; VarInts read back as written |
| `session` | `StreamIntact`, `SpeaksProtocol`, `CipherAtHand`, `RoomToLeave`, `RoomViewAgrees` | every segmentation, log-in in the clear and encrypted, errors, a full buffer, lost connections, clicks and callbacks in between |
| `sdp` | `CandidatesCredentialed`, `FeedbackComplete`, `PayloadTypesAgree`, `PayloadListReadable`, `AnswerReadsBack` | descriptions with their lines in every order and any of them missing, as offer and as answer |
| `one_to_many` | `EverySubscriberGetsAll`, `UnsafeOnlyWhenClosing`, `FeedbackFindsSource`, `FeedbackIsOurs`, `CallsReturn` | fan-out and feedback while subscribers are added, substituted and removed, up to the end of the destructor |

`Connection` and `Resender` have an invariant for the types, those of `SlideShow` are only proved (`TypeCorrect`); elsewhere `TypeOK` is a conjunct of the
property that is about the same data (`AcceptedInOrder`, `OrderedAndPromptlyStopped`,
`WrittenIntsDecode`, `StreamIntact`, `PayloadListReadable`,
`EverySubscriberGetsAll`).

Why the bounds are enough. A connection has at most two transports and four
threads each, so `Connection` is not bounded in its processes: a run chooses the
remote descriptions and the TLS outcomes. One exchange is enough for the reports
and the destructor, since the code keeps no other history. `variants` uses the short list of TLS outcomes (no flight, so no timer), which
leaves room for the second transport; the timers are covered by `bundle`. The queues hold two packets instead of
1000 with three packets offered, so that they fill, overflow and drain. The resender
has the code's budget, and a modulus of 16 instead of 2^32 leaves the wrap in reach.
`SlideShow` has four packets, three switches and numbers modulo 10 from every
starting number, so that switches fall before, in and after a wrap, and so that the modulus leaves
numbers that calls and meetings do not account for. The ring of
`byte_buffer` has three bytes and a spare one with arbitrary first contents: every
operation meets every combination of positions, a VarInt has up to three digits (one
more than the small integer type holds), and a string of two bytes passes the length
check without fitting. `session` has two sockets, so that a session follows a lost or
finished one, seven packets of the server (log-in with a key takes five), and a buffer
of four pieces, two packets, which overflows. It has one other member, whose messages may name
itself, this client or nobody; that an offline message may name a third client takes two, and
the theorem `RoomAgreed` covers any number. `sdp` has one offer per topic (credentials and
candidates; codecs under other numbers; a codec twice and numbers that collide with this
client's; bundle, directions and SSRCs; the rest), because lines of different topics do
not meet in the parser. `one_to_many` has two peerIds and two connections, so that
a subscriber is substituted, or two are served, and two packets, one per data thread; one
substituted while another is served takes three connections, and the theorem
`EverybodyServed` covers any number.

Deadlock is checked in the `Connection`, `Resender` and `ByteBuffer` runs. In the others a thread
may rightly stay blocked (`send_queue` can reach the lost wake-up of section 5; the
packets are used up in `slide_show`; a `NiceConnection` nobody closes stays idle).

### Fairness

`FairSpec` asks for weak fairness of threads that can run: of every report, of the
handshake, of the joins and of closing once begun. These are plain statements of
threads that the operating system schedules; mutexes are held for finitely many
steps. An armed deadline timer expires. Nothing is asked of libnice, of the network, of the
peer or of the application's calls: they may never happen. `send_queue` asks it of
the send thread, of a begun stop and of the destructor; `nice_connection` of the
nice thread's own steps, the data thread and the closing thread;
`one_to_many` of the data threads inside a delivery, of a data thread whose transport has
been closed, and of a call that was begun. No strong
fairness is used.

## 4. Proofs

All theorems hold for every value of the constants that satisfies the named
assumptions, so for any number of packets, subscribers, connections and switches and
every capacity and modulus. TLC evaluates the assumptions in the runs:

* `InputAssumption` (`Connection`): remote descriptions have at least one medium;
  roles, trickle settings and TLS outcomes are of their types;
* `ResenderAssumption`: the budget fits in the word;
* `NiceAssumption`, `SendQueueAssumption`, `PoisonAssumption`: a queue has room for a
  packet, and the end packet is none of the application's;
* `SlideShowAssumption`: the modulus is positive;
* `ByteBufferAssumption`: the array has at least one byte, the base of a VarInt is at least 2
  and integers have at least one byte; callers write bytes, and integers of at most the
  longest type;
* `SdpAssumption`: an offer has its lines for the session and the two media, what a peer
  sends after its description are candidates, and the bounds are numbers;
* `OneToManyAssumption`: peerIds and connections are numbers, a description has a section
  and names SSRCs of its sections only, feedback has at least one block;
* `SessionAssumption`: client IDs are not 0 and this client's are not those of other
  members, a room has a name, a status packet never names the status or the work state as
  the next one (the server answers what `OnConnect` asks for, which is log-in), bounds are
  numbers, and a decrypted block is not empty.

Each inductive invariant was first checked by TLC on the instance of its run (except that of
`SdpInfo`, which says of every payload type and every sequence what TLC cannot enumerate). A theorem
about a property is `Spec => []P`, or `Spec => P` for an action property.

* **`Connection_proofs`**. `TypeCorrect`: types alone are not
  inductive, because `DtlsRead` works on the component that was stored when the
  packet was taken; the auxiliary invariant `ReadsComponent` says that it is a
  component of the transport. One lemma per handler that several actions share
  (`SetTransportStateTypes`, `UpdateIceStateTypes`, `HandshakeTypes`, `ReturnTypes`).
  `FailuresAreTold` (`NoSilentFailure`): not inductive, since a commit could overwrite a
  failure. The
  invariant `FailureInv` adds that the mutex is exclusive (`OneCommitter`), that a
  thread in `updateState` commits a failure when it reports one and has found a
  connection that had not failed (`CommitsItsReport`), that timers report nothing
  but failures (`TimersReportFailure`), and that once the destructor has set
  FINISHED the nice and data threads are gone (`JoinedHaveEnded`,
  `DestroyedIsClosed`, `FinishedByDestructor`), so that only a timer, hence only a
  failure, can be committed over it. Steps outside `updateState` are shown to be
  quiet moves or reports (`Moves`), and `MovesInv` treats those once.
  `ReadyIsReady` (`ReadyMeansAllKeyed`), `StateAdvances`
  (`GlobalStateAdvances`), `CandidatesArrive` (`AnswererCandidatesReachIce`). What
  `updateState` decides depends on values it reads without a lock, so the invariant
  `ReadyInv` says what can still be reported when: nobody shakes hands before ICE was
  READY (`IceFirst`), which needs remote credentials, hence a description (`SdpFirst`);
  READY is reported only by the thread that installed the last key, and keys stay
  (`ReadyIsKeyed`); GATHERED is reported only by the nice thread before ICE is READY
  (`GatheredIsEarly`); therefore a decision taken in `Evaluate` is still right when
  `Commit` writes it (`ReadyDecided`, `DecidesForward`, `GatheredFed`). A callback that
  overwrites `NICE_FINISHED` still reports nothing and makes ICE ready only with remote
  credentials (`LateCallback`). Every step of a
  transport outside `updateState` is shown to grow keys and ICE in that order (`Keys`).
* **`Transport_proofs`**, `Resender`: `ResenderTypeCorrect`, `BudgetKept`
  (`ResendsWithinBudget`), `TimeoutOnce` (`OneTimeoutAfterAllResends`) and
  `ResenderRefinement` (`ResenderSpec` implements `ResendTimer` under `timerBar`). The
  invariant `ResenderInv` ties the wrapping budget to the number of retransmissions
  (`BudgetCounts`), says that a handler under way is the timer's only operation, and that
  the io_service is stopped for good after the first run (`ServedOnce`); without the last
  part a second flight could count below zero.
* **`Transport_proofs`**, `NiceConnection`: `OrderKept` (`OrderedAndPromptlyStopped`), `NoLostWakeup`
  (`WaiterIsSignalled`), `SecondCloseIsHarmless` (`TerminatesOnlyAfterIceFailure`). The
  event is auto-reset and one event serves packets and the close, so the invariant tells
  the two signals apart: a waiter with a packet in the queue has a signal
  (`PacketSignalled`), and the signal of `close()` stays until the data thread has seen
  the final state (`SignalKept`, `StateWritten`), unless that state was overwritten
  (`regressed`). `Fifo` and `LateIsLast` give the order and the one late packet.
* **`SendQueue_proofs`**. `OrderKept` (`AcceptedInOrder`), `StopsPromptly`
  (`AtMostOneLatePacket`). What was accepted is what was taken followed by what is queued
  (`Whole`), until the end packet replaces the queue (`Replaced`), which happens after
  `sending_` was cleared; `LateIsLast` as above.
* **`OneToMany_proofs`**. `EverybodyServed` (`EverySubscriberGetsAll`),
  `OnlyClosingIsUnsafe` (`UnsafeOnlyWhenClosing`), `ComplaintsArrive`
  (`FeedbackFindsSource`), `ReportsAreOurs` (`FeedbackIsOurs`). The core is what
  `myMonitor_` protects: a connection is in the map exactly while it is up, or is the one
  that is taking another's place (`MapOfUp`, `EveryUpIsKnown`, `CallKnows`), and the lock
  is held for as long as a connection of the map is being destroyed (`WaitsLocked`); the
  loop is in the packet that was given out last (`LoopAtLast`), so a subscriber lacks
  that one packet as long as the loop has not come to it, and nothing else (`Complete`).
  The feedback theorems rest on where SSRCs come from (`SsrcKnown`,
  `GivenIsTraceable`). That the loop's smallest key exists is a well-founded induction on
  peerIds, for a finite or infinite set of them.
* **`SlideShow_proofs`**. `TypeCorrect` (the types), `NumbersFollow`: packets with no call since
  the first of them arrived have consecutive numbers, wherever earlier calls fell among the
  statements of earlier deliveries (`SettledNumbersFollow`, the part of `NumberFollowsLast`
  in which nothing is to be counted). The invariant says when a packet and a call share a
  stretch (`Stretches`), that without a call the packet at hand goes where the mode in force
  sends it (`InForce`), and that the number to be given next (`Upcoming`) then follows the
  last one (`Settled`). Numbers are modulo `Modulus`, and the lemmas `Wrap`, `NumbersClosed`,
  `LessNothing` and `LessNext` are the arithmetic of one wrap.
* **`Session_proofs`**. `StreamHolds` (`StreamIntact`), `ProtocolSpoken`
  (`SpeaksProtocol`), `CiphersThere` (`CipherAtHand`), `RoomKept` (`RoomToLeave`),
  `RoomAgreed` (`RoomViewAgrees`, which is about single steps and rests on the types only). The
  invariant `IInv` has three layers. `MixedInv` holds for any mixture of connections that
  one client has opened and left: a socket without a connection carries nothing (`Silent`),
  the own peer connection has its stream (`OwnHasStream`), and without a decryptor there is no
  session (`LoopKnows`). In a session begun in
  the initial state, `SessionInv`: the log-in is lock-step, one packet under way in one
  direction (`LockStep`), and the key changes when nothing else is under way
  (`KeyRequestAlone`), so whatever waits to be read was encrypted as the client will read
  it (`Legible`). As long as nothing was dropped at a full buffer, `StreamInv`: what is
  ahead of the client is numbered from the last packet handled on (`Numbered`), and the
  room is told before its members (`RoomFirst`, `RoomKnown`). Segments are moved,
  decrypted and taken apart; the lemmas `Moved`, `OrderTaken` and `OrderSaid` say once
  what each of these does to a numbered sequence.
* **`ByteBuffer_proofs`**. `TypeCorrect`, `IntsDecode` (`WrittenIntsDecode`) and `Refinement`
  (`Spec` implements `ByteFifo`), for every size of the ring, every base of the VarInts and
  every width of the integers. The inductive invariant is the types and the order of the
  three positions around the ring (`RingOK`). What lies between two positions is a
  sequence (`Segment`); `SegmentJoin` puts two neighbouring ones together, `Reads` and
  `Writes` say what moving a position and copying bytes in two parts does to the two
  sequences of the queue, and `Spaces` that the code's two formulas for free and readable
  space are the queue's; then there is one lemma per group of calls, also for those that fail
  half-way. `IntsDecode` is about what recursive functions and folds compute for every
  input. Sets and functions serve where the library's induction theorems have operators:
  `Induction` is over a set of naturals, `Recursion` shows that a recursive definition given
  by functions has a solution that meets its equation, and `FoldTable` applies it to the
  folds. From these follow what `Encode` writes (`EncodeIsVarInt`: all digits but the last
  have the continuation bit, no digit is in vain) and what the reader makes of it
  (`ValueFacts`: the digits weighted by the powers of the base).
* **`SdpInfo_proofs`**. `NumbersTranslated` (`PayloadTypesAgree`), `ListsReadable`
  (`PayloadListReadable`), `CredentialsFound` (`CandidatesCredentialed`) and
  `FeedbackArrives` (`FeedbackComplete`), for every set of offers, texts of any length and
  lines of any kind. One lemma per kind of line says what `processLine` changes
  (`SectionLine`, `NameLine`, `CodecLine`, `FormatLine`, and `PlainLine` for the others), and
  `Finished` what follows the loop. The properties are about the end of the text or about
  what was written from it, so the invariant `SdpInv` says what is true in the middle: the maps
  lead to each other's entries for codecs that occur once (`Agreed`; the lookup for RED
  packets adds entries to the map and changes none, `AgreedLookup`), the number of
  codecs is at least that of the entries (`CountsAll`), each medium's credentials are values
  of its section, or of the session for the video (`NamesFrom`, with `Placed` for where the
  lines belong), and the n-th feedback line kept for a payload type is the n-th of the text
  (`Follows`). `PairedValues` gets the password that goes with a name from what a peer
  writes: a section has both or none.

Only model-checked:

* liveness, since fairness and `ENABLED` are beyond the prover:
  `FailureReachesConnection`, `DestructorReturns`, `FirstFlightResolved`, `JoinsReturn`,
  `NoStrandedPacket`, `StopEndsBusyOrWaitingSender`, `CloseReturnsUnlessOverwritten`,
  `QueuedPacketLeaves`, `CallsReturn`;
* `AnswerReadsBack`, the parser's run over the text that `getSdp` wrote: a fold over a
  concatenation of selections (`SelectSeq` is not defined for the prover) whose order
  `SetToSeq` leaves open for the format parameters.

No module uses RECURSIVE operators, which would deprive the proofs of the SMT solver.

## 5. Where the code disagrees with itself

* `offer_race`: `setRemoteSdp` reads `globalState_` without `updateStateMutex_`
  to decide who passes the remote candidates to the ICE agent. The thread in
  `updateState` may have evaluated GATHERED before the description was set and
  commit it after the read; then neither side passes them.
* `ice_state_race`: `updateIceState` only lets `iceState_` advance, and a comment
  speaks of "our state lock", but there is none; a callback can overwrite
  `NICE_FINISHED` written by `close()`, after which the data thread need not end.

Visible in the models, but contradicted by no document or not given a run of their own: the destructor's
notification of the send thread can be lost between the thread's test and its wait
(`StopEndsBusyOrWaitingSender` says in which situations the stop works, and
`DestructorReturns` names it as one of the two things that can hold up the destructor, the
other being an overwritten `NICE_FINISHED`);
after an ICE failure the second `close()` joins a joined thread; only the
first DTLS flight is retransmitted; `WriteVarUTF8String` can leave a length without
its string; `ClearAll` passes `memset` its arguments in the wrong order; a packet to be renumbered 0 keeps its number;
a call of `setSlideShowMode` that meets a delivery makes a number be skipped or used twice,
and feedback is shifted by the offset of now, whatever the offset its packet was sent with;
"The seqNo adjustment causes a wraparound, add to cycles" (`WebRtcConnection.cpp`, line 461)
stands in a branch whose condition adds two `uint16_t`, which are promoted to `int`, so that it
is never taken and a receiver report whose highest number wraps keeps its cycles;
`supportPayloadType` looks external payload types up in the map of internal ones, so that a
peer that negotiated RED under another number is sent raw VP8;
after an error of the server the peer connections stay, and the next session meets the
assertion that there are none; a lost connection leaves state, cipher and half a packet to
the next one; all open connections share one `m_ReceivedData`, so packets of two that overlap
can tear the one that names the room, and a member is then announced in a room the client
does not know (hence `fresh` in `RoomToLeave`); an offline message whose sender is not the
client it names leaves a dialog without a peer connection, or the reverse; a handler that signs out deletes the decryptor `DataReceived` goes on to use;
`closeAll` destroys the publisher while subscribers' threads may be about to call it; an early
subscriber copies SSRCs that are still 0; feedback without an SSRC is written to the null
transport of a missing section; a component that fails before the last candidate has been announced is never
evaluated again, and the end of candidates is only told to the video transport, so that an
ICE failure may go unreported; a retransmission thread may report while the connection's
members are being destroyed;
`init()` always returns true although its comment promises "True if the candidates
are gathered".

## 6. Not modelled

* A second offer/answer exchange on a connection; descriptions that are not SAVPF
  or have no fingerprint; `audioEnabled_` false.
* Notifications to the application's listener, statistics, SRTP cryptography,
  certificate handling; the fields of a candidate beyond address, protocol and type.
* The RED/FEC branch of slide-show renumbering; what `setFeedbackReports` does to the rate
  control.
* A packet of the signalling client that its non-blocking socket takes only in part:
  `SendData` ignores what `::send` returns, and the rest of the packet is lost. Packets are
  small, and the model sends them whole.
* `RtcpForwarder`'s tables of sender reports, which are written and never read;
  `RtcpAggregator`, `RtpPacketQueue`, `ThreadPool` and `cQueue`, which nothing in the build
  uses; the branch of `OneToManyProcessor` for feedback on the media path, which
  `WebRtcConnection` cannot reach.
* The race of the send thread's payload-type lookup with the insertion of
  `supportPayloadType`; SDES keys of this client (DTLS is always on).
* A second publisher of one processor (`setPublisher` would destroy the first inside the
  lock its threads wait for); sinks that the application sets one after the other.
* What libwebrtc does inside a peer connection of the client; the WebSocket telemetry client,
  an example loop without a protocol.
* Data races on single words: a read sees the old or the new value.
* `ReadUTF16String`'s conversion of its text; the debug-only thread checker of
  `cByteBuffer`; the three fields that `ReadPosition64` takes out of its integer
  (nothing in the client calls it).
* UI, logging, codecs and mixers under `media/` (not in the solution), and vendored
  libraries.

## 7. Plan

Order of work, most important first:

1. done: `Connection`, `Resender` with `ResendTimer`, `NiceConnection`, `SendQueue`,
   `SlideShow`, `ByteBuffer` with `ByteFifo`, `SdpInfo`, `OneToMany`, `Session`, and the
   theorems of section 4;
2. left: a proof of `AnswerReadsBack`, which needs `getSdp` written without `SelectSeq`.
