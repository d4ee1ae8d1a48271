--------------------------- MODULE Session_proofs ---------------------------
(***************************************************************************)
(* Proofs about Session, for any number of sockets, rooms and members, any *)
(* segmentation and every size of the buffers.  A client may have several  *)
(* connections open and reads from all of them; what can be relied on then *)
(* is little (MixedInv), and with it the ciphers and the room's two views  *)
(* are right.  In a session begun in the initial state the log-in is       *)
(* lock-step: one packet is under way, in one direction (LockStep), and    *)
(* the key changes when none is.  As long as nothing was dropped, what is  *)
(* ahead of the client is numbered from the last packet on (Numbered), and *)
(* the room is told before its members (RoomFirst).                        *)
(***************************************************************************)
EXTENDS Session, SequenceTheorems, TLAPS

-----------------------------------------------------------------------------
(***************************************************************************)
(* Types.                                                                  *)
(***************************************************************************)
\* The packets of the server, with the arguments their handlers read.
Packet ==
  [kind: {"status"}, arg: NextStates]
    \cup [kind: {"success"}, arg: Own]
    \cup [kind: {"publisher", "offline"}, arg: Saying]
    \cup [kind: {"joined", "left"}, arg: Rooms \cup {""}]
    \cup [kind: {"disconnect", "keyRequest", "allow", "keepAlive", "error", "future"},
          arg: {0}]

\* What may be read.
Fragment == {Garbage} \cup [from: Sockets, n: Nat, part: {1, 2}, key: Sockets \cup {0},
                            pkt: Packet]

\* The keys: in the clear, of a socket, and one no server has.
Keys == 0 .. MaxSockets + 1

\* The packets of the client, and what the server keeps.
Message == [kind: {"statusRequest", "loginStart", "keyResponse", "loginInfo", "join",
                   "keepAlive", "message", "leave"},
            key: Keys, room: Rooms \cup {""}]
Server == [stage: Stages, keyed: BOOLEAN, room: Rooms \cup {""},
           announced: SUBSET Members, sent: Nat]

\* ConnectionClient: who is at work has an ID.
ClientTypes ==
  /\ connected \in BOOLEAN
  /\ sock \in 0 .. MaxSockets /\ opened \in 0 .. MaxSockets
  /\ state \in 1 .. 3
  /\ encrypted \in BOOLEAN
  /\ ciphers \in Keys
  /\ clientID \in Own \cup {0}
  /\ state = 3 => clientID \in Own
  /\ channel \in Rooms \cup {""}
  /\ received \in Seq(Fragment) /\ Len(received) <= Capacity

\* Conductor and MainFrame, the network, and the loop with its history.
RoomTypes ==
  /\ peers \subseteq Own \cup Members /\ dlgs \subseteq Members
  /\ stream \in BOOLEAN
  /\ roomName \in Rooms \cup {""}
  /\ posted \in Seq(Own \cup Members)
NetTypes ==
  /\ down \in [Sockets -> Seq(Fragment)]
  /\ up \in [Sockets -> Seq(Message)]
  /\ srv \in [Sockets -> Server]
LoopTypes ==
  /\ ui \in {"idle", "decrypt", "dispatch", "over", "crashed"}
  /\ rest \in Seq(Fragment)
  /\ last \in Nat
  /\ fresh \in BOOLEAN /\ full \in BOOLEAN /\ refused \in BOOLEAN

\* All of them.
Typed == ClientTypes /\ RoomTypes /\ NetTypes /\ LoopTypes

-----------------------------------------------------------------------------
(***************************************************************************)
(* What holds for any mixture of connections.                              *)
(***************************************************************************)
\* A socket that is not open has nothing under way.
SilentAt(s) ==
  /\ s > opened => srv[s].stage = "none"
  /\ ~Live(srv[s].stage) => up[s] = <<>>
  /\ srv[s].stage \in {"none", "connecting", "gone"} => down[s] = <<>>
  /\ \A i \in 1 .. Len(down[s]) : down[s][i].from = s
Silent == sock <= opened /\ \A s \in Sockets : SilentAt(s)

\* This client's own peer connection has the local stream.
OwnHasStream == peers \cap Own # {} => stream

\* Without a decryptor there is no session any more, and nothing left to handle.
LoopKnows ==
  /\ ui = "idle" => rest = <<>>
  /\ ciphers = 0 /\ (rest # <<>> \/ ui \in {"decrypt", "crashed"})
     => sock = 0 /\ received = <<>>
  /\ encrypted => ciphers # 0

MixedInv == Typed /\ Silent /\ OwnHasStream /\ LoopKnows

-----------------------------------------------------------------------------
(***************************************************************************)
(* A session begun in the initial state.                                   *)
(***************************************************************************)
InSession == fresh /\ sock # 0

\* How much is under way to the client, and what kinds of packets it is.
Pending == Len(received) + Len(rest) + Len(down[sock])
Pieces(q) == {q[i] : i \in 1 .. Len(q)}
Coming  == {x.pkt.kind : x \in Pieces(received) \cup Pieces(rest) \cup Pieces(down[sock])}

\* The other sockets are not open.
Alone == fresh => /\ \A s \in Sockets \ {sock} : srv[s].stage \in {"none", "gone"}
                  /\ sock = 0 => received = <<>> /\ ciphers = 0

\* What was read is of this session, and what is to be read has the key in use.
KeyInUse == IF encrypted THEN sock ELSE 0
Legible ==
  InSession =>
    /\ encrypted => ciphers = sock
    /\ rest # <<>> \/ ui = "decrypt" => encrypted
    /\ \A x \in Pieces(received) : x.from = sock
    /\ \A x \in Pieces(rest) : x.from = sock /\ x.key = KeyInUse
    /\ \A x \in Pieces(down[sock]) : x.key = KeyInUse

\* A key request is answered with nothing else under way, and who is told a room is at work.
KeyRequestAlone == InSession /\ "keyRequest" \in Coming => Pending <= 2
JoinedAtWork    == InSession /\ "joined" \in Coming => state = 3

\* Before there is a room, nobody has anything to say on his own.
Early == {"none", "connecting", "status", "login", "key", "info", "ready"}
QuietAtFirst ==
  InSession /\ srv[sock].stage \in Early => peers = {} /\ posted = <<>> /\ roomName = ""

\* The packet on its way to the server is one of kind k that it can read.
ServerKeyInUse == IF srv[sock].keyed THEN sock ELSE 0
Asks(k) == Len(up[sock]) = 1 /\ up[sock][1].kind = k /\ up[sock][1].key = ServerKeyInUse

\* The connection is made and the status asked for.
Beginning ==
  InSession /\ srv[sock].stage \in {"none", "connecting", "status"} =>
    /\ Pending = 0 /\ state = 1 /\ ~encrypted
    /\ srv[sock].stage = "status" => Asks("statusRequest") /\ ~srv[sock].keyed

\* The log-in: what the server has sent last, and what it waits for.
Steps == {"login", "key", "info", "ready"}
SentLast(stage) == CASE stage = "login" -> "status"
                     [] stage = "key"   -> "keyRequest"
                     [] stage = "info"  -> "allow"
                     [] stage = "ready" -> "success"
Awaited(stage)  == CASE stage = "login" -> "loginStart"
                     [] stage = "key"   -> "keyResponse"
                     [] stage = "info"  -> "loginInfo"
                     [] stage = "ready" -> "join"

\* Either the client is to answer or the server, and what the answer has changed.
ClientsTurn(stage) ==
  /\ up[sock] = <<>> /\ Pending <= 2 /\ Coming \subseteq {SentLast(stage)}
  /\ state = IF stage = "login" THEN 1 ELSE 2
  /\ encrypted <=> srv[sock].keyed
ServersTurn(stage) ==
  /\ Asks(Awaited(stage)) /\ Pending = 0
  /\ state = IF stage = "ready" THEN 3 ELSE 2
  /\ encrypted <=> srv[sock].keyed \/ stage = "key"
LockStep ==
  InSession /\ srv[sock].stage \in Steps =>
    /\ ClientsTurn(srv[sock].stage) \/ ServersTurn(srv[sock].stage)
    /\ srv[sock].stage \in {"login", "key"} => ~srv[sock].keyed

\* In the room.
AtWork ==
  InSession /\ srv[sock].stage = "joined" =>
    /\ state = 3
    /\ encrypted <=> srv[sock].keyed
    /\ \A m \in Pieces(up[sock]) : /\ m.kind \in {"message", "keepAlive", "leave"}
                                   /\ m.key = ServerKeyInUse
    /\ Coming \subseteq {"joined", "publisher", "offline", "keepAlive", "future", "left"}

\* The server has ended it.
IsOver ==
  InSession /\ srv[sock].stage = "over" =>
    /\ encrypted <=> srv[sock].keyed
    /\ "keyRequest" \notin Coming

SessionInv == /\ Alone /\ Legible /\ KeyRequestAlone /\ JoinedAtWork /\ QuietAtFirst
              /\ Beginning /\ LockStep /\ AtWork /\ IsOver /\ SpeaksProtocol

\* As long as nothing was dropped, all packets are there in order.
Unbroken == InSession /\ ~full
InOrder(q, n) == \A i \in 1 .. Len(q) : q[i].n = n + (i + 1) \div 2 /\ q[i].part = 2 - (i % 2)
Numbered ==
  Unbroken =>
    /\ InOrder(Ahead, last)
    /\ Live(srv[sock].stage) => Len(Ahead) = 2 * (srv[sock].sent - last)
    /\ srv[sock].stage \in {"none", "connecting"} => last = 0
    /\ ui = "idle" /\ Whole(received) => refused

\* The packet that tells the room comes before those that tell its members.
TellsRoom(x) == x.part = 1 /\ x.pkt.kind = "joined" /\ x.pkt.arg # ""
HasRoom(q)    == \E j \in 1 .. Len(q) : TellsRoom(q[j])
Introduced(q) == \A i \in 1 .. Len(q) :
                   q[i].pkt.kind = "publisher" => \E j \in 1 .. (i - 1) : TellsRoom(q[j])
RoomFirst ==
  Unbroken /\ roomName = "" =>
    /\ Introduced(Ahead)
    /\ Live(srv[sock].stage) /\ srv[sock].room # "" => HasRoom(Ahead)
RoomKnown == fresh /\ ~full /\ peers # {} => roomName # ""

StreamInv == Numbered /\ RoomFirst /\ RoomKnown

\* The inductive invariant.
IInv == MixedInv /\ SessionInv /\ StreamInv

-----------------------------------------------------------------------------
(***************************************************************************)
(* Packets, sequences and the constants.                                   *)
(***************************************************************************)
\* What is assumed of the constants.
LEMMA Constants ==
  /\ 0 \notin Own /\ 0 \notin Members /\ Own \cap Members = {}
  /\ "" \notin Rooms
  /\ 1 \notin NextStates /\ 3 \notin NextStates
  /\ MaxSockets \in Nat /\ Capacity \in Nat /\ Block \in Nat \ {0}
  /\ Sockets = 1 .. MaxSockets
<1>1. SessionAssumption
  BY SessionAssumption
<1> QED BY <1>1 DEF SessionAssumption, Sockets

\* Sizes are numbers.
LEMMA Sizes ==
  /\ MaxSockets \in Nat /\ Capacity \in Nat /\ Block \in Nat \ {0}
  /\ Sockets = 1 .. MaxSockets
  /\ 0 \in 0 .. MaxSockets /\ 0 \in Keys
  /\ Sockets \subseteq 0 .. MaxSockets
  /\ (sock \in 0 .. MaxSockets => NewKey \in Keys /\ NewKey # 0)
<1>1. MaxSockets \in Nat /\ Capacity \in Nat /\ Block \in Nat \ {0}
  BY Constants
<1>2. (sock \in 0 .. MaxSockets => NewKey \in Keys /\ NewKey # 0)
  BY <1>1 DEF Keys, NewKey
<1> QED BY <1>1, <1>2 DEF Sockets, Keys

\* The arguments of a packet.
LEMMA PacketFacts ==
  ASSUME NEW p \in Packet
  PROVE  /\ p.kind \in Kinds
         /\ p.kind = "status" => p.arg \in NextStates
         /\ p.kind = "success" => p.arg \in Own
         /\ p.kind \in {"publisher", "offline"} => /\ p.arg \in Saying
                                                 /\ p.arg.from \in Members
                                                 /\ p.arg.id \in Own \cup Members \cup {0}
         /\ p.kind \in {"joined", "left"} => p.arg \in Rooms \cup {""}
  BY DEF Packet, Kinds, Saying

\* Every kind of packet can be made.
LEMMA PacketMade ==
  /\ \A a \in NextStates : [kind |-> "status", arg |-> a] \in Packet
  /\ \A a \in Own : [kind |-> "success", arg |-> a] \in Packet
  /\ \A a \in Saying : /\ [kind |-> "publisher", arg |-> a] \in Packet
                        /\ [kind |-> "offline", arg |-> a] \in Packet
  /\ \A a \in Rooms \cup {""} : /\ [kind |-> "joined", arg |-> a] \in Packet
                                 /\ [kind |-> "left", arg |-> a] \in Packet
  /\ \A k \in {"disconnect", "keyRequest", "allow", "keepAlive", "error", "future"} :
       [kind |-> k, arg |-> 0] \in Packet
  BY DEF Packet

\* The fields of a fragment.
LEMMA FragmentFacts ==
  ASSUME NEW x \in Fragment
  PROVE  /\ x.pkt \in Packet /\ x.n \in Nat
         /\ x.part \in {0, 1, 2}
         /\ x.part # 0 => x.from \in Sockets /\ x.key \in Sockets \cup {0}
         /\ x.part = 0 => x = Garbage
<1>1. [kind |-> "future", arg |-> 0] \in Packet
  BY PacketMade
<1> QED BY <1>1 DEF Fragment, Garbage

\* What is not decrypted with the right key is garbage.
LEMMA DecodedType ==
  ASSUME NEW q \in Seq(Fragment), NEW key
  PROVE  /\ Decoded(q, key) \in Seq(Fragment)
         /\ Len(Decoded(q, key)) = Len(q)
         /\ \A i \in 1 .. Len(q) :
              Decoded(q, key)[i] = IF q[i].key = key THEN q[i] ELSE Garbage
<1>1. Garbage \in Fragment
  BY DEF Fragment
<1>2. \A i \in 1 .. Len(q) : q[i] \in Fragment
  BY ElementOfSeq
<1>3. Decoded(q, key) \in [1 .. Len(q) -> Fragment]
  BY <1>1, <1>2 DEF Decoded
<1>4. Len(q) \in Nat
  BY LenProperties
<1>5. Decoded(q, key) \in Seq(Fragment)
  BY <1>3, <1>4, SeqDef
<1> QED BY <1>3, <1>4, <1>5, LenProperties DEF Decoded

\* What SubSeq leaves.
LEMMA Rest ==
  ASSUME NEW S, NEW q \in Seq(S), NEW k \in 0 .. Len(q)
  PROVE  /\ SubSeq(q, k + 1, Len(q)) \in Seq(S)
         /\ Len(SubSeq(q, k + 1, Len(q))) = Len(q) - k
         /\ \A i \in 1 .. Len(q) - k : SubSeq(q, k + 1, Len(q))[i] = q[i + k]
         /\ SubSeq(q, 1, k) \in Seq(S)
         /\ Len(SubSeq(q, 1, k)) = k
         /\ \A i \in 1 .. k : SubSeq(q, 1, k)[i] = q[i]
<1>1. Len(q) \in Nat /\ \A i \in 1 .. Len(q) : q[i] \in S
  BY LenProperties, ElementOfSeq
<1>2. /\ SubSeq(q, k + 1, Len(q)) \in Seq(S)
      /\ Len(SubSeq(q, k + 1, Len(q))) = IF k + 1 <= Len(q) THEN Len(q) - (k + 1) + 1 ELSE 0
      /\ \A i \in 1 .. Len(q) - (k + 1) + 1 : SubSeq(q, k + 1, Len(q))[i] = q[k + 1 + i - 1]
  BY <1>1, SubSeqProperties
<1>3. /\ SubSeq(q, 1, k) \in Seq(S)
      /\ Len(SubSeq(q, 1, k)) = IF 1 <= k THEN k - 1 + 1 ELSE 0
      /\ \A i \in 1 .. k - 1 + 1 : SubSeq(q, 1, k)[i] = q[1 + i - 1]
  BY <1>1, SubSeqProperties
<1>4. \A i \in 1 .. Len(q) - k : i \in 1 .. Len(q) - (k + 1) + 1 /\ k + 1 + i - 1 = i + k
  BY <1>1
<1>5. \A i \in 1 .. k : i \in 1 .. k - 1 + 1 /\ 1 + i - 1 = i
  BY <1>1
<1> QED BY <1>1, <1>2, <1>3, <1>4, <1>5

\* Which packet a handler has in hand.
LEMMA RunsFacts ==
  ASSUME NEW p \in Packet, NEW k \in Kinds, Runs(k, p)
  PROVE  /\ k = "status" => state = 1 /\ p.kind = "status"
         /\ k \in {"keyRequest", "success"} => state = 2 /\ p.kind = k
         /\ k = "disconnect" => state = 2 /\ p.kind \in {"disconnect", "status", "keepAlive"}
         /\ k = "allow" => state = 2 /\ p.kind \in {"allow", "publisher", "offline"}
         /\ k \in {"joined", "publisher", "offline", "left", "error"}
            => state = 3 /\ p.kind = k
         /\ k = "keepAlive" => state = 3 /\ p.kind \in {"disconnect", "status", "keepAlive"}
         /\ k # "future"
<1>1. <<state, Type(p.kind), k>> \in Handlers /\ (p.kind = k \/ <<k, p.kind>> \in Misreads)
  BY DEF Runs
<1>2. /\ k = "disconnect" => p.kind \in {"disconnect", "status", "keepAlive"}
      /\ k = "keepAlive" => p.kind \in {"disconnect", "status", "keepAlive"}
      /\ k = "allow" => p.kind \in {"allow", "publisher", "offline"}
      /\ k \notin {"disconnect", "keepAlive", "allow"} => p.kind = k
  BY <1>1 DEF Misreads
<1>3. k = "status" => state = 1
  BY <1>1 DEF Handlers
<1>4. k \in {"disconnect", "keyRequest", "success", "allow"} => state = 2
  BY <1>1 DEF Handlers
<1>5. k \in {"keepAlive", "joined", "publisher", "offline", "left", "error"} => state = 3
  BY <1>1 DEF Handlers
<1>6. k # "future"
  BY <1>1 DEF Handlers
<1> QED BY <1>2, <1>3, <1>4, <1>5, <1>6

\* What SendPacket does to the streams to the servers.
LEMMA Sends ==
  ASSUME NEW k, NEW room, SendPacket(k, room), up \in [Sockets -> Seq(Message)]
  PROVE  /\ \A s \in Sockets : s # sock \/ ~Live(srv'[s].stage) => up'[s] = up[s]
         /\ sock \in Sockets /\ Live(srv'[sock].stage)
            => /\ Len(up'[sock]) = Len(up[sock]) + 1
               /\ \A i \in 1 .. Len(up[sock]) : up'[sock][i] = up[sock][i]
               /\ up'[sock][Len(up[sock]) + 1] = [kind |-> k, key |-> OutKey, room |-> room]
<1>1. \A s \in Sockets :
        up'[s] = IF s = sock /\ Live(srv'[s].stage)
                 THEN Append(up[s], [kind |-> k, key |-> OutKey, room |-> room])
                 ELSE up[s]
  BY DEF SendPacket
<1>2. ASSUME sock \in Sockets, Live(srv'[sock].stage)
      PROVE  /\ Len(up'[sock]) = Len(up[sock]) + 1
             /\ \A i \in 1 .. Len(up[sock]) : up'[sock][i] = up[sock][i]
             /\ up'[sock][Len(up[sock]) + 1] = [kind |-> k, key |-> OutKey, room |-> room]
  <2> DEFINE m == [kind |-> k, key |-> OutKey, room |-> room]
             S == Message \cup {m}
  <2>1. up'[sock] = Append(up[sock], m)
    BY <1>1, <1>2
  <2> HIDE DEF m
  <2>2. up[sock] \in Seq(S) /\ m \in S
    BY <1>2, SeqMonotonic
  <2> HIDE DEF S
  <2>3. /\ Len(Append(up[sock], m)) = Len(up[sock]) + 1
        /\ \A i \in 1 .. Len(up[sock]) : Append(up[sock], m)[i] = up[sock][i]
        /\ Append(up[sock], m)[Len(up[sock]) + 1] = m
    BY <2>2, AppendProperties
  <2> QED BY <2>1, <2>3 DEF m
<1> QED BY <1>1, <1>2

\* And to their types.
LEMMA SendTypes ==
  ASSUME NEW k \in {"statusRequest", "loginStart", "keyResponse", "loginInfo", "join",
                    "keepAlive", "message", "leave"},
         NEW room \in Rooms \cup {""}, SendPacket(k, room),
         up \in [Sockets -> Seq(Message)], ciphers' \in Keys
  PROVE  up' \in [Sockets -> Seq(Message)]
<1> DEFINE m == [kind |-> k, key |-> OutKey, room |-> room]
<1>1. OutKey \in Keys
  BY Sizes DEF OutKey
<1>2. m \in Message
  BY <1>1 DEF Message
<1>3. \A s \in Sockets : Append(up[s], m) \in Seq(Message)
  BY <1>2, AppendProperties
<1> HIDE DEF m
<1> QED BY <1>3 DEF SendPacket, m

\* They are the types of the model, and more.
LEMMA TypedIsTypeOK == Typed => TypeOK
<1> SUFFICES ASSUME Typed PROVE TypeOK
  OBVIOUS
<1>1. \A s \in Sockets : srv[s].stage \in Stages
  BY DEF Typed, NetTypes, Server
<1>2. ui \in {"idle", "decrypt", "dispatch", "over", "crashed"}
  BY DEF Typed, LoopTypes
<1>3. fresh \in BOOLEAN /\ full \in BOOLEAN /\ refused \in BOOLEAN
  BY DEF Typed, LoopTypes
<1>4. /\ peers \subseteq Own \cup Members /\ dlgs \subseteq Members
      /\ stream \in BOOLEAN /\ roomName \in Rooms \cup {""}
  BY DEF Typed, RoomTypes
<1>5. ClientTypes
  BY DEF Typed
<1> QED BY <1>1, <1>2, <1>3, <1>4, <1>5, Zenon DEF TypeOK, ClientTypes, Keys

\* What SignOut does to the types.
LEMMA SignOutTypes ==
  ASSUME Typed, SignOut
  PROVE  ClientTypes' /\ NetTypes'
<1>1. Blank("gone") \in Server
  BY DEF Blank, Server, Stages
<1>2. srv' \in [Sockets -> Server]
  BY <1>1 DEF SignOut, Typed, NetTypes
<1>3. down' \in [Sockets -> Seq(Fragment)] /\ up' \in [Sockets -> Seq(Message)]
  <2>1. <<>> \in Seq(Fragment) /\ <<>> \in Seq(Message)
    BY EmptySeq
  <2>2. down \in [Sockets -> Seq(Fragment)] /\ up \in [Sockets -> Seq(Message)]
    BY DEF Typed, NetTypes
  <2> QED BY <2>1, <2>2 DEF SignOut
<1>4. received' \in Seq(Fragment) /\ Len(received') <= Capacity
  <2>1. <<>> \in Seq(Fragment) /\ Len(<<>>) = 0
    BY EmptySeq
  <2>2. received' = <<>>
    BY DEF SignOut
  <2> QED BY <2>1, <2>2, Sizes
<1>5. connected' \in BOOLEAN /\ encrypted' \in BOOLEAN
  BY DEF SignOut
<1>6. opened' \in 0 .. MaxSockets
  BY DEF SignOut, Typed, ClientTypes
<1>7. sock' = 0 /\ ciphers' = 0 /\ state' = 1
  BY DEF SignOut
<1>8. state' \in 1 .. 3 /\ state' # 3 /\ sock' \in 0 .. MaxSockets /\ ciphers' \in Keys
  BY <1>7, Sizes
<1>9. clientID' \in Own \cup {0} /\ channel' \in Rooms \cup {""} /\ (state' = 3 => clientID' \in Own)
  BY <1>8 DEF SignOut
<1> QED BY <1>2, <1>3, <1>4, <1>5, <1>6, <1>8, <1>9, Zenon DEF ClientTypes, NetTypes

\* A packet is taken from the buffer.
LEMMA TakenFacts ==
  ASSUME Typed, Whole(received), Taken
  PROVE  /\ received' \in Seq(Fragment) /\ Len(received') <= Capacity
         /\ Len(received') = Len(received) - 2
         /\ \A i \in 1 .. Len(received') : received'[i] = received[i + 2]
<1>1. received \in Seq(Fragment) /\ Len(received) <= Capacity
  BY DEF Typed, ClientTypes
<1>2. Len(received) \in Nat /\ 2 \in 0 .. Len(received)
  BY <1>1, LenProperties DEF Whole
<1>3. received' = SubSeq(received, 2 + 1, Len(received))
  BY DEF Taken
<1>4. /\ received' \in Seq(Fragment)
      /\ Len(received') = Len(received) - 2
      /\ \A i \in 1 .. Len(received) - 2 : received'[i] = received[i + 2]
  BY <1>1, <1>2, <1>3, Rest, ZenonT(60)
<1> QED BY <1>1, <1>2, <1>4, Sizes

\* The packet in hand.
LEMMA InHand ==
  ASSUME Typed, Whole(received)
  PROVE  /\ received[1] \in Fragment /\ received[1].pkt \in Packet
         /\ received[1].part = 1 /\ received[1].from \in Sockets /\ received[1].n \in Nat
         /\ Len(received) \in Nat /\ Len(received) >= 2
<1>1. received \in Seq(Fragment)
  BY DEF Typed, ClientTypes
<1>2. Len(received) \in Nat /\ Len(received) >= 2 /\ received[1].part = 1
  BY <1>1, LenProperties DEF Whole
<1>3. received[1] \in Fragment
  BY <1>1, <1>2, ElementOfSeq
<1> QED BY <1>2, <1>3, FragmentFacts

\* A handler that takes its packet and changes nothing else of the client but what is named
\* keeps the types.
LEMMA TakenTypes ==
  ASSUME Typed, Whole(received), Taken, UNCHANGED <<connected, sock, opened>>,
         encrypted' \in BOOLEAN, ciphers' \in Keys, state' \in 1 .. 3,
         clientID' \in Own \cup {0}, state' = 3 => clientID' \in Own,
         channel' \in Rooms \cup {""}
  PROVE  ClientTypes'
<1>1. received' \in Seq(Fragment) /\ Len(received') <= Capacity
  BY TakenFacts
<1>2. connected' \in BOOLEAN /\ sock' \in 0 .. MaxSockets /\ opened' \in 0 .. MaxSockets
  BY Zenon DEF Typed, ClientTypes
<1> QED BY <1>1, <1>2, Zenon DEF ClientTypes

\* What DeletePeerConnection leaves.
LEMMA Deletes ==
  ASSUME RoomTypes, NEW id, NEW d, d \subseteq dlgs, DeletePeerConnection(id, d)
  PROVE  /\ peers' \subseteq peers /\ dlgs' \subseteq dlgs /\ stream' \in BOOLEAN
         /\ id = clientID => peers' = {} /\ stream' = FALSE
         /\ id # clientID => stream' = stream
  BY DEF DeletePeerConnection, RoomTypes

\* The handlers keep the types of the client, of the room and of the network.
LEMMA HandlerTypes ==
  ASSUME Typed, Whole(received), NEW p \in Packet, HandlePacket(p)
  PROVE  ClientTypes' /\ RoomTypes' /\ NetTypes'
<1>1. ClientTypes /\ RoomTypes /\ NetTypes
  BY DEF Typed
<1>2. /\ connected \in BOOLEAN /\ encrypted \in BOOLEAN /\ ciphers \in Keys
      /\ state \in 1 .. 3 /\ clientID \in Own \cup {0} /\ (state = 3 => clientID \in Own)
      /\ channel \in Rooms \cup {""} /\ sock \in 0 .. MaxSockets
      /\ up \in [Sockets -> Seq(Message)]
  BY <1>1, Zenon DEF ClientTypes, NetTypes
<1>3. UNCHANGED <<srv, down>> /\ up' \in [Sockets -> Seq(Message)] => NetTypes'
  BY <1>1 DEF NetTypes
<1>4. UNCHANGED roomVars => RoomTypes'
  BY <1>1 DEF RoomTypes, roomVars
<1>5. UNCHANGED up => up' \in [Sockets -> Seq(Message)]
  BY <1>2
<1>6. /\ Taken /\ UNCHANGED <<connected, sock, opened, state, encrypted, ciphers, clientID, channel>>
      => ClientTypes'
  BY <1>2, TakenTypes, Zenon
<1>7. CASE HandlePacketStatusRequest(p)
  <2>1. /\ Runs("status", p) /\ Taken
        /\ UNCHANGED <<connected, sock, opened, encrypted, ciphers, clientID, channel, srv, down>>
        /\ UNCHANGED roomVars
    BY <1>7 DEF HandlePacketStatusRequest
  <2>2. CASE ~(p.arg \in 1 .. 3)
    BY <1>3, <1>4, <1>5, <1>6, <1>7, <2>1, <2>2, Zenon DEF HandlePacketStatusRequest
  <2>3. CASE p.arg \in 1 .. 3
    <3>1. state' = p.arg /\ SendPacket("loginStart", "")
      BY <1>7, <2>3 DEF HandlePacketStatusRequest
    <3>2. p.arg # 3
      BY <2>1, RunsFacts, PacketFacts, Constants DEF Kinds
    <3>3. state' \in 1 .. 3 /\ state' # 3
      BY <2>3, <3>1, <3>2
    <3>4. up' \in [Sockets -> Seq(Message)]
      BY <1>2, <2>1, <3>1, SendTypes
    <3>5. ClientTypes'
      BY <1>2, <2>1, <3>3, TakenTypes, Zenon
    <3> QED BY <1>3, <1>4, <2>1, <3>4, <3>5
  <2> QED BY <2>2, <2>3
<1>8. CASE HandlePacketErrorCode(p)
  BY <1>4, <1>8, SignOutTypes DEF HandlePacketErrorCode
<1>9. CASE KeyRequestDropped(p) \/ NotUnderstood(p)
  BY <1>3, <1>4, <1>5, <1>6, <1>9 DEF KeyRequestDropped, NotUnderstood
<1>10. CASE KeyRequestHalfDone(p)
  <2>1. ClientTypes'
    BY <1>2, Sizes, <1>10, TakenTypes, Zenon DEF KeyRequestHalfDone
  <2> QED BY <1>3, <1>4, <1>5, <1>10, <2>1 DEF KeyRequestHalfDone
<1>11. CASE SendEncryptionKeyResponse(p)
  <2>1. ClientTypes'
    BY <1>2, Sizes, <1>11, TakenTypes, Zenon DEF SendEncryptionKeyResponse
  <2>2. SendPacket("keyResponse", "") /\ ciphers' = NewKey
    BY <1>11 DEF SendEncryptionKeyResponse
  <2>3. up' \in [Sockets -> Seq(Message)]
    BY <1>2, <2>2, Sizes, SendTypes
  <2> QED BY <1>3, <1>4, <1>11, <2>1, <2>3 DEF SendEncryptionKeyResponse
<1>12. CASE HandlePacketLoginAllow(p)
  <2>1. SendPacket("loginInfo", "") /\ ciphers' = ciphers
    BY <1>12 DEF HandlePacketLoginAllow
  <2>2. up' \in [Sockets -> Seq(Message)]
    BY <1>2, <2>1, SendTypes
  <2> QED BY <1>3, <1>4, <1>6, <1>12, <2>2 DEF HandlePacketLoginAllow
<1>13. CASE HandlePacketLoginSuccess(p)
  <2>1. /\ Runs("success", p) /\ Taken /\ clientID' = p.arg /\ state' = 3
        /\ UNCHANGED <<connected, sock, opened, encrypted, ciphers, channel, srv, down>>
        /\ UNCHANGED roomVars /\ SendPacket("join", channel)
    BY <1>13 DEF HandlePacketLoginSuccess
  <2>2. clientID' \in Own
    BY <2>1, RunsFacts, PacketFacts DEF Kinds
  <2>3. up' \in [Sockets -> Seq(Message)]
    BY <1>2, <2>1, SendTypes
  <2>4. state' \in 1 .. 3
    BY <2>1
  <2>5. ClientTypes'
    BY <1>2, <2>1, <2>2, <2>4, TakenTypes, Zenon
  <2> QED BY <1>3, <1>4, <2>1, <2>3, <2>5
<1>14. CASE HandlePacketKeepAlive(p)
  <2>1. SendPacket("keepAlive", "") /\ ciphers' = ciphers
    BY <1>14 DEF HandlePacketKeepAlive
  <2>2. up' \in [Sockets -> Seq(Message)]
    BY <1>2, <2>1, SendTypes
  <2> QED BY <1>3, <1>4, <1>6, <1>14, <2>2 DEF HandlePacketKeepAlive
<1>15. CASE HandlePacketRoomJoin(p)
  <2>1. Runs("joined", p)
    BY <1>15 DEF HandlePacketRoomJoin
  <2>2. p.arg \in Rooms \cup {""} /\ clientID \in Own
    BY <1>2, <2>1, RunsFacts, PacketFacts DEF Kinds
  <2>3. RoomTypes'
    <3>1. CASE p.arg = ""
      BY <1>4, <1>15, <3>1 DEF HandlePacketRoomJoin
    <3>2. CASE p.arg # ""
      <4>1. /\ peers' = peers \cup {clientID} /\ stream' = TRUE /\ roomName' = p.arg
            /\ dlgs' = dlgs /\ posted' = posted
        BY <1>15, <3>2, Zenon DEF HandlePacketRoomJoin
      <4>2. peers' \subseteq Own \cup Members
        BY <1>1, <2>2, <4>1 DEF RoomTypes
      <4> QED BY <1>1, <2>2, <4>1, <4>2, Zenon DEF RoomTypes
    <3> QED BY <3>1, <3>2
  <2> QED BY <1>3, <1>5, <1>6, <1>15, <2>3 DEF HandlePacketRoomJoin
<1>16. CASE PublisherMessage(p)
  <2>1. Runs("publisher", p)
    BY <1>16 DEF PublisherMessage
  <2>2. p.arg.from \in Members /\ p.arg.id \in Own \cup Members \cup {0}
    BY <2>1, RunsFacts, PacketFacts DEF Kinds
  <2>3. CASE p.arg.id = 0
    <3>1. UNCHANGED roomVars
      BY <1>16, <2>3, Zenon DEF PublisherMessage, roomVars
    <3> QED BY <1>3, <1>4, <1>5, <1>6, <1>16, <3>1 DEF PublisherMessage
  <2>4. CASE p.arg.id # 0
    <3>1. /\ peers' = peers \cup {p.arg.from} /\ dlgs' = dlgs \cup {p.arg.from}
          /\ posted' = Append(posted, p.arg.id) /\ stream' = stream /\ roomName' = roomName
      BY <1>16, <2>4, Zenon DEF PublisherMessage
    <3>2. posted' \in Seq(Own \cup Members)
      BY <1>1, <2>2, <2>4, <3>1, AppendProperties DEF RoomTypes
    <3>3. RoomTypes'
      BY <1>1, <2>2, <3>1, <3>2 DEF RoomTypes
    <3> QED BY <1>3, <1>5, <1>6, <1>16, <3>3 DEF PublisherMessage
  <2> QED BY <2>3, <2>4
<1>17. CASE OfflineMessage(p)
  <2>1. /\ DeletePeerConnection(p.arg.id, dlgs \ {p.arg.from})
        /\ roomName' = roomName /\ posted' = posted
    BY <1>17 DEF OfflineMessage
  <2>2. dlgs \ {p.arg.from} \subseteq dlgs
    OBVIOUS
  <2>3. peers' \subseteq peers /\ dlgs' \subseteq dlgs /\ stream' \in BOOLEAN
    BY <1>1, <2>1, <2>2, Deletes, Zenon
  <2>4. RoomTypes'
    BY <1>1, <2>1, <2>3 DEF RoomTypes
  <2> QED BY <1>3, <1>5, <1>6, <1>17, <2>4 DEF OfflineMessage
<1>18. CASE HandlePacketRoomLeft(p)
  <2>1. CASE p.arg # ""
    <3>1. /\ SignOut /\ DeletePeerConnection(clientID, dlgs)
          /\ roomName' = "" /\ posted' = posted
      BY <1>18, <2>1, Zenon DEF HandlePacketRoomLeft
    <3>2. RoomTypes'
      BY <1>1, <3>1, Deletes DEF RoomTypes
    <3> QED BY <3>1, <3>2, SignOutTypes
  <2>2. CASE p.arg = ""
    <3>1. /\ Taken /\ channel' = "" /\ UNCHANGED <<srv, down, up>> /\ UNCHANGED roomVars
          /\ UNCHANGED <<connected, sock, opened, state, encrypted, ciphers, clientID>>
      BY <1>18, <2>2 DEF HandlePacketRoomLeft
    <3>2. channel' \in Rooms \cup {""}
      BY <3>1
    <3>3. ClientTypes'
      BY <1>2, <3>1, <3>2, TakenTypes, Zenon
    <3> QED BY <1>3, <1>4, <1>5, <3>1, <3>3
  <2> QED BY <2>1, <2>2
<1> QED BY <1>7, <1>8, <1>9, <1>10, <1>11, <1>12, <1>13, <1>14, <1>15, <1>16, <1>17, <1>18
        DEF HandlePacket

-----------------------------------------------------------------------------
(***************************************************************************)
(* What the loops and the servers do to the streams, and all types.        *)
(***************************************************************************)
\* Bytes are added to the buffer, all of them or none.
LEMMA Adds ==
  ASSUME Typed, NEW q \in Seq(Fragment), NEW left \in Seq(Fragment), AddReceivedData(q, left)
  PROVE  /\ received' \in Seq(Fragment) /\ Len(received') <= Capacity
         /\ ui' \in {"idle", "decrypt", "dispatch"} /\ full' \in BOOLEAN
         /\ \/ /\ received' = received \o q /\ ui' = "dispatch" /\ full' = full
            \/ /\ received' = received /\ ui' = After(left) /\ full' = TRUE
<1>1. received \in Seq(Fragment) /\ Len(received) <= Capacity
  BY DEF Typed, ClientTypes
<1>2. full \in BOOLEAN
  BY DEF Typed, LoopTypes
<1>3. CASE Len(received) + Len(q) <= Capacity
  <2>1. received' = received \o q /\ ui' = "dispatch" /\ full' = full
    BY <1>3 DEF AddReceivedData
  <2>2. received \o q \in Seq(Fragment) /\ Len(received \o q) = Len(received) + Len(q)
    BY <1>1, ConcatProperties
  <2> QED BY <1>2, <1>3, <2>1, <2>2
<1>4. CASE ~(Len(received) + Len(q) <= Capacity)
  <2>1. received' = received /\ ui' = After(left) /\ full' = TRUE
    BY <1>4 DEF AddReceivedData
  <2>2. After(left) \in {"idle", "decrypt"}
    BY DEF After
  <2> QED BY <1>1, <2>1, <2>2
<1> QED BY <1>3, <1>4

\* A piece of a packet that server s sends.
PieceOf(s, r, k, a, part) ==
  [from |-> s, n |-> srv[s].sent + 1, part |-> part, key |-> IF r.keyed THEN s ELSE 0,
   pkt |-> [kind |-> k, arg |-> a]]

\* A server counts what it sends.
LEMMA SentOnce ==
  ASSUME NEW r \in Server
  PROVE  r.sent + 1 \in Nat /\ [r EXCEPT !.sent = @ + 1] \in Server
<1> DEFINE R == SUBSET Members
           Q == Rooms \cup {""}
<1>1. r \in [stage: Stages, keyed: BOOLEAN, room: Q, announced: R, sent: Nat]
  BY DEF Server
<1> HIDE DEF R, Q
<1>2. r.sent + 1 \in Nat
  BY <1>1
<1>3. [r EXCEPT !.sent = r.sent + 1]
        \in [stage: Stages, keyed: BOOLEAN, room: Q, announced: R, sent: Nat]
  BY <1>1, <1>2
<1> QED BY <1>2, <1>3 DEF Server, Q, R

\* A server takes the first packet of the client.
LEMMA TailFacts ==
  ASSUME NEW S, NEW q \in Seq(S), q # <<>>
  PROVE  /\ Tail(q) \in Seq(S) /\ Len(Tail(q)) = Len(q) - 1 /\ Len(q) \in Nat \ {0}
         /\ Head(q) = q[1] /\ q[1] \in S
         /\ \A i \in 1 .. Len(q) - 1 : Tail(q)[i] = q[i + 1]
<1>1. Len(q) \in Nat \ {0}
  BY EmptySeq
<1>2. /\ Head(q) \in S /\ Tail(q) \in Seq(S) /\ Len(Tail(q)) = Len(q) - 1
      /\ \A i \in 1 .. Len(Tail(q)) : Tail(q)[i] = q[i + 1]
  BY HeadTailProperties
<1>3. Head(q) = q[1]
  BY <1>1
<1> QED BY <1>1, <1>2, <1>3

\* What a server may do when it sends: its stage, the packet it has taken ("-": none), the
\* stage it goes to and the packet it sends.
Script ==
  {<<"status", "statusRequest", "login", "status">>,
   <<"login", "loginStart", "key", "keyRequest">>, <<"login", "loginStart", "info", "allow">>,
   <<"key", "keyResponse", "info", "allow">>,
   <<"info", "loginInfo", "over", "disconnect">>, <<"info", "loginInfo", "ready", "success">>,
   <<"ready", "join", "joined", "joined">>, <<"ready", "join", "over", "joined">>,
   <<"joined", "leave", "over", "left">>, <<"joined", "leave", "joined", "left">>,
   <<"joined", "-", "joined", "publisher">>, <<"joined", "-", "joined", "offline">>,
   <<"joined", "-", "joined", "keepAlive">>, <<"joined", "-", "joined", "future">>,
   <<"joined", "-", "over", "error">>,
   <<"over", "-", "over", "keepAlive">>, <<"over", "-", "over", "future">>}

\* Server s takes m, goes on as r and sends packet k.
Talks(s, m, r, k, a) ==
  /\ r \in Server /\ [kind |-> k, arg |-> a] \in Packet
  /\ <<srv[s].stage, m, r.stage, k>> \in Script
  /\ r.sent = srv[s].sent
  /\ r.keyed = (srv[s].keyed \/ srv[s].stage = "key")
  /\ r.room # srv[s].room => k = "joined" /\ a = r.room
  /\ k = "left" /\ a # "" => r.stage = "over"
  /\ k = "publisher" => srv[s].room # ""
  /\ ServerSends(s, r, k, a)
  /\ \/ m = "-" /\ UNCHANGED up
     \/ /\ up[s] # <<>> /\ Head(up[s]).kind = m /\ Readable(s, Head(up[s]))
        /\ up' = [up EXCEPT ![s] = Tail(@)]

\* It takes something it does not answer, or closes the connection.
Listens(s) ==
  /\ UNCHANGED down
  /\ \/ /\ up[s] # <<>> /\ up' = [up EXCEPT ![s] = Tail(@)]
        /\ \/ UNCHANGED srv /\ srv[s].stage \in {"joined", "over", "confused"}
           \/ /\ srv' = [srv EXCEPT ![s].stage = "confused"]
              /\ srv[s].stage \in {"status", "login", "key", "info", "ready", "joined"}
              /\ \/ ~Readable(s, Head(up[s]))
                 \/ Head(up[s]).kind \notin Expected(srv[s].stage)
     \/ /\ up' = [up EXCEPT ![s] = <<>>] /\ srv' = [srv EXCEPT ![s] = Blank("closed")]
        /\ Live(srv[s].stage)

\* What it has then said.
Told(s, r, k, a) ==
  /\ r \in Server /\ [kind |-> k, arg |-> a] \in Packet
  /\ srv' \in [Sockets -> Server] /\ down' \in [Sockets -> Seq(Fragment)]
  /\ srv'[s].stage = r.stage /\ srv'[s].keyed = r.keyed /\ srv'[s].room = r.room
  /\ srv'[s].sent = r.sent + 1
  /\ \A t \in Sockets \ {s} : srv'[t] = srv[t] /\ down'[t] = down[t]
  /\ Len(down'[s]) = Len(down[s]) + 2
  /\ \A i \in 1 .. Len(down[s]) : down'[s][i] = down[s][i]
  /\ down'[s][Len(down[s]) + 1] = PieceOf(s, r, k, a, 1)
  /\ down'[s][Len(down[s]) + 2] = PieceOf(s, r, k, a, 2)
  /\ PieceOf(s, r, k, a, 1) \in Fragment /\ PieceOf(s, r, k, a, 2) \in Fragment
  /\ down'[s] = down[s] \o <<PieceOf(s, r, k, a, 1), PieceOf(s, r, k, a, 2)>>

\* A server sends a packet.
LEMMA TalksFacts ==
  ASSUME Typed, NEW s \in Sockets, NEW m, NEW r, NEW k, NEW a, Talks(s, m, r, k, a)
  PROVE  Told(s, r, k, a)
<1>0. r \in Server /\ [kind |-> k, arg |-> a] \in Packet /\ ServerSends(s, r, k, a)
  BY DEF Talks
<1>1. srv \in [Sockets -> Server] /\ down \in [Sockets -> Seq(Fragment)]
  BY DEF Typed, NetTypes
<1>2. srv' = [srv EXCEPT ![s] = [r EXCEPT !.sent = @ + 1]]
  BY <1>0 DEF ServerSends
<1>3. [r EXCEPT !.sent = @ + 1] \in Server
  BY <1>0, SentOnce
<1>4. srv' \in [Sockets -> Server] /\ srv'[s] = [r EXCEPT !.sent = @ + 1]
      /\ \A t \in Sockets \ {s} : srv'[t] = srv[t]
  BY <1>1, <1>2, <1>3
<1>5. srv'[s].stage = r.stage /\ srv'[s].keyed = r.keyed /\ srv'[s].room = r.room
      /\ srv'[s].sent = r.sent + 1
  BY <1>0, <1>4 DEF Server
<1> DEFINE P1 == PieceOf(s, r, k, a, 1)
           P2 == PieceOf(s, r, k, a, 2)
<1>6. down' = [down EXCEPT ![s] = down[s] \o <<P1, P2>>]
  <2>1. Piece(s, k, a, 1) = P1 /\ Piece(s, k, a, 2) = P2
    BY <1>5 DEF Piece, PieceOf
  <2> QED BY <1>0, <2>1 DEF ServerSends
<1>7. P1 \in Fragment /\ P2 \in Fragment
  <2>1. srv[s].sent + 1 \in Nat
    BY <1>1, SentOnce
  <2>2. (IF r.keyed THEN s ELSE 0) \in Sockets \cup {0}
    OBVIOUS
  <2> QED BY <1>0, <2>1, <2>2 DEF Fragment, PieceOf
<1> HIDE DEF P1, P2
<1>8. <<P1, P2>> \in Seq(Fragment) /\ Len(<<P1, P2>>) = 2
      /\ <<P1, P2>>[1] = P1 /\ <<P1, P2>>[2] = P2
  BY <1>7
<1>9. down[s] \in Seq(Fragment) /\ Len(down[s]) \in Nat
  BY <1>1, LenProperties
<1>10. /\ down[s] \o <<P1, P2>> \in Seq(Fragment)
       /\ Len(down[s] \o <<P1, P2>>) = Len(down[s]) + Len(<<P1, P2>>)
       /\ \A i \in 1 .. Len(down[s]) + Len(<<P1, P2>>) :
            (down[s] \o <<P1, P2>>)[i] = IF i <= Len(down[s]) THEN down[s][i]
                                         ELSE <<P1, P2>>[i - Len(down[s])]
  BY <1>8, <1>9, ConcatProperties
<1>11. /\ Len(down[s] \o <<P1, P2>>) = Len(down[s]) + 2
       /\ \A i \in 1 .. Len(down[s]) : (down[s] \o <<P1, P2>>)[i] = down[s][i]
       /\ (down[s] \o <<P1, P2>>)[Len(down[s]) + 1] = P1
       /\ (down[s] \o <<P1, P2>>)[Len(down[s]) + 2] = P2
  BY <1>8, <1>9, <1>10
<1>12. down' \in [Sockets -> Seq(Fragment)] /\ down'[s] = down[s] \o <<P1, P2>>
       /\ \A t \in Sockets \ {s} : down'[t] = down[t]
  BY <1>1, <1>6, <1>10
<1>13. /\ Len(down'[s]) = Len(down[s]) + 2
       /\ \A i \in 1 .. Len(down[s]) : down'[s][i] = down[s][i]
       /\ down'[s][Len(down[s]) + 1] = P1 /\ down'[s][Len(down[s]) + 2] = P2
  BY <1>11, <1>12
<1> QED BY <1>0, <1>4, <1>5, <1>7, <1>12, <1>13 DEF P1, P2, Told

\* The fields of a server.
LEMMA ServerFields ==
  ASSUME NEW r \in Server
  PROVE  /\ r.stage \in Stages /\ r.keyed \in BOOLEAN /\ r.room \in Rooms \cup {""}
         /\ r.announced \subseteq Members /\ r.sent \in Nat
  BY DEF Server

\* A server goes to another stage.
LEMMA StageChanged ==
  ASSUME NEW r \in Server, NEW stage \in Stages
  PROVE  /\ [r EXCEPT !.stage = stage] \in Server
         /\ [r EXCEPT !.stage = stage].stage = stage
         /\ [r EXCEPT !.stage = stage].sent = r.sent
         /\ [r EXCEPT !.stage = stage].keyed = r.keyed
         /\ [r EXCEPT !.stage = stage].room = r.room
<1> DEFINE R == SUBSET Members
           Q == Rooms \cup {""}
<1>1. r \in [stage: Stages, keyed: BOOLEAN, room: Q, announced: R, sent: Nat]
  BY DEF Server
<1>2. \A q : (q \in Rooms \cup {""} => q \in Q) /\ (q \in SUBSET Members => q \in R)
  OBVIOUS
<1> HIDE DEF R, Q
<1>3. [r EXCEPT !.stage = stage] \in [stage: Stages, keyed: BOOLEAN, room: Q, announced: R, sent: Nat]
  BY <1>1, <1>2
<1>4. /\ [r EXCEPT !.stage = stage].stage = stage
      /\ [r EXCEPT !.stage = stage].sent = r.sent
      /\ [r EXCEPT !.stage = stage].keyed = r.keyed
      /\ [r EXCEPT !.stage = stage].room = r.room
  BY <1>1
<1> QED BY <1>3, <1>4 DEF Server, Q, R

\* It begins to encrypt.
LEMMA KeyChanged ==
  ASSUME NEW r \in Server, NEW stage \in Stages
  PROVE  /\ [r EXCEPT !.stage = stage, !.keyed = TRUE] \in Server
         /\ [r EXCEPT !.stage = stage, !.keyed = TRUE].stage = stage
         /\ [r EXCEPT !.stage = stage, !.keyed = TRUE].sent = r.sent
         /\ [r EXCEPT !.stage = stage, !.keyed = TRUE].keyed = TRUE
         /\ [r EXCEPT !.stage = stage, !.keyed = TRUE].room = r.room
<1> DEFINE R == SUBSET Members
           Q == Rooms \cup {""}
<1>1. r \in [stage: Stages, keyed: BOOLEAN, room: Q, announced: R, sent: Nat]
  BY DEF Server
<1>2. \A q : (q \in Rooms \cup {""} => q \in Q) /\ (q \in SUBSET Members => q \in R)
  OBVIOUS
<1> HIDE DEF R, Q
<1>3. [r EXCEPT !.stage = stage, !.keyed = TRUE] \in [stage: Stages, keyed: BOOLEAN, room: Q, announced: R, sent: Nat]
  BY <1>1, <1>2
<1>4. /\ [r EXCEPT !.stage = stage, !.keyed = TRUE].stage = stage
      /\ [r EXCEPT !.stage = stage, !.keyed = TRUE].sent = r.sent
      /\ [r EXCEPT !.stage = stage, !.keyed = TRUE].keyed = TRUE
      /\ [r EXCEPT !.stage = stage, !.keyed = TRUE].room = r.room
  BY <1>1
<1> QED BY <1>3, <1>4 DEF Server, Q, R

\* It announces other members.
LEMMA AnnouncedChanged ==
  ASSUME NEW r \in Server, NEW announced \in SUBSET Members
  PROVE  /\ [r EXCEPT !.announced = announced] \in Server
         /\ [r EXCEPT !.announced = announced].stage = r.stage
         /\ [r EXCEPT !.announced = announced].sent = r.sent
         /\ [r EXCEPT !.announced = announced].keyed = r.keyed
         /\ [r EXCEPT !.announced = announced].room = r.room
<1> DEFINE R == SUBSET Members
           Q == Rooms \cup {""}
<1>1. r \in [stage: Stages, keyed: BOOLEAN, room: Q, announced: R, sent: Nat]
  BY DEF Server
<1>2. \A q : (q \in Rooms \cup {""} => q \in Q) /\ (q \in SUBSET Members => q \in R)
  OBVIOUS
<1> HIDE DEF R, Q
<1>3. [r EXCEPT !.announced = announced] \in [stage: Stages, keyed: BOOLEAN, room: Q, announced: R, sent: Nat]
  BY <1>1, <1>2
<1>4. /\ [r EXCEPT !.announced = announced].stage = r.stage
      /\ [r EXCEPT !.announced = announced].sent = r.sent
      /\ [r EXCEPT !.announced = announced].keyed = r.keyed
      /\ [r EXCEPT !.announced = announced].room = r.room
  BY <1>1
<1> QED BY <1>3, <1>4 DEF Server, Q, R

\* A server that takes a packet and answers it.
LEMMA TakesAndTalks ==
  ASSUME Typed, NEW s \in Sockets, NEW stage \in Stages, NEW m, NEW r \in Server, NEW k, NEW a,
         ServerTakes(s, stage, m), ServerSends(s, r, k, a),
         [kind |-> k, arg |-> a] \in Packet,
         <<stage, m, r.stage, k>> \in Script, r.sent = srv[s].sent,
         r.keyed = (srv[s].keyed \/ stage = "key"),
         r.room = srv[s].room \/ (k = "joined" /\ a = r.room),
         k = "left" /\ a # "" => r.stage = "over", k # "publisher"
  PROVE  Talks(s, m, r, k, a) /\ UNCHANGED <<clientVars, loopVars, roomVars, histVars>>
  BY DEF Talks, ServerTakes

\* Everything a server does.
LEMMA ServerSays ==
  ASSUME Typed, NEW s \in Sockets, ServerStep(s)
  PROVE  /\ UNCHANGED <<clientVars, loopVars, roomVars, histVars>>
         /\ Listens(s) \/ \E m, r, k, a : Talks(s, m, r, k, a)
<1> DEFINE Said == /\ UNCHANGED <<clientVars, loopVars, roomVars, histVars>>
                   /\ Listens(s) \/ \E m, r, k, a : Talks(s, m, r, k, a)
           z == srv[s]
<1>0. z \in Server /\ z.keyed \in BOOLEAN /\ z.room \in Rooms \cup {""}
      /\ z.announced \subseteq Members /\ z.stage \in Stages
  <2>1. z \in Server
    BY DEF Typed, NetTypes
  <2> HIDE DEF z
  <2> QED BY <2>1, ServerFields
<1>s. {"login", "key", "info", "ready", "joined", "over", "status"} \subseteq Stages
  BY DEF Stages
<1>1. ASSUME NEW a \in NextStates, ServerStatus(s, a) PROVE Said
  <2> DEFINE r == [z EXCEPT !.stage = "login"]
  <2>1. ServerTakes(s, "status", "statusRequest") /\ ServerSends(s, r, "status", a)
    BY <1>1 DEF ServerStatus
  <2>2. r \in Server /\ r.stage = "login" /\ r.sent = z.sent /\ r.keyed = z.keyed /\ r.room = z.room
    BY <1>0, <1>s, StageChanged
  <2>3. [kind |-> "status", arg |-> a] \in Packet
    BY PacketMade
  <2> HIDE DEF r, z
  <2>4. <<"status", "statusRequest", r.stage, "status">> \in Script
    BY <2>2 DEF Script
  <2>5. r.keyed = (z.keyed \/ "status" = "key")
    BY <1>0, <2>2
  <2>6. Talks(s, "statusRequest", r, "status", a) /\ UNCHANGED <<clientVars, loopVars, roomVars, histVars>>
    BY <1>s, <2>1, <2>2, <2>3, <2>4, <2>5, TakesAndTalks DEF z
  <2> QED BY <2>6
<1>2. ASSUME NEW encrypt \in BOOLEAN, ServerLogin(s, encrypt) PROVE Said
  <2> DEFINE r1 == [z EXCEPT !.stage = "key"]
             r2 == [z EXCEPT !.stage = "info"]
  <2>1. /\ ServerTakes(s, "login", "loginStart")
        /\ ServerSends(s, r1, "keyRequest", 0) \/ ServerSends(s, r2, "allow", 0)
    BY <1>2 DEF ServerLogin
  <2>2. /\ r1 \in Server /\ r1.stage = "key" /\ r1.sent = z.sent /\ r1.keyed = z.keyed /\ r1.room = z.room
        /\ r2 \in Server /\ r2.stage = "info" /\ r2.sent = z.sent /\ r2.keyed = z.keyed /\ r2.room = z.room
    BY <1>0, <1>s, StageChanged
  <2>3. [kind |-> "keyRequest", arg |-> 0] \in Packet /\ [kind |-> "allow", arg |-> 0] \in Packet
    BY PacketMade
  <2> HIDE DEF r1, r2, z
  <2>4. /\ <<"login", "loginStart", r1.stage, "keyRequest">> \in Script
        /\ <<"login", "loginStart", r2.stage, "allow">> \in Script
    BY <2>2 DEF Script
  <2>5. r1.keyed = (z.keyed \/ "login" = "key") /\ r2.keyed = (z.keyed \/ "login" = "key")
    BY <1>0, <2>2
  <2>6. CASE ServerSends(s, r1, "keyRequest", 0)
    <3>1. Talks(s, "loginStart", r1, "keyRequest", 0)
          /\ UNCHANGED <<clientVars, loopVars, roomVars, histVars>>
      BY <1>s, <2>1, <2>2, <2>3, <2>4, <2>5, <2>6, TakesAndTalks DEF z
    <3> QED BY <3>1
  <2>7. CASE ServerSends(s, r2, "allow", 0)
    <3>1. Talks(s, "loginStart", r2, "allow", 0)
          /\ UNCHANGED <<clientVars, loopVars, roomVars, histVars>>
      BY <1>s, <2>1, <2>2, <2>3, <2>4, <2>5, <2>7, TakesAndTalks DEF z
    <3> QED BY <3>1
  <2> QED BY <2>1, <2>6, <2>7
<1>3. CASE ServerKey(s)
  <2> DEFINE r == [z EXCEPT !.stage = "info", !.keyed = TRUE]
  <2>1. ServerTakes(s, "key", "keyResponse") /\ ServerSends(s, r, "allow", 0)
    BY <1>3 DEF ServerKey
  <2>2. r \in Server /\ r.stage = "info" /\ r.sent = z.sent /\ r.keyed = TRUE /\ r.room = z.room
    BY <1>0, <1>s, KeyChanged
  <2>3. [kind |-> "allow", arg |-> 0] \in Packet
    BY PacketMade
  <2> HIDE DEF r, z
  <2>4. <<"key", "keyResponse", r.stage, "allow">> \in Script
    BY <2>2 DEF Script
  <2>5. r.keyed = (z.keyed \/ "key" = "key")
    BY <1>0, <2>2
  <2>6. Talks(s, "keyResponse", r, "allow", 0) /\ UNCHANGED <<clientVars, loopVars, roomVars, histVars>>
    BY <1>s, <2>1, <2>2, <2>3, <2>4, <2>5, TakesAndTalks DEF z
  <2> QED BY <2>6
<1>4. ASSUME NEW id \in Own \cup {0}, ServerInfo(s, id) PROVE Said
  <2> DEFINE r1 == [z EXCEPT !.stage = "over"]
             r2 == [z EXCEPT !.stage = "ready"]
  <2>1. /\ ServerTakes(s, "info", "loginInfo")
        /\ \/ ServerSends(s, r1, "disconnect", 0)
           \/ id \in Own /\ ServerSends(s, r2, "success", id)
    BY <1>4 DEF ServerInfo
  <2>2. /\ r1 \in Server /\ r1.stage = "over" /\ r1.sent = z.sent /\ r1.keyed = z.keyed /\ r1.room = z.room
        /\ r2 \in Server /\ r2.stage = "ready" /\ r2.sent = z.sent /\ r2.keyed = z.keyed /\ r2.room = z.room
    BY <1>0, <1>s, StageChanged
  <2>3. /\ [kind |-> "disconnect", arg |-> 0] \in Packet
        /\ id \in Own => [kind |-> "success", arg |-> id] \in Packet
    BY PacketMade
  <2> HIDE DEF r1, r2, z
  <2>4. /\ <<"info", "loginInfo", r1.stage, "disconnect">> \in Script
        /\ <<"info", "loginInfo", r2.stage, "success">> \in Script
    BY <2>2 DEF Script
  <2>5. r1.keyed = (z.keyed \/ "info" = "key") /\ r2.keyed = (z.keyed \/ "info" = "key")
    BY <1>0, <2>2
  <2>6. CASE ServerSends(s, r1, "disconnect", 0)
    <3>1. Talks(s, "loginInfo", r1, "disconnect", 0)
          /\ UNCHANGED <<clientVars, loopVars, roomVars, histVars>>
      BY <1>s, <2>1, <2>2, <2>3, <2>4, <2>5, <2>6, TakesAndTalks DEF z
    <3> QED BY <3>1
  <2>7. CASE id \in Own /\ ServerSends(s, r2, "success", id)
    <3>1. Talks(s, "loginInfo", r2, "success", id)
          /\ UNCHANGED <<clientVars, loopVars, roomVars, histVars>>
      BY <1>s, <2>1, <2>2, <2>3, <2>4, <2>5, <2>7, TakesAndTalks DEF z
    <3> QED BY <3>1
  <2> QED BY <2>1, <2>6, <2>7
<1>5. ASSUME NEW ok \in BOOLEAN, ServerJoin(s, ok) PROVE Said
  <2> DEFINE room == Head(up[s]).room
             r1 == [z EXCEPT !.stage = "joined", !.room = room]
             r2 == [z EXCEPT !.stage = "over"]
  <2>1. /\ ServerTakes(s, "ready", "join")
        /\ ServerSends(s, r1, "joined", room) \/ ServerSends(s, r2, "joined", "")
    BY <1>5 DEF ServerJoin
  <2>0. room \in Rooms \cup {""}
    <3>1. up[s] \in Seq(Message) /\ up[s] # <<>>
      BY <2>1 DEF ServerTakes, Typed, NetTypes
    <3>2. Head(up[s]) \in Message
      BY <3>1, TailFacts
    <3> QED BY <3>2 DEF Message
  <2>2. /\ r1 \in Server /\ r1.stage = "joined" /\ r1.sent = z.sent /\ r1.keyed = z.keyed /\ r1.room = room
        /\ r2 \in Server /\ r2.stage = "over" /\ r2.sent = z.sent /\ r2.keyed = z.keyed /\ r2.room = z.room
    <3> HIDE DEF z, room
    <3>1. r1 \in Server /\ r1.stage = "joined" /\ r1.sent = z.sent /\ r1.keyed = z.keyed /\ r1.room = room
      <4> DEFINE R == SUBSET Members
                 Q == Rooms \cup {""}
      <4>1. "joined" \in Stages /\ room \in Q
        BY <1>s, <2>0
      <4>2. z \in [stage: Stages, keyed: BOOLEAN, room: Q, announced: R, sent: Nat]
        BY <1>0 DEF Server
      <4> HIDE DEF R, Q
      <4>3. r1 \in [stage: Stages, keyed: BOOLEAN, room: Q, announced: R, sent: Nat]
        BY <4>1, <4>2
      <4>4. r1.stage = "joined" /\ r1.sent = z.sent /\ r1.keyed = z.keyed /\ r1.room = room
        BY <4>2
      <4> QED BY <4>3, <4>4 DEF Server, Q, R
    <3>2. r2 \in Server /\ r2.stage = "over" /\ r2.sent = z.sent /\ r2.keyed = z.keyed /\ r2.room = z.room
      BY <1>0, <1>s, StageChanged
    <3> QED BY <3>1, <3>2
  <2>3. [kind |-> "joined", arg |-> room] \in Packet /\ [kind |-> "joined", arg |-> ""] \in Packet
    BY <2>0, PacketMade
  <2> HIDE DEF r1, r2, room, z
  <2>4. /\ <<"ready", "join", r1.stage, "joined">> \in Script
        /\ <<"ready", "join", r2.stage, "joined">> \in Script
    BY <2>2 DEF Script
  <2>5. r1.keyed = (z.keyed \/ "ready" = "key") /\ r2.keyed = (z.keyed \/ "ready" = "key")
    BY <1>0, <2>2
  <2>6. CASE ServerSends(s, r1, "joined", room)
    <3>1. Talks(s, "join", r1, "joined", room)
          /\ UNCHANGED <<clientVars, loopVars, roomVars, histVars>>
      BY <1>s, <2>1, <2>2, <2>3, <2>4, <2>5, <2>6, TakesAndTalks DEF z
    <3> QED BY <3>1
  <2>7. CASE ServerSends(s, r2, "joined", "")
    <3>1. Talks(s, "join", r2, "joined", "")
          /\ UNCHANGED <<clientVars, loopVars, roomVars, histVars>>
      BY <1>s, <2>1, <2>2, <2>3, <2>4, <2>5, <2>7, TakesAndTalks DEF z
    <3> QED BY <3>1
  <2> QED BY <2>1, <2>6, <2>7
<1>6. ASSUME NEW ok \in BOOLEAN, ServerLeave(s, ok) PROVE Said
  <2> DEFINE r == [z EXCEPT !.stage = "over"]
  <2>1. /\ ServerTakes(s, "joined", "leave")
        /\ ServerSends(s, r, "left", z.room) \/ ServerSends(s, z, "left", "")
    BY <1>6 DEF ServerLeave
  <2>2. r \in Server /\ r.stage = "over" /\ r.sent = z.sent /\ r.keyed = z.keyed /\ r.room = z.room
    BY <1>0, <1>s, StageChanged
  <2>3. [kind |-> "left", arg |-> z.room] \in Packet /\ [kind |-> "left", arg |-> ""] \in Packet
    BY <1>0, PacketMade
  <2>9. z.stage = "joined"
    BY <2>1 DEF ServerTakes
  <2> HIDE DEF r, z
  <2>4. /\ <<"joined", "leave", r.stage, "left">> \in Script
        /\ <<"joined", "leave", z.stage, "left">> \in Script
    BY <2>2, <2>9 DEF Script
  <2>5. r.keyed = (z.keyed \/ "joined" = "key") /\ z.keyed = (z.keyed \/ "joined" = "key")
    BY <1>0, <2>2
  <2>6. CASE ServerSends(s, r, "left", z.room)
    <3>1. Talks(s, "leave", r, "left", z.room)
          /\ UNCHANGED <<clientVars, loopVars, roomVars, histVars>>
      BY <1>s, <2>1, <2>2, <2>3, <2>4, <2>5, <2>6, TakesAndTalks DEF z
    <3> QED BY <3>1
  <2>7. CASE ServerSends(s, z, "left", "")
    <3>1. Talks(s, "leave", z, "left", "")
          /\ UNCHANGED <<clientVars, loopVars, roomVars, histVars>>
      BY <1>0, <1>s, <2>1, <2>3, <2>4, <2>5, <2>7, TakesAndTalks DEF z
    <3> QED BY <3>1
  <2> QED BY <2>1, <2>6, <2>7
<1>7. CASE ServerIgnores(s)
  BY <1>7 DEF ServerIgnores, ServerTakes, Listens
<1>8. CASE ServerConfused(s)
  BY <1>8 DEF ServerConfused, Listens
<1>9. CASE ServerCloses(s)
  BY <1>9 DEF ServerCloses, Listens
<1>10. ASSUME NEW k, NEW a, ServerTalks(s, k, a),
              \/ k \in {"keepAlive", "future", "error"} /\ a = 0
              \/ k \in {"publisher", "offline"} /\ a \in Saying
       PROVE  Said
  <2> DEFINE r == CASE k = "publisher" -> [z EXCEPT !.announced = z.announced \cup {a.from}]
                    [] k = "offline" -> [z EXCEPT !.announced = z.announced \ {a.from}]
                    [] k = "error" -> [z EXCEPT !.stage = "over"]
                    [] OTHER -> z
  <2>1. /\ UNCHANGED <<clientVars, loopVars, roomVars, histVars>> /\ UNCHANGED up
        /\ z.stage = "joined" \/ (z.stage = "over" /\ k \in {"keepAlive", "future"})
        /\ z.room # ""
        /\ ServerSends(s, r, k, a)
    BY <1>10 DEF ServerTalks
  <2>2. [kind |-> k, arg |-> a] \in Packet
    BY <1>10, PacketMade
  <2>3. r \in Server /\ r.sent = z.sent /\ r.keyed = z.keyed /\ r.room = z.room
        /\ r.stage = IF k = "error" THEN "over" ELSE z.stage
    <3> HIDE DEF z
    <3>1. CASE k = "publisher"
      <4>0. a.from \in Members
        BY <1>10, <3>1 DEF Saying
      <4>1. z.announced \cup {a.from} \in SUBSET Members
        BY <1>0, <4>0
      <4>2. r = [z EXCEPT !.announced = z.announced \cup {a.from}]
        BY <3>1
      <4> HIDE DEF r
      <4> QED BY <1>0, <3>1, <4>1, <4>2, AnnouncedChanged
    <3>2. CASE k = "offline"
      <4>1. z.announced \ {a.from} \in SUBSET Members
        BY <1>0
      <4>2. r = [z EXCEPT !.announced = z.announced \ {a.from}]
        BY <3>2
      <4> HIDE DEF r
      <4> QED BY <1>0, <3>2, <4>1, <4>2, AnnouncedChanged
    <3>3. CASE k = "error"
      <4>1. r = [z EXCEPT !.stage = "over"]
        BY <3>3
      <4> HIDE DEF r
      <4>2. r \in Server /\ r.sent = z.sent /\ r.keyed = z.keyed /\ r.room = z.room /\ r.stage = "over"
        BY <1>0, <1>s, <4>1, StageChanged
      <4> QED BY <3>3, <4>2
    <3>4. CASE k \in {"keepAlive", "future"}
      BY <1>0, <3>4
    <3> QED BY <1>10, <3>1, <3>2, <3>3, <3>4
  <2> HIDE DEF r, z
  <2>4. <<z.stage, "-", r.stage, k>> \in Script
    BY <1>10, <2>1, <2>3 DEF Script
  <2>5. r.keyed = (z.keyed \/ z.stage = "key")
    BY <1>0, <2>1, <2>3
  <2>6. k # "left"
    BY <1>10
  <2>7. Talks(s, "-", r, k, a)
    BY <2>1, <2>2, <2>3, <2>4, <2>5, <2>6 DEF Talks, z
  <2> QED BY <2>1, <2>7
<1> QED BY <1>1, <1>2, <1>3, <1>4, <1>5, <1>6, <1>7, <1>8, <1>9, <1>10 DEF ServerStep

\* What a server sends or takes keeps the types.
LEMMA ServerTypes ==
  ASSUME Typed, NEW s \in Sockets, ServerStep(s)
  PROVE  Typed'
<1>1. UNCHANGED <<clientVars, loopVars, roomVars, histVars>>
  BY ServerSays
<1>2. ClientTypes' /\ RoomTypes' /\ LoopTypes'
  <2>1. ClientTypes /\ RoomTypes /\ LoopTypes
    BY DEF Typed
  <2>2. UNCHANGED clientVars => ClientTypes'
    BY <2>1 DEF ClientTypes, clientVars
  <2>3. UNCHANGED roomVars => RoomTypes'
    BY <2>1 DEF RoomTypes, roomVars
  <2>4. UNCHANGED <<loopVars, histVars>> => LoopTypes'
    BY <2>1 DEF LoopTypes, loopVars, histVars
  <2> QED BY <1>1, <2>2, <2>3, <2>4
<1>3. /\ down \in [Sockets -> Seq(Fragment)]
      /\ up \in [Sockets -> Seq(Message)]
      /\ srv \in [Sockets -> Server]
  BY DEF Typed, NetTypes
<1>4. up[s] # <<>> => [up EXCEPT ![s] = Tail(@)] \in [Sockets -> Seq(Message)]
  <2>1. up[s] # <<>> => Tail(up[s]) \in Seq(Message)
    BY <1>3, TailFacts
  <2> QED BY <1>3, <2>1
<1>5. ASSUME Listens(s) PROVE NetTypes'
  <2>1. [up EXCEPT ![s] = <<>>] \in [Sockets -> Seq(Message)]
    BY <1>3, EmptySeq
  <2>2. up' \in [Sockets -> Seq(Message)]
    BY <1>3, <1>4, <1>5, <2>1 DEF Listens
  <2>3. Blank("closed") \in Server /\ "confused" \in Stages
    BY DEF Blank, Server, Stages
  <2>4. srv[s] \in Server
    BY <1>3
  <2>5. [srv[s] EXCEPT !.stage = "confused"] \in Server
    BY <2>3, <2>4, StageChanged
  <2>6. [srv EXCEPT ![s].stage = "confused"] \in [Sockets -> Server]
    BY <1>3, <2>5
  <2>7. [srv EXCEPT ![s] = Blank("closed")] \in [Sockets -> Server]
    BY <1>3, <2>3
  <2>8. srv' \in [Sockets -> Server]
    BY <1>3, <1>5, <2>6, <2>7 DEF Listens
  <2>9. down' = down
    BY <1>5 DEF Listens
  <2> QED BY <1>3, <2>2, <2>8, <2>9 DEF NetTypes
<1>6. ASSUME NEW m, NEW r, NEW k, NEW a, Talks(s, m, r, k, a) PROVE NetTypes'
  <2>2. srv' \in [Sockets -> Server] /\ down' \in [Sockets -> Seq(Fragment)]
    <3>1. Told(s, r, k, a)
      BY <1>6, TalksFacts
    <3> QED BY <3>1 DEF Told
  <2>3. up' = up \/ (up[s] # <<>> /\ up' = [up EXCEPT ![s] = Tail(@)])
    BY <1>6 DEF Talks
  <2>4. up' \in [Sockets -> Seq(Message)]
    BY <1>3, <1>4, <2>3
  <2> QED BY <2>2, <2>4 DEF NetTypes
<1> QED BY <1>2, <1>5, <1>6, ServerSays DEF Typed

\* Reading keeps the types.
LEMMA ReadTypes ==
  ASSUME Typed,
         \/ \E s \in Sockets : \E k \in 1 .. Len(down[s]) : OnRead(s, k)
         \/ DecryptBlock \/ DispatchEnds
         \/ \E k \in 1 .. Capacity, known \in BOOLEAN : DispatchTorn(k, known)
  PROVE  Typed'
<1>1. ClientTypes /\ RoomTypes /\ NetTypes /\ LoopTypes
  BY DEF Typed
<1>2. UNCHANGED roomVars => RoomTypes'
  BY <1>1 DEF RoomTypes, roomVars
<1>3. UNCHANGED <<connected, sock, opened, state, encrypted, ciphers, clientID, channel>>
      /\ received' \in Seq(Fragment) /\ Len(received') <= Capacity => ClientTypes'
  BY <1>1, Zenon DEF ClientTypes
<1>4. UNCHANGED <<srv, up>> /\ down' \in [Sockets -> Seq(Fragment)] => NetTypes'
  BY <1>1 DEF NetTypes
<1>5. /\ last' = last /\ fresh' = fresh /\ full' \in BOOLEAN /\ refused' \in BOOLEAN
      /\ rest' \in Seq(Fragment) /\ ui' \in {"idle", "decrypt", "dispatch", "over", "crashed"}
      => LoopTypes'
  BY <1>1, Zenon DEF LoopTypes
<1>6. /\ received \in Seq(Fragment) /\ Len(received) <= Capacity /\ rest \in Seq(Fragment)
      /\ down \in [Sockets -> Seq(Fragment)] /\ full \in BOOLEAN /\ refused \in BOOLEAN
      /\ <<>> \in Seq(Fragment)
  BY <1>1, EmptySeq, Zenon DEF ClientTypes, LoopTypes, NetTypes
<1>7. \A q : After(q) \in {"idle", "decrypt"}
  BY DEF After
<1>8. ASSUME NEW s \in Sockets, NEW k \in 1 .. Len(down[s]), OnRead(s, k) PROVE Typed'
  <2> DEFINE q == SubSeq(down[s], 1, k)
             d == SubSeq(down[s], k + 1, Len(down[s]))
  <2>1. down[s] \in Seq(Fragment) /\ Len(down[s]) \in Nat
    BY <1>6, LenProperties
  <2>2. k \in 0 .. Len(down[s])
    BY <2>1
  <2>3. q \in Seq(Fragment) /\ d \in Seq(Fragment)
    BY <2>1, <2>2, Rest
  <2>4. Decoded(q, 0) \in Seq(Fragment)
    BY <2>3, DecodedType
  <2>5. down' \in [Sockets -> Seq(Fragment)]
    BY <1>6, <1>8, <2>3 DEF OnRead
  <2>6. /\ UNCHANGED <<connected, sock, opened, state, encrypted, ciphers, clientID, channel>>
        /\ UNCHANGED roomVars /\ UNCHANGED <<srv, up>> /\ UNCHANGED <<fresh, last, refused>>
    BY <1>8 DEF OnRead
  <2>7. /\ rest' \in Seq(Fragment) /\ full' \in BOOLEAN /\ ui' \in {"idle", "decrypt", "dispatch"}
        /\ received' \in Seq(Fragment) /\ Len(received') <= Capacity
    <3>1. CASE encrypted
      BY <1>6, <1>8, <2>3, <3>1 DEF OnRead
    <3>2. CASE ~encrypted
      <4>1. rest' = <<>> /\ AddReceivedData(Decoded(q, 0), <<>>)
        BY <1>8, <3>2 DEF OnRead
      <4> HIDE DEF q
      <4> QED BY <1>6, <2>4, <4>1, Adds
    <3> QED BY <3>1, <3>2
  <2> QED BY <1>2, <1>3, <1>4, <1>5, <1>6, <2>5, <2>6, <2>7 DEF Typed
<1>9. CASE DecryptBlock
  <2> DEFINE k == IF Len(rest) < Block THEN Len(rest) ELSE Block
             left == SubSeq(rest, k + 1, Len(rest))
             q == SubSeq(rest, 1, k)
  <2>1. Len(rest) \in Nat
    BY <1>6, LenProperties
  <2>2. k \in 0 .. Len(rest)
    BY <2>1, Sizes
  <2>3. left \in Seq(Fragment) /\ q \in Seq(Fragment)
    <3> HIDE DEF k
    <3> QED BY <1>6, <2>2, Rest
  <2>4. /\ UNCHANGED <<connected, sock, opened, state, encrypted, ciphers, clientID, channel>>
        /\ UNCHANGED roomVars /\ UNCHANGED <<srv, up>> /\ UNCHANGED <<fresh, last, refused>>
        /\ down' = down
    BY <1>9 DEF DecryptBlock
  <2>5. /\ rest' \in Seq(Fragment) /\ full' \in BOOLEAN
        /\ ui' \in {"idle", "decrypt", "dispatch", "crashed"}
        /\ received' \in Seq(Fragment) /\ Len(received') <= Capacity
    <3>1. CASE ciphers = 0
      BY <1>6, <1>9, <3>1 DEF DecryptBlock
    <3>2. CASE ciphers # 0
      <4>1. rest' = left /\ AddReceivedData(Decoded(q, ciphers), left)
        BY <1>9, <3>2 DEF DecryptBlock
      <4> HIDE DEF q, left
      <4>2. Decoded(q, ciphers) \in Seq(Fragment)
        BY <2>3, DecodedType
      <4> QED BY <2>3, <4>1, <4>2, Adds
    <3> QED BY <3>1, <3>2
  <2> QED BY <1>2, <1>3, <1>4, <1>5, <1>6, <2>4, <2>5 DEF Typed
<1>10. CASE DispatchEnds
  <2>1. /\ UNCHANGED clientVars /\ UNCHANGED roomVars /\ UNCHANGED <<srv, down, up>> /\ UNCHANGED histVars
        /\ rest' = rest /\ ui' = After(rest)
    BY <1>10 DEF DispatchEnds
  <2>2. ClientTypes'
    BY <1>1, <2>1 DEF ClientTypes, clientVars
  <2>3. LoopTypes'
    BY <1>5, <1>6, <1>7, <2>1 DEF histVars
  <2> QED BY <1>2, <1>4, <1>6, <2>1, <2>2, <2>3 DEF Typed
<1>11. ASSUME NEW k \in 1 .. Capacity, NEW known \in BOOLEAN, DispatchTorn(k, known) PROVE Typed'
  <2>1. /\ k \in 1 .. Len(received) /\ received' = SubSeq(received, k + 1, Len(received))
        /\ UNCHANGED <<connected, sock, opened, state, encrypted, ciphers, clientID, channel>>
        /\ UNCHANGED roomVars /\ UNCHANGED <<srv, up>> /\ UNCHANGED <<fresh, last>>
        /\ down' = down /\ rest' = rest /\ full' = full /\ refused' = ~known
        /\ ui' = "dispatch" \/ ui' = After(rest)
    BY <1>11 DEF DispatchTorn
  <2>2. Len(received) \in Nat /\ k \in 0 .. Len(received)
    BY <1>6, <2>1, LenProperties
  <2>3. received' \in Seq(Fragment) /\ Len(received') = Len(received) - k
    BY <1>6, <2>1, <2>2, Rest
  <2>4. Len(received') <= Capacity
    BY <1>6, <2>2, <2>3, Sizes
  <2>5. refused' \in BOOLEAN
    BY <2>1
  <2>6. LoopTypes'
    BY <1>5, <1>6, <1>7, <2>1, <2>5
  <2> QED BY <1>2, <1>3, <1>4, <1>6, <2>1, <2>3, <2>4, <2>6 DEF Typed
<1> QED BY <1>8, <1>9, <1>10, <1>11

\* A packet that is handled keeps the types.
LEMMA DispatchTypes ==
  ASSUME Typed, DispatchPacket
  PROVE  Typed'
<1> DEFINE p == received[1].pkt
<1>1. /\ Whole(received) /\ HandlePacket(p) /\ last' = received[1].n /\ refused' = ~Known(p)
      /\ ui' = "dispatch" \/ ui' = After(rest)
      /\ rest' = rest /\ fresh' = fresh /\ full' = full
  BY DEF DispatchPacket
<1>2. p \in Packet /\ received[1].n \in Nat
  BY <1>1, InHand
<1>3. ClientTypes' /\ RoomTypes' /\ NetTypes'
  <2> HIDE DEF p
  <2> QED BY <1>1, <1>2, HandlerTypes
<1>4. LoopTypes
  BY DEF Typed
<1>5. ui' \in {"idle", "decrypt", "dispatch", "over", "crashed"}
  BY <1>1 DEF After
<1>6. refused' \in BOOLEAN
  BY <1>1
<1>7. LoopTypes'
  BY <1>1, <1>2, <1>4, <1>5, <1>6, Zenon DEF LoopTypes
<1> QED BY <1>3, <1>7 DEF Typed

\* The other window messages keep them.
LEMMA WindowTypes ==
  ASSUME Typed, WindowMessage,
         ~(\E s \in Sockets : \E k \in 1 .. Len(down[s]) : OnRead(s, k))
  PROVE  Typed'
<1>1. ClientTypes /\ RoomTypes /\ NetTypes /\ LoopTypes
  BY DEF Typed
<1>2. UNCHANGED roomVars => RoomTypes'
  BY <1>1 DEF RoomTypes, roomVars
<1>3. UNCHANGED clientVars => ClientTypes'
  BY <1>1 DEF ClientTypes, clientVars
<1>4. UNCHANGED <<loopVars, histVars>> => LoopTypes'
  BY <1>1 DEF LoopTypes, loopVars, histVars
<1>5. /\ down \in [Sockets -> Seq(Fragment)]
      /\ up \in [Sockets -> Seq(Message)]
      /\ srv \in [Sockets -> Server]
  BY <1>1 DEF NetTypes
<1>6. /\ Blank("connecting") \in Server /\ Blank("status") \in Server /\ Blank("gone") \in Server
  BY DEF Blank, Server, Stages
<1>7. /\ sock \in 0 .. MaxSockets /\ opened \in 0 .. MaxSockets /\ ciphers \in Keys
      /\ roomName \in Rooms \cup {""} /\ channel \in Rooms \cup {""}
      /\ posted \in Seq(Own \cup Members)
  BY <1>1 DEF ClientTypes, RoomTypes
<1>8. /\ last \in Nat /\ full \in BOOLEAN /\ fresh \in BOOLEAN /\ refused \in BOOLEAN
  BY <1>1 DEF LoopTypes
<1>9. ASSUME NEW room \in Rooms, JoinChannelConnected(room) PROVE Typed'
  <2>1. channel' = room /\ UNCHANGED <<connected, sock, opened, state, encrypted, ciphers, clientID, received>>
        /\ UNCHANGED <<loopVars, histVars>> /\ UNCHANGED roomVars /\ UNCHANGED <<srv, down, up>>
    BY <1>9 DEF JoinChannelConnected
  <2>2. channel' \in Rooms \cup {""}
    BY <2>1
  <2>3. ClientTypes'
    BY <1>1, <2>1, <2>2, Zenon DEF ClientTypes
  <2>4. NetTypes'
    BY <1>1, <2>1 DEF NetTypes
  <2> QED BY <1>2, <1>4, <2>1, <2>3, <2>4 DEF Typed
<1>10. ASSUME NEW room \in Rooms, NEW resolved \in BOOLEAN, JoinChannel(room, resolved) PROVE Typed'
  <2>1. /\ channel' = room /\ opened < MaxSockets /\ opened' = opened + 1 /\ sock' = opened + 1
        /\ UNCHANGED <<connected, state, encrypted, ciphers, clientID, received>>
        /\ UNCHANGED loopVars /\ UNCHANGED roomVars /\ UNCHANGED <<down, up>>
        /\ fresh' = Pristine /\ full' = (full /\ ~Pristine) /\ last' = 0 /\ refused' = FALSE
    BY <1>10 DEF JoinChannel
  <2>2. channel' \in Rooms \cup {""}
    BY <2>1
  <2>3. sock' \in 0 .. MaxSockets /\ opened' \in 0 .. MaxSockets
    <3>1. opened \in 0 .. MaxSockets /\ MaxSockets \in Nat
      BY <1>7, Sizes
    <3>2. opened < MaxSockets /\ opened' = opened + 1 /\ sock' = opened + 1
      BY <2>1
    <3> QED BY <3>1, <3>2
  <2>4. ClientTypes'
    BY <1>1, <2>1, <2>2, <2>3, Zenon DEF ClientTypes
  <2>5. srv' \in [Sockets -> Server]
    BY <1>5, <1>6, <1>10 DEF JoinChannel
  <2>6. NetTypes'
    BY <1>5, <2>1, <2>5 DEF NetTypes
  <2>7. fresh' \in BOOLEAN /\ full' \in BOOLEAN /\ refused' \in BOOLEAN
    BY <2>1 DEF Pristine
  <2>8. last' \in Nat
    BY <2>1
  <2>9. LoopTypes'
    BY <1>1, <2>1, <2>7, <2>8, Zenon DEF LoopTypes, loopVars
  <2> QED BY <1>2, <2>1, <2>4, <2>6, <2>9 DEF Typed
<1>11. CASE LeaveChannel
  <2>1. /\ UNCHANGED clientVars /\ UNCHANGED <<loopVars, histVars>> /\ UNCHANGED roomVars /\ UNCHANGED <<srv, down>>
        /\ SendPacket("leave", roomName)
    BY <1>11 DEF LeaveChannel
  <2>2. ciphers' \in Keys
    BY <1>7, <2>1 DEF clientVars
  <2>3. up' \in [Sockets -> Seq(Message)]
    BY <1>5, <1>7, <2>1, <2>2, SendTypes
  <2>4. NetTypes'
    BY <1>5, <2>1, <2>3 DEF NetTypes
  <2> QED BY <1>2, <1>3, <1>4, <2>1, <2>4 DEF Typed
<1>12. ASSUME NEW s \in Sockets, OnConnect(s) PROVE Typed'
  <2>1. /\ connected' = TRUE
        /\ UNCHANGED <<sock, opened, state, encrypted, ciphers, clientID, channel, received>>
        /\ UNCHANGED <<loopVars, histVars>> /\ UNCHANGED roomVars /\ down' = down
        /\ SendPacket("statusRequest", "")
        /\ srv' = [srv EXCEPT ![s] = Blank("status")]
    BY <1>12 DEF OnConnect
  <2>2. connected' \in BOOLEAN
    BY <2>1
  <2>3. ClientTypes'
    BY <1>1, <2>1, <2>2, Zenon DEF ClientTypes
  <2>4. up' \in [Sockets -> Seq(Message)]
    BY <1>5, <1>7, <2>1, SendTypes
  <2>5. srv' \in [Sockets -> Server]
    BY <1>5, <1>6, <2>1
  <2>6. NetTypes'
    BY <1>5, <2>1, <2>4, <2>5 DEF NetTypes
  <2> QED BY <1>2, <1>4, <2>1, <2>3, <2>6 DEF Typed
<1>13. ASSUME NEW s \in Sockets, OnClose(s) PROVE Typed'
  <2>1. /\ connected' = FALSE
        /\ UNCHANGED <<sock, opened, state, encrypted, ciphers, clientID, channel, received>>
        /\ UNCHANGED <<loopVars, histVars>> /\ UNCHANGED roomVars /\ UNCHANGED <<down, up>>
        /\ srv' = [srv EXCEPT ![s] = Blank("gone")]
    BY <1>13 DEF OnClose
  <2>2. connected' \in BOOLEAN
    BY <2>1
  <2>3. ClientTypes'
    BY <1>1, <2>1, <2>2, Zenon DEF ClientTypes
  <2>5. srv' \in [Sockets -> Server]
    BY <1>5, <1>6, <2>1
  <2>6. NetTypes'
    BY <1>5, <2>1, <2>5 DEF NetTypes
  <2> QED BY <1>2, <1>4, <2>1, <2>3, <2>6 DEF Typed
<1>14. ASSUME NEW s \in Sockets, OnNetworkError(s) PROVE Typed'
  <2>1. /\ UNCHANGED clientVars /\ UNCHANGED <<loopVars, histVars>> /\ UNCHANGED roomVars /\ up' = up
        /\ srv' = [srv EXCEPT ![s] = Blank("gone")]
        /\ down' = [down EXCEPT ![s] = <<>>]
    BY <1>14 DEF OnNetworkError
  <2>2. srv' \in [Sockets -> Server]
    BY <1>5, <1>6, <2>1
  <2>3. down' \in [Sockets -> Seq(Fragment)]
    BY <1>5, <2>1, EmptySeq
  <2>4. NetTypes'
    BY <1>5, <2>1, <2>2, <2>3 DEF NetTypes
  <2> QED BY <1>2, <1>3, <1>4, <2>1, <2>4 DEF Typed
<1>15. ASSUME NEW id \in Own \cup Members, PeerCallback(id) PROVE Typed'
  <2>1. /\ UNCHANGED clientVars /\ UNCHANGED <<loopVars, histVars>> /\ UNCHANGED <<srv, down, up>>
        /\ UNCHANGED <<peers, stream, dlgs, roomName>> /\ posted' = Append(posted, id)
    BY <1>15 DEF PeerCallback
  <2>2. posted' \in Seq(Own \cup Members)
    BY <1>7, <2>1, AppendProperties
  <2>3. RoomTypes'
    BY <1>1, <2>1, <2>2, Zenon DEF RoomTypes
  <2>4. NetTypes'
    BY <1>1, <2>1 DEF NetTypes
  <2> QED BY <1>3, <1>4, <2>1, <2>3, <2>4 DEF Typed
<1>16. CASE UIThreadCallback
  <2>1. /\ UNCHANGED clientVars /\ UNCHANGED <<loopVars, histVars>> /\ UNCHANGED <<srv, down>>
        /\ UNCHANGED <<peers, stream, dlgs, roomName>> /\ posted # <<>> /\ posted' = Tail(posted)
        /\ SendPacket("message", channel) \/ up' = up
    BY <1>16 DEF UIThreadCallback
  <2>2. posted' \in Seq(Own \cup Members)
    BY <1>7, <2>1, TailFacts
  <2>3. RoomTypes'
    BY <1>1, <2>1, <2>2, Zenon DEF RoomTypes
  <2>4. ciphers' \in Keys
    BY <1>7, <2>1 DEF clientVars
  <2>5. up' \in [Sockets -> Seq(Message)]
    BY <1>5, <1>7, <2>1, <2>4, SendTypes
  <2>6. NetTypes'
    BY <1>5, <2>1, <2>5 DEF NetTypes
  <2> QED BY <1>3, <1>4, <2>1, <2>3, <2>6 DEF Typed
<1>17. CASE OnFinalMessage
  <2>1. SignOut /\ ui' = "over" /\ rest' = rest /\ UNCHANGED roomVars /\ UNCHANGED histVars
    BY <1>17 DEF OnFinalMessage
  <2>2. LoopTypes'
    BY <1>1, <2>1 DEF LoopTypes, histVars
  <2> QED BY <1>2, <2>1, <2>2, SignOutTypes DEF Typed
<1> QED BY <1>9, <1>10, <1>11, <1>12, <1>13, <1>14, <1>15, <1>16, <1>17 DEF WindowMessage

\* Every step keeps the types.
LEMMA TypedNext ==
  ASSUME Typed, [Next]_vars
  PROVE  Typed'
<1>1. ASSUME UNCHANGED vars PROVE Typed'
  BY <1>1, ZenonT(60) DEF Typed, ClientTypes, RoomTypes, NetTypes, LoopTypes, vars, clientVars, roomVars,
              loopVars, histVars
<1>2. CASE ReceiveStep
  BY <1>2, ReadTypes, DispatchTypes DEF ReceiveStep
<1>3. CASE WindowMessage
  BY <1>3, ReadTypes, WindowTypes
<1>4. CASE \E s \in Sockets : ServerStep(s)
  BY <1>4, ServerTypes
<1> QED BY <1>1, <1>2, <1>3, <1>4 DEF Next, Terminated

-----------------------------------------------------------------------------
(***************************************************************************)
(* What a handler does to the connection and to the room.                  *)
(***************************************************************************)
\* The answers: the state and the packet, the state after it and the answer.
Replies == {<<1, "status", 2, "loginStart">>, <<2, "keyRequest", 2, "keyResponse">>,
            <<2, "allow", 2, "loginInfo">>, <<2, "publisher", 2, "loginInfo">>,
            <<2, "offline", 2, "loginInfo">>, <<2, "success", 3, "join">>,
            <<3, "keepAlive", 3, "keepAlive">>, <<3, "status", 3, "keepAlive">>,
            <<3, "disconnect", 3, "keepAlive">>}

\* The handler ends the session.
Ends(p) == /\ SignOut
           /\ \/ p.kind \in {"disconnect", "status", "keepAlive"} /\ state = 2
              \/ p.kind = "error" /\ state = 3
              \/ p.kind = "left" /\ p.arg # "" /\ state = 3

\* It keeps the connection, without an answer or with one.
Keeps == Taken /\ UNCHANGED <<connected, sock, opened, srv, down>>
Quiet(p) == /\ Keeps
            /\ UNCHANGED <<up, state, encrypted>>
            /\ \/ ciphers' = ciphers
               \/ state = 2 /\ p.kind = "keyRequest" /\ ciphers' = NewKey
Answers(p, m, room) ==
  /\ Keeps
  /\ SendPacket(m, room)
  /\ <<state, p.kind, state', m>> \in Replies
  /\ m = "keyResponse" => ciphers' = NewKey /\ encrypted' = TRUE
  /\ m # "keyResponse" => UNCHANGED <<ciphers, encrypted>>
  /\ m = "join" => room = channel

\* That is all.
LEMMA Handled ==
  ASSUME NEW p \in Packet, HandlePacket(p), state \in 1 .. 3
  PROVE  Ends(p) \/ Quiet(p) \/ \E m, room : Answers(p, m, room)
<1>0. {"status", "disconnect", "keyRequest", "allow", "success", "keepAlive", "joined",
       "publisher", "offline", "left", "error"} \subseteq Kinds
  BY DEF Kinds
<1>1. CASE HandlePacketStatusRequest(p)
  <2>1. /\ Runs("status", p) /\ Taken
        /\ UNCHANGED <<connected, sock, opened, encrypted, ciphers, srv, down>>
    BY <1>1 DEF HandlePacketStatusRequest
  <2>2. CASE ~(p.arg \in 1 .. 3)
    BY <1>1, <2>1, <2>2 DEF HandlePacketStatusRequest, Quiet, Keeps
  <2>3. CASE p.arg \in 1 .. 3
    <3>1. state' = p.arg /\ SendPacket("loginStart", "")
      BY <1>1, <2>3 DEF HandlePacketStatusRequest
    <3>2. state = 1 /\ p.kind = "status"
      BY <1>0, <2>1, RunsFacts
    <3>3. p.arg # 3 /\ p.arg # 1
      <4>1. p.arg \in NextStates
        BY <3>2, PacketFacts
      <4>2. 1 \notin NextStates /\ 3 \notin NextStates
        BY Constants
      <4> QED BY <4>1, <4>2, Zenon
    <3>4. state' = 2
      <4>1. \A x \in 1 .. 3 : x # 3 /\ x # 1 => x = 2
        OBVIOUS
      <4>2. p.arg = 2
        BY <2>3, <3>3, <4>1, Zenon
      <4> QED BY <3>1, <4>2
    <3>5. <<state, p.kind, state', "loginStart">> \in Replies
      BY <3>2, <3>4 DEF Replies
    <3>6. Answers(p, "loginStart", "")
      BY <2>1, <3>1, <3>5 DEF Answers, Keeps
    <3> QED BY <3>6
  <2> QED BY <2>2, <2>3
<1>2. CASE HandlePacketErrorCode(p)
  <2>1. \/ state = 2 /\ p.kind \in {"disconnect", "status", "keepAlive"}
        \/ state = 3 /\ p.kind = "error"
    BY <1>0, <1>2, RunsFacts DEF HandlePacketErrorCode
  <2> QED BY <1>2, <2>1 DEF HandlePacketErrorCode, Ends
<1>3. CASE KeyRequestDropped(p) \/ NotUnderstood(p)
  BY <1>3 DEF KeyRequestDropped, NotUnderstood, Quiet, Keeps
<1>4. CASE KeyRequestHalfDone(p)
  <2>1. state = 2 /\ p.kind = "keyRequest"
    BY <1>0, <1>4, RunsFacts DEF KeyRequestHalfDone
  <2> QED BY <1>4, <2>1 DEF KeyRequestHalfDone, Quiet, Keeps
<1>5. CASE SendEncryptionKeyResponse(p)
  <2>1. state = 2 /\ p.kind = "keyRequest"
    BY <1>0, <1>5, RunsFacts DEF SendEncryptionKeyResponse
  <2>2. <<state, p.kind, state', "keyResponse">> \in Replies
    BY <1>5, <2>1 DEF Replies, SendEncryptionKeyResponse
  <2>3. Answers(p, "keyResponse", "")
    BY <1>5, <2>2 DEF SendEncryptionKeyResponse, Answers, Keeps
  <2> QED BY <2>3
<1>6. CASE HandlePacketLoginAllow(p)
  <2>1. state = 2 /\ p.kind \in {"allow", "publisher", "offline"}
    BY <1>0, <1>6, RunsFacts DEF HandlePacketLoginAllow
  <2>2. <<state, p.kind, state', "loginInfo">> \in Replies
    BY <1>6, <2>1 DEF Replies, HandlePacketLoginAllow
  <2>3. Answers(p, "loginInfo", "")
    BY <1>6, <2>2 DEF HandlePacketLoginAllow, Answers, Keeps
  <2> QED BY <2>3
<1>7. CASE HandlePacketLoginSuccess(p)
  <2>1. state = 2 /\ p.kind = "success"
    BY <1>0, <1>7, RunsFacts DEF HandlePacketLoginSuccess
  <2>2. <<state, p.kind, state', "join">> \in Replies
    BY <1>7, <2>1 DEF Replies, HandlePacketLoginSuccess
  <2>3. Answers(p, "join", channel)
    BY <1>7, <2>2 DEF HandlePacketLoginSuccess, Answers, Keeps
  <2> QED BY <2>3
<1>8. CASE HandlePacketKeepAlive(p)
  <2>1. state = 3 /\ p.kind \in {"disconnect", "status", "keepAlive"}
    BY <1>0, <1>8, RunsFacts DEF HandlePacketKeepAlive
  <2>2. <<state, p.kind, state', "keepAlive">> \in Replies
    BY <1>8, <2>1 DEF Replies, HandlePacketKeepAlive
  <2>3. Answers(p, "keepAlive", "")
    BY <1>8, <2>2 DEF HandlePacketKeepAlive, Answers, Keeps
  <2> QED BY <2>3
<1>9. CASE HandlePacketRoomJoin(p) \/ PublisherMessage(p) \/ OfflineMessage(p)
  BY <1>9 DEF HandlePacketRoomJoin, PublisherMessage, OfflineMessage, Quiet, Keeps
<1>10. CASE HandlePacketRoomLeft(p)
  <2>1. state = 3 /\ p.kind = "left"
    BY <1>0, <1>10, RunsFacts DEF HandlePacketRoomLeft
  <2> QED BY <1>10, <2>1 DEF HandlePacketRoomLeft, Quiet, Keeps, Ends
<1> QED BY <1>1, <1>2, <1>3, <1>4, <1>5, <1>6, <1>7, <1>8, <1>9, <1>10 DEF HandlePacket

\* What it does to the room.
Enters(p)   == /\ state = 3 /\ p.kind = "joined" /\ p.arg # ""
               /\ peers' = peers \cup {clientID} /\ stream' = TRUE /\ roomName' = p.arg
               /\ UNCHANGED <<dlgs, posted>>
Meets(p)    == /\ state = 3 /\ p.kind = "publisher" /\ p.arg.id # 0
               /\ peers' = peers \cup {p.arg.from} /\ dlgs' = dlgs \cup {p.arg.from}
               /\ posted' = Append(posted, p.arg.id) /\ UNCHANGED <<stream, roomName>>
Loses(p)    == /\ state = 3 /\ p.kind = "offline"
               /\ DeletePeerConnection(p.arg.id, dlgs \ {p.arg.from})
               /\ UNCHANGED <<roomName, posted>>
Clears      == /\ DeletePeerConnection(clientID, dlgs)
               /\ roomName' = "" /\ UNCHANGED posted
StaysAway(p) == /\ UNCHANGED roomVars
                /\ ~(state = 3 /\ p.kind = "joined" /\ p.arg # "")

\* Only the packet that ends the session clears it.
LEMMA RoomHandled ==
  ASSUME NEW p \in Packet, HandlePacket(p)
  PROVE  \/ Enters(p) \/ Meets(p) \/ Loses(p)
         \/ Clears /\ SignOut
         \/ StaysAway(p)
<1>0. {"status", "disconnect", "keyRequest", "allow", "success", "keepAlive", "joined",
       "publisher", "offline", "left", "error"} \subseteq Kinds
  BY DEF Kinds
<1> DEFINE NoRoom == ~(state = 3 /\ p.kind = "joined" /\ p.arg # "")
<1>1. CASE HandlePacketRoomJoin(p)
  <2>1. state = 3 /\ p.kind = "joined"
    BY <1>0, <1>1, RunsFacts DEF HandlePacketRoomJoin
  <2> QED BY <1>1, <2>1 DEF HandlePacketRoomJoin, Enters, StaysAway
<1>2. CASE PublisherMessage(p)
  <2>1. state = 3 /\ p.kind = "publisher"
    BY <1>0, <1>2, RunsFacts DEF PublisherMessage
  <2> QED BY <1>2, <2>1 DEF PublisherMessage, Meets, StaysAway, roomVars
<1>3. CASE OfflineMessage(p)
  <2>1. state = 3 /\ p.kind = "offline"
    BY <1>0, <1>3, RunsFacts DEF OfflineMessage
  <2> QED BY <1>3, <2>1 DEF OfflineMessage, Loses
<1>4. CASE HandlePacketRoomLeft(p)
  <2>1. NoRoom
    BY <1>0, <1>4, RunsFacts DEF HandlePacketRoomLeft
  <2> QED BY <1>4, <2>1 DEF HandlePacketRoomLeft, Clears, StaysAway
<1>5. CASE HandlePacketStatusRequest(p)
  <2>1. NoRoom
    BY <1>0, <1>5, RunsFacts DEF HandlePacketStatusRequest
  <2> QED BY <1>5, <2>1 DEF HandlePacketStatusRequest, StaysAway
<1>6. CASE HandlePacketErrorCode(p)
  <2>1. NoRoom
    BY <1>0, <1>6, RunsFacts DEF HandlePacketErrorCode
  <2> QED BY <1>6, <2>1 DEF HandlePacketErrorCode, StaysAway
<1>7. CASE KeyRequestDropped(p) \/ KeyRequestHalfDone(p) \/ SendEncryptionKeyResponse(p)
  <2>1. Runs("keyRequest", p) /\ UNCHANGED roomVars
    BY <1>7 DEF KeyRequestDropped, KeyRequestHalfDone, SendEncryptionKeyResponse
  <2>2. NoRoom
    BY <1>0, <2>1, RunsFacts
  <2> QED BY <2>1, <2>2 DEF StaysAway
<1>8. CASE HandlePacketLoginAllow(p) \/ HandlePacketLoginSuccess(p) \/ HandlePacketKeepAlive(p)
  <2>1. (Runs("allow", p) \/ Runs("success", p) \/ Runs("keepAlive", p)) /\ UNCHANGED roomVars
    BY <1>8 DEF HandlePacketLoginAllow, HandlePacketLoginSuccess, HandlePacketKeepAlive
  <2>2. NoRoom
    BY <1>0, <2>1, RunsFacts
  <2> QED BY <2>1, <2>2 DEF StaysAway
<1>9. CASE NotUnderstood(p)
  <2>1. (~Known(p) \/ Misread(p)) /\ UNCHANGED roomVars
    BY <1>9 DEF NotUnderstood
  <2>2. state = 3 /\ p.kind = "joined" => <<state, Type(p.kind), "joined">> \in Handlers
    BY DEF Type, Handlers
  <2>3. state = 3 /\ p.kind = "joined" => Known(p) /\ Runs("joined", p)
    BY <2>2 DEF Known, Runs
  <2>5. p.kind = "joined" => p.kind # "keepAlive"
    OBVIOUS
  <2>4. NoRoom
    BY <1>0, <2>1, <2>3, <2>5 DEF Misread
  <2> QED BY <2>1, <2>4 DEF StaysAway
<1> QED BY <1>1, <1>2, <1>3, <1>4, <1>5, <1>6, <1>7, <1>8, <1>9 DEF HandlePacket

-----------------------------------------------------------------------------
(***************************************************************************)
(* The room, in any mixture of connections.                                *)
(***************************************************************************)
\* Only the handlers touch the peer connections and the dialogs.
LEMMA RoomOnlyHandled ==
  ASSUME [Next]_vars, ~DispatchPacket
  PROVE  UNCHANGED <<peers, stream, dlgs, roomName>>
<1>1. CASE UNCHANGED vars \/ Terminated
  BY <1>1 DEF Terminated, vars, roomVars
<1>2. CASE ReceiveStep
  BY <1>2 DEF ReceiveStep, DecryptBlock, DispatchEnds, DispatchTorn, roomVars
<1>3. CASE WindowMessage
  BY <1>3 DEF WindowMessage, JoinChannelConnected, JoinChannel, LeaveChannel, OnConnect, OnClose,
              OnNetworkError, OnRead, PeerCallback, UIThreadCallback, OnFinalMessage, roomVars
<1>4. CASE \E s \in Sockets : ServerStep(s)
  BY <1>4, ZenonT(60) DEF ServerStep, ServerStatus, ServerLogin, ServerKey, ServerInfo, ServerJoin, ServerLeave,
              ServerIgnores, ServerConfused, ServerTalks, ServerCloses, ServerTakes, roomVars
<1> QED BY <1>1, <1>2, <1>3, <1>4 DEF Next

\* The own peer connection goes with the stream, and with nothing less.
LEMMA RoomNext ==
  ASSUME Typed, OwnHasStream, [Next]_vars
  PROVE  OwnHasStream'
<1>1. CASE UNCHANGED <<peers, stream, dlgs, roomName>>
  BY <1>1 DEF OwnHasStream
<1>2. CASE DispatchPacket
  <2> DEFINE p == received[1].pkt
  <2>1. p \in Packet
    BY <1>2, InHand DEF DispatchPacket
  <2>2. Enters(p) \/ Meets(p) \/ Loses(p) \/ Clears \/ UNCHANGED roomVars
    <3>1. HandlePacket(p)
      BY <1>2 DEF DispatchPacket
    <3> HIDE DEF p
    <3> QED BY <2>1, <3>1, RoomHandled DEF StaysAway
  <2> HIDE DEF p
  <2>3. CASE Enters(p) \/ UNCHANGED roomVars
    BY <1>1, <2>3 DEF Enters, OwnHasStream, roomVars
  <2>4. CASE Meets(p)
    <3>1. p.arg.from \notin Own
      BY <2>1, <2>4, PacketFacts, Constants DEF Meets
    <3> QED BY <2>4, <3>1 DEF Meets, OwnHasStream
  <2>5. CASE Loses(p) \/ Clears
    BY <2>5 DEF Loses, Clears, DeletePeerConnection, OwnHasStream
  <2> QED BY <2>2, <2>3, <2>4, <2>5
<1> QED BY <1>1, <1>2, RoomOnlyHandled

-----------------------------------------------------------------------------
(***************************************************************************)
(* Sockets that are not open, in any mixture of connections.               *)
(***************************************************************************)
\* Sockets are numbers.
LEMMA Numbers ==
  ASSUME Typed
  PROVE  /\ sock \in 0 .. MaxSockets /\ opened \in 0 .. MaxSockets /\ ciphers \in Keys
         /\ sock \in Nat /\ opened \in Nat /\ ciphers \in Nat /\ state \in 1 .. 3
         /\ sock # 0 => sock \in Sockets
<1>1. /\ sock \in 0 .. MaxSockets /\ opened \in 0 .. MaxSockets /\ ciphers \in Keys
      /\ state \in 1 .. 3
  BY Zenon DEF Typed, ClientTypes
<1>2. MaxSockets \in Nat /\ Sockets = 1 .. MaxSockets
  BY Sizes
<1> QED BY <1>1, <1>2 DEF Keys

\* What a server that does not answer does to its streams.
LEMMA ListensFacts ==
  ASSUME Typed, NEW s \in Sockets, Listens(s)
  PROVE  /\ down' = down
         /\ \A t \in Sockets \ {s} : srv'[t] = srv[t] /\ up'[t] = up[t]
         /\ \/ /\ up[s] # <<>> /\ up'[s] = Tail(up[s]) /\ srv'[s] = srv[s]
               /\ srv[s].stage \in {"joined", "over", "confused"}
            \/ /\ up[s] # <<>> /\ up'[s] = Tail(up[s]) /\ srv'[s].stage = "confused"
               /\ srv[s].stage \in {"status", "login", "key", "info", "ready", "joined"}
               /\ \/ ~Readable(s, Head(up[s]))
                  \/ Head(up[s]).kind \notin Expected(srv[s].stage)
            \/ /\ up'[s] = <<>> /\ srv'[s] = Blank("closed") /\ Live(srv[s].stage)
<1>1. up \in [Sockets -> Seq(Message)] /\ srv \in [Sockets -> Server] /\ srv[s] \in Server
  BY DEF Typed, NetTypes
<1>2. down' = down
  BY DEF Listens
<1>3. \A t \in Sockets \ {s} : up'[t] = up[t]
  BY <1>1 DEF Listens
<1>4. \A t \in Sockets \ {s} : srv'[t] = srv[t]
  BY <1>1 DEF Listens
<1>5. \A f : f = [up EXCEPT ![s] = Tail(@)] => f[s] = Tail(up[s])
  BY <1>1
<1>6. \A f : f = [up EXCEPT ![s] = <<>>] => f[s] = <<>>
  BY <1>1
<1>7. \A f : f = [srv EXCEPT ![s] = Blank("closed")] => f[s] = Blank("closed")
  BY <1>1
<1>8. \A f : f = [srv EXCEPT ![s].stage = "confused"] => f[s].stage = "confused"
  BY <1>1 DEF Server
<1> QED BY <1>2, <1>3, <1>4, <1>5, <1>6, <1>7, <1>8, Zenon DEF Listens

\* Sending leaves them alone.
LEMMA SilentSends ==
  ASSUME Typed, Silent, NEW m, NEW room, SendPacket(m, room), UNCHANGED <<sock, opened, srv, down>>
  PROVE  Silent'
<1>1. up \in [Sockets -> Seq(Message)]
  BY DEF Typed, NetTypes
<1>2. ASSUME NEW s \in Sockets PROVE SilentAt(s)'
  <2>1. ~Live(srv'[s].stage) => up'[s] = up[s]
    BY <1>1, Sends
  <2> QED BY <2>1 DEF Silent, SilentAt
<1> QED BY <1>2 DEF Silent

\* And signing out.
LEMMA SilentSignsOut ==
  ASSUME Typed, Silent, SignOut
  PROVE  Silent'
<1>1. ASSUME NEW s \in Sockets PROVE SilentAt(s)'
  <2>1. CASE s = sock
    <3>1. srv'[s] = Blank("gone") /\ up'[s] = <<>> /\ down'[s] = <<>> /\ opened' = opened
      BY <2>1 DEF SignOut
    <3>2. ~(s > opened)
      <4>1. sock \in Nat /\ opened \in Nat
        BY Numbers
      <4> QED BY <2>1, <4>1 DEF Silent
    <3>3. srv'[s].stage = "gone"
      <4>1. Blank("gone").stage = "gone"
        BY DEF Blank
      <4> QED BY <3>1, <4>1, Zenon
    <3>4. Len(down'[s]) = 0
      BY <3>1
    <3> QED BY <3>1, <3>2, <3>3, <3>4 DEF SilentAt
  <2>2. CASE s # sock
    BY <2>2 DEF SignOut, Silent, SilentAt
  <2> QED BY <2>1, <2>2
<1>2. sock' <= opened'
  <2>1. opened \in Nat
    BY Numbers
  <2>2. sock' = 0 /\ opened' = opened
    BY DEF SignOut
  <2> QED BY <2>1, <2>2
<1> QED BY <1>1, <1>2 DEF Silent

\* A server that is not open takes nothing and sends nothing.
LEMMA SilentServer ==
  ASSUME Typed, Silent, NEW s \in Sockets, ServerStep(s)
  PROVE  Silent'
<1>1. UNCHANGED <<sock, opened>>
  BY ServerSays DEF clientVars
<1>2. /\ down \in [Sockets -> Seq(Fragment)]
      /\ up \in [Sockets -> Seq(Message)]
      /\ srv \in [Sockets -> Server]
      /\ SilentAt(s) /\ sock <= opened
  BY DEF Typed, NetTypes, Silent
<1>3. ASSUME NEW t \in Sockets \ {s} PROVE SilentAt(t)'
  <2>1. SilentAt(t)
    BY DEF Silent
  <2>2. srv'[t] = srv[t] /\ up'[t] = up[t] /\ down'[t] = down[t]
    <3>1. CASE Listens(s)
      BY <3>1, ListensFacts
    <3>2. ASSUME NEW m, NEW r, NEW k, NEW a, Talks(s, m, r, k, a)
          PROVE  srv'[t] = srv[t] /\ up'[t] = up[t] /\ down'[t] = down[t]
      BY <1>2, <3>2 DEF Talks, ServerSends
    <3> QED BY <3>1, <3>2, ServerSays
  <2> QED BY <1>1, <2>1, <2>2 DEF SilentAt
<1>4. SilentAt(s)'
  <2>1. CASE Listens(s)
    <3>1. srv[s].stage # "none" /\ srv[s].stage # "connecting" /\ srv[s].stage # "gone"
      BY <2>1, ListensFacts DEF Live
    <3>2. ~(s > opened)
      BY <1>2, <3>1 DEF SilentAt
    <3>3. down' = down
      BY <2>1, ListensFacts
    <3>4. ~Live(srv'[s].stage) => up'[s] = <<>>
      BY <2>1, ListensFacts DEF Live
    <3>5. srv'[s].stage \notin {"none", "connecting", "gone"}
      <4>1. Blank("closed").stage = "closed"
        BY DEF Blank
      <4> QED BY <2>1, <3>1, <4>1, ListensFacts
    <3> QED BY <1>1, <1>2, <3>2, <3>3, <3>4, <3>5 DEF SilentAt
  <2>2. ASSUME NEW m, NEW r, NEW k, NEW a, Talks(s, m, r, k, a)
        PROVE  SilentAt(s)'
    <3>1. Told(s, r, k, a)
      BY <2>2, TalksFacts
    <3>2. srv[s].stage # "none" /\ Live(r.stage)
      BY <2>2 DEF Talks, Script, Live
    <3>3. ~(s > opened)
      BY <1>2, <3>2 DEF SilentAt
    <3>4. /\ srv'[s].stage = r.stage
          /\ Len(down'[s]) = Len(down[s]) + 2
          /\ \A i \in 1 .. Len(down[s]) : down'[s][i] = down[s][i]
          /\ down'[s][Len(down[s]) + 1] = PieceOf(s, r, k, a, 1)
          /\ down'[s][Len(down[s]) + 2] = PieceOf(s, r, k, a, 2)
      BY <3>1 DEF Told
    <3>5. PieceOf(s, r, k, a, 1).from = s /\ PieceOf(s, r, k, a, 2).from = s
      BY DEF PieceOf
    <3>6. Len(down[s]) \in Nat
      BY <1>2, LenProperties
    <3>7. \A i \in 1 .. Len(down'[s]) : down'[s][i].from = s
      <4> TAKE i \in 1 .. Len(down'[s])
      <4>1. i \in 1 .. Len(down[s]) \/ i = Len(down[s]) + 1 \/ i = Len(down[s]) + 2
        BY <3>4, <3>6
      <4> QED BY <1>2, <3>4, <3>5, <4>1 DEF SilentAt
    <3> QED BY <1>1, <3>2, <3>3, <3>4, <3>7 DEF SilentAt, Live
  <2> QED BY <2>1, <2>2, ServerSays
<1> QED BY <1>1, <1>2, <1>3, <1>4 DEF Silent

\* So does everything else.
LEMMA SilentNext ==
  ASSUME Typed, Silent, [Next]_vars
  PROVE  Silent'
<1>1. CASE UNCHANGED <<sock, opened, srv, down, up>>
  BY <1>1 DEF Silent, SilentAt
<1>2. CASE DispatchPacket
  <2> DEFINE p == received[1].pkt
  <2>1. p \in Packet /\ state \in 1 .. 3
    BY <1>2, InHand DEF DispatchPacket, Typed, ClientTypes
  <2>2. Ends(p) \/ Quiet(p) \/ \E m, room : Answers(p, m, room)
    <3>1. HandlePacket(p)
      BY <1>2 DEF DispatchPacket
    <3> HIDE DEF p
    <3> QED BY <2>1, <3>1, Handled
  <2> QED BY <1>1, <2>2, SilentSends, SilentSignsOut DEF Ends, Quiet, Answers, Keeps
<1>3. CASE DecryptBlock \/ DispatchEnds \/ \E k \in 1 .. Capacity, known \in BOOLEAN : DispatchTorn(k, known)
  BY <1>1, <1>3 DEF DecryptBlock, DispatchEnds, DispatchTorn, clientVars
<1>4. ASSUME NEW room \in Rooms, JoinChannelConnected(room) PROVE Silent'
  BY <1>1, <1>4 DEF JoinChannelConnected
<1>5. ASSUME NEW room \in Rooms, NEW resolved \in BOOLEAN, JoinChannel(room, resolved) PROVE Silent'
  <2>1. /\ opened < MaxSockets /\ opened' = opened + 1 /\ sock' = opened + 1 /\ UNCHANGED <<down, up>>
        /\ srv' = srv \/ srv' = [srv EXCEPT ![opened + 1] = Blank("connecting")]
    BY <1>5 DEF JoinChannel
  <2>2. opened \in Nat /\ MaxSockets \in Nat /\ Sockets = 1 .. MaxSockets
    BY Sizes, Numbers
  <2>3. opened + 1 \in Sockets /\ opened + 1 > opened
    BY <2>1, <2>2
  <2>4. srv[opened + 1].stage = "none" /\ up[opened + 1] = <<>> /\ down[opened + 1] = <<>>
    BY <2>3 DEF Silent, SilentAt, Live
  <2>5. srv \in [Sockets -> Server]
    BY DEF Typed, NetTypes
  <2>6. ASSUME NEW s \in Sockets PROVE SilentAt(s)'
    <3>1. CASE s = opened + 1
      <4>1. ~(s > opened')
        BY <2>1, <2>2, <3>1
      <4>2. up'[s] = <<>> /\ down'[s] = <<>> /\ Len(down'[s]) = 0
        BY <2>1, <2>4, <3>1
      <4> QED BY <4>1, <4>2 DEF SilentAt
    <3>2. CASE s # opened + 1
      <4>1. srv'[s] = srv[s] /\ up'[s] = up[s] /\ down'[s] = down[s]
        BY <2>1, <2>5, <3>2
      <4>2. s > opened' => s > opened
        BY <2>1, <2>2
      <4> QED BY <4>1, <4>2 DEF SilentAt, Silent
    <3> QED BY <3>1, <3>2
  <2>7. sock' <= opened'
    BY <2>1, <2>2
  <2> QED BY <2>6, <2>7 DEF Silent
<1>6. CASE LeaveChannel
  BY <1>6, SilentSends DEF LeaveChannel, clientVars
<1>7. ASSUME NEW s \in Sockets, OnConnect(s) PROVE Silent'
  <2>1. /\ srv[s].stage = "connecting" /\ srv' = [srv EXCEPT ![s] = Blank("status")]
        /\ UNCHANGED <<sock, opened, down>> /\ SendPacket("statusRequest", "")
    BY <1>7 DEF OnConnect
  <2>2. up \in [Sockets -> Seq(Message)] /\ srv \in [Sockets -> Server]
    BY DEF Typed, NetTypes
  <2>3. ASSUME NEW t \in Sockets PROVE SilentAt(t)'
    <3>1. ~Live(srv'[t].stage) => up'[t] = up[t]
      BY <2>1, <2>2, Sends
    <3>2. CASE t = s
      <4>1. srv'[s].stage = "status"
        BY <2>1, <2>2 DEF Blank
      <4> QED BY <2>1, <3>1, <3>2, <4>1 DEF Silent, SilentAt, Live
    <3>3. CASE t # s
      <4>1. srv'[t] = srv[t]
        BY <2>1, <2>2, <3>3
      <4> QED BY <2>1, <3>1, <4>1 DEF Silent, SilentAt, Live
    <3> QED BY <3>2, <3>3
  <2> QED BY <2>1, <2>3 DEF Silent
<1>8. ASSUME NEW s \in Sockets, OnClose(s) \/ OnNetworkError(s) PROVE Silent'
  <2>1. /\ srv[s].stage \in {"connecting", "closed"} /\ srv' = [srv EXCEPT ![s] = Blank("gone")]
        /\ UNCHANGED <<sock, opened, up>>
    BY <1>8 DEF OnClose, OnNetworkError, clientVars
  <2>2. srv \in [Sockets -> Server] /\ down \in [Sockets -> Seq(Fragment)]
    BY DEF Typed, NetTypes
  <2>3. down'[s] = <<>> /\ \A t \in Sockets \ {s} : down'[t] = down[t]
    <3>1. SilentAt(s)
      BY DEF Silent
    <3> QED BY <1>8, <2>1, <2>2, <3>1 DEF OnClose, OnNetworkError, SilentAt
  <2>4. ASSUME NEW t \in Sockets PROVE SilentAt(t)'
    <3>1. CASE t = s
      <4>1. ~(s > opened) /\ up[s] = <<>>
        BY <2>1 DEF Silent, SilentAt, Live
      <4>2. Len(down'[s]) = 0
        BY <2>3
      <4> QED BY <2>1, <2>3, <3>1, <4>1, <4>2 DEF SilentAt
    <3>2. CASE t # s
      <4>1. srv'[t] = srv[t]
        BY <2>1, <2>2, <3>2
      <4> QED BY <2>1, <2>3, <3>2, <4>1 DEF Silent, SilentAt
    <3> QED BY <3>1, <3>2
  <2> QED BY <2>1, <2>4 DEF Silent
<1>9. ASSUME NEW s \in Sockets, NEW k \in 1 .. Len(down[s]), OnRead(s, k) PROVE Silent'
  <2>1. UNCHANGED <<sock, opened, srv, up>> /\ down' = [down EXCEPT ![s] = SubSeq(down[s], k + 1, Len(down[s]))]
    BY <1>9 DEF OnRead
  <2>2. down \in [Sockets -> Seq(Fragment)]
    BY DEF Typed, NetTypes
  <2>3. down[s] \in Seq(Fragment) /\ Len(down[s]) \in Nat /\ k \in 0 .. Len(down[s])
    BY <2>2, LenProperties
  <2>4. down'[s] = SubSeq(down[s], k + 1, Len(down[s])) /\ \A t \in Sockets \ {s} : down'[t] = down[t]
    BY <2>1, <2>2
  <2>5. /\ Len(down'[s]) = Len(down[s]) - k
        /\ \A i \in 1 .. Len(down[s]) - k : down'[s][i] = down[s][i + k]
    BY <2>3, <2>4, Rest
  <2>6. ASSUME NEW t \in Sockets PROVE SilentAt(t)'
    <3>1. SilentAt(t)
      BY DEF Silent
    <3>2. CASE t = s
      <4>1. \A i \in 1 .. Len(down'[s]) : i + k \in 1 .. Len(down[s]) /\ down'[s][i] = down[s][i + k]
        BY <2>3, <2>5
      <4>2. \A i \in 1 .. Len(down'[s]) : down'[s][i].from = s
        BY <3>1, <3>2, <4>1 DEF SilentAt
      <4>3. Len(down[s]) # 0
        BY <2>3
      <4>4. down[s] # <<>>
        BY <4>3
      <4> QED BY <2>1, <3>1, <3>2, <4>2, <4>4 DEF SilentAt
    <3>3. CASE t # s
      BY <2>1, <2>4, <3>1, <3>3 DEF SilentAt
    <3> QED BY <3>2, <3>3
  <2> QED BY <2>1, <2>6 DEF Silent
<1>10. ASSUME NEW id \in Own \cup Members, PeerCallback(id) PROVE Silent'
  BY <1>1, <1>10 DEF PeerCallback, clientVars
<1>11. CASE UIThreadCallback
  <2>1. UNCHANGED <<sock, opened, srv, down>> /\ (SendPacket("message", channel) \/ up' = up)
    BY <1>11 DEF UIThreadCallback, clientVars
  <2> QED BY <1>1, <2>1, SilentSends
<1>12. CASE OnFinalMessage
  BY <1>12, SilentSignsOut DEF OnFinalMessage
<1>13. CASE \E s \in Sockets : ServerStep(s)
  BY <1>13, SilentServer
<1>14. CASE UNCHANGED vars
  BY <1>1, <1>14 DEF vars, clientVars
<1> QED BY <1>2, <1>3, <1>4, <1>5, <1>6, <1>7, <1>8, <1>9, <1>10, <1>11, <1>12, <1>13, <1>14
        DEF Next, ReceiveStep, WindowMessage, Terminated

-----------------------------------------------------------------------------
(***************************************************************************)
(* The loops over what was received, in any mixture of connections.        *)
(***************************************************************************)
\* The pieces of a part of a sequence.
LEMMA PiecesRest ==
  ASSUME NEW S, NEW q \in Seq(S), NEW k \in 0 .. Len(q)
  PROVE  /\ Pieces(SubSeq(q, k + 1, Len(q))) \subseteq Pieces(q)
         /\ Pieces(SubSeq(q, 1, k)) \subseteq Pieces(q)
<1>1. Len(q) \in Nat
  BY LenProperties
<1>2. /\ Len(SubSeq(q, k + 1, Len(q))) = Len(q) - k
      /\ \A i \in 1 .. Len(q) - k : SubSeq(q, k + 1, Len(q))[i] = q[i + k]
      /\ Len(SubSeq(q, 1, k)) = k
      /\ \A i \in 1 .. k : SubSeq(q, 1, k)[i] = q[i]
  BY Rest
<1> DEFINE u == SubSeq(q, k + 1, Len(q))
           v == SubSeq(q, 1, k)
<1> HIDE DEF u, v
<1>3. \A i \in 1 .. Len(u) : i + k \in 1 .. Len(q) /\ u[i] = q[i + k]
  BY <1>1, <1>2 DEF u
<1>4. \A i \in 1 .. Len(v) : i \in 1 .. Len(q) /\ v[i] = q[i]
  BY <1>1, <1>2 DEF v
<1>5. Pieces(u) \subseteq Pieces(q)
  BY <1>3 DEF Pieces
<1>6. Pieces(v) \subseteq Pieces(q)
  BY <1>4 DEF Pieces
<1> QED BY <1>5, <1>6 DEF u, v

\* Of two sequences, one after the other.
LEMMA PiecesJoined ==
  ASSUME NEW S, NEW p \in Seq(S), NEW q \in Seq(S)
  PROVE  Pieces(p \o q) = Pieces(p) \cup Pieces(q)
<1>1. Len(p) \in Nat /\ Len(q) \in Nat
  BY LenProperties
<1> DEFINE u == p \o q
<1>2. Len(u) = Len(p) + Len(q)
      /\ \A i \in 1 .. Len(p) + Len(q) : u[i] = IF i <= Len(p) THEN p[i] ELSE q[i - Len(p)]
  BY ConcatProperties
<1> HIDE DEF u
<1>3. Pieces(u) \subseteq Pieces(p) \cup Pieces(q)
  <2>1. ASSUME NEW i \in 1 .. Len(u) PROVE u[i] \in Pieces(p) \cup Pieces(q)
    <3>1. CASE i <= Len(p)
      <4>1. i \in 1 .. Len(p) /\ u[i] = p[i]
        BY <1>1, <1>2, <3>1
      <4> QED BY <4>1 DEF Pieces
    <3>2. CASE ~(i <= Len(p))
      <4>1. i - Len(p) \in 1 .. Len(q) /\ u[i] = q[i - Len(p)]
        BY <1>1, <1>2, <3>2
      <4> QED BY <4>1 DEF Pieces
    <3> QED BY <3>1, <3>2
  <2> QED BY <2>1 DEF Pieces
<1>4. ASSUME NEW i \in 1 .. Len(p) PROVE p[i] \in Pieces(u)
  <2>1. i \in 1 .. Len(u) /\ u[i] = p[i]
    BY <1>1, <1>2
  <2> QED BY <2>1 DEF Pieces
<1>5. ASSUME NEW i \in 1 .. Len(q) PROVE q[i] \in Pieces(u)
  <2>1. i + Len(p) \in 1 .. Len(u) /\ u[i + Len(p)] = q[i]
    BY <1>1, <1>2
  <2> QED BY <2>1 DEF Pieces
<1>6. Pieces(p) \subseteq Pieces(u) /\ Pieces(q) \subseteq Pieces(u)
  BY <1>4, <1>5 DEF Pieces
<1> QED BY <1>3, <1>6 DEF u

\* Of what was decrypted.
LEMMA PiecesDecoded ==
  ASSUME NEW q \in Seq(Fragment), NEW key
  PROVE  Pieces(Decoded(q, key)) \subseteq Pieces(q) \cup {Garbage}
<1> DEFINE u == Decoded(q, key)
<1>1. Len(u) = Len(q) /\ \A i \in 1 .. Len(q) : u[i] = IF q[i].key = key THEN q[i] ELSE Garbage
  BY DecodedType
<1> HIDE DEF u
<1>2. \A i \in 1 .. Len(u) : u[i] \in Pieces(q) \cup {Garbage}
  BY <1>1 DEF Pieces
<1> QED BY <1>2 DEF Pieces, u

\* Of what is left.
LEMMA PiecesTail ==
  ASSUME NEW S, NEW q \in Seq(S), q # <<>>
  PROVE  Pieces(Tail(q)) \subseteq Pieces(q) /\ Head(q) \in Pieces(q)
<1>1. /\ Len(Tail(q)) = Len(q) - 1 /\ Len(q) \in Nat \ {0} /\ Head(q) = q[1]
      /\ \A i \in 1 .. Len(q) - 1 : Tail(q)[i] = q[i + 1]
  BY TailFacts
<1>2. \A i \in 1 .. Len(Tail(q)) : i + 1 \in 1 .. Len(q) /\ Tail(q)[i] = q[i + 1]
  BY <1>1
<1> DEFINE u == Tail(q)
<1>3. \A i \in 1 .. Len(u) : i + 1 \in 1 .. Len(q) /\ u[i] = q[i + 1]
  BY <1>2
<1>4. 1 \in 1 .. Len(q) /\ Head(q) = q[1]
  BY <1>1
<1> HIDE DEF u
<1>5. Pieces(u) \subseteq Pieces(q)
  BY <1>3 DEF Pieces
<1>6. Head(q) \in Pieces(q)
  BY <1>4 DEF Pieces
<1> QED BY <1>5, <1>6 DEF u

\* Of nothing.
LEMMA PiecesEmpty == Pieces(<<>>) = {}
  BY DEF Pieces

\* Of two.
LEMMA PiecesTwo ==
  ASSUME NEW x, NEW y
  PROVE  Pieces(<<x, y>>) = {x, y}
<1> DEFINE q == <<x, y>>
<1>1. Len(q) = 2 /\ q[1] = x /\ q[2] = y
  OBVIOUS
<1> HIDE DEF q
<1>2. 1 .. 2 = {1, 2}
  OBVIOUS
<1>3. Pieces(q) = {q[i] : i \in {1, 2}}
  BY <1>1, <1>2 DEF Pieces
<1> QED BY <1>1, <1>3 DEF q

\* Reading k pieces from socket s.
Reads(s, k) ==
  /\ UNCHANGED <<sock, opened, state, encrypted, ciphers, srv, up>>
  /\ down'[s] = SubSeq(down[s], k + 1, Len(down[s]))
  /\ \A t \in Sockets \ {s} : down'[t] = down[t]
  /\ Pieces(received') \subseteq Pieces(received) \cup Pieces(SubSeq(down[s], 1, k)) \cup {Garbage}
  /\ Pieces(rest') \subseteq Pieces(SubSeq(down[s], 1, k))
  /\ rest' # <<>> \/ ui' = "decrypt" => encrypted
  /\ ui' = "idle" => rest' = <<>>
  /\ ui' \in {"idle", "decrypt", "dispatch"} /\ ui = "idle"

\* That is what OnRead does.
LEMMA ReadFacts ==
  ASSUME Typed, NEW s \in Sockets, NEW k \in 1 .. Len(down[s]), OnRead(s, k)
  PROVE  Reads(s, k)
<1> DEFINE q == SubSeq(down[s], 1, k)
<1>1. down \in [Sockets -> Seq(Fragment)] /\ received \in Seq(Fragment)
  BY DEF Typed, NetTypes, ClientTypes
<1>2. down[s] \in Seq(Fragment) /\ Len(down[s]) \in Nat /\ k \in 0 .. Len(down[s])
  BY <1>1, LenProperties
<1>3. q \in Seq(Fragment) /\ Len(q) = k
  BY <1>2, Rest
<1>4. UNCHANGED <<sock, opened, state, encrypted, ciphers, srv, up>> /\ ui = "idle"
  BY DEF OnRead
<1>5. /\ down'[s] = SubSeq(down[s], k + 1, Len(down[s]))
      /\ \A t \in Sockets \ {s} : down'[t] = down[t]
  BY <1>1 DEF OnRead
<1>6. CASE encrypted
  <2>1. rest' = q /\ ui' = "decrypt" /\ received' = received
    BY <1>6 DEF OnRead
  <2> QED BY <1>4, <1>5, <1>6, <2>1, Zenon DEF Reads
<1>7. CASE ~encrypted
  <2>1. rest' = <<>> /\ AddReceivedData(Decoded(q, 0), <<>>)
    BY <1>7 DEF OnRead
  <2> HIDE DEF q
  <2>2. Decoded(q, 0) \in Seq(Fragment) /\ <<>> \in Seq(Fragment)
    BY <1>3, DecodedType, EmptySeq
  <2>3. After(<<>>) = "idle"
    BY DEF After
  <2>4. /\ received' = received \o Decoded(q, 0) \/ received' = received
        /\ ui' = "dispatch" \/ ui' = "idle"
    BY <2>1, <2>2, <2>3, Adds
  <2>5. Pieces(received \o Decoded(q, 0)) = Pieces(received) \cup Pieces(Decoded(q, 0))
    BY <1>1, <2>2, PiecesJoined
  <2>6. Pieces(Decoded(q, 0)) \subseteq Pieces(q) \cup {Garbage}
    BY <1>3, PiecesDecoded
  <2>7. Pieces(received') \subseteq Pieces(received) \cup Pieces(q) \cup {Garbage}
    BY <2>4, <2>5, <2>6
  <2>8. Pieces(rest') = {}
    BY <2>1, PiecesEmpty
  <2> QED BY <1>4, <1>5, <2>1, <2>4, <2>7, <2>8 DEF Reads, q
<1> QED BY <1>6, <1>7

\* Decrypting a block.
Decrypts ==
  /\ UNCHANGED <<sock, opened, state, encrypted, ciphers, srv, up, down>>
  /\ ui = "decrypt"
  /\ \/ ciphers = 0 /\ ui' = "crashed" /\ UNCHANGED <<rest, received>>
     \/ /\ ciphers # 0 /\ ui' \in {"idle", "decrypt", "dispatch"}
        /\ Pieces(received') \subseteq Pieces(received) \cup Pieces(rest) \cup {Garbage}
        /\ Pieces(rest') \subseteq Pieces(rest)
        /\ ui' = "idle" => rest' = <<>>

\* That is what a turn of DataReceived's loop does.
LEMMA DecryptFacts ==
  ASSUME Typed, DecryptBlock
  PROVE  Decrypts
<1> DEFINE k == IF Len(rest) < Block THEN Len(rest) ELSE Block
           left == SubSeq(rest, k + 1, Len(rest))
           q == SubSeq(rest, 1, k)
<1>1. rest \in Seq(Fragment) /\ received \in Seq(Fragment)
  BY DEF Typed, LoopTypes, ClientTypes
<1>2. k \in 0 .. Len(rest)
  <2>1. Len(rest) \in Nat
    BY <1>1, LenProperties
  <2> QED BY <2>1, Sizes
<1>3. /\ left \in Seq(Fragment) /\ q \in Seq(Fragment)
      /\ Pieces(left) \subseteq Pieces(rest) /\ Pieces(q) \subseteq Pieces(rest)
  <2> HIDE DEF k
  <2> QED BY <1>1, <1>2, Rest, PiecesRest
<1>4. UNCHANGED <<sock, opened, state, encrypted, ciphers, srv, up, down>> /\ ui = "decrypt"
  BY DEF DecryptBlock
<1>5. CASE ciphers = 0
  BY <1>4, <1>5 DEF DecryptBlock, Decrypts
<1>6. CASE ciphers # 0
  <2>1. rest' = left /\ AddReceivedData(Decoded(q, ciphers), left)
    BY <1>6 DEF DecryptBlock
  <2> HIDE DEF q, left
  <2>2. Decoded(q, ciphers) \in Seq(Fragment)
    BY <1>3, DecodedType
  <2>3. /\ received' = received \o Decoded(q, ciphers) \/ received' = received
        /\ ui' = "dispatch" \/ ui' = After(left)
    BY <1>3, <2>1, <2>2, Adds
  <2>4. Pieces(received \o Decoded(q, ciphers)) = Pieces(received) \cup Pieces(Decoded(q, ciphers))
    BY <1>1, <2>2, PiecesJoined
  <2>5. Pieces(Decoded(q, ciphers)) \subseteq Pieces(q) \cup {Garbage}
    BY <1>3, PiecesDecoded
  <2>6. Pieces(received') \subseteq Pieces(received) \cup Pieces(rest) \cup {Garbage}
    BY <1>3, <2>3, <2>4, <2>5
  <2>7. ui' \in {"idle", "decrypt", "dispatch"} /\ (ui' = "idle" => rest' = <<>>)
    BY <2>1, <2>3 DEF After
  <2> QED BY <1>3, <1>4, <1>6, <2>1, <2>6, <2>7 DEF Decrypts
<1> QED BY <1>5, <1>6

\* Whatever is handled, the loops know what they may rely on.
LEMMA LoopNext ==
  ASSUME Typed, LoopKnows, [Next]_vars
  PROVE  LoopKnows'
<1>1. UNCHANGED <<sock, encrypted, ciphers, received, rest, ui>> => LoopKnows'
  BY DEF LoopKnows
<1>2. SignOut /\ (ui' = "idle" => rest' = <<>>) => LoopKnows'
  BY DEF SignOut, LoopKnows
<1>3. CASE DecryptBlock
  <2>1. Decrypts
    BY <1>3, DecryptFacts
  <2> QED BY <2>1 DEF Decrypts, LoopKnows
<1>4. CASE DispatchPacket
  <2> DEFINE p == received[1].pkt
  <2>1. /\ ui = "dispatch" /\ Whole(received) /\ HandlePacket(p) /\ rest' = rest
        /\ ui' = "dispatch" \/ ui' = After(rest)
    BY <1>4 DEF DispatchPacket
  <2>2. p \in Packet /\ Len(received) \in Nat /\ Len(received) >= 2
    BY <2>1, InHand
  <2>3. received # <<>> /\ Len(<<>>) = 0
    BY <2>2
  <2>4. ui' \in {"idle", "decrypt", "dispatch"} /\ (ui' = "idle" => rest = <<>>)
        /\ (ui' = "decrypt" => rest # <<>>)
    BY <2>1 DEF After
  <2>5. ciphers = 0 => rest = <<>>
    BY <2>3 DEF LoopKnows
  <2>6. NewKey # 0 /\ state \in 1 .. 3
    BY Sizes, Numbers
  <2> HIDE DEF p
  <2>7. Ends(p) \/ Quiet(p) \/ \E m, room : Answers(p, m, room)
    BY <2>1, <2>2, <2>6, Handled
  <2>8. CASE Ends(p)
    BY <1>2, <2>1, <2>4, <2>8 DEF Ends
  <2>9. CASE Quiet(p) \/ \E m, room : Answers(p, m, room)
    <3>1. /\ ciphers' = ciphers \/ ciphers' = NewKey
          /\ encrypted' = encrypted \/ ciphers' = NewKey
      BY <2>9 DEF Quiet, Answers
    <3>2. encrypted => ciphers # 0
      BY DEF LoopKnows
    <3> QED BY <2>1, <2>4, <2>5, <2>6, <3>1, <3>2 DEF LoopKnows
  <2> QED BY <2>7, <2>8, <2>9
<1>5. CASE DispatchEnds
  <2>1. /\ UNCHANGED <<sock, encrypted, ciphers, received, rest>> /\ ui = "dispatch"
        /\ ui' = After(rest)
    BY <1>5 DEF DispatchEnds, clientVars
  <2> QED BY <2>1 DEF After, LoopKnows
<1>6. ASSUME NEW k \in 1 .. Capacity, NEW known \in BOOLEAN, DispatchTorn(k, known)
      PROVE  LoopKnows'
  <2>1. /\ UNCHANGED <<sock, encrypted, ciphers, rest>> /\ received # <<>>
        /\ ui' = "dispatch" \/ ui' = After(rest)
    BY <1>6 DEF DispatchTorn, Torn
  <2> QED BY <2>1 DEF After, LoopKnows
<1>7. ASSUME NEW s \in Sockets, NEW k \in 1 .. Len(down[s]), OnRead(s, k) PROVE LoopKnows'
  <2>1. Reads(s, k)
    BY <1>7, ReadFacts
  <2> QED BY <2>1 DEF Reads, LoopKnows
<1>8. ASSUME NEW room \in Rooms, NEW resolved \in BOOLEAN, JoinChannel(room, resolved)
      PROVE  LoopKnows'
  BY <1>8 DEF JoinChannel, LoopKnows, loopVars
<1>9. CASE OnFinalMessage
  BY <1>2, <1>9 DEF OnFinalMessage
<1>10. ASSUME NEW room \in Rooms, JoinChannelConnected(room) PROVE LoopKnows'
  BY <1>1, <1>10 DEF JoinChannelConnected, loopVars
<1>11. CASE LeaveChannel \/ UIThreadCallback
  BY <1>1, <1>11 DEF LeaveChannel, UIThreadCallback, clientVars, loopVars
<1>12. ASSUME NEW s \in Sockets, OnConnect(s) \/ OnClose(s) \/ OnNetworkError(s) PROVE LoopKnows'
  BY <1>1, <1>12 DEF OnConnect, OnClose, OnNetworkError, clientVars, loopVars
<1>13. ASSUME NEW id \in Own \cup Members, PeerCallback(id) PROVE LoopKnows'
  BY <1>1, <1>13 DEF PeerCallback, clientVars, loopVars
<1>14. ASSUME NEW s \in Sockets, ServerStep(s) PROVE LoopKnows'
  <2>1. UNCHANGED <<clientVars, loopVars>>
    BY <1>14, ServerSays
  <2> QED BY <1>1, <2>1 DEF clientVars, loopVars
<1>15. CASE UNCHANGED vars
  BY <1>1, <1>15 DEF vars, clientVars, loopVars
<1> QED BY <1>3, <1>4, <1>5, <1>6, <1>7, <1>8, <1>9, <1>10, <1>11, <1>12, <1>13, <1>14, <1>15
        DEF Next, ReceiveStep, WindowMessage, Terminated

\* What holds for any mixture of connections is kept by every step.
LEMMA MixedNext ==
  ASSUME MixedInv, [Next]_vars
  PROVE  MixedInv'
<1>1. Typed /\ Silent /\ OwnHasStream /\ LoopKnows
  BY DEF MixedInv
<1>2. Typed' /\ Silent' /\ OwnHasStream' /\ LoopKnows'
  BY <1>1, TypedNext, SilentNext, RoomNext, LoopNext
<1> QED BY <1>2 DEF MixedInv

\* It holds at first.
LEMMA MixedInit == Init => MixedInv
<1> SUFFICES ASSUME Init PROVE MixedInv
  OBVIOUS
<1>1. ClientTypes
  <2>1. /\ connected \in BOOLEAN /\ encrypted \in BOOLEAN /\ clientID \in Own \cup {0}
        /\ channel \in Rooms \cup {""} /\ received \in Seq(Fragment) /\ Len(received) = 0
    BY EmptySeq DEF Init
  <2>2. sock = 0 /\ opened = 0 /\ ciphers = 0 /\ state = 1
    BY DEF Init
  <2>3. Len(received) = 0
    BY <2>1
  <2>4. /\ sock \in 0 .. MaxSockets /\ opened \in 0 .. MaxSockets /\ ciphers \in Keys
        /\ state \in 1 .. 3 /\ state # 3 /\ Len(received) <= Capacity
    BY <2>2, <2>3, Sizes
  <2> QED BY <2>1, <2>4, Zenon DEF ClientTypes
<1>2. RoomTypes
  <2>1. posted \in Seq(Own \cup Members)
    BY EmptySeq DEF Init
  <2> QED BY <2>1 DEF Init, RoomTypes
<1>3. NetTypes
  <2>1. Blank("none") \in Server
    BY DEF Blank, Server, Stages
  <2>2. <<>> \in Seq(Fragment) /\ <<>> \in Seq(Message)
    BY EmptySeq
  <2> QED BY <2>1, <2>2 DEF Init, NetTypes
<1>4. LoopTypes
  <2>1. rest \in Seq(Fragment) /\ last \in Nat
    BY EmptySeq DEF Init
  <2> QED BY <2>1 DEF Init, LoopTypes
<1>5. /\ ui = "idle" /\ state = 1 /\ sock = 0 /\ opened = 0 /\ ciphers = 0 /\ encrypted = FALSE
      /\ received = <<>> /\ rest = <<>> /\ Len(<<>>) = 0
  BY DEF Init
<1>6. ASSUME NEW s \in Sockets
      PROVE  srv[s].stage = "none" /\ up[s] = <<>> /\ down[s] = <<>>
  BY DEF Init, Blank
<1>7. Silent
  <2>1. sock <= opened
    BY <1>5
  <2> QED BY <1>5, <1>6, <2>1 DEF Silent, SilentAt
<1>8. LoopKnows
  BY <1>5 DEF LoopKnows
<1>9. OwnHasStream
  BY DEF Init, OwnHasStream
<1> QED BY <1>1, <1>2, <1>3, <1>4, <1>7, <1>8, <1>9 DEF MixedInv, Typed

\* The members of ConnectionClient, Conductor and MainFrame hold values of their types, and
\* the protocol state is status, login or work, whatever connections overlap.
THEOREM TypesHold == Spec => []TypeOK
<1>1. MixedInv => TypeOK
  BY TypedIsTypeOK DEF MixedInv
<1> QED BY <1>1, MixedInit, MixedNext, PTL DEF Spec

\* m_IsEncrypted is only set while the ciphers exist, and DataReceived only comes to a missing
\* m_Decryptor with the rest of a segment whose first part signed out, whatever connections
\* overlap and whichever handler reads whose packet (LoopKnows).
THEOREM CiphersThere == Spec => []CipherAtHand
<1>1. MixedInv => CipherAtHand
  BY DEF MixedInv, LoopKnows, CipherAtHand
<1> QED BY <1>1, MixedInit, MixedNext, PTL DEF Spec

-----------------------------------------------------------------------------
(***************************************************************************)
(* A session begun in the initial state speaks the protocol.               *)
(***************************************************************************)
\* The streams of the session.
LEMMA SessionTypes ==
  ASSUME Typed, sock # 0
  PROVE  /\ sock \in Sockets
         /\ received \in Seq(Fragment) /\ rest \in Seq(Fragment) /\ down[sock] \in Seq(Fragment)
         /\ up[sock] \in Seq(Message) /\ srv[sock] \in Server
         /\ Len(received) \in Nat /\ Len(rest) \in Nat /\ Len(down[sock]) \in Nat
<1>1. sock \in 0 .. MaxSockets
  BY DEF Typed, ClientTypes
<1>2. sock \in Sockets
  BY <1>1, Sizes
<1>3. received \in Seq(Fragment) /\ rest \in Seq(Fragment)
  BY DEF Typed, ClientTypes, LoopTypes
<1>4. down[sock] \in Seq(Fragment) /\ up[sock] \in Seq(Message) /\ srv[sock] \in Server
  BY <1>2 DEF Typed, NetTypes
<1> QED BY <1>2, <1>3, <1>4, LenProperties

\* With the key in use, decrypting yields what was sent.
LEMMA DecodedWhole ==
  ASSUME NEW q \in Seq(Fragment), NEW key, \A x \in Pieces(q) : x.key = key
  PROVE  Decoded(q, key) = q
<1>1. /\ Decoded(q, key) \in Seq(Fragment)
      /\ Len(Decoded(q, key)) = Len(q)
      /\ \A i \in 1 .. Len(q) : Decoded(q, key)[i] = IF q[i].key = key THEN q[i] ELSE Garbage
  BY DecodedType
<1>2. \A i \in 1 .. Len(q) : q[i].key = key
  BY DEF Pieces
<1>3. \A i \in 1 .. Len(q) : Decoded(q, key)[i] = q[i]
  BY <1>1, <1>2
<1> QED BY <1>1, <1>3, SeqEqual

\* Other sockets are not heard of.
LEMMA OnlySocket ==
  ASSUME Typed, Silent, Alone, fresh, NEW s \in Sockets,
         \/ ServerStep(s) \/ OnConnect(s) \/ OnClose(s) \/ OnNetworkError(s)
         \/ \E k \in 1 .. Len(down[s]) : OnRead(s, k)
  PROVE  s = sock
<1> SUFFICES ASSUME s # sock PROVE FALSE
  OBVIOUS
<1>1. srv[s].stage \in {"none", "gone"}
  BY DEF Alone
<1>2. up[s] = <<>> /\ down[s] = <<>>
  BY <1>1 DEF Silent, SilentAt, Live
<1>3. ~ServerStep(s)
  <2>1. ~Listens(s)
    BY <1>1, <1>2 DEF Listens, Live
  <2>2. \A m, r, k, a : ~Talks(s, m, r, k, a)
    BY <1>1, ZenonT(60) DEF Talks, Script
  <2> QED BY <2>1, <2>2, ServerSays
<1>4. Len(down[s]) = 0
  BY <1>2
<1>5. ~\E k \in 1 .. Len(down[s]) : OnRead(s, k)
  BY <1>4
<1> QED BY <1>1, <1>3, <1>5 DEF OnConnect, OnClose, OnNetworkError

\* Nothing but the streams is touched.
OnlyStreams == UNCHANGED <<sock, opened, state, encrypted, ciphers, clientID, peers, posted, roomName,
                           srv, up, fresh, last>>

\* In a session, k pieces are read: to be decrypted, to the buffer, or lost.
ReadOn(s, k) ==
  /\ OnlyStreams
  /\ ui = "idle" /\ rest = <<>>
  /\ refused' = refused
  /\ down'[s] = SubSeq(down[s], k + 1, Len(down[s]))
  /\ \/ /\ encrypted /\ rest' = SubSeq(down[s], 1, k) /\ ui' = "decrypt"
        /\ UNCHANGED <<received, full>>
     \/ /\ ~encrypted /\ rest' = <<>> /\ ui' = "dispatch"
        /\ received' = received \o SubSeq(down[s], 1, k) /\ full' = full
     \/ /\ ~encrypted /\ rest' = <<>> /\ ui' = "idle"
        /\ received' = received /\ full' = TRUE

\* Reading in a session.
LEMMA SessionRead ==
  ASSUME MixedInv, Legible, InSession, NEW s \in Sockets, s = sock,
         NEW k \in 1 .. Len(down[s]), OnRead(s, k)
  PROVE  ReadOn(s, k)
<1> DEFINE q == SubSeq(down[s], 1, k)
<1>0. Typed /\ LoopKnows
  BY DEF MixedInv
<1>1. down \in [Sockets -> Seq(Fragment)] /\ down[s] \in Seq(Fragment)
  BY <1>0 DEF Typed, NetTypes
<1>2. k \in 0 .. Len(down[s])
  BY <1>1, LenProperties
<1>3. q \in Seq(Fragment) /\ Pieces(q) \subseteq Pieces(down[s])
  BY <1>1, <1>2, Rest, PiecesRest
<1>4. OnlyStreams /\ ui = "idle" /\ refused' = refused
  BY DEF OnRead, OnlyStreams, roomVars
<1>5. rest = <<>>
  BY <1>0, <1>4 DEF LoopKnows
<1>6. down'[s] = SubSeq(down[s], k + 1, Len(down[s]))
  BY <1>1 DEF OnRead
<1>7. CASE encrypted
  BY <1>4, <1>5, <1>6, <1>7 DEF OnRead, ReadOn
<1>8. CASE ~encrypted
  <2>1. rest' = <<>> /\ AddReceivedData(Decoded(q, 0), <<>>)
    BY <1>8 DEF OnRead
  <2> HIDE DEF q
  <2>2. \A x \in Pieces(q) : x.key = 0
    BY <1>3, <1>8 DEF Legible, KeyInUse
  <2>3. Decoded(q, 0) = q
    BY <1>3, <2>2, DecodedWhole
  <2>4. AddReceivedData(q, <<>>)
    BY <2>1, <2>3
  <2>5. <<>> \in Seq(Fragment) /\ After(<<>>) = "idle"
    BY EmptySeq DEF After
  <2>6. \/ received' = received \o q /\ ui' = "dispatch" /\ full' = full
        \/ received' = received /\ ui' = "idle" /\ full' = TRUE
    BY <1>0, <1>3, <2>4, <2>5, Adds
  <2> QED BY <1>4, <1>5, <1>6, <1>8, <2>1, <2>6 DEF ReadOn, q
<1> QED BY <1>7, <1>8

\* In a session, k pieces are decrypted: to the buffer, or lost.
DecryptOn(k) ==
  /\ OnlyStreams
  /\ ui = "decrypt" /\ encrypted
  /\ refused' = refused /\ down' = down
  /\ rest' = SubSeq(rest, k + 1, Len(rest))
  /\ \/ received' = received \o SubSeq(rest, 1, k) /\ ui' = "dispatch" /\ full' = full
     \/ received' = received /\ ui' = After(rest') /\ full' = TRUE

\* Decrypting in a session.
LEMMA SessionDecrypt ==
  ASSUME MixedInv, Legible, InSession, DecryptBlock
  PROVE  \E k \in 0 .. Len(rest) : DecryptOn(k)
<1> DEFINE k == IF Len(rest) < Block THEN Len(rest) ELSE Block
           left == SubSeq(rest, k + 1, Len(rest))
           q == SubSeq(rest, 1, k)
<1>0. Typed /\ LoopKnows
  BY DEF MixedInv
<1>1. rest \in Seq(Fragment)
  BY <1>0 DEF Typed, LoopTypes
<1>2. k \in 0 .. Len(rest)
  <2>1. Len(rest) \in Nat
    BY <1>1, LenProperties
  <2> QED BY <2>1, Sizes
<1>3. /\ left \in Seq(Fragment) /\ q \in Seq(Fragment) /\ Pieces(q) \subseteq Pieces(rest)
  <2> HIDE DEF k
  <2> QED BY <1>1, <1>2, Rest, PiecesRest
<1>4. OnlyStreams /\ ui = "decrypt" /\ refused' = refused /\ down' = down
  BY DEF DecryptBlock, OnlyStreams, roomVars
<1>5. encrypted /\ ciphers = sock /\ ciphers # 0
  BY <1>4 DEF Legible, InSession
<1>6. rest' = left /\ AddReceivedData(Decoded(q, ciphers), left)
  BY <1>5 DEF DecryptBlock
<1> HIDE DEF k, left, q
<1>7. \A x \in Pieces(q) : x.key = ciphers
  BY <1>3, <1>5 DEF Legible, KeyInUse
<1>8. Decoded(q, ciphers) = q
  BY <1>3, <1>7, DecodedWhole
<1>9. AddReceivedData(q, left)
  BY <1>6, <1>8
<1>10. \/ received' = received \o q /\ ui' = "dispatch" /\ full' = full
       \/ received' = received /\ ui' = After(left) /\ full' = TRUE
  BY <1>0, <1>3, <1>9, Adds
<1>11. DecryptOn(k)
  BY <1>4, <1>5, <1>6, <1>10 DEF DecryptOn, left, q
<1> QED BY <1>2, <1>11

\* No more is under way than before, and the rest is as it was.
Fewer == /\ Pending \in Nat /\ Pending' \in Nat /\ Pending' <= Pending
         /\ Coming' \subseteq Coming
         /\ Legible'

\* That keeps all of it.
LEMMA FewerKeeps ==
  ASSUME SessionInv, InSession, Fewer, UNCHANGED <<sock, state, encrypted, srv, up, fresh>>,
         srv[sock].stage \in Early => UNCHANGED <<peers, posted, roomName>>
  PROVE  SessionInv'
<1>0. InSession' /\ (Pending = 0 => Pending' = 0) /\ (Pending <= 2 => Pending' <= 2)
  BY DEF InSession, Fewer
<1>1. Coming' \subseteq Coming /\ Legible'
  BY DEF Fewer
<1>2. \A k : Asks(k)' <=> Asks(k)
  BY DEF Asks, ServerKeyInUse
<1>3. /\ Alone /\ KeyRequestAlone /\ JoinedAtWork /\ QuietAtFirst
      /\ Beginning /\ LockStep /\ AtWork /\ IsOver /\ SpeaksProtocol
  BY DEF SessionInv
<1>4. Alone'
  BY <1>0, <1>3 DEF Alone, InSession
<1>5. KeyRequestAlone' /\ JoinedAtWork' /\ QuietAtFirst'
  BY <1>0, <1>1, <1>3 DEF KeyRequestAlone, JoinedAtWork, QuietAtFirst, InSession
<1>6. Beginning'
  BY <1>0, <1>2, <1>3 DEF Beginning, InSession
<1>7. LockStep'
  <2>1. \A stage : /\ ClientsTurn(stage) => ClientsTurn(stage)'
                   /\ ServersTurn(stage) => ServersTurn(stage)'
    BY <1>0, <1>1, <1>2 DEF ClientsTurn, ServersTurn
  <2> QED BY <1>0, <1>3, <2>1 DEF LockStep, InSession
<1>8. AtWork' /\ IsOver' /\ SpeaksProtocol'
  BY <1>0, <1>1, <1>3 DEF AtWork, IsOver, SpeaksProtocol, InSession, ServerKeyInUse
<1> QED BY <1>1, <1>4, <1>5, <1>6, <1>7, <1>8 DEF SessionInv

\* Numbers are added.
LEMMA Sums ==
  ASSUME NEW a \in Nat, NEW b \in Nat, NEW c \in Nat, NEW k \in 0 .. c
  PROVE  /\ a + b + c \in Nat
         /\ a + k + (c - k) <= a + 0 + c
         /\ a + k + 0 + (c - k) <= a + 0 + c
         /\ a + 0 + (c - k) <= a + 0 + c
         /\ a + k + (c - k) + b <= a + c + b
         /\ a + (c - k) + b <= a + c + b
         /\ (c - k) + a + b <= c + a + b
  OBVIOUS

\* What is under way, from the parts.
LEMMA FewerParts ==
  ASSUME Typed, Typed', InSession, NEW s, s = sock, sock' = sock,
         Len(received') + Len(rest') + Len(down'[s]) <= Len(received) + Len(rest) + Len(down[s]),
         Pieces(received') \cup Pieces(rest') \cup Pieces(down'[s])
           \subseteq Pieces(received) \cup Pieces(rest) \cup Pieces(down[s]),
         Legible'
  PROVE  Fewer
<1>1. Pending \in Nat
  <2> DEFINE a == Len(received)
             b == Len(rest)
             c == Len(down[sock])
  <2>1. a \in Nat /\ b \in Nat /\ c \in Nat /\ Pending = a + b + c
    BY SessionTypes, Zenon DEF InSession, Pending
  <2> HIDE DEF a, b, c
  <2> QED BY <2>1
<1>2. /\ received' \in Seq(Fragment) /\ rest' \in Seq(Fragment)
      /\ down' \in [Sockets -> Seq(Fragment)] /\ s \in Sockets
  BY SessionTypes DEF Typed, ClientTypes, LoopTypes, NetTypes, InSession
<1>3. Len(received') \in Nat /\ Len(rest') \in Nat /\ Len(down'[s]) \in Nat
  BY <1>2, LenProperties
<1>4. Pending = Len(received) + Len(rest) + Len(down[s])
      /\ Pending' = Len(received') + Len(rest') + Len(down'[s])
  BY DEF Pending
<1>5. Pending' \in Nat
  <2> DEFINE a == Len(received')
             b == Len(rest')
             c == Len(down'[s])
  <2>1. a \in Nat /\ b \in Nat /\ c \in Nat /\ Pending' = a + b + c
    BY <1>3, <1>4
  <2> HIDE DEF a, b, c
  <2> QED BY <2>1
<1>6. Pending' <= Pending
  BY <1>4
<1>7. Coming' \subseteq Coming
  BY DEF Coming
<1> QED BY <1>1, <1>5, <1>6, <1>7 DEF Fewer

\* The loops of the client neither add to it nor change it.
LEMMA SessionLoop ==
  ASSUME MixedInv, MixedInv', SessionInv, InSession,
         \/ \E s \in Sockets : \E k \in 1 .. Len(down[s]) : OnRead(s, k)
         \/ DecryptBlock \/ DispatchEnds
         \/ \E k \in 1 .. Capacity, known \in BOOLEAN : DispatchTorn(k, known)
  PROVE  SessionInv'
<1>0. Typed /\ Typed' /\ Silent /\ Alone /\ Legible /\ fresh
  BY DEF MixedInv, SessionInv, InSession
<1>1. /\ received \in Seq(Fragment) /\ rest \in Seq(Fragment) /\ down[sock] \in Seq(Fragment)
      /\ Len(received) \in Nat /\ Len(rest) \in Nat /\ Len(down[sock]) \in Nat
  BY <1>0, SessionTypes DEF InSession
<1>2. Pieces(<<>>) = {} /\ Len(<<>>) = 0
  BY PiecesEmpty
<1>3. /\ encrypted => ciphers = sock
      /\ rest # <<>> \/ ui = "decrypt" => encrypted
      /\ \A x \in Pieces(received) : x.from = sock
      /\ \A x \in Pieces(rest) : x.from = sock /\ x.key = KeyInUse
      /\ \A x \in Pieces(down[sock]) : x.key = KeyInUse
  BY <1>0 DEF Legible
<1>4. ASSUME NEW s \in Sockets, NEW k \in 1 .. Len(down[s]), OnRead(s, k) PROVE SessionInv'
  <2> DEFINE q == SubSeq(down[s], 1, k)
             d == SubSeq(down[s], k + 1, Len(down[s]))
  <2>1. s = sock
    BY <1>0, <1>4, OnlySocket
  <2>2. ReadOn(s, k)
    BY <1>0, <1>4, <2>1, SessionRead
  <2>3. OnlyStreams /\ rest = <<>> /\ down'[s] = d
    BY <2>2 DEF ReadOn
  <2>4. k \in 0 .. Len(down[s])
    BY <1>1, <2>1
  <2>5. /\ Len(q) = k /\ Len(d) = Len(down[s]) - k /\ q \in Seq(Fragment)
        /\ Pieces(q) \subseteq Pieces(down[s]) /\ Pieces(d) \subseteq Pieces(down[s])
    BY <1>1, <2>1, <2>4, Rest, PiecesRest
  <2>6. \A x \in Pieces(down[s]) : x.from = s /\ x.key = KeyInUse
    BY <1>0, <1>3, <2>1 DEF Silent, SilentAt, Pieces
  <2>7. \/ encrypted /\ rest' = q /\ received' = received
        \/ rest' = <<>> /\ received' = received \o q /\ ui' # "decrypt"
        \/ rest' = <<>> /\ received' = received /\ ui' # "decrypt"
    BY <2>2 DEF ReadOn
  <2> HIDE DEF q, d
  <2>8. /\ Pieces(received \o q) = Pieces(received) \cup Pieces(q)
        /\ Len(received \o q) = Len(received) + Len(q)
    BY <1>1, <2>5, PiecesJoined, ConcatProperties, ZenonT(60)
  <2>9. Len(received') + Len(rest') + Len(down'[s]) <= Len(received) + Len(rest) + Len(down[s])
    <3>1. Len(received) \in Nat /\ Len(rest) = 0 /\ Len(down[s]) \in Nat
      BY <1>1, <1>2, <2>1, <2>3
    <3>2. Len(down'[s]) = Len(down[s]) - k /\ Len(q) = k
      BY <2>3, <2>5
    <3>3. \/ Len(rest') = k /\ Len(received') = Len(received)
          \/ Len(rest') = 0 /\ Len(received') = Len(received) + k
          \/ Len(rest') = 0 /\ Len(received') = Len(received)
      BY <1>2, <2>7, <2>8, <3>2
    <3>4. k \in 0 .. Len(down[s])
      BY <2>4
    <3>5. \/ Len(received') + Len(rest') + Len(down'[s]) = Len(received) + k + (Len(down[s]) - k)
          \/ Len(received') + Len(rest') + Len(down'[s]) = Len(received) + k + 0 + (Len(down[s]) - k)
          \/ Len(received') + Len(rest') + Len(down'[s]) = Len(received) + 0 + (Len(down[s]) - k)
      BY <3>2, <3>3
    <3> QED BY <3>1, <3>4, <3>5, Sums
  <2>10. Pieces(received') \cup Pieces(rest') \cup Pieces(down'[s])
           \subseteq Pieces(received) \cup Pieces(rest) \cup Pieces(down[s])
    BY <1>2, <2>3, <2>5, <2>7, <2>8
  <2>11. UNCHANGED <<sock, state, encrypted, ciphers, srv, up, peers, posted, roomName, fresh>>
    BY <2>3 DEF OnlyStreams
  <2>12. /\ \A x \in Pieces(received') : x.from = s
         /\ \A x \in Pieces(rest') : x.from = s /\ x.key = KeyInUse
         /\ \A x \in Pieces(down'[s]) : x.key = KeyInUse
    BY <1>2, <1>3, <2>1, <2>3, <2>5, <2>6, <2>7, <2>8
  <2>13. rest' # <<>> \/ ui' = "decrypt" => encrypted
    BY <2>7
  <2>14. KeyInUse' = KeyInUse
    BY <2>11 DEF KeyInUse
  <2>15. Legible'
    BY <1>3, <2>1, <2>11, <2>12, <2>13, <2>14 DEF Legible
  <2>16. Fewer
    BY <1>0, <2>1, <2>9, <2>10, <2>11, <2>15, FewerParts
  <2> QED BY <2>11, <2>16, FewerKeeps
<1>5. CASE DecryptBlock
  <2>1. PICK k \in 0 .. Len(rest) : DecryptOn(k)
    BY <1>0, <1>5, SessionDecrypt
  <2> DEFINE q == SubSeq(rest, 1, k)
             left == SubSeq(rest, k + 1, Len(rest))
  <2>2. OnlyStreams /\ encrypted /\ down' = down /\ rest' = left
    BY <2>1 DEF DecryptOn
  <2>3. /\ Len(q) = k /\ Len(left) = Len(rest) - k /\ q \in Seq(Fragment)
        /\ Pieces(q) \subseteq Pieces(rest) /\ Pieces(left) \subseteq Pieces(rest)
    BY <1>1, <2>1, Rest, PiecesRest
  <2>4. received' = received \o q \/ received' = received
    BY <2>1 DEF DecryptOn
  <2> HIDE DEF q, left
  <2>5. /\ Pieces(received \o q) = Pieces(received) \cup Pieces(q)
        /\ Len(received \o q) = Len(received) + Len(q)
    BY <1>1, <2>3, PiecesJoined, ConcatProperties, ZenonT(60)
  <2>6. ASSUME NEW s, s = sock
        PROVE  /\ Len(received') + Len(rest') + Len(down'[s])
                    <= Len(received) + Len(rest) + Len(down[s])
               /\ Pieces(received') \cup Pieces(rest') \cup Pieces(down'[s])
                    \subseteq Pieces(received) \cup Pieces(rest) \cup Pieces(down[s])
    <3>1. /\ Len(rest') = Len(rest) - k /\ down'[s] = down[s] /\ Len(down[s]) \in Nat
          /\ Len(received') = Len(received) + k \/ Len(received') = Len(received)
      BY <1>1, <2>2, <2>3, <2>4, <2>5, <2>6
    <3>2. Len(received') + Len(rest') + Len(down'[s]) <= Len(received) + Len(rest) + Len(down[s])
      <4>1. \/ Len(received') + Len(rest') + Len(down'[s])
                 = Len(received) + k + (Len(rest) - k) + Len(down[s])
            \/ Len(received') + Len(rest') + Len(down'[s])
                 = Len(received) + (Len(rest) - k) + Len(down[s])
        BY <3>1
      <4>2. Len(received) \in Nat /\ Len(rest) \in Nat /\ Len(down[s]) \in Nat
        BY <1>1, <3>1
      <4> QED BY <2>1, <4>1, <4>2, Sums
    <3>3. Pieces(received') \cup Pieces(rest') \cup Pieces(down'[s])
            \subseteq Pieces(received) \cup Pieces(rest) \cup Pieces(down[s])
      BY <2>2, <2>3, <2>4, <2>5
    <3> QED BY <3>2, <3>3
  <2>7. UNCHANGED <<sock, state, encrypted, ciphers, srv, up, peers, posted, roomName, fresh>>
    BY <2>2 DEF OnlyStreams
  <2>8. KeyInUse' = KeyInUse
    BY <2>7 DEF KeyInUse
  <2>9. Legible'
    BY <1>3, <2>2, <2>3, <2>4, <2>5, <2>7, <2>8 DEF Legible
  <2>10. Fewer
    BY <1>0, <2>6, <2>7, <2>9, FewerParts
  <2> QED BY <2>7, <2>10, FewerKeeps
<1>6. CASE DispatchEnds
  <2>1. /\ UNCHANGED <<sock, state, encrypted, ciphers, srv, up, peers, posted, roomName, fresh>>
        /\ UNCHANGED <<received, rest, down>> /\ ui' = After(rest)
    BY <1>6 DEF DispatchEnds, clientVars, roomVars, histVars
  <2>2. KeyInUse' = KeyInUse /\ (ui' = "decrypt" => rest # <<>>)
    BY <2>1 DEF KeyInUse, After
  <2>3. Legible'
    BY <1>3, <2>1, <2>2 DEF Legible
  <2>4. Fewer
    <3>1. ASSUME NEW s, s = sock
          PROVE  Len(received') + Len(rest') + Len(down'[s]) <= Len(received) + Len(rest) + Len(down[s])
      BY <1>1, <2>1, <3>1
    <3> QED BY <1>0, <2>1, <2>3, <3>1, FewerParts
  <2> QED BY <2>1, <2>4, FewerKeeps
<1>7. ASSUME NEW k \in 1 .. Capacity, NEW known \in BOOLEAN, DispatchTorn(k, known) PROVE SessionInv'
  <2>1. /\ UNCHANGED <<sock, state, encrypted, ciphers, srv, up, peers, posted, roomName, fresh>>
        /\ UNCHANGED <<rest, down>> /\ (ui' = "dispatch" \/ ui' = After(rest))
        /\ k \in 1 .. Len(received) /\ received' = SubSeq(received, k + 1, Len(received))
    BY <1>7 DEF DispatchTorn, roomVars
  <2>2. k \in 0 .. Len(received)
    BY <1>1, <2>1
  <2>3. Len(received') = Len(received) - k /\ Pieces(received') \subseteq Pieces(received)
    BY <1>1, <2>1, <2>2, Rest, PiecesRest
  <2>4. KeyInUse' = KeyInUse /\ (ui' = "decrypt" => rest # <<>>)
    BY <2>1 DEF KeyInUse, After
  <2>5. Legible'
    BY <1>3, <2>1, <2>3, <2>4 DEF Legible
  <2>6. Fewer
    <3>1. ASSUME NEW s, s = sock
          PROVE  Len(received') + Len(rest') + Len(down'[s]) <= Len(received) + Len(rest) + Len(down[s])
      <4>1. rest' = rest /\ down' = down
        BY <2>1
      <4>2. Len(received') + Len(rest') + Len(down'[s]) = (Len(received) - k) + Len(rest) + Len(down[s])
        BY <2>3, <4>1
      <4>3. Len(received) \in Nat /\ Len(rest) \in Nat /\ Len(down[s]) \in Nat
        BY <1>1, <3>1
      <4> QED BY <2>2, <4>2, <4>3, Sums
    <3> QED BY <1>0, <2>1, <2>3, <2>5, <3>1, FewerParts
  <2> QED BY <2>1, <2>6, FewerKeeps
<1> QED BY <1>4, <1>5, <1>6, <1>7

\* A packet is taken in a session.
LEMMA SessionTaken ==
  ASSUME Typed, Typed', InSession, Whole(received), Taken, UNCHANGED <<sock, rest, down>>,
         NEW s, s = sock
  PROVE  /\ received[1].pkt.kind \in Coming /\ received[1].pkt \in Packet
         /\ Pending \in Nat /\ Pending' \in Nat /\ Pending >= 2 /\ Pending' = Pending - 2
         /\ Coming' \subseteq Coming
         /\ Pieces(received') \subseteq Pieces(received)
         /\ Pending <= 2 => rest = <<>> /\ down[s] = <<>> /\ received' = <<>>
<1> DEFINE a == Len(received)
           b == Len(rest)
           c == Len(down[s])
<1>1. /\ received \in Seq(Fragment) /\ rest \in Seq(Fragment) /\ down[s] \in Seq(Fragment)
      /\ a \in Nat /\ b \in Nat /\ c \in Nat
  BY SessionTypes, Zenon DEF InSession
<1>2. /\ received' \in Seq(Fragment) /\ Len(received') = Len(received) - 2
      /\ \A i \in 1 .. Len(received') : received'[i] = received[i + 2]
  BY TakenFacts
<1>3. Pending = a + b + c /\ Pending' = Len(received') + b + c
  BY DEF Pending
<1>4. a >= 2 /\ received[1].pkt \in Packet
  BY InHand
<1>5. Pieces(received') \subseteq Pieces(received)
  <2>1. 2 \in 0 .. Len(received)
    BY <1>1, <1>4
  <2>2. received' = SubSeq(received, 2 + 1, Len(received))
    BY DEF Taken
  <2> QED BY <1>1, <2>1, <2>2, PiecesRest
<1>6. received[1] \in Pieces(received)
  <2>1. 1 \in 1 .. Len(received)
    BY <1>1, <1>4
  <2> QED BY <2>1 DEF Pieces
<1>7. received[1].pkt.kind \in Coming
  BY <1>6 DEF Coming
<1>8. Coming' \subseteq Coming
  BY <1>5 DEF Coming
<1>9. Len(received') = a - 2
  BY <1>2
<1> HIDE DEF a, b, c
<1>10. Pending \in Nat /\ Pending' \in Nat /\ Pending >= 2 /\ Pending' = Pending - 2
  BY <1>1, <1>3, <1>4, <1>9
<1>11. Pending <= 2 => a = 2 /\ b = 0 /\ c = 0
  BY <1>1, <1>3, <1>4
<1>12. Pending <= 2 => rest = <<>> /\ down[s] = <<>>
  BY <1>1, <1>11, EmptySeq DEF b, c
<1>13. Pending <= 2 => Len(received') = 0
  BY <1>9, <1>11
<1>14. Pending <= 2 => received' = <<>>
  BY <1>2, <1>13, EmptySeq
<1> QED BY <1>4, <1>5, <1>7, <1>8, <1>10, <1>12, <1>14

\* The client sends the only packet, or one more of those that may be sent in the room.
LEMMA SessionSends ==
  ASSUME Typed, InSession, NEW m, NEW room, SendPacket(m, room), sock' = sock,
         Live(srv'[sock].stage), encrypted => ciphers' = sock, encrypted <=> srv'[sock].keyed
  PROVE  /\ up[sock] = <<>> => Asks(m)'
         /\ \A x \in Pieces(up'[sock]) :
              x \in Pieces(up[sock]) \/ (x.kind = m /\ x.key = ServerKeyInUse')
<1>1. up \in [Sockets -> Seq(Message)] /\ sock \in Sockets /\ up[sock] \in Seq(Message)
  BY SessionTypes DEF Typed, NetTypes, InSession
<1> DEFINE v == up[sock]
           w == up'[sock]
<1>2. /\ Len(w) = Len(v) + 1
      /\ \A i \in 1 .. Len(v) : w[i] = v[i]
      /\ w[Len(v) + 1] = [kind |-> m, key |-> OutKey, room |-> room]
  BY <1>1, Sends
<1>3. OutKey = ServerKeyInUse'
  BY DEF OutKey, ServerKeyInUse
<1>4. w[Len(v) + 1].kind = m /\ w[Len(v) + 1].key = ServerKeyInUse'
  BY <1>2, <1>3
<1>5. Len(v) \in Nat /\ (v = <<>> => Len(v) = 0)
  BY <1>1, LenProperties
<1>6. v = <<>> => Asks(m)'
  <2>1. v = <<>> => Len(w) = 1 /\ w[1].kind = m /\ w[1].key = ServerKeyInUse'
    BY <1>2, <1>4, <1>5
  <2> QED BY <1>3, <2>1 DEF Asks
<1>7. ASSUME NEW i \in 1 .. Len(w)
      PROVE  w[i] \in Pieces(v) \/ (w[i].kind = m /\ w[i].key = ServerKeyInUse')
  <2>1. i \in 1 .. Len(v) \/ i = Len(v) + 1
    BY <1>2, <1>5
  <2>2. i \in 1 .. Len(v) => w[i] \in Pieces(v)
    BY <1>2 DEF Pieces
  <2> QED BY <1>4, <2>1, <2>2
<1> QED BY <1>6, <1>7 DEF Pieces

\* What may be said in the room.
LEMMA SpeaksUp ==
  ASSUME Typed, SessionInv, InSession, Fewer,
         NEW m \in {"message", "keepAlive", "leave"}, NEW room, SendPacket(m, room),
         srv[sock].stage \notin Early,
         UNCHANGED <<sock, state, encrypted, ciphers, srv, fresh>>
  PROVE  SessionInv'
<1>0. InSession' /\ Coming' \subseteq Coming /\ Legible'
      /\ (Pending <= 2 => Pending' <= 2)
  BY DEF InSession, Fewer
<1>1. /\ Alone /\ Legible /\ KeyRequestAlone /\ JoinedAtWork
      /\ AtWork /\ IsOver /\ SpeaksProtocol
  BY DEF SessionInv
<1>2. Alone'
  BY <1>0, <1>1 DEF Alone, InSession
<1>3. KeyRequestAlone' /\ JoinedAtWork' /\ IsOver' /\ SpeaksProtocol'
  BY <1>0, <1>1 DEF KeyRequestAlone, JoinedAtWork, IsOver, SpeaksProtocol, InSession
<1>4. QuietAtFirst' /\ Beginning' /\ LockStep'
  BY DEF QuietAtFirst, Beginning, LockStep, Early, Steps
<1>5. AtWork'
  <2> SUFFICES ASSUME srv[sock].stage = "joined" PROVE AtWork'
    BY DEF AtWork
  <2>1. /\ state = 3 /\ (encrypted <=> srv[sock].keyed)
        /\ \A x \in Pieces(up[sock]) : /\ x.kind \in {"message", "keepAlive", "leave"}
                                       /\ x.key = ServerKeyInUse
        /\ Coming \subseteq {"joined", "publisher", "offline", "keepAlive", "future", "left"}
    BY <1>1 DEF AtWork
  <2>2. Live(srv[sock].stage) /\ (encrypted => ciphers' = sock)
    BY <1>1 DEF Live, Legible
  <2>3. ServerKeyInUse' = ServerKeyInUse
    BY DEF ServerKeyInUse
  <2>4. \A x \in Pieces(up'[sock]) :
          x \in Pieces(up[sock]) \/ (x.kind = m /\ x.key = ServerKeyInUse)
    <3>1. Live(srv'[sock].stage) /\ (encrypted <=> srv'[sock].keyed)
      BY <2>1, <2>2
    <3> QED BY <2>2, <2>3, <3>1, SessionSends
  <2> QED BY <1>0, <2>1, <2>3, <2>4 DEF AtWork
<1> QED BY <1>0, <1>2, <1>3, <1>4, <1>5 DEF SessionInv

\* What a packet in hand does to the session, unless it ends it.
GoesOn(p) == \/ Quiet(p)
             \/ \E m, room : Answers(p, m, room)

\* A packet that is handled keeps the streams legible.
LEMMA LegibleDispatch ==
  ASSUME Typed, Typed', SessionInv, InSession, Whole(received), UNCHANGED <<rest, fresh>>,
         NEW p, p = received[1].pkt, GoesOn(p), ui' = "dispatch" \/ ui' = After(rest)
  PROVE  /\ Legible' /\ KeyRequestAlone' /\ JoinedAtWork'
         /\ p.kind # "keyRequest" => UNCHANGED <<ciphers, encrypted>>
         /\ Taken /\ UNCHANGED <<sock, srv, down>>
         /\ p.kind = "keyRequest" /\ encrypted' => ciphers' = sock
<1>1. Taken /\ UNCHANGED <<sock, srv, down>>
  BY DEF GoesOn, Quiet, Answers, Keeps
<1>2. p.kind # "keyRequest" => UNCHANGED <<ciphers, encrypted>>
  BY DEF GoesOn, Quiet, Answers, Replies
<1>3. state = 3 => state' = 3
  BY DEF GoesOn, Quiet, Answers, Replies
<1>4. /\ encrypted => ciphers = sock
      /\ rest # <<>> \/ ui = "decrypt" => encrypted
      /\ \A x \in Pieces(received) : x.from = sock
      /\ \A x \in Pieces(rest) : x.from = sock /\ x.key = KeyInUse
      /\ \A x \in Pieces(down[sock]) : x.key = KeyInUse
  BY DEF SessionInv, Legible
<1>5. encrypted' => ciphers' = sock
  BY <1>4 DEF GoesOn, Quiet, Answers, NewKey, InSession
<1>6. /\ p.kind \in Coming
      /\ Pending \in Nat /\ Pending' = Pending - 2
      /\ Coming' \subseteq Coming
      /\ Pieces(received') \subseteq Pieces(received)
      /\ Pending <= 2 => rest = <<>> /\ down[sock] = <<>> /\ received' = <<>>
  <2>1. ASSUME NEW s, s = sock
        PROVE  /\ p.kind \in Coming
               /\ Pending \in Nat /\ Pending' = Pending - 2
               /\ Coming' \subseteq Coming
               /\ Pieces(received') \subseteq Pieces(received)
               /\ Pending <= 2 => rest = <<>> /\ down[s] = <<>> /\ received' = <<>>
    BY <1>1, <2>1, SessionTaken
  <2> QED BY <2>1
<1>7. ui' = "decrypt" => rest # <<>>
  BY DEF After
<1>8. KeyRequestAlone' /\ JoinedAtWork'
  <2>1. Pending <= 2 => Pending' <= 2
    BY <1>6
  <2>2. InSession'
    BY <1>1 DEF InSession
  <2> QED BY <1>3, <1>6, <2>1 DEF SessionInv, KeyRequestAlone, JoinedAtWork
<1>9. Legible'
  <2>1. CASE p.kind = "keyRequest"
    <3>1. rest = <<>> /\ down[sock] = <<>> /\ received' = <<>>
      BY <1>6, <2>1 DEF SessionInv, KeyRequestAlone
    <3>2. rest' = <<>> /\ down'[sock'] = <<>> /\ received' = <<>>
      BY <1>1, <3>1
    <3> QED BY <1>1, <1>5, <1>7, <3>1, <3>2, PiecesEmpty DEF Legible
  <2>2. CASE p.kind # "keyRequest"
    <3>1. KeyInUse' = KeyInUse
      BY <1>1, <1>2, <2>2 DEF KeyInUse
    <3> QED BY <1>1, <1>2, <1>4, <1>6, <1>7, <2>2, <3>1 DEF Legible
  <2> QED BY <2>1, <2>2
<1> QED BY <1>1, <1>2, <1>5, <1>8, <1>9

\* During the log-in, a packet is handled when it is the client's turn.
LEMMA LogInDispatch ==
  ASSUME Typed, Typed', SessionInv, InSession, Whole(received), UNCHANGED <<rest, fresh>>,
         NEW p, p = received[1].pkt, GoesOn(p), ui' = "dispatch" \/ ui' = After(rest),
         srv[sock].stage \in Steps
  PROVE  p.kind = SentLast(srv[sock].stage) /\ LockStep'
<1> DEFINE stage == srv[sock].stage
<1>1. Taken /\ UNCHANGED <<sock, srv, down>>
  BY LegibleDispatch
<1>2. /\ p.kind \in Coming
      /\ Pending \in Nat /\ Pending >= 2 /\ Pending' = Pending - 2
      /\ Coming' \subseteq Coming
  BY <1>1, SessionTaken
<1>3. ClientsTurn(stage) /\ (stage \in {"login", "key"} => ~srv[sock].keyed)
  <2>1. Pending # 0
    BY <1>2
  <2> QED BY <2>1 DEF SessionInv, LockStep, ServersTurn
<1>4. /\ up[sock] = <<>> /\ Pending <= 2 /\ Coming \subseteq {SentLast(stage)}
      /\ state = IF stage = "login" THEN 1 ELSE 2
      /\ encrypted <=> srv[sock].keyed
  BY <1>3 DEF ClientsTurn
<1>5. p.kind = SentLast(stage)
  BY <1>2, <1>4
<1>6. Pending' = 0
  BY <1>2, <1>4
<1>7. srv' = srv /\ sock' = sock /\ InSession' /\ Live(stage)
  BY <1>1 DEF InSession, Steps, Live
<1>8. CASE Quiet(p)
  <2>1. UNCHANGED <<up, state, encrypted>>
    BY <1>8 DEF Quiet
  <2>2. Pending' <= 2
    BY <1>6
  <2>3. ClientsTurn(stage)'
    BY <1>2, <1>4, <1>7, <2>1, <2>2 DEF ClientsTurn
  <2> QED BY <1>3, <1>5, <1>7, <2>3 DEF LockStep
<1>9. ASSUME NEW m, NEW room, Answers(p, m, room) PROVE LockStep'
  <2>1. /\ SendPacket(m, room) /\ <<state, p.kind, state', m>> \in Replies
        /\ m = "keyResponse" => ciphers' = NewKey /\ encrypted' = TRUE
        /\ m # "keyResponse" => UNCHANGED <<ciphers, encrypted>>
    BY <1>9 DEF Answers
  <2>2. m = Awaited(stage)
    BY <1>4, <1>5, <2>1 DEF Replies, Steps, SentLast, Awaited
  <2>3. state' = IF stage = "ready" THEN 3 ELSE 2
    BY <1>4, <1>5, <2>1 DEF Replies, Steps, SentLast
  <2>4. m = "keyResponse" <=> stage = "key"
    BY <2>2 DEF Steps, Awaited
  <2>5. encrypted' <=> srv[sock].keyed \/ stage = "key"
    BY <1>4, <2>1, <2>4
  <2>6. encrypted => ciphers' = sock
    BY <2>1 DEF SessionInv, Legible, NewKey, InSession
  <2>7. Asks(m)'
    BY <1>1, <1>4, <1>7, <2>1, <2>6, SessionSends
  <2>8. ServersTurn(stage)'
    BY <1>6, <1>7, <2>2, <2>3, <2>5, <2>7 DEF ServersTurn
  <2> QED BY <1>3, <1>5, <1>7, <2>8 DEF LockStep
<1> QED BY <1>5, <1>8, <1>9 DEF GoesOn

\* A packet that is handled and does not end the session.
LEMMA SessionDispatch ==
  ASSUME MixedInv, MixedInv', SessionInv, InSession, DispatchPacket, sock' # 0
  PROVE  SessionInv'
<1> DEFINE p == received[1].pkt
           stage == srv[sock].stage
<1>0. Typed /\ Typed' /\ state \in 1 .. 3
  BY DEF MixedInv, Typed, ClientTypes
<1>1. /\ Whole(received) /\ HandlePacket(p) /\ UNCHANGED <<rest, fresh>>
      /\ ui' = "dispatch" \/ ui' = After(rest)
  BY DEF DispatchPacket
<1>2. p \in Packet
  BY <1>0, <1>1, InHand
<1>3. GoesOn(p)
  <2> HIDE DEF p
  <2>1. Ends(p) \/ Quiet(p) \/ \E m, room : Answers(p, m, room)
    BY <1>0, <1>1, <1>2, Handled
  <2> QED BY <2>1 DEF Ends, SignOut, GoesOn
<1>4. /\ Legible' /\ KeyRequestAlone' /\ JoinedAtWork'
      /\ p.kind # "keyRequest" => UNCHANGED <<ciphers, encrypted>>
      /\ Taken /\ UNCHANGED <<sock, srv, down>>
  BY <1>0, <1>1, <1>3, LegibleDispatch
<1>5. /\ p.kind \in Coming
      /\ Pending \in Nat /\ Pending' \in Nat /\ Pending >= 2 /\ Pending' = Pending - 2
      /\ Coming' \subseteq Coming
  BY <1>0, <1>1, <1>4, SessionTaken
<1>6. Fewer
  BY <1>4, <1>5 DEF Fewer
<1>7. InSession' /\ srv' = srv /\ sock' = sock
  BY <1>1, <1>4 DEF InSession
<1>8. Alone' /\ SpeaksProtocol'
  BY <1>1, <1>7 DEF SessionInv, Alone, SpeaksProtocol, InSession
<1>9. stage \notin {"none", "connecting", "status"}
  <2>1. Pending # 0
    BY <1>5
  <2> QED BY <2>1 DEF SessionInv, Beginning
<1>10. Beginning'
  BY <1>7, <1>9 DEF Beginning
<1> HIDE DEF p
<1>11. CASE stage \in Steps
  <2>1. p.kind = SentLast(stage) /\ LockStep'
    BY <1>0, <1>1, <1>3, <1>11, LogInDispatch DEF p
  <2>2. p.kind \in {"status", "keyRequest", "allow", "success"}
    BY <1>11, <2>1 DEF Steps, SentLast
  <2>3. UNCHANGED roomVars
    BY <1>1, <1>2, <1>7, <2>2, RoomHandled DEF Enters, Meets, Loses, StaysAway, SignOut, InSession
  <2>4. QuietAtFirst'
    BY <1>7, <2>3 DEF SessionInv, QuietAtFirst, roomVars
  <2>5. AtWork' /\ IsOver'
    BY <1>7, <1>11 DEF AtWork, IsOver, Steps
  <2> QED BY <1>4, <1>8, <1>10, <2>1, <2>4, <2>5 DEF SessionInv
<1>12. CASE stage \notin Steps
  <2>1. stage \notin Early
    BY <1>9, <1>12 DEF Early, Steps
  <2>2. LockStep' /\ QuietAtFirst'
    BY <1>7, <1>12, <2>1 DEF LockStep, QuietAtFirst
  <2>3. IsOver'
    BY <1>4, <1>5, <1>7 DEF SessionInv, IsOver
  <2>4. CASE stage # "joined"
    <3>1. AtWork'
      BY <1>7, <2>4 DEF AtWork
    <3> QED BY <1>4, <1>8, <1>10, <2>2, <2>3, <3>1 DEF SessionInv
  <2>5. CASE stage = "joined"
    <3>1. state = 3 /\ p.kind # "keyRequest"
      BY <1>5, <2>5 DEF SessionInv, AtWork
    <3>2. CASE Quiet(p)
      <4>1. UNCHANGED <<sock, state, encrypted, srv, up, fresh>>
        BY <1>1, <1>7, <3>2 DEF Quiet
      <4> QED BY <1>6, <2>1, <4>1, FewerKeeps
    <3>3. ASSUME NEW m, NEW room, Answers(p, m, room) PROVE SessionInv'
      <4>1. m = "keepAlive" /\ state' = 3 /\ SendPacket(m, room)
        BY <3>1, <3>3 DEF Answers, Replies
      <4>2. UNCHANGED <<sock, state, encrypted, ciphers, srv, fresh>>
        BY <1>1, <1>4, <3>1, <4>1
      <4> QED BY <1>0, <1>6, <2>1, <4>1, <4>2, SpeaksUp
    <3> QED BY <1>3, <3>2, <3>3 DEF GoesOn
  <2> QED BY <2>4, <2>5
<1> QED BY <1>11, <1>12

\* The session has ended.
LEMMA SessionEnds ==
  ASSUME Typed, Alone, sock' = 0, fresh' = fresh, SignOut
  PROVE  SessionInv'
<1>1. ~InSession'
  BY DEF InSession
<1>2. Alone'
  <2>1. Blank("gone").stage = "gone"
    BY DEF Blank
  <2>2. \A s \in Sockets : srv'[s] = IF s = sock THEN Blank("gone") ELSE srv[s]
    BY DEF SignOut
  <2>3. received' = <<>> /\ ciphers' = 0
    BY DEF SignOut
  <2> QED BY <2>1, <2>2, <2>3 DEF Alone
<1> QED BY <1>1, <1>2 DEF SessionInv, Legible, KeyRequestAlone, JoinedAtWork, QuietAtFirst, Beginning,
          LockStep, AtWork, IsOver, SpeaksProtocol, InSession

\* What is under way after the server has sent a packet.
LEMMA SessionTold ==
  ASSUME Typed, InSession, NEW s \in Sockets, s = sock, NEW r, NEW k, NEW a, Told(s, r, k, a),
         UNCHANGED <<sock, received, rest>>
  PROVE  /\ Pending \in Nat /\ Pending' = Pending + 2
         /\ Pending = 0 => Coming = {}
         /\ Coming' = Coming \cup {k}
         /\ \A x \in Pieces(down'[s]) : x \in Pieces(down[s]) \/ x.key = IF r.keyed THEN s ELSE 0
<1> DEFINE P1 == PieceOf(s, r, k, a, 1)
           P2 == PieceOf(s, r, k, a, 2)
           w == <<P1, P2>>
<1>1. /\ received \in Seq(Fragment) /\ rest \in Seq(Fragment) /\ down[s] \in Seq(Fragment)
      /\ Len(received) \in Nat /\ Len(rest) \in Nat /\ Len(down[s]) \in Nat
  BY SessionTypes, Zenon DEF InSession
<1>2. P1 \in Fragment /\ P2 \in Fragment /\ down'[s] = down[s] \o w
      /\ Len(down'[s]) = Len(down[s]) + 2
  BY DEF Told
<1>3. /\ P1.pkt.kind = k /\ P2.pkt.kind = k
      /\ P1.key = (IF r.keyed THEN s ELSE 0) /\ P2.key = (IF r.keyed THEN s ELSE 0)
  BY DEF PieceOf
<1> HIDE DEF P1, P2
<1>4. w \in Seq(Fragment) /\ Pieces(w) = {P1, P2}
  BY <1>2, PiecesTwo
<1> HIDE DEF w
<1>5. Pieces(down'[s]) = Pieces(down[s]) \cup {P1, P2}
  BY <1>1, <1>2, <1>4, PiecesJoined
<1>6. Pending \in Nat /\ Pending' = Pending + 2
  <2> DEFINE b == Len(received)
             c == Len(rest)
             d == Len(down[s])
  <2>1. Pending = b + c + d /\ Pending' = b + c + (d + 2) /\ b \in Nat /\ c \in Nat /\ d \in Nat
    BY <1>1, <1>2, Zenon DEF Pending
  <2> HIDE DEF b, c, d
  <2> QED BY <2>1
<1>7. Pending = 0 => Coming = {}
  <2> DEFINE b == Len(received)
             c == Len(rest)
             d == Len(down[s])
  <2>1. Pending = b + c + d /\ b \in Nat /\ c \in Nat /\ d \in Nat
    BY <1>1, Zenon DEF Pending
  <2> HIDE DEF b, c, d
  <2>2. Pending = 0 => b = 0 /\ c = 0 /\ d = 0
    BY <2>1
  <2>3. Pending = 0 => received = <<>> /\ rest = <<>> /\ down[s] = <<>>
    BY <1>1, <2>2, EmptySeq DEF b, c, d
  <2> QED BY <2>3, PiecesEmpty DEF Coming
<1>8. Coming' = {x.pkt.kind : x \in Pieces(received) \cup Pieces(rest) \cup Pieces(down[s]) \cup {P1, P2}}
  BY <1>5 DEF Coming
<1>9. Coming' = Coming \cup {k}
  BY <1>3, <1>8 DEF Coming
<1> QED BY <1>3, <1>5, <1>6, <1>7, <1>9

\* A server that answers in a session.
LEMMA SessionTalks ==
  ASSUME Typed, SessionInv, InSession, NEW s \in Sockets, s = sock,
         NEW m, NEW r, NEW k, NEW a, Talks(s, m, r, k, a),
         UNCHANGED <<clientVars, loopVars, roomVars, histVars>>
  PROVE  SessionInv'
<1> DEFINE stage == srv[s].stage
           keyed == srv[s].keyed
<1>0. UNCHANGED <<sock, state, encrypted, ciphers, received, rest, ui, peers, posted, roomName, fresh>>
  BY DEF clientVars, loopVars, roomVars, histVars
<1>1. Told(s, r, k, a)
  BY TalksFacts
<1>2. /\ srv'[s].stage = r.stage /\ srv'[s].keyed = r.keyed
      /\ \A t \in Sockets \ {s} : srv'[t] = srv[t]
  BY <1>1 DEF Told
<1>3. /\ Pending \in Nat /\ Pending' = Pending + 2
      /\ Pending = 0 => Coming = {}
      /\ Coming' = Coming \cup {k}
      /\ \A x \in Pieces(down'[s]) : x \in Pieces(down[s]) \/ x.key = IF r.keyed THEN s ELSE 0
  BY <1>0, <1>1, SessionTold
<1>4. /\ <<stage, m, r.stage, k>> \in Script
      /\ r.keyed = (keyed \/ stage = "key")
  BY DEF Talks
<1>5. keyed \in BOOLEAN /\ r.keyed \in BOOLEAN /\ encrypted \in BOOLEAN
  <2>1. srv[s] \in Server /\ r \in Server
    BY DEF Typed, NetTypes, Talks
  <2>2. encrypted \in BOOLEAN
    BY DEF Typed, ClientTypes
  <2> QED BY <2>1, <2>2 DEF Server
<1>6. /\ up[s] \in Seq(Message)
      /\ m # "-" => up[s] # <<>> /\ up'[s] = Tail(up[s])
      /\ m = "-" => up'[s] = up[s] \/ (up[s] # <<>> /\ up'[s] = Tail(up[s]))
  <2>1. up \in [Sockets -> Seq(Message)]
    BY DEF Typed, NetTypes
  <2> QED BY <2>1 DEF Talks
<1>7. Pieces(up'[s]) \subseteq Pieces(up[s])
  BY <1>6, PiecesTail
<1>8. \A c : Asks(c) /\ m # "-" => up'[s] = <<>>
  <2>1. m # "-" => Tail(up[s]) \in Seq(Message) /\ Len(Tail(up[s])) = Len(up[s]) - 1
    BY <1>6, TailFacts
  <2>2. m # "-" /\ Len(up[s]) = 1 => Tail(up[s]) = <<>>
    <3>1. m # "-" /\ Len(up[s]) = 1 => Len(Tail(up[s])) = 0
      BY <2>1
    <3> QED BY <2>1, <3>1, EmptySeq
  <2> QED BY <1>6, <2>2 DEF Asks
<1>9. /\ Alone /\ Legible /\ KeyRequestAlone /\ JoinedAtWork /\ QuietAtFirst
      /\ Beginning /\ LockStep /\ AtWork /\ IsOver
  BY DEF SessionInv
<1>10. stage \in {"status", "login", "key", "info", "ready"}
       => /\ m # "-" /\ Pending = 0 /\ Pending' = 2 /\ Coming = {} /\ Coming' = {k} /\ up'[s] = <<>>
          /\ encrypted <=> r.keyed
          /\ state = CASE stage = "status" -> 1 [] stage = "ready" -> 3 [] OTHER -> 2
          /\ stage = "status" => ~keyed
          /\ stage = "login" => ~keyed
  <2>1. CASE stage = "status"
    <3>1. Pending = 0 /\ state = 1 /\ ~encrypted /\ ~keyed /\ Asks("statusRequest")
      BY <1>9, <2>1 DEF Beginning
    <3>2. m # "-"
      BY <1>4, <2>1 DEF Script
    <3>3. Pending' = 2
      BY <1>3, <3>1
    <3> QED BY <1>3, <1>4, <1>5, <1>8, <2>1, <3>1, <3>2, <3>3
  <2>2. CASE stage \in Steps
    <3>1. m # "-"
      BY <1>4, <2>2 DEF Script, Steps
    <3>2. ServersTurn(stage) /\ (stage = "login" => ~keyed)
      BY <1>6, <1>9, <2>2, <3>1 DEF LockStep, ClientsTurn
    <3>3. /\ Asks(Awaited(stage)) /\ Pending = 0
          /\ state = IF stage = "ready" THEN 3 ELSE 2
          /\ encrypted <=> keyed \/ stage = "key"
      BY <3>2 DEF ServersTurn
    <3>4. Pending' = 2
      BY <1>3, <3>3
    <3>5. encrypted <=> r.keyed
      BY <1>4, <1>5, <3>3
    <3>6. state = CASE stage = "status" -> 1 [] stage = "ready" -> 3 [] OTHER -> 2
      BY <2>2, <3>3 DEF Steps
    <3>7. stage # "status"
      BY <2>2 DEF Steps
    <3> QED BY <1>3, <1>8, <3>1, <3>2, <3>3, <3>4, <3>5, <3>6, <3>7
  <2> QED BY <2>1, <2>2 DEF Steps
<1>11. stage = "joined"
       => /\ state = 3 /\ (encrypted <=> r.keyed)
          /\ Coming \subseteq {"joined", "publisher", "offline", "keepAlive", "future", "left"}
          /\ \A x \in Pieces(up'[s]) : /\ x.kind \in {"message", "keepAlive", "leave"}
                                       /\ x.key = ServerKeyInUse
          /\ r.keyed = keyed
  BY <1>4, <1>5, <1>7, <1>9 DEF AtWork
<1>12. stage = "over" => (encrypted <=> r.keyed) /\ "keyRequest" \notin Coming
  BY <1>4, <1>5, <1>9 DEF IsOver
<1>13. stage \in {"status", "login", "key", "info", "ready", "joined", "over"}
  BY <1>4 DEF Script
<1>14. encrypted <=> r.keyed
  BY <1>10, <1>11, <1>12, <1>13
<1>15. InSession' /\ sock' = s /\ ServerKeyInUse' = IF r.keyed THEN s ELSE 0
  BY <1>0, <1>2 DEF InSession, ServerKeyInUse
<1>16. Legible'
  <2>1. /\ encrypted => ciphers = sock
        /\ rest # <<>> \/ ui = "decrypt" => encrypted
        /\ \A x \in Pieces(received) : x.from = sock
        /\ \A x \in Pieces(rest) : x.from = sock /\ x.key = KeyInUse
        /\ \A x \in Pieces(down[sock]) : x.key = KeyInUse
    BY <1>9 DEF Legible
  <2>2. KeyInUse' = KeyInUse /\ KeyInUse = IF r.keyed THEN s ELSE 0
    BY <1>0, <1>14 DEF KeyInUse
  <2> QED BY <1>0, <1>3, <2>1, <2>2 DEF Legible
<1>17. Alone'
  BY <1>0, <1>2, <1>9 DEF Alone, InSession
<1>18. KeyRequestAlone'
  <2>1. k = "keyRequest" => stage = "login"
    BY <1>4 DEF Script
  <2>2. "keyRequest" \in Coming' => Pending' = 2
    BY <1>3, <1>10, <1>11, <1>12, <1>13, <2>1
  <2>3. 2 <= 2
    OBVIOUS
  <2> QED BY <2>2, <2>3 DEF KeyRequestAlone
<1>19. JoinedAtWork'
  <2>1. k = "joined" => stage = "ready"
    BY <1>4 DEF Script
  <2>2. k = "joined" => state = 3
    BY <1>10, <2>1
  <2> QED BY <1>0, <1>3, <1>9, <2>2 DEF JoinedAtWork
<1>20. QuietAtFirst'
  <2>1. r.stage \in Early => stage \in Early
    BY <1>4 DEF Script, Early
  <2> QED BY <1>0, <1>2, <1>9, <1>15, <2>1 DEF QuietAtFirst
<1>21. Beginning' /\ SpeaksProtocol'
  <2>1. r.stage \notin {"none", "connecting", "status", "confused"}
    BY <1>4 DEF Script
  <2> QED BY <1>2, <1>15, <2>1 DEF Beginning, SpeaksProtocol
<1>22. LockStep'
  <2> SUFFICES ASSUME r.stage \in Steps PROVE LockStep'
    BY <1>2, <1>15 DEF LockStep
  <2>1. /\ stage \in {"status", "login", "key", "info"} /\ k = SentLast(r.stage)
        /\ r.stage = "login" <=> stage = "status"
        /\ r.stage = "key" => stage = "login"
    BY <1>4 DEF Script, Steps, SentLast
  <2>2. /\ up'[s] = <<>> /\ Pending' = 2 /\ Coming' = {k}
        /\ state = IF r.stage = "login" THEN 1 ELSE 2
    BY <1>10, <2>1
  <2>3. r.stage \in {"login", "key"} => ~r.keyed
    BY <1>4, <1>10, <2>1
  <2>4. Pending' <= 2
    BY <2>2
  <2>5. ClientsTurn(r.stage)'
    BY <1>0, <1>2, <1>14, <1>15, <2>1, <2>2, <2>4 DEF ClientsTurn
  <2> QED BY <1>2, <1>15, <2>3, <2>5 DEF LockStep
<1>23. AtWork'
  <2> SUFFICES ASSUME r.stage = "joined" PROVE AtWork'
    BY <1>2, <1>15 DEF AtWork
  <2>1. stage \in {"ready", "joined"}
        /\ k \in {"joined", "publisher", "offline", "keepAlive", "future", "left"}
    BY <1>4 DEF Script
  <2>2. state = 3 /\ Coming' \subseteq {"joined", "publisher", "offline", "keepAlive", "future", "left"}
    BY <1>3, <1>10, <1>11, <2>1
  <2>3. \A x \in Pieces(up'[s]) : /\ x.kind \in {"message", "keepAlive", "leave"}
                                  /\ x.key = IF r.keyed THEN s ELSE 0
    <3>1. CASE stage = "ready"
      BY <1>10, <3>1, PiecesEmpty
    <3>2. CASE stage = "joined"
      BY <1>11, <3>2 DEF ServerKeyInUse
    <3> QED BY <2>1, <3>1, <3>2
  <2> QED BY <1>0, <1>2, <1>14, <1>15, <2>2, <2>3 DEF AtWork
<1>24. IsOver'
  <2> SUFFICES ASSUME r.stage = "over" PROVE IsOver'
    BY <1>2, <1>15 DEF IsOver
  <2>1. k # "keyRequest" /\ stage # "login"
    BY <1>4 DEF Script
  <2>2. "keyRequest" \notin Coming'
    BY <1>3, <1>10, <1>11, <1>12, <1>13, <2>1
  <2> QED BY <1>0, <1>2, <1>14, <1>15, <2>2 DEF IsOver
<1> QED BY <1>16, <1>17, <1>18, <1>19, <1>20, <1>21, <1>22, <1>23, <1>24 DEF SessionInv

\* Nothing is read, taken or sent.
LEMMA SameStreams ==
  ASSUME Typed, Typed', InSession, Legible, UNCHANGED <<sock, encrypted, ciphers, received, rest, ui, fresh>>,
         NEW s, s = sock, down'[s] = down[s] \/ down'[s] = <<>>
  PROVE  Fewer
<1>1. Pieces(<<>>) = {} /\ Len(<<>>) = 0
  BY PiecesEmpty
<1>2. Pieces(down'[s]) \subseteq Pieces(down[s])
  BY <1>1
<1>3. Len(received) \in Nat /\ Len(rest) \in Nat /\ Len(down[s]) \in Nat
  BY SessionTypes, Zenon DEF InSession
<1>4. Len(received') + Len(rest') + Len(down'[s]) <= Len(received) + Len(rest) + Len(down[s])
  <2> DEFINE a == Len(received)
             b == Len(rest)
             c == Len(down[s])
             d == Len(down'[s])
  <2>1. (d = c \/ d = 0) /\ a \in Nat /\ b \in Nat /\ c \in Nat
    BY <1>1, <1>3
  <2>2. Len(received') = a /\ Len(rest') = b
    OBVIOUS
  <2> HIDE DEF a, b, c, d
  <2>3. a + b + d <= a + b + c
    BY <2>1
  <2> QED BY <2>2, <2>3 DEF a, b, c, d
<1>5. KeyInUse' = KeyInUse
  BY DEF KeyInUse
<1>6. Legible'
  BY <1>2, <1>5 DEF Legible, InSession
<1> QED BY <1>2, <1>4, <1>6, FewerParts

\* The connection is closed, by the server or for the client.
LEMMA SessionAway ==
  ASSUME SessionInv, InSession, Fewer, UNCHANGED <<sock, state, fresh>>,
         srv'[sock].stage \in {"closed", "gone"},
         \A t \in Sockets \ {sock} : srv'[t] = srv[t]
  PROVE  SessionInv'
<1>1. InSession' /\ srv'[sock'].stage \in {"closed", "gone"}
  BY DEF InSession
<1>2. Coming' \subseteq Coming /\ Legible' /\ (Pending <= 2 => Pending' <= 2)
  BY DEF Fewer
<1>3. KeyRequestAlone' /\ JoinedAtWork'
  BY <1>1, <1>2 DEF SessionInv, KeyRequestAlone, JoinedAtWork
<1>4. Alone'
  BY <1>1 DEF SessionInv, Alone, InSession
<1>5. QuietAtFirst' /\ Beginning' /\ LockStep' /\ AtWork' /\ IsOver' /\ SpeaksProtocol'
  BY <1>1 DEF QuietAtFirst, Beginning, LockStep, AtWork, IsOver, SpeaksProtocol, Early, Steps
<1> QED BY <1>2, <1>3, <1>4, <1>5 DEF SessionInv

\* A server that takes something in a session does not answer or closes the connection: there
\* is nothing it cannot read or does not expect.
LEMMA SessionListens ==
  ASSUME Typed, Typed', SessionInv, InSession, NEW s \in Sockets, s = sock, Listens(s),
         UNCHANGED <<clientVars, loopVars, roomVars, histVars>>
  PROVE  SessionInv'
<1> DEFINE stage == srv[s].stage
<1>0. UNCHANGED <<sock, state, encrypted, ciphers, received, rest, ui, peers, posted, roomName, fresh>>
  BY DEF clientVars, loopVars, roomVars, histVars
<1>1. /\ down' = down
      /\ \A t \in Sockets \ {s} : srv'[t] = srv[t]
      /\ \/ /\ up[s] # <<>> /\ up'[s] = Tail(up[s]) /\ srv'[s] = srv[s]
            /\ stage \in {"joined", "over", "confused"}
         \/ /\ up[s] # <<>> /\ stage \in {"status", "login", "key", "info", "ready", "joined"}
            /\ ~Readable(s, Head(up[s])) \/ Head(up[s]).kind \notin Expected(stage)
         \/ srv'[s] = Blank("closed")
  BY ListensFacts
<1>2. /\ Alone /\ Legible /\ KeyRequestAlone /\ JoinedAtWork /\ QuietAtFirst
      /\ Beginning /\ LockStep /\ AtWork /\ IsOver /\ SpeaksProtocol
  BY DEF SessionInv
<1>3. Fewer
  BY <1>0, <1>1, <1>2, SameStreams
<1>4. up[s] \in Seq(Message)
  BY DEF Typed, NetTypes
<1>5. up[s] # <<>> => /\ Head(up[s]) = up[s][1] /\ Head(up[s]) \in Pieces(up[s])
                      /\ Pieces(Tail(up[s])) \subseteq Pieces(up[s])
  BY <1>4, TailFacts, PiecesTail
<1>6. CASE srv'[s] = Blank("closed")
  <2>1. Blank("closed").stage = "closed"
    BY DEF Blank
  <2>2. srv'[s].stage = "closed"
    BY <1>6, <2>1, Zenon
  <2> QED BY <1>0, <1>1, <1>3, <2>2, SessionAway
<1>7. ASSUME up[s] # <<>>, stage \in {"status", "login", "key", "info", "ready", "joined"}
      PROVE  Readable(s, Head(up[s])) /\ Head(up[s]).kind \in Expected(stage)
  <2>1. CASE stage = "status"
    <3>1. Asks("statusRequest")
      BY <1>2, <2>1 DEF Beginning
    <3> QED BY <1>5, <1>7, <2>1, <3>1 DEF Asks, ServerKeyInUse, Readable, Expected
  <2>2. CASE stage \in Steps
    <3>1. Asks(Awaited(stage))
      BY <1>2, <1>7, <2>2 DEF LockStep, ClientsTurn, ServersTurn
    <3>2. Head(up[s]).kind = Awaited(stage) /\ Readable(s, Head(up[s]))
      BY <1>5, <1>7, <3>1 DEF Asks, ServerKeyInUse, Readable
    <3> QED BY <2>2, <3>2 DEF Steps, Awaited, Expected
  <2>3. CASE stage = "joined"
    BY <1>2, <1>5, <1>7, <2>3 DEF AtWork, ServerKeyInUse, Readable, Expected
  <2> QED BY <1>7, <2>1, <2>2, <2>3 DEF Steps
<1>8. CASE /\ up[s] # <<>> /\ up'[s] = Tail(up[s]) /\ srv'[s] = srv[s]
           /\ stage \in {"joined", "over", "confused"}
  <2>1. InSession' /\ srv'[sock'] = srv[s] /\ Coming' \subseteq Coming /\ Legible'
        /\ (Pending <= 2 => Pending' <= 2)
    BY <1>0, <1>3, <1>8 DEF InSession, Fewer
  <2>2. ServerKeyInUse' = ServerKeyInUse /\ Pieces(up'[s]) \subseteq Pieces(up[s])
    BY <1>0, <1>5, <1>8 DEF ServerKeyInUse
  <2>3. Alone'
    BY <1>0, <1>1, <1>2 DEF Alone, InSession
  <2>4. KeyRequestAlone' /\ JoinedAtWork' /\ IsOver' /\ SpeaksProtocol'
    BY <1>0, <1>2, <2>1 DEF KeyRequestAlone, JoinedAtWork, IsOver, SpeaksProtocol, InSession
  <2>5. QuietAtFirst' /\ Beginning' /\ LockStep'
    BY <1>8, <2>1 DEF QuietAtFirst, Beginning, LockStep, Early, Steps
  <2>6. AtWork'
    BY <1>0, <1>2, <2>1, <2>2 DEF AtWork
  <2> QED BY <2>1, <2>3, <2>4, <2>5, <2>6 DEF SessionInv
<1> QED BY <1>1, <1>6, <1>7, <1>8

\* A session begins in the initial state.
LEMMA SessionBegins ==
  ASSUME MixedInv, NEW room, NEW resolved, JoinChannel(room, resolved)
  PROVE  SessionInv'
<1>0. Typed /\ Silent /\ LoopKnows
  BY DEF MixedInv
<1>1. /\ ui = "idle" /\ opened < MaxSockets /\ sock' = opened + 1 /\ fresh' = Pristine
      /\ srv' = srv \/ srv' = [srv EXCEPT ![opened + 1] = Blank("connecting")]
      /\ UNCHANGED <<state, encrypted, ciphers, received, rest, ui, peers, posted, roomName, down, up>>
  BY DEF JoinChannel, loopVars, roomVars
<1> DEFINE s == opened + 1
<1>2. s \in Sockets /\ s > opened /\ s # 0
  <2>1. opened \in Nat /\ MaxSockets \in Nat /\ Sockets = 1 .. MaxSockets
    BY <1>0, Sizes, Numbers
  <2> QED BY <1>1, <2>1
<1>3. srv[s].stage = "none" /\ up[s] = <<>> /\ down[s] = <<>>
  BY <1>0, <1>2 DEF Silent, SilentAt, Live
<1>4. srv \in [Sockets -> Server]
  BY <1>0 DEF Typed, NetTypes
<1>5. CASE ~Pristine
  <2>1. ~fresh'
    BY <1>1, <1>5
  <2> QED BY <2>1 DEF SessionInv, Alone, Legible, KeyRequestAlone, JoinedAtWork, QuietAtFirst, Beginning,
          LockStep, AtWork, IsOver, SpeaksProtocol, InSession
<1>6. CASE Pristine
  <2>1. /\ state = 1 /\ ~encrypted /\ received = <<>> /\ peers = {} /\ posted = <<>>
        /\ \A t \in Sockets : srv[t].stage \in {"none", "gone"}
        /\ rest = <<>>
    BY <1>0, <1>1, <1>6 DEF Pristine, LoopKnows
  <2>2. roomName = ""
    BY <1>6 DEF Pristine
  <2> HIDE DEF s
  <2>3. /\ sock' = s /\ received' = <<>> /\ rest' = <<>> /\ down'[s] = <<>> /\ ~encrypted' /\ state' = 1
        /\ ui' = "idle"
    BY <1>1, <1>3, <2>1 DEF s
  <2>4. Pending' = 0 /\ Coming' = {}
    <3>1. Len(<<>>) = 0 /\ Pieces(<<>>) = {}
      BY PiecesEmpty
    <3>2. Pending' = 0 + 0 + 0
      BY <2>3, <3>1 DEF Pending
    <3>3. Coming' = {}
      BY <2>3, <3>1 DEF Coming
    <3> QED BY <3>2, <3>3
  <2>5. /\ srv'[s].stage = "none" \/ srv'[s] = Blank("connecting")
        /\ \A t \in Sockets \ {s} : srv'[t] = srv[t]
    BY <1>1, <1>2, <1>3, <1>4 DEF s
  <2>6. srv'[s].stage \in {"none", "connecting"}
    <3>1. Blank("connecting").stage = "connecting"
      BY DEF Blank
    <3> QED BY <2>5, <3>1, Zenon
  <2>7. Alone'
    BY <1>2, <2>1, <2>3, <2>5 DEF Alone
  <2>8. Legible' /\ KeyRequestAlone' /\ JoinedAtWork'
    BY <2>3, <2>4, PiecesEmpty DEF Legible, KeyRequestAlone, JoinedAtWork
  <2>9. QuietAtFirst'
    BY <1>1, <2>1, <2>2 DEF QuietAtFirst
  <2>10. LockStep' /\ AtWork' /\ IsOver' /\ SpeaksProtocol'
    BY <2>3, <2>6 DEF LockStep, AtWork, IsOver, SpeaksProtocol, Steps
  <2>11. Beginning'
    BY <2>3, <2>4, <2>6 DEF Beginning
  <2> QED BY <2>7, <2>8, <2>9, <2>10, <2>11 DEF SessionInv
<1> QED BY <1>5, <1>6

\* The connection is made.
LEMMA SessionConnects ==
  ASSUME Typed, Typed', Silent, SessionInv, InSession, NEW s \in Sockets, s = sock, OnConnect(s)
  PROVE  SessionInv'
<1>1. /\ srv[s].stage = "connecting" /\ srv' = [srv EXCEPT ![s] = Blank("status")]
      /\ UNCHANGED <<sock, state, encrypted, ciphers, received, rest, ui, peers, posted, roomName, fresh, down>>
      /\ SendPacket("statusRequest", "")
  BY DEF OnConnect, loopVars, roomVars, histVars
<1>2. srv \in [Sockets -> Server] /\ up \in [Sockets -> Seq(Message)]
  BY DEF Typed, NetTypes
<1>3. srv'[s].stage = "status" /\ ~srv'[s].keyed
  BY <1>1, <1>2 DEF Blank
<1>4. /\ Alone /\ Legible /\ KeyRequestAlone /\ JoinedAtWork /\ QuietAtFirst /\ Beginning
  BY DEF SessionInv
<1>5. Fewer
  BY <1>1, <1>4, SameStreams
<1>6. Pending = 0 /\ state = 1 /\ ~encrypted
  BY <1>1, <1>4 DEF Beginning
<1>7. Pending' = 0 /\ Coming' \subseteq Coming /\ Legible' /\ (Pending <= 2 => Pending' <= 2)
  BY <1>5, <1>6 DEF Fewer
<1>8. InSession' /\ srv'[sock'].stage = "status" /\ ~srv'[sock'].keyed
  BY <1>1, <1>3 DEF InSession
<1>9. Asks("statusRequest")'
  <2>1. up[s] = <<>>
    BY <1>1 DEF Silent, SilentAt, Live
  <2>2. Live(srv'[s].stage) /\ (encrypted <=> srv'[s].keyed) /\ (encrypted => ciphers' = sock)
    BY <1>3, <1>6 DEF Live
  <2> QED BY <1>1, <2>1, <2>2, SessionSends
<1>10. Beginning'
  BY <1>1, <1>6, <1>7, <1>8, <1>9 DEF Beginning
<1>11. Alone'
  BY <1>1, <1>2, <1>4 DEF Alone, InSession
<1>12. KeyRequestAlone' /\ JoinedAtWork'
  BY <1>1, <1>4, <1>7 DEF KeyRequestAlone, JoinedAtWork, InSession
<1>13. QuietAtFirst'
  <2>1. peers = {} /\ posted = <<>> /\ roomName = ""
    BY <1>1, <1>4 DEF QuietAtFirst, Early
  <2> QED BY <1>1, <2>1 DEF QuietAtFirst
<1>14. LockStep' /\ AtWork' /\ IsOver' /\ SpeaksProtocol'
  BY <1>8 DEF LockStep, AtWork, IsOver, SpeaksProtocol, Steps
<1> QED BY <1>7, <1>10, <1>11, <1>12, <1>13, <1>14 DEF SessionInv

\* The other window messages in a session.
LEMMA SessionWindow ==
  ASSUME MixedInv, MixedInv', SessionInv, InSession, WindowMessage,
         ~(\E s \in Sockets : \E k \in 1 .. Len(down[s]) : OnRead(s, k))
  PROVE  SessionInv'
<1>0. Typed /\ Typed' /\ Silent /\ Alone /\ Legible /\ fresh /\ QuietAtFirst
  BY DEF MixedInv, SessionInv, InSession
<1>1. ASSUME UNCHANGED <<sock, encrypted, ciphers, received, rest, ui, fresh, down>> PROVE Fewer
  <2>1. ASSUME NEW s, s = sock PROVE Fewer
    BY <1>0, <1>1, <2>1, SameStreams
  <2> QED BY <2>1
<1>2. ASSUME NEW room \in Rooms, JoinChannelConnected(room) PROVE SessionInv'
  <2>1. UNCHANGED <<sock, state, encrypted, ciphers, received, rest, ui, srv, down, up, fresh, peers, posted, roomName>>
    BY <1>2 DEF JoinChannelConnected, loopVars, roomVars, histVars
  <2> QED BY <1>1, <2>1, FewerKeeps
<1>3. ASSUME NEW room \in Rooms, NEW resolved \in BOOLEAN, JoinChannel(room, resolved) PROVE SessionInv'
  BY <1>3, SessionBegins
<1>4. CASE LeaveChannel
  <2>1. /\ UNCHANGED <<sock, state, encrypted, ciphers, received, rest, ui, srv, down, fresh>>
        /\ roomName # "" /\ SendPacket("leave", roomName)
    BY <1>4 DEF LeaveChannel, clientVars, loopVars, histVars
  <2>2. srv[sock].stage \notin Early
    BY <1>0, <2>1 DEF QuietAtFirst
  <2> QED BY <1>0, <1>1, <2>1, <2>2, SpeaksUp
<1>5. ASSUME NEW s \in Sockets, OnConnect(s) PROVE SessionInv'
  <2>1. s = sock
    BY <1>0, <1>5, OnlySocket
  <2> QED BY <1>0, <1>5, <2>1, SessionConnects
<1>6. ASSUME NEW s \in Sockets, OnClose(s) \/ OnNetworkError(s) PROVE SessionInv'
  <2>1. s = sock
    BY <1>0, <1>6, OnlySocket
  <2>2. /\ srv' = [srv EXCEPT ![s] = Blank("gone")]
        /\ down' = down \/ down' = [down EXCEPT ![s] = <<>>]
        /\ UNCHANGED <<sock, state, encrypted, ciphers, received, rest, ui, fresh>>
    BY <1>6 DEF OnClose, OnNetworkError, clientVars, loopVars, histVars
  <2>3. srv \in [Sockets -> Server] /\ down \in [Sockets -> Seq(Fragment)]
    BY <1>0 DEF Typed, NetTypes
  <2>4. down'[s] = down[s] \/ down'[s] = <<>>
    BY <2>2, <2>3
  <2>5. Fewer
    BY <1>0, <2>1, <2>2, <2>4, SameStreams
  <2>6. srv'[s].stage = "gone" /\ \A t \in Sockets \ {s} : srv'[t] = srv[t]
    BY <2>2, <2>3 DEF Blank
  <2> QED BY <2>1, <2>2, <2>5, <2>6, SessionAway
<1>7. ASSUME NEW id \in Own \cup Members, PeerCallback(id) PROVE SessionInv'
  <2>1. UNCHANGED <<sock, state, encrypted, ciphers, received, rest, ui, srv, down, up, fresh>> /\ id \in peers
    BY <1>7 DEF PeerCallback, clientVars, loopVars, histVars
  <2>2. srv[sock].stage \notin Early
    BY <1>0, <2>1 DEF QuietAtFirst
  <2> QED BY <1>1, <2>1, <2>2, FewerKeeps
<1>8. CASE UIThreadCallback
  <2>1. /\ UNCHANGED <<sock, state, encrypted, ciphers, received, rest, ui, srv, down, fresh>>
        /\ posted # <<>> /\ (SendPacket("message", channel) \/ up' = up)
    BY <1>8 DEF UIThreadCallback, clientVars, loopVars, histVars
  <2>2. srv[sock].stage \notin Early
    BY <1>0, <2>1 DEF QuietAtFirst
  <2> QED BY <1>0, <1>1, <2>1, <2>2, SpeaksUp, FewerKeeps
<1>9. CASE OnFinalMessage
  <2>1. SignOut /\ sock' = 0 /\ fresh' = fresh
    BY <1>9 DEF OnFinalMessage, SignOut, histVars
  <2> QED BY <1>0, <2>1, SessionEnds
<1> QED BY <1>2, <1>3, <1>4, <1>5, <1>6, <1>7, <1>8, <1>9 DEF WindowMessage

\* A connection is only begun by the user.
LEMMA OnlyJoinBegins ==
  ASSUME Typed, [Next]_vars
  PROVE  \/ \E room \in Rooms, resolved \in BOOLEAN : JoinChannel(room, resolved)
         \/ fresh' = fresh /\ (full' = full \/ full' = TRUE)
<1>1. CASE ReceiveStep
  BY <1>1 DEF ReceiveStep, DecryptBlock, DispatchPacket, DispatchEnds, DispatchTorn, AddReceivedData,
              histVars
<1>2. CASE WindowMessage
  BY <1>2 DEF WindowMessage, JoinChannelConnected, LeaveChannel, OnConnect, OnClose, OnNetworkError,
              OnRead, AddReceivedData, PeerCallback, UIThreadCallback, OnFinalMessage, histVars
<1>3. CASE \E s \in Sockets : ServerStep(s)
  BY <1>3, ServerSays DEF histVars
<1>4. CASE UNCHANGED vars
  BY <1>4 DEF vars, histVars
<1> QED BY <1>1, <1>2, <1>3, <1>4 DEF Next, Terminated

\* Without a session there is nothing to read, to handle or to hear.
LEMMA NoSession ==
  ASSUME MixedInv, SessionInv, ~InSession, [Next]_vars
  PROVE  \/ \E room \in Rooms, resolved \in BOOLEAN : JoinChannel(room, resolved)
         \/ SignOut /\ fresh' = fresh
         \/ ~InSession' /\ Alone'
<1>0. Typed /\ Silent /\ Alone
  BY DEF MixedInv, SessionInv
<1>1. CASE ~fresh
  <2>1. fresh' = fresh \/ \E room \in Rooms, resolved \in BOOLEAN : JoinChannel(room, resolved)
    BY <1>0, OnlyJoinBegins
  <2>2. ~fresh' => ~InSession' /\ Alone'
    BY DEF InSession, Alone
  <2> QED BY <1>1, <2>1, <2>2
<1>2. CASE fresh
  <2>1. sock = 0 /\ received = <<>> /\ ciphers = 0
    BY <1>0, <1>2 DEF InSession, Alone
  <2>2. sock \notin Sockets
    BY <2>1, Sizes
  <2>3. ASSUME NEW s \in Sockets
        PROVE  /\ ~ServerStep(s) /\ ~OnConnect(s) /\ ~OnClose(s) /\ ~OnNetworkError(s)
               /\ ~\E k \in 1 .. Len(down[s]) : OnRead(s, k)
    BY <1>0, <1>2, <2>2, OnlySocket
  <2>4. ~Whole(received) /\ ~Torn(received)
    <3>1. Len(received) = 0
      BY <2>1
    <3> QED BY <2>1, <3>1 DEF Whole, Torn
  <2>5. UNCHANGED <<sock, srv, received, ciphers, fresh>> => ~InSession' /\ Alone'
    BY <1>0, <1>2, <2>1 DEF InSession, Alone
  <2>6. CASE ReceiveStep
    <3>1. DecryptBlock \/ DispatchEnds
      BY <2>4, <2>6 DEF ReceiveStep, DispatchPacket, DispatchTorn
    <3> QED BY <2>1, <2>5, <3>1 DEF DecryptBlock, DispatchEnds, clientVars, histVars
  <2>7. CASE WindowMessage
    BY <2>3, <2>5, <2>7 DEF WindowMessage, JoinChannelConnected, LeaveChannel,
                PeerCallback, UIThreadCallback, OnFinalMessage, clientVars, histVars
  <2>8. CASE UNCHANGED vars
    BY <2>5, <2>8 DEF vars, clientVars, histVars
  <2> QED BY <2>3, <2>6, <2>7, <2>8 DEF Next, Terminated
<1> QED BY <1>1, <1>2, <1>0 DEF Typed, LoopTypes

\* Every step keeps the session in order.
LEMMA SessionNext ==
  ASSUME MixedInv, SessionInv, [Next]_vars
  PROVE  SessionInv'
<1>0. Typed /\ Typed' /\ Silent /\ Alone /\ Legible /\ MixedInv'
  BY MixedNext DEF MixedInv, SessionInv
<1>1. CASE ~InSession
  <2>1. ~InSession' /\ Alone' => SessionInv'
    BY DEF SessionInv, Legible, KeyRequestAlone, JoinedAtWork, QuietAtFirst, Beginning,
           LockStep, AtWork, IsOver, SpeaksProtocol, InSession
  <2>2. SignOut /\ fresh' = fresh => SessionInv'
    BY <1>0, SessionEnds DEF SignOut
  <2>3. (\E room \in Rooms, resolved \in BOOLEAN : JoinChannel(room, resolved)) => SessionInv'
    BY SessionBegins
  <2> QED BY <1>1, <2>1, <2>2, <2>3, NoSession
<1>2. CASE InSession
  <2>0. fresh /\ sock # 0
    BY <1>2 DEF InSession
  <2>1. CASE DispatchPacket
    <3>1. CASE sock' # 0
      BY <1>0, <1>2, <2>1, <3>1, SessionDispatch
    <3>2. CASE sock' = 0
      <4> DEFINE p == received[1].pkt
      <4>1. HandlePacket(p) /\ Whole(received) /\ fresh' = fresh
        BY <2>1 DEF DispatchPacket
      <4>2. p \in Packet /\ state \in 1 .. 3
        BY <1>0, <4>1, InHand DEF Typed, ClientTypes
      <4> HIDE DEF p
      <4>3. SignOut
        BY <2>0, <3>2, <4>1, <4>2, Handled DEF Ends, Quiet, Answers, Keeps
      <4> QED BY <1>0, <3>2, <4>1, <4>3, SessionEnds
    <3> QED BY <3>1, <3>2
  <2>2. CASE ReceiveStep /\ ~DispatchPacket
    BY <1>0, <1>2, <2>2, SessionLoop DEF ReceiveStep
  <2>3. CASE WindowMessage
    BY <1>0, <1>2, <2>3, SessionLoop, SessionWindow
  <2>4. ASSUME NEW s \in Sockets, ServerStep(s) PROVE SessionInv'
    <3>1. s = sock
      BY <1>0, <2>0, <2>4, OnlySocket
    <3> QED BY <1>0, <1>2, <2>4, <3>1, ServerSays, SessionListens, SessionTalks
  <2>5. CASE UNCHANGED vars
    <3>1. UNCHANGED <<sock, state, encrypted, ciphers, received, rest, ui, srv, down, up, fresh, peers, posted,
                      roomName>>
      BY <2>5 DEF vars, clientVars, loopVars, roomVars, histVars
    <3>2. ASSUME NEW s, s = sock PROVE Fewer
      BY <1>0, <1>2, <3>1, <3>2, SameStreams
    <3>3. Fewer
      BY <3>2
    <3> QED BY <1>2, <3>1, <3>3, FewerKeeps
  <2> QED BY <2>1, <2>2, <2>3, <2>4, <2>5 DEF Next, Terminated
<1> QED BY <1>1, <1>2

\* It is in order at first.
LEMMA SessionInit == Init => SessionInv
  BY DEF Init, SessionInv, Alone, Legible, KeyRequestAlone, JoinedAtWork, QuietAtFirst, Beginning,
         LockStep, AtWork, IsOver, SpeaksProtocol, InSession

\* A client that begins a connection in its initial state speaks the protocol: whatever the
\* segmentation, the user and the peer connections do, the server never gets a packet it
\* does not expect or cannot read.  The log-in is lock-step (LockStep), the key changes when
\* nothing is under way (KeyRequestAlone), and nobody sends on his own before there is a room
\* (QuietAtFirst).
THEOREM ProtocolSpoken == Spec => []SpeaksProtocol
<1>1. Init => MixedInv /\ SessionInv
  BY MixedInit, SessionInit
<1>2. MixedInv /\ SessionInv /\ [Next]_vars => MixedInv' /\ SessionInv'
  BY MixedNext, SessionNext
<1>3. SessionInv => SpeaksProtocol
  BY DEF SessionInv
<1> QED BY <1>1, <1>2, <1>3, PTL DEF Spec

-----------------------------------------------------------------------------
(***************************************************************************)
(* The stream of a session, as long as nothing was dropped.                *)
(***************************************************************************)
\* A part that is moved from the front of one sequence to the end of the one before.
LEMMA Moved ==
  ASSUME NEW S, NEW a \in Seq(S), NEW q \in Seq(S), NEW k \in 0 .. Len(q)
  PROVE  (a \o SubSeq(q, 1, k)) \o SubSeq(q, k + 1, Len(q)) = a \o q
<1>1. Len(q) \in Nat
  BY LenProperties
<1>2. SubSeq(q, 1, k) \in Seq(S) /\ SubSeq(q, k + 1, Len(q)) \in Seq(S)
  BY Rest
<1>3. SubSeq(q, 1, k) \o SubSeq(q, k + 1, Len(q)) = q
  <2>1. 1 \in 1 .. Len(q) + 1 /\ k \in 1 - 1 .. Len(q) /\ Len(q) \in k .. Len(q)
    BY <1>1
  <2>2. SubSeq(q, 1, k) \o SubSeq(q, k + 1, Len(q)) = SubSeq(q, 1, Len(q))
    BY <2>1, ConcatAdjacentSubSeq
  <2> QED BY <2>2, SubSeqFull
<1> DEFINE u == SubSeq(q, 1, k)
           v == SubSeq(q, k + 1, Len(q))
<1> HIDE DEF u, v
<1>4. u \in Seq(S) /\ v \in Seq(S)
  BY <1>2 DEF u, v
<1>5. (a \o u) \o v = a \o (u \o v)
  BY <1>4, ConcatAssociative, SMTT(60)
<1> QED BY <1>3, <1>5 DEF u, v

\* The stream of a session.
LEMMA AheadFacts ==
  ASSUME Typed, sock # 0
  PROVE  /\ Ahead \in Seq(Fragment) /\ Len(Ahead) \in Nat /\ Len(Ahead) = Pending
         /\ \A i \in 1 .. Len(received) : i \in 1 .. Len(Ahead) /\ Ahead[i] = received[i]
         /\ rest = <<>> => Ahead = received \o down[sock]
<1> DEFINE d == down[sock]
           b == received \o rest
<1>1. /\ received \in Seq(Fragment) /\ rest \in Seq(Fragment) /\ d \in Seq(Fragment)
      /\ Len(received) \in Nat /\ Len(rest) \in Nat /\ Len(d) \in Nat
  BY SessionTypes, Zenon
<1>2. Ahead = b \o d /\ Pending = Len(received) + Len(rest) + Len(d)
  BY DEF Ahead, Pending
<1> HIDE DEF d
<1>3. /\ b \in Seq(Fragment) /\ Len(b) = Len(received) + Len(rest)
      /\ \A i \in 1 .. Len(received) + Len(rest) :
           b[i] = IF i <= Len(received) THEN received[i] ELSE rest[i - Len(received)]
  BY <1>1, ConcatProperties
<1>4. rest = <<>> => b = received
  BY <1>1, ConcatEmptySeq
<1> HIDE DEF b
<1>5. /\ Ahead \in Seq(Fragment) /\ Len(Ahead) = Len(b) + Len(d)
      /\ \A i \in 1 .. Len(b) + Len(d) : Ahead[i] = IF i <= Len(b) THEN b[i] ELSE d[i - Len(b)]
  <2>1. /\ b \o d \in Seq(Fragment) /\ Len(b \o d) = Len(b) + Len(d)
        /\ \A i \in 1 .. Len(b) + Len(d) : (b \o d)[i] = IF i <= Len(b) THEN b[i] ELSE d[i - Len(b)]
    <3>1. b \in Seq(Fragment) /\ d \in Seq(Fragment)
      BY <1>1, <1>3
    <3> QED BY <3>1, ConcatProperties
  <2> QED BY <1>2, <2>1
<1>6. Len(Ahead) \in Nat /\ Len(Ahead) = Pending
  BY <1>1, <1>2, <1>3, <1>5
<1>7. ASSUME NEW i \in 1 .. Len(received) PROVE i \in 1 .. Len(Ahead) /\ Ahead[i] = received[i]
  <2>1. i \in 1 .. Len(received) + Len(rest) /\ i <= Len(received)
    BY <1>1
  <2>2. i <= Len(b) /\ i \in 1 .. Len(b) + Len(d)
    BY <1>1, <1>3, <2>1
  <2> QED BY <1>3, <1>5, <2>1, <2>2
<1> QED BY <1>2, <1>4, <1>5, <1>6, <1>7 DEF d

\* The beginning of a stream in order is in order.
LEMMA OrderCut ==
  ASSUME NEW p, NEW q, NEW n, Len(p) \in Nat, Len(q) \in Nat, Len(p) <= Len(q),
         \A i \in 1 .. Len(p) : p[i] = q[i]
  PROVE  /\ InOrder(q, n) => InOrder(p, n)
         /\ Introduced(q) => Introduced(p)
         /\ Len(p) = Len(q) => (HasRoom(q) => HasRoom(p))
<1>1. \A i \in 1 .. Len(p) : i \in 1 .. Len(q) /\ p[i] = q[i]
  OBVIOUS
<1>2. InOrder(q, n) => InOrder(p, n)
  BY <1>1 DEF InOrder
<1>3. Len(p) = Len(q) => (HasRoom(q) => HasRoom(p))
  BY <1>1 DEF HasRoom
<1>4. ASSUME Introduced(q), NEW i \in 1 .. Len(p), p[i].pkt.kind = "publisher"
      PROVE  \E j \in 1 .. (i - 1) : TellsRoom(p[j])
  <2>1. PICK j \in 1 .. (i - 1) : TellsRoom(q[j])
    BY <1>1, <1>4 DEF Introduced
  <2>2. j \in 1 .. Len(p)
    BY <2>1
  <2>3. p[j] = q[j]
    BY <1>1, <2>2
  <2> QED BY <2>1, <2>3
<1> QED BY <1>2, <1>3, <1>4 DEF Introduced

\* So is what follows its first packet, unless that one tells the room.
LEMMA OrderTaken ==
  ASSUME NEW p, NEW q, NEW n \in Nat, Len(p) \in Nat, Len(q) \in Nat, Len(p) = Len(q) - 2,
         \A i \in 1 .. Len(p) : p[i] = q[i + 2], InOrder(q, n)
  PROVE  /\ InOrder(p, n + 1)
         /\ q[1].n = n + 1
         /\ Introduced(q) /\ ~TellsRoom(q[1]) => Introduced(p)
         /\ HasRoom(q) /\ ~TellsRoom(q[1]) => HasRoom(p)
<1>1. \A i \in 1 .. Len(p) : i + 2 \in 1 .. Len(q) /\ p[i] = q[i + 2]
  OBVIOUS
<1>2. \A i \in 1 .. Len(q) : q[i].n = n + (i + 1) \div 2 /\ q[i].part = 2 - (i % 2)
  BY DEF InOrder
<1>3. 1 \in 1 .. Len(q) /\ 2 \in 1 .. Len(q)
  OBVIOUS
<1>4. q[1].n = n + 1
  BY <1>2, <1>3
<1>5. \A i \in 1 .. Len(p) : /\ n + (i + 2 + 1) \div 2 = n + 1 + (i + 1) \div 2
                            /\ (i + 2) % 2 = i % 2
  OBVIOUS
<1>6. InOrder(p, n + 1)
  BY <1>1, <1>2, <1>5 DEF InOrder
<1>7. ~TellsRoom(q[2])
  <2>1. q[2].part = 2
    BY <1>2, <1>3
  <2> QED BY <2>1 DEF TellsRoom
<1>8. ASSUME ~TellsRoom(q[1]), NEW l \in Nat, l <= Len(p), \E j \in 1 .. (l + 2) : TellsRoom(q[j])
      PROVE  \E j \in 1 .. l : TellsRoom(p[j])
  <2>1. PICK j \in 1 .. (l + 2) : TellsRoom(q[j])
    BY <1>8
  <2>2. j # 1 /\ j # 2
    BY <1>7, <1>8, <2>1
  <2>3. j - 2 \in 1 .. l /\ j - 2 \in 1 .. Len(p) /\ (j - 2) + 2 = j
    BY <1>8, <2>2
  <2>4. p[j - 2] = q[j]
    BY <1>1, <2>3
  <2> QED BY <2>1, <2>3, <2>4
<1>9. HasRoom(q) /\ ~TellsRoom(q[1]) => HasRoom(p)
  <2>1. Len(q) = Len(p) + 2 /\ Len(p) <= Len(p)
    OBVIOUS
  <2> QED BY <1>8, <2>1 DEF HasRoom
<1>10. ASSUME Introduced(q), ~TellsRoom(q[1]), NEW i \in 1 .. Len(p), p[i].pkt.kind = "publisher"
       PROVE  \E j \in 1 .. (i - 1) : TellsRoom(p[j])
  <2>1. \E j \in 1 .. (i + 2 - 1) : TellsRoom(q[j])
    <3>1. i + 2 \in 1 .. Len(q) /\ q[i + 2].pkt.kind = "publisher"
      BY <1>1, <1>10
    <3> DEFINE l == i + 2
    <3> HIDE DEF l
    <3>2. l \in 1 .. Len(q) /\ q[l].pkt.kind = "publisher"
      BY <3>1 DEF l
    <3>3. \E j \in 1 .. (l - 1) : TellsRoom(q[j])
      BY <1>10, <3>2 DEF Introduced
    <3> QED BY <3>3 DEF l
  <2>2. i - 1 \in Nat /\ i - 1 <= Len(p) /\ i + 2 - 1 = (i - 1) + 2
    OBVIOUS
  <2> QED BY <1>8, <1>10, <2>1, <2>2
<1> QED BY <1>4, <1>6, <1>9, <1>10 DEF Introduced

\* And the stream with one packet more.
LEMMA OrderSaid ==
  ASSUME NEW p, NEW q, NEW n \in Nat, NEW m \in Nat, Len(q) \in Nat, Len(p) = Len(q) + 2,
         \A i \in 1 .. Len(q) : p[i] = q[i],
         p[Len(q) + 1].n = m + 1, p[Len(q) + 1].part = 1,
         p[Len(q) + 2].n = m + 1, p[Len(q) + 2].part = 2,
         p[Len(q) + 1].pkt = p[Len(q) + 2].pkt,
         InOrder(q, n), Len(q) = 2 * (m - n)
  PROVE  /\ InOrder(p, n)
         /\ HasRoom(q) \/ TellsRoom(p[Len(q) + 1]) => HasRoom(p)
         /\ Introduced(q) /\ (p[Len(q) + 1].pkt.kind = "publisher" => HasRoom(q)) => Introduced(p)
<1>1. \A i \in 1 .. Len(q) : i \in 1 .. Len(p) /\ p[i] = q[i]
  OBVIOUS
<1>2. \A i \in 1 .. Len(p) : i \in 1 .. Len(q) \/ i = Len(q) + 1 \/ i = Len(q) + 2
  OBVIOUS
<1>3. InOrder(p, n)
  <2>1. \A i \in 1 .. Len(q) : p[i].n = n + (i + 1) \div 2 /\ p[i].part = 2 - (i % 2)
    BY DEF InOrder
  <2>2. /\ n + (Len(q) + 1 + 1) \div 2 = m + 1 /\ n + (Len(q) + 2 + 1) \div 2 = m + 1
        /\ 2 - ((Len(q) + 1) % 2) = 1 /\ 2 - ((Len(q) + 2) % 2) = 2
    <3> DEFINE l == Len(q)
               h == m - n
    <3>1. l \in Nat /\ h \in Int /\ l = 2 * h /\ m = n + h
      OBVIOUS
    <3> HIDE DEF l, h
    <3>2. /\ (l + 1 + 1) \div 2 = h + 1 /\ (l + 2 + 1) \div 2 = h + 1
          /\ (l + 1) % 2 = 1 /\ (l + 2) % 2 = 0
      BY <3>1
    <3> QED BY <3>1, <3>2 DEF l
  <2> QED BY <1>2, <2>1, <2>2 DEF InOrder
<1>4. Len(q) + 1 \in 1 .. Len(p)
  OBVIOUS
<1>5. HasRoom(q) \/ TellsRoom(p[Len(q) + 1]) => HasRoom(p)
  BY <1>1, <1>4 DEF HasRoom
<1>6. ASSUME Introduced(q), p[Len(q) + 1].pkt.kind = "publisher" => HasRoom(q),
             NEW i \in 1 .. Len(p), p[i].pkt.kind = "publisher"
      PROVE  \E j \in 1 .. (i - 1) : TellsRoom(p[j])
  <2>1. CASE i \in 1 .. Len(q)
    <3>1. PICK j \in 1 .. (i - 1) : TellsRoom(q[j])
      BY <1>1, <1>6, <2>1 DEF Introduced
    <3>2. j \in 1 .. Len(q)
      BY <2>1, <3>1
    <3> QED BY <1>1, <3>1, <3>2
  <2>2. CASE i = Len(q) + 1 \/ i = Len(q) + 2
    <3>1. HasRoom(q)
      BY <1>6, <2>2
    <3>2. PICK j \in 1 .. Len(q) : TellsRoom(q[j])
      BY <3>1 DEF HasRoom
    <3>3. j \in 1 .. (i - 1)
      BY <2>2, <3>2
    <3> QED BY <1>1, <3>2, <3>3
  <2> QED BY <1>2, <2>1, <2>2
<1> QED BY <1>3, <1>5, <1>6 DEF Introduced

\* Nothing is taken or said: the stream moves on, or is cut off with the connection.
Stays(s) ==
  /\ UNCHANGED <<sock, fresh, full, last, peers, roomName>>
  /\ Len(Ahead') \in Nat /\ Len(Ahead') <= Len(Ahead)
  /\ \A i \in 1 .. Len(Ahead') : Ahead'[i] = Ahead[i]
  /\ \/ srv'[s] = srv[s] /\ Len(Ahead') = Len(Ahead)
     \/ srv'[s] = Blank("status") /\ srv[s].stage = "connecting" /\ Len(Ahead') = 0
     \/ srv'[s].stage \in {"closed", "gone"}
  /\ ui' = "idle" /\ Whole(received') => ui = "idle" /\ UNCHANGED <<received, refused>>

\* That keeps the order.
LEMMA StaysInOrder ==
  ASSUME Typed, StreamInv, InSession, NEW s \in Sockets, s = sock, Stays(s)
  PROVE  StreamInv'
<1>1. UNCHANGED <<sock, fresh, full, last, peers, roomName>>
  BY DEF Stays
<1>2. Len(Ahead) \in Nat
  BY AheadFacts DEF InSession
<1>3. /\ Len(Ahead') \in Nat /\ Len(Ahead') <= Len(Ahead)
      /\ \A i \in 1 .. Len(Ahead') : Ahead'[i] = Ahead[i]
  BY DEF Stays
<1>4. RoomKnown'
  BY <1>1 DEF StreamInv, RoomKnown
<1>5. CASE ~Unbroken
  <2>1. ~Unbroken'
    BY <1>1, <1>5 DEF Unbroken, InSession
  <2> QED BY <1>4, <2>1 DEF StreamInv, Numbered, RoomFirst
<1>6. CASE Unbroken
  <2>1. /\ InOrder(Ahead, last)
        /\ Live(srv[s].stage) => Len(Ahead) = 2 * (srv[s].sent - last)
        /\ srv[s].stage \in {"none", "connecting"} => last = 0
        /\ ui = "idle" /\ Whole(received) => refused
    BY <1>6 DEF StreamInv, Numbered
  <2>2. roomName = "" => /\ Introduced(Ahead)
                         /\ Live(srv[s].stage) /\ srv[s].room # "" => HasRoom(Ahead)
    BY <1>6 DEF StreamInv, RoomFirst
  <2> DEFINE q == Ahead
             p == Ahead'
  <2>3. /\ InOrder(q, last) => InOrder(p, last)
        /\ Introduced(q) => Introduced(p)
        /\ Len(p) = Len(q) => (HasRoom(q) => HasRoom(p))
    <3>1. Len(q) \in Nat /\ Len(p) \in Nat /\ Len(p) <= Len(q) /\ \A i \in 1 .. Len(p) : p[i] = q[i]
      BY <1>2, <1>3
    <3> HIDE DEF p, q
    <3> QED BY <3>1, OrderCut
  <2>4. InOrder(Ahead, last)' /\ (Introduced(Ahead) => Introduced(Ahead)')
    BY <1>1, <2>1, <2>3
  <2>5. ui' = "idle" /\ Whole(received') => refused'
    BY <2>1 DEF Stays
  <2>6. CASE srv'[s] = srv[s] /\ Len(Ahead') = Len(Ahead)
    <3>1. Numbered'
      BY <1>1, <2>1, <2>4, <2>5, <2>6 DEF Numbered
    <3>2. RoomFirst'
      BY <1>1, <2>2, <2>3, <2>4, <2>6 DEF RoomFirst
    <3> QED BY <1>4, <3>1, <3>2 DEF StreamInv
  <2>7. CASE srv'[s] = Blank("status") /\ srv[s].stage = "connecting" /\ Len(Ahead') = 0
    <3>1. Blank("status").stage = "status" /\ Blank("status").sent = 0 /\ Blank("status").room = ""
      BY DEF Blank
    <3>2. srv'[s].stage = "status" /\ srv'[s].sent = 0 /\ srv'[s].room = ""
      BY <2>7, <3>1, Zenon
    <3>3. last' = 0 /\ Len(Ahead') = 2 * (0 - 0)
      BY <1>1, <2>1, <2>7
    <3>4. Numbered'
      BY <1>1, <2>4, <2>5, <3>2, <3>3 DEF Numbered
    <3>5. RoomFirst'
      BY <1>1, <2>2, <2>4, <3>2 DEF RoomFirst
    <3> QED BY <1>4, <3>4, <3>5 DEF StreamInv
  <2>8. CASE srv'[s].stage \in {"closed", "gone"}
    <3>1. Numbered'
      BY <1>1, <2>4, <2>5, <2>8 DEF Numbered, Live
    <3>2. RoomFirst'
      BY <1>1, <2>2, <2>4, <2>8 DEF RoomFirst, Live
    <3> QED BY <1>4, <3>1, <3>2 DEF StreamInv
  <2> QED BY <2>6, <2>7, <2>8 DEF Stays
<1> QED BY <1>5, <1>6

\* b is a without its first two.
Shifted(b, a) == Len(b) = Len(a) - 2 /\ \A i \in 1 .. Len(b) : b[i] = a[i + 2]

\* So it is with what follows.
LEMMA ShiftJoined ==
  ASSUME NEW S, NEW a \in Seq(S), NEW b \in Seq(S), NEW r \in Seq(S), Shifted(b, a)
  PROVE  a \o r \in Seq(S) /\ b \o r \in Seq(S) /\ Shifted(b \o r, a \o r)
<1> DEFINE u == a \o r
           v == b \o r
<1>0. Len(b) = Len(a) - 2 /\ \A i \in 1 .. Len(b) : b[i] = a[i + 2]
  BY DEF Shifted
<1>1. Len(a) \in Nat /\ Len(b) \in Nat /\ Len(r) \in Nat
  BY LenProperties
<1>2. /\ u \in Seq(S) /\ Len(u) = Len(a) + Len(r)
      /\ \A i \in 1 .. Len(a) + Len(r) : u[i] = IF i <= Len(a) THEN a[i] ELSE r[i - Len(a)]
  BY ConcatProperties
<1>3. /\ v \in Seq(S) /\ Len(v) = Len(b) + Len(r)
      /\ \A i \in 1 .. Len(b) + Len(r) : v[i] = IF i <= Len(b) THEN b[i] ELSE r[i - Len(b)]
  BY ConcatProperties
<1> HIDE DEF u, v
<1>4. Len(v) = Len(u) - 2
  BY <1>0, <1>1, <1>2, <1>3
<1>5. ASSUME NEW i \in 1 .. Len(v) PROVE v[i] = u[i + 2]
  <2>1. i \in 1 .. Len(b) + Len(r) /\ i + 2 \in 1 .. Len(a) + Len(r)
    BY <1>0, <1>1, <1>3
  <2>2. CASE i <= Len(b)
    <3>1. i \in 1 .. Len(b) /\ i + 2 <= Len(a)
      BY <1>0, <1>1, <2>2
    <3>2. v[i] = b[i] /\ u[i + 2] = a[i + 2]
      BY <1>2, <1>3, <2>1, <2>2, <3>1
    <3> QED BY <1>0, <3>1, <3>2
  <2>3. CASE ~(i <= Len(b))
    <3>1. ~(i + 2 <= Len(a)) /\ i - Len(b) = i + 2 - Len(a)
      BY <1>0, <1>1, <2>3
    <3>2. v[i] = r[i - Len(b)]
      BY <1>3, <2>1, <2>3
    <3>3. u[i + 2] = r[i + 2 - Len(a)]
      BY <1>2, <2>1, <3>1
    <3> QED BY <3>1, <3>2, <3>3
  <2> QED BY <2>2, <2>3
<1>6. Shifted(v, u)
  BY <1>4, <1>5 DEF Shifted
<1> QED BY <1>2, <1>3, <1>6 DEF u, v

\* What is ahead when a packet has been taken.
LEMMA AheadTaken ==
  ASSUME Typed, InSession, Whole(received), Taken, UNCHANGED <<sock, rest, down>>
  PROVE  /\ Len(Ahead') \in Nat /\ Len(Ahead) \in Nat /\ Len(Ahead') = Len(Ahead) - 2
         /\ \A i \in 1 .. Len(Ahead') : Ahead'[i] = Ahead[i + 2]
         /\ Ahead[1] = received[1]
<1> DEFINE d == down[sock]
           b == received'
<1>1. received \in Seq(Fragment) /\ rest \in Seq(Fragment) /\ d \in Seq(Fragment)
  BY SessionTypes DEF InSession
<1>2. /\ b \in Seq(Fragment) /\ Len(b) = Len(received) - 2
      /\ \A i \in 1 .. Len(b) : b[i] = received[i + 2]
  BY TakenFacts
<1>3. Ahead = (received \o rest) \o d /\ Ahead' = (b \o rest) \o d
  BY DEF Ahead
<1>4. Len(Ahead) \in Nat /\ Ahead[1] = received[1]
  <2>1. 1 \in 1 .. Len(received)
    BY InHand
  <2> QED BY <2>1, AheadFacts DEF InSession
<1> HIDE DEF b, d
<1>5. b \in Seq(Fragment) /\ Shifted(b, received)
  BY <1>2 DEF Shifted
<1> DEFINE x == received \o rest
           y == b \o rest
<1>6. x \in Seq(Fragment) /\ y \in Seq(Fragment) /\ Shifted(y, x)
  BY <1>1, <1>5, ShiftJoined
<1> HIDE DEF x, y
<1>7. y \o d \in Seq(Fragment) /\ Shifted(y \o d, x \o d)
  BY <1>1, <1>6, ShiftJoined
<1>8. Len(y \o d) \in Nat
  BY <1>7, LenProperties
<1> QED BY <1>3, <1>4, <1>7, <1>8 DEF x, y, Shifted

\* There are few numbers below 2.
LEMMA FewNumbers ==
  /\ \A j \in 1 .. (1 - 1) : FALSE
  /\ \A n \in Nat : n = 0 \/ n = 1 \/ n >= 2
  OBVIOUS

\* A packet that is handled.
LEMMA DispatchInOrder ==
  ASSUME MixedInv, SessionInv, StreamInv, InSession, DispatchPacket
  PROVE  StreamInv'
<1> DEFINE p == received[1].pkt
<1>0. Typed /\ state \in 1 .. 3 /\ sock # 0
  BY DEF MixedInv, Typed, ClientTypes, InSession
<1>1. /\ Whole(received) /\ HandlePacket(p) /\ UNCHANGED <<rest, fresh, full>>
      /\ last' = received[1].n /\ refused' = ~Known(p)
      /\ ui' = IF Known(p) THEN "dispatch" ELSE After(rest)
  BY DEF DispatchPacket
<1>2. p \in Packet
  BY <1>0, <1>1, InHand
<1>3. Ahead[1] = received[1] /\ 1 \in 1 .. Len(Ahead)
  <2>1. 1 \in 1 .. Len(received)
    BY <1>0, <1>1, InHand
  <2> QED BY <1>0, <2>1, AheadFacts
<1> HIDE DEF p
<1>4. Enters(p) \/ Meets(p) \/ Loses(p) \/ (Clears /\ SignOut) \/ StaysAway(p)
  BY <1>1, <1>2, RoomHandled
<1>5. Unbroken /\ p.kind = "publisher" => roomName # ""
  <2> SUFFICES ASSUME Unbroken, p.kind = "publisher", roomName = "" PROVE FALSE
    OBVIOUS
  <2> DEFINE q == Ahead
  <2>1. Introduced(q)
    BY DEF StreamInv, RoomFirst
  <2>2. q[1].pkt.kind = "publisher" /\ 1 \in 1 .. Len(q)
    BY <1>3 DEF p
  <2> HIDE DEF q
  <2>3. \A i \in 1 .. Len(q) : q[i].pkt.kind = "publisher" => \E j \in 1 .. (i - 1) : TellsRoom(q[j])
    BY <2>1 DEF Introduced
  <2>4. \E j \in 1 .. (1 - 1) : TellsRoom(q[j])
    BY <2>2, <2>3, Zenon
  <2> QED BY <2>4, FewNumbers, Zenon
<1>6. RoomKnown'
  <2>1. fresh /\ ~full => Unbroken
    BY <1>0 DEF Unbroken, InSession
  <2>2. RoomKnown
    BY DEF StreamInv
  <2> QED BY <1>1, <1>4, <1>5, <2>1, <2>2
          DEF RoomKnown, Enters, Meets, Loses, Clears, DeletePeerConnection, StaysAway, roomVars
<1>7. CASE ~Unbroken'
  BY <1>6, <1>7 DEF StreamInv, Numbered, RoomFirst
<1>8. CASE Unbroken'
  <2>1. sock' # 0 /\ Unbroken
    BY <1>0, <1>1, <1>8 DEF Unbroken, InSession
  <2>2. Taken /\ UNCHANGED <<sock, srv, down>> /\ state' = state' /\ ~SignOut
    BY <1>0, <1>1, <1>2, <2>1, Handled DEF Ends, Quiet, Answers, Keeps, SignOut
  <2>3. /\ Len(Ahead') \in Nat /\ Len(Ahead) \in Nat /\ Len(Ahead') = Len(Ahead) - 2
        /\ \A i \in 1 .. Len(Ahead') : Ahead'[i] = Ahead[i + 2]
    BY <1>0, <1>1, <2>2, AheadTaken
  <2>4. /\ InOrder(Ahead, last)
        /\ Live(srv[sock].stage) => Len(Ahead) = 2 * (srv[sock].sent - last)
    BY <2>1 DEF StreamInv, Numbered
  <2>5. last \in Nat
    BY <1>0 DEF Typed, LoopTypes
  <2>6. /\ InOrder(Ahead', last + 1)
        /\ Ahead[1].n = last + 1
        /\ Introduced(Ahead) /\ ~TellsRoom(Ahead[1]) => Introduced(Ahead')
        /\ HasRoom(Ahead) /\ ~TellsRoom(Ahead[1]) => HasRoom(Ahead')
    <3> DEFINE q == Ahead
               w == Ahead'
    <3>1. /\ Len(w) \in Nat /\ Len(q) \in Nat /\ Len(w) = Len(q) - 2
          /\ \A i \in 1 .. Len(w) : w[i] = q[i + 2]
      BY <2>3
    <3>2. InOrder(q, last)
      BY <2>4
    <3> HIDE DEF q, w
    <3>3. /\ InOrder(w, last + 1)
          /\ q[1].n = last + 1
          /\ Introduced(q) /\ ~TellsRoom(q[1]) => Introduced(w)
          /\ HasRoom(q) /\ ~TellsRoom(q[1]) => HasRoom(w)
      BY <2>5, <3>1, <3>2, OrderTaken
    <3> QED BY <3>3 DEF q, w
  <2>7. last' = last + 1
    BY <1>1, <1>3, <2>6
  <2>8. srv[sock].stage \notin {"none", "connecting"}
    <3>1. Len(Ahead) = Pending /\ Pending # 0
      BY <1>0, <2>3, AheadFacts
    <3> QED BY <3>1 DEF SessionInv, Beginning
  <2>9. Live(srv[sock].stage) => Len(Ahead') = 2 * (srv[sock].sent - (last + 1))
    <3>1. srv[sock].sent \in Nat
      BY <1>0, SessionTypes DEF Server
    <3> DEFINE n == srv[sock].sent
               l == Len(Ahead)
    <3>2. n \in Nat /\ l \in Nat /\ Len(Ahead') = l - 2 /\ (Live(srv[sock].stage) => l = 2 * (n - last))
      BY <2>3, <2>4, <3>1
    <3> HIDE DEF n, l
    <3>3. Live(srv[sock].stage) => l - 2 = 2 * (n - (last + 1))
      BY <2>5, <3>2
    <3> QED BY <3>2, <3>3 DEF n
  <2>10. ui' = "idle" => refused'
    BY <1>1
  <2>11. Numbered'
    BY <2>2, <2>6, <2>7, <2>8, <2>9, <2>10 DEF Numbered
  <2>12. ASSUME roomName' = "" PROVE roomName = "" /\ ~TellsRoom(Ahead[1])
    <3>1. StaysAway(p) \/ roomName' = roomName
      BY <1>4, <2>2, <2>12 DEF Enters, Meets, Loses
    <3>2. roomName = ""
      BY <2>12, <3>1 DEF StaysAway, roomVars
    <3>3. ASSUME TellsRoom(Ahead[1]) PROVE FALSE
      <4>1. p.kind = "joined" /\ p.arg # ""
        BY <1>3, <3>3 DEF TellsRoom, p
      <4>2. p.kind \in Coming
        <5>1. ASSUME NEW s, s = sock PROVE received[1].pkt.kind \in Coming
          <6>1. received[1] \in Pieces(received)
            <7>1. 1 \in 1 .. Len(received)
              BY <1>0, <1>1, InHand
            <7> QED BY <7>1 DEF Pieces
          <6> QED BY <6>1 DEF Coming
        <5> QED BY <5>1 DEF p
      <4>3. state = 3
        BY <4>1, <4>2 DEF SessionInv, JoinedAtWork
      <4>4. Enters(p)
        BY <1>4, <2>2, <4>1, <4>3 DEF Meets, Loses, StaysAway
      <4> QED BY <2>12, <4>1, <4>4 DEF Enters
    <3> QED BY <3>2, <3>3
  <2>13. RoomFirst'
    <3>1. roomName = "" => /\ Introduced(Ahead)
                           /\ Live(srv[sock].stage) /\ srv[sock].room # "" => HasRoom(Ahead)
      BY <2>1 DEF StreamInv, RoomFirst
    <3> QED BY <2>2, <2>6, <2>12, <3>1 DEF RoomFirst
  <2> QED BY <1>6, <2>11, <2>13 DEF StreamInv
<1> QED BY <1>7, <1>8

\* What is received in order is no torn packet.
LEMMA NotTorn ==
  ASSUME Typed, Legible, Numbered, Unbroken
  PROVE  ~Torn(received)
<1>0. sock # 0 /\ InSession
  BY DEF Unbroken, InSession
<1>1. received \in Seq(Fragment) /\ Len(received) \in Nat
  BY <1>0, SessionTypes
<1>2. \A i \in 1 .. Len(received) : received[i].n = last + (i + 1) \div 2 /\ received[i].part = 2 - (i % 2)
  <2>1. \A i \in 1 .. Len(received) : i \in 1 .. Len(Ahead) /\ Ahead[i] = received[i]
    BY <1>0, AheadFacts
  <2>2. InOrder(Ahead, last)
    BY DEF Numbered
  <2> DEFINE q == Ahead
  <2>3. InOrder(q, last) /\ \A i \in 1 .. Len(received) : i \in 1 .. Len(q) /\ q[i] = received[i]
    BY <2>1, <2>2
  <2> HIDE DEF q
  <2> QED BY <2>3 DEF InOrder
<1>3. \A i \in 1 .. Len(received) : received[i].from = sock
  BY <1>0 DEF Legible, Pieces
<1>4. CASE received = <<>>
  BY <1>4 DEF Torn
<1>5. CASE Len(received) = 1
  <2>1. 1 \in 1 .. Len(received)
    BY <1>5
  <2>2. 2 - (1 % 2) = 1
    OBVIOUS
  <2>3. received[1].part = 1
    BY <1>2, <2>1, <2>2
  <2> QED BY <1>5, <2>3 DEF Torn
<1>6. CASE Len(received) >= 2
  <2>1. 1 \in 1 .. Len(received) /\ 2 \in 1 .. Len(received)
    BY <1>1, <1>6
  <2>2. last \in Nat
    BY DEF Typed, LoopTypes
  <2>3. (1 + 1) \div 2 = 1 /\ (2 + 1) \div 2 = 1 /\ 2 - (1 % 2) = 1 /\ 2 - (2 % 2) = 2
    OBVIOUS
  <2>4. received[1].part = 1 /\ received[2].part = 2 /\ received[1].n = received[2].n
    BY <1>2, <2>1, <2>2, <2>3
  <2>5. Whole(received)
    BY <1>3, <1>6, <2>1, <2>4 DEF Whole
  <2> QED BY <2>5 DEF Torn
<1>7. received = <<>> \/ Len(received) = 1 \/ Len(received) >= 2
  <2>1. Len(received) = 0 => received = <<>>
    BY <1>1, EmptySeq
  <2> QED BY <1>1, <2>1, FewNumbers, Zenon
<1> QED BY <1>4, <1>5, <1>6, <1>7

\* A stream that is moved and not changed.
LEMMA MovesOn ==
  ASSUME Typed, InSession, NEW s, s = sock, Ahead' = Ahead,
         UNCHANGED <<sock, fresh, full, last, peers, roomName, srv>>,
         ui' = "idle" /\ Whole(received') => ui = "idle" /\ UNCHANGED <<received, refused>>
  PROVE  Stays(s)
<1>1. Len(Ahead) \in Nat
  BY AheadFacts DEF InSession
<1>2. Len(Ahead) <= Len(Ahead)
  BY <1>1
<1> QED BY <1>1, <1>2 DEF Stays

\* The loops of the client.
LEMMA LoopInOrder ==
  ASSUME MixedInv, SessionInv, StreamInv, InSession,
         \/ \E s \in Sockets : \E k \in 1 .. Len(down[s]) : OnRead(s, k)
         \/ DecryptBlock \/ DispatchEnds
         \/ \E k \in 1 .. Capacity, known \in BOOLEAN : DispatchTorn(k, known)
  PROVE  StreamInv'
<1>0. Typed /\ Silent /\ Alone /\ Legible /\ fresh /\ sock # 0 /\ sock \in Sockets
  BY SessionTypes DEF MixedInv, SessionInv, InSession
<1>1. received \in Seq(Fragment) /\ rest \in Seq(Fragment) /\ down[sock] \in Seq(Fragment)
  BY <1>0, SessionTypes
<1>2. ASSUME UNCHANGED <<sock, fresh, last, peers, roomName>>, full' = TRUE PROVE StreamInv'
  BY <1>2 DEF StreamInv, Numbered, RoomFirst, RoomKnown, Unbroken
<1>3. ASSUME NEW s \in Sockets, NEW k \in 1 .. Len(down[s]), OnRead(s, k) PROVE StreamInv'
  <2>1. s = sock
    BY <1>0, <1>3, OnlySocket
  <2>2. ReadOn(s, k)
    BY <1>0, <1>3, <2>1, SessionRead
  <2> DEFINE d == down[s]
             u == SubSeq(d, 1, k)
             v == SubSeq(d, k + 1, Len(d))
  <2>3. OnlyStreams /\ rest = <<>> /\ down'[s] = v
    BY <2>2 DEF ReadOn
  <2>4. Ahead = received \o d
    BY <1>0, <2>1, <2>3, AheadFacts
  <2>5. d \in Seq(Fragment) /\ k \in 0 .. Len(d)
    <3>1. d \in Seq(Fragment) /\ Len(d) \in Nat
      BY <1>1, <2>1, LenProperties
    <3> QED BY <3>1
  <2> HIDE DEF d
  <2>6. /\ u \in Seq(Fragment) /\ v \in Seq(Fragment)
        /\ (received \o u) \o v = received \o d
    BY <1>1, <2>5, Rest, Moved
  <2>7. /\ UNCHANGED <<sock, fresh, last, peers, roomName, srv>>
    BY <2>3 DEF OnlyStreams
  <2>8. Ahead' = (received' \o rest') \o v
    BY <2>1, <2>3, <2>7 DEF Ahead
  <2>9. \/ rest' = u /\ ui' = "decrypt" /\ UNCHANGED <<received, full>>
        \/ rest' = <<>> /\ ui' = "dispatch" /\ received' = received \o u /\ full' = full
        \/ full' = TRUE
    BY <2>2 DEF ReadOn, d
  <2> HIDE DEF u, v
  <2>10. CASE rest' = u /\ ui' = "decrypt" /\ UNCHANGED <<received, full>>
    <3>1. Ahead' = Ahead
      BY <2>4, <2>6, <2>8, <2>10
    <3>2. Stays(s)
      BY <1>0, <2>1, <2>7, <2>10, <3>1, MovesOn
    <3> QED BY <1>0, <2>1, <3>2, StaysInOrder
  <2>11. CASE rest' = <<>> /\ ui' = "dispatch" /\ received' = received \o u /\ full' = full
    <3>1. (received \o u) \o <<>> = received \o u
      <4>1. received \o u \in Seq(Fragment)
        BY <1>1, <2>6, ConcatProperties
      <4> QED BY <4>1, ConcatEmptySeq
    <3>2. Ahead' = Ahead
      BY <2>4, <2>6, <2>8, <2>11, <3>1
    <3>3. Stays(s)
      BY <1>0, <2>1, <2>7, <2>11, <3>2, MovesOn
    <3> QED BY <1>0, <2>1, <3>3, StaysInOrder
  <2> QED BY <1>2, <2>7, <2>9, <2>10, <2>11
<1>4. CASE DecryptBlock
  <2>1. PICK k \in 0 .. Len(rest) : DecryptOn(k)
    BY <1>0, <1>4, SessionDecrypt
  <2> DEFINE u == SubSeq(rest, 1, k)
             v == SubSeq(rest, k + 1, Len(rest))
  <2>2. OnlyStreams /\ rest' = v /\ down' = down
    BY <2>1 DEF DecryptOn
  <2>3. /\ UNCHANGED <<sock, fresh, last, peers, roomName, srv>>
    BY <2>2 DEF OnlyStreams
  <2>4. (received \o u) \o v = received \o rest
    BY <1>1, Moved
  <2>5. \/ received' = received \o u /\ ui' = "dispatch" /\ full' = full
        \/ full' = TRUE
    BY <2>1 DEF DecryptOn
  <2> HIDE DEF u, v
  <2>6. CASE received' = received \o u /\ ui' = "dispatch" /\ full' = full
    <3>1. Ahead' = ((received \o u) \o v) \o down[sock]
      BY <2>2, <2>3, <2>6 DEF Ahead
    <3>2. Ahead' = Ahead
      BY <2>4, <3>1 DEF Ahead
    <3>3. ASSUME NEW s \in Sockets, s = sock PROVE StreamInv'
      <4>1. Stays(s)
        BY <1>0, <2>3, <2>6, <3>2, <3>3, MovesOn
      <4> QED BY <1>0, <3>3, <4>1, StaysInOrder
    <3> QED BY <1>0, <3>3
  <2> QED BY <1>2, <2>3, <2>5, <2>6
<1>5. CASE DispatchEnds
  <2>1. /\ UNCHANGED <<sock, fresh, full, last, peers, roomName, srv, received, rest, down>>
        /\ ~Whole(received)
    BY <1>5 DEF DispatchEnds, clientVars, roomVars, histVars
  <2>2. Ahead' = Ahead
    BY <2>1 DEF Ahead
  <2>3. ASSUME NEW s \in Sockets, s = sock PROVE StreamInv'
    <3>1. Stays(s)
      BY <1>0, <2>1, <2>2, <2>3, MovesOn
    <3> QED BY <1>0, <2>3, <3>1, StaysInOrder
  <2> QED BY <1>0, <2>3
<1>6. ASSUME NEW k \in 1 .. Capacity, NEW known \in BOOLEAN, DispatchTorn(k, known) PROVE StreamInv'
  <2>1. UNCHANGED <<sock, fresh, full, last, peers, roomName>> /\ Torn(received)
    BY <1>6 DEF DispatchTorn, roomVars
  <2>2. ~Unbroken
    BY <1>0, <2>1, NotTorn DEF StreamInv
  <2> QED BY <2>1, <2>2 DEF StreamInv, Numbered, RoomFirst, RoomKnown, Unbroken, InSession
<1> QED BY <1>3, <1>4, <1>5, <1>6

\* What is ahead when a server has sent two pieces.
LEMMA AheadTold ==
  ASSUME Typed, InSession, NEW s, s = sock, UNCHANGED <<sock, received, rest>>,
         NEW x \in Fragment, NEW y \in Fragment, down'[s] = down[s] \o <<x, y>>
  PROVE  /\ Len(Ahead') = Len(Ahead) + 2
         /\ \A i \in 1 .. Len(Ahead) : Ahead'[i] = Ahead[i]
         /\ Ahead'[Len(Ahead) + 1] = x /\ Ahead'[Len(Ahead) + 2] = y
<1> DEFINE d == down[s]
           b == received \o rest
           w == <<x, y>>
           q == Ahead
<1>1. d \in Seq(Fragment) /\ b \in Seq(Fragment) /\ q \in Seq(Fragment) /\ Len(q) \in Nat
  <2>1. received \in Seq(Fragment) /\ rest \in Seq(Fragment) /\ d \in Seq(Fragment)
    BY SessionTypes DEF InSession
  <2> QED BY <2>1, ConcatProperties, AheadFacts DEF InSession
<1>2. w \in Seq(Fragment) /\ Len(w) = 2 /\ w[1] = x /\ w[2] = y
  OBVIOUS
<1>3. q = b \o d /\ Ahead' = b \o (d \o w)
  BY DEF Ahead
<1> HIDE DEF b, d, w, q
<1>4. (b \o d) \o w = b \o (d \o w)
  BY <1>1, <1>2, ConcatAssociative, SMTT(60)
<1>5. Ahead' = q \o w
  BY <1>3, <1>4
<1>6. /\ Len(q \o w) = Len(q) + Len(w)
      /\ \A i \in 1 .. Len(q) + Len(w) : (q \o w)[i] = IF i <= Len(q) THEN q[i] ELSE w[i - Len(q)]
  BY <1>1, <1>2, ConcatProperties
<1> DEFINE l == Len(q)
<1>7. l \in Nat /\ Len(w) = 2
  BY <1>1, <1>2
<1>8. /\ \A i \in 1 .. l : i \in 1 .. l + Len(w) /\ i <= l
      /\ l + 1 \in 1 .. l + Len(w) /\ ~(l + 1 <= l) /\ (l + 1) - l = 1
      /\ l + 2 \in 1 .. l + Len(w) /\ ~(l + 2 <= l) /\ (l + 2) - l = 2
  <2> HIDE DEF l
  <2> QED BY <1>7
<1>9. (q \o w)[l + 1] = w[(l + 1) - l] /\ (q \o w)[l + 2] = w[(l + 2) - l]
  BY <1>6, <1>8
<1>10. (q \o w)[l + 1] = x /\ (q \o w)[l + 2] = y
  BY <1>2, <1>8, <1>9
<1>11. \A i \in 1 .. l : (q \o w)[i] = q[i]
  BY <1>6, <1>8
<1>12. Len(q \o w) = l + 2
  BY <1>2, <1>6
<1> QED BY <1>5, <1>10, <1>11, <1>12 DEF q

\* Two pieces are one packet.
LEMMA TwoMore == \A l, n, m \in Nat : l = 2 * (n - m) => l + 2 = 2 * (n + 1 - m)
  OBVIOUS

\* A server that sends a packet.
LEMMA TalksInOrder ==
  ASSUME Typed, StreamInv, InSession, NEW s \in Sockets, s = sock,
         NEW m, NEW r, NEW k, NEW a, Talks(s, m, r, k, a),
         UNCHANGED <<clientVars, loopVars, roomVars, histVars>>
  PROVE  StreamInv'
<1> DEFINE x == PieceOf(s, r, k, a, 1)
           y == PieceOf(s, r, k, a, 2)
           n == srv[s].sent
<1>0. UNCHANGED <<sock, received, rest, ui, peers, roomName, fresh, full, last, refused>>
  BY DEF clientVars, loopVars, roomVars, histVars
<1>1. Told(s, r, k, a)
  BY TalksFacts
<1>2. /\ x \in Fragment /\ y \in Fragment /\ down'[s] = down[s] \o <<x, y>>
      /\ srv'[s].stage = r.stage /\ srv'[s].room = r.room /\ srv'[s].sent = r.sent + 1
  BY <1>1 DEF Told
<1>3. /\ <<srv[s].stage, m, r.stage, k>> \in Script
      /\ r.sent = n /\ (r.room # srv[s].room => k = "joined" /\ a = r.room)
      /\ k = "publisher" => srv[s].room # ""
  BY DEF Talks
<1>4. Live(srv[s].stage) /\ Live(r.stage) /\ r.stage \notin {"none", "connecting"}
  BY <1>3 DEF Script, Live
<1>5. /\ x.n = n + 1 /\ y.n = n + 1 /\ x.part = 1 /\ y.part = 2
      /\ x.pkt.kind = k /\ x.pkt.arg = a /\ x.pkt = y.pkt
  BY DEF PieceOf
<1>6. n \in Nat /\ last \in Nat
  <2>1. srv[s] \in Server
    BY DEF Typed, NetTypes
  <2>2. last \in Nat
    BY DEF Typed, LoopTypes
  <2> QED BY <2>1, <2>2 DEF Server
<1> HIDE DEF x, y
<1>7. /\ Len(Ahead') = Len(Ahead) + 2
      /\ \A i \in 1 .. Len(Ahead) : Ahead'[i] = Ahead[i]
      /\ Ahead'[Len(Ahead) + 1] = x /\ Ahead'[Len(Ahead) + 2] = y
  BY <1>0, <1>2, AheadTold
<1>8. RoomKnown'
  BY <1>0 DEF StreamInv, RoomKnown
<1>9. CASE ~Unbroken
  <2>1. ~Unbroken'
    BY <1>0, <1>9 DEF Unbroken, InSession
  <2> QED BY <1>8, <2>1 DEF StreamInv, Numbered, RoomFirst
<1>10. CASE Unbroken
  <2>1. /\ InOrder(Ahead, last) /\ Len(Ahead) = 2 * (n - last)
        /\ ui = "idle" /\ Whole(received) => refused
    BY <1>4, <1>10 DEF StreamInv, Numbered
  <2>2. roomName = "" => Introduced(Ahead) /\ (srv[s].room # "" => HasRoom(Ahead))
    BY <1>4, <1>10 DEF StreamInv, RoomFirst
  <2> DEFINE q == Ahead
             w == Ahead'
  <2>3. /\ Len(w) = Len(q) + 2 /\ Len(q) \in Nat
        /\ \A i \in 1 .. Len(q) : w[i] = q[i]
        /\ w[Len(q) + 1] = x /\ w[Len(q) + 2] = y
        /\ InOrder(q, last) /\ Len(q) = 2 * (n - last)
    BY <1>7, <2>1, AheadFacts DEF InSession
  <2>4. /\ InOrder(w, last)
        /\ HasRoom(q) \/ TellsRoom(x) => HasRoom(w)
        /\ Introduced(q) /\ (k = "publisher" => HasRoom(q)) => Introduced(w)
    <3> HIDE DEF q, w, n
    <3>1. /\ w[Len(q) + 1].n = n + 1 /\ w[Len(q) + 1].part = 1
          /\ w[Len(q) + 2].n = n + 1 /\ w[Len(q) + 2].part = 2
          /\ w[Len(q) + 1].pkt = w[Len(q) + 2].pkt
      BY <1>5, <2>3
    <3>2. /\ InOrder(w, last)
          /\ HasRoom(q) \/ TellsRoom(w[Len(q) + 1]) => HasRoom(w)
          /\ Introduced(q) /\ (w[Len(q) + 1].pkt.kind = "publisher" => HasRoom(q)) => Introduced(w)
      BY <1>6, <2>3, <3>1, OrderSaid
    <3> QED BY <1>5, <2>3, <3>2
  <2>5. Len(Ahead') = 2 * (srv'[s].sent - last)
    <3> DEFINE l == Len(q)
    <3>1. l \in Nat /\ l = 2 * (n - last) /\ Len(Ahead') = l + 2 /\ srv'[s].sent = n + 1
      BY <1>2, <1>3, <1>7, <2>3
    <3> HIDE DEF l, n, q, w
    <3>2. l + 2 = 2 * (n + 1 - last)
      BY <1>6, <3>1, TwoMore, Zenon
    <3> DEFINE z == srv'[s].sent
               t == Len(Ahead')
    <3>3. t = l + 2 /\ z = n + 1
      BY <3>1, Zenon
    <3> HIDE DEF z, t
    <3>4. t = 2 * (z - last)
      BY <1>6, <3>2, <3>3
    <3> QED BY <3>4 DEF z, t
  <2>6. Numbered'
    BY <1>0, <1>2, <1>4, <2>1, <2>4, <2>5 DEF Numbered
  <2>7. r.room # "" => srv[s].room # "" \/ TellsRoom(x)
    BY <1>3, <1>5 DEF TellsRoom
  <2>8. RoomFirst'
    BY <1>0, <1>2, <1>3, <2>2, <2>4, <2>7 DEF RoomFirst
  <2> QED BY <1>8, <2>6, <2>8 DEF StreamInv
<1> QED BY <1>9, <1>10

\* A session that begins.
LEMMA BeginsInOrder ==
  ASSUME MixedInv, NEW room, NEW resolved, JoinChannel(room, resolved)
  PROVE  StreamInv'
<1>0. Typed /\ Silent /\ LoopKnows
  BY DEF MixedInv
<1>1. /\ ui = "idle" /\ opened < MaxSockets /\ sock' = opened + 1 /\ fresh' = Pristine /\ last' = 0
      /\ srv' = srv \/ srv' = [srv EXCEPT ![opened + 1] = Blank("connecting")]
      /\ UNCHANGED <<received, rest, peers, roomName, down>>
  BY DEF JoinChannel, loopVars, roomVars
<1> DEFINE s == opened + 1
<1>2. s \in Sockets /\ s > opened
  <2>1. opened \in Nat /\ MaxSockets \in Nat /\ Sockets = 1 .. MaxSockets
    BY <1>0, Sizes, Numbers
  <2> QED BY <1>1, <2>1
<1>3. srv[s].stage = "none" /\ down[s] = <<>> /\ srv \in [Sockets -> Server]
  BY <1>0, <1>2 DEF Silent, SilentAt, Typed, NetTypes
<1>4. CASE ~Pristine
  <2>1. ~fresh'
    BY <1>1, <1>4
  <2> QED BY <2>1 DEF StreamInv, Numbered, RoomFirst, RoomKnown, Unbroken, InSession
<1>5. CASE Pristine
  <2>1. received = <<>> /\ peers = {} /\ rest = <<>>
    BY <1>0, <1>1, <1>5 DEF Pristine, LoopKnows
  <2> HIDE DEF s
  <2>2. sock' = s /\ received' = <<>> /\ rest' = <<>> /\ down'[s] = <<>> /\ peers' = {} /\ last' = 0
    BY <1>1, <1>3, <2>1 DEF s
  <2>3. Ahead' = (<<>> \o <<>>) \o <<>>
    BY <2>2 DEF Ahead
  <2>4. Len(Ahead') = 0
    BY <2>3
  <2>5. InOrder(Ahead, last)' /\ Introduced(Ahead)'
    <3> DEFINE q == Ahead'
    <3>1. Len(q) = 0
      BY <2>4
    <3> HIDE DEF q
    <3>2. InOrder(q, 0) /\ Introduced(q)
      BY <3>1 DEF InOrder, Introduced
    <3> QED BY <2>2, <3>2 DEF q
  <2>6. srv'[s].stage = "none" \/ srv'[s] = Blank("connecting")
    BY <1>1, <1>2, <1>3 DEF s
  <2>7. ~Live(srv'[s].stage)
    <3>1. Blank("connecting").stage = "connecting"
      BY DEF Blank
    <3>2. srv'[s].stage \in {"none", "connecting"}
      BY <2>6, <3>1, Zenon
    <3> QED BY <3>2 DEF Live
  <2>8. ~Whole(received')
    <3>1. Len(received') = 0
      BY <2>2
    <3> QED BY <3>1 DEF Whole
  <2>9. Numbered'
    BY <2>2, <2>5, <2>7, <2>8 DEF Numbered
  <2>10. RoomFirst' /\ RoomKnown'
    BY <2>2, <2>5, <2>7 DEF RoomFirst, RoomKnown
  <2> QED BY <2>9, <2>10 DEF StreamInv
<1> QED BY <1>4, <1>5

\* The streams are as they were, or a connection is lost.
LEMMA EventInOrder ==
  ASSUME Typed, SessionInv, StreamInv, InSession, NEW s \in Sockets, s = sock,
         UNCHANGED <<sock, received, rest, ui, peers, roomName, fresh, full, last, refused>>,
         \/ down'[s] = down[s] /\ srv'[s] = srv[s]
         \/ down'[s] = down[s] /\ srv'[s] = Blank("status") /\ srv[s].stage = "connecting"
         \/ down'[s] = down[s] /\ srv'[s].stage \in {"closed", "gone"}
         \/ down'[s] = <<>> /\ srv'[s].stage \in {"closed", "gone"}
  PROVE  StreamInv'
<1>0. Len(Ahead) \in Nat /\ Len(Ahead) = Pending
  BY AheadFacts DEF InSession
<1>1. ASSUME down'[s] = down[s] PROVE Ahead' = Ahead
  BY <1>1 DEF Ahead
<1>2. CASE down'[s] = down[s]
  <2>1. srv[s].stage = "connecting" => Len(Ahead) = 0
    BY <1>0 DEF SessionInv, Beginning
  <2>2. Len(Ahead) <= Len(Ahead)
    BY <1>0
  <2>3. Stays(s)
    BY <1>0, <1>1, <1>2, <2>1, <2>2, PiecesEmpty DEF Stays
  <2> QED BY <2>3, StaysInOrder
<1>3. CASE down'[s] = <<>> /\ srv'[s].stage \in {"closed", "gone"}
  <2> DEFINE b == received \o rest
             d == down[s]
  <2>1. b \in Seq(Fragment) /\ d \in Seq(Fragment)
    <3>1. received \in Seq(Fragment) /\ rest \in Seq(Fragment) /\ d \in Seq(Fragment)
      BY SessionTypes DEF InSession
    <3> QED BY <3>1, ConcatProperties
  <2>2. Ahead = b \o d /\ Ahead' = b \o <<>>
    BY <1>3 DEF Ahead
  <2> HIDE DEF b, d
  <2>3. Ahead' = b
    BY <2>1, <2>2, ConcatEmptySeq
  <2>4. Len(b) \in Nat /\ Len(d) \in Nat
    BY <2>1, LenProperties
  <2>5. /\ Len(b \o d) = Len(b) + Len(d)
        /\ \A i \in 1 .. Len(b) + Len(d) : (b \o d)[i] = IF i <= Len(b) THEN b[i] ELSE d[i - Len(b)]
    BY <2>1, ConcatProperties
  <2>6. Len(b) <= Len(b \o d) /\ \A i \in 1 .. Len(b) : i \in 1 .. Len(b) + Len(d) /\ i <= Len(b)
    BY <2>4, <2>5
  <2>7. \A i \in 1 .. Len(b) : b[i] = (b \o d)[i]
    BY <2>5, <2>6
  <2>8. Stays(s)
    BY <1>3, <2>2, <2>3, <2>4, <2>6, <2>7 DEF Stays
  <2> QED BY <2>8, StaysInOrder
<1> QED BY <1>2, <1>3

\* In a session, every step keeps the stream in order.
LEMMA SessionInOrder ==
  ASSUME MixedInv, SessionInv, StreamInv, InSession, [Next]_vars
  PROVE  StreamInv'
<1>0. Typed /\ Silent /\ Alone /\ fresh /\ sock # 0
  BY DEF MixedInv, SessionInv, InSession
<1>1. sock \in Sockets
  BY <1>0, SessionTypes
<1>2. srv \in [Sockets -> Server] /\ down \in [Sockets -> Seq(Fragment)]
  BY <1>0 DEF Typed, NetTypes
<1>3. ASSUME UNCHANGED <<sock, received, rest, ui, peers, roomName, fresh, full, last, refused, srv, down>>
      PROVE  StreamInv'
  <2>1. ASSUME NEW s \in Sockets, s = sock PROVE StreamInv'
    BY <1>0, <1>3, <2>1, EventInOrder
  <2> QED BY <1>1, <2>1
<1>4. CASE ReceiveStep
  BY <1>0, <1>4, LoopInOrder, DispatchInOrder DEF ReceiveStep
<1>5. ASSUME NEW s \in Sockets, ServerStep(s) PROVE StreamInv'
  <2>1. s = sock
    BY <1>0, <1>5, OnlySocket
  <2>2. /\ UNCHANGED <<clientVars, loopVars, roomVars, histVars>>
        /\ Listens(s) \/ \E m, r, k, a : Talks(s, m, r, k, a)
    BY <1>0, <1>5, ServerSays
  <2>3. CASE Listens(s)
    <3>1. UNCHANGED <<sock, received, rest, ui, peers, roomName, fresh, full, last, refused>>
      BY <2>2 DEF clientVars, loopVars, roomVars, histVars
    <3>2. /\ down' = down
          /\ \/ srv'[s] = srv[s]
             \/ srv'[s].stage = "confused"
             \/ srv'[s] = Blank("closed")
      BY <1>0, <2>3, ListensFacts
    <3>3. Blank("closed").stage = "closed"
      BY DEF Blank
    <3>4. SessionInv' /\ InSession' /\ sock' = s
      BY <1>0, <2>1, <3>1, SessionNext DEF InSession
    <3>5. srv'[s].stage # "confused"
      BY <2>1, <3>4 DEF SessionInv, SpeaksProtocol, InSession
    <3>6. srv'[s] = srv[s] \/ srv'[s].stage = "closed"
      BY <3>2, <3>3, <3>5, Zenon
    <3> QED BY <1>0, <2>1, <3>1, <3>2, <3>6, EventInOrder
  <2>4. ASSUME NEW m, NEW r, NEW k, NEW a, Talks(s, m, r, k, a) PROVE StreamInv'
    BY <1>0, <2>1, <2>2, <2>4, TalksInOrder
  <2> QED BY <2>2, <2>3, <2>4
<1>6. ASSUME NEW s \in Sockets, OnConnect(s) PROVE StreamInv'
  <2>1. s = sock
    BY <1>0, <1>6, OnlySocket
  <2>2. /\ srv[s].stage = "connecting" /\ srv' = [srv EXCEPT ![s] = Blank("status")]
        /\ UNCHANGED <<sock, received, rest, ui, peers, roomName, fresh, full, last, refused, down>>
    BY <1>6 DEF OnConnect, loopVars, roomVars, histVars
  <2>3. srv'[s] = Blank("status")
    BY <1>2, <2>2
  <2> QED BY <1>0, <2>1, <2>2, <2>3, EventInOrder
<1>7. ASSUME NEW s \in Sockets, OnClose(s) \/ OnNetworkError(s) PROVE StreamInv'
  <2>1. s = sock
    BY <1>0, <1>7, OnlySocket
  <2>2. /\ srv' = [srv EXCEPT ![s] = Blank("gone")]
        /\ down' = down \/ down' = [down EXCEPT ![s] = <<>>]
        /\ UNCHANGED <<sock, received, rest, ui, peers, roomName, fresh, full, last, refused>>
    BY <1>7 DEF OnClose, OnNetworkError, clientVars, loopVars, roomVars, histVars
  <2>3. (down'[s] = down[s] \/ down'[s] = <<>>) /\ srv'[s] = Blank("gone")
    BY <1>2, <2>2
  <2>4. srv'[s].stage = "gone"
    <3>1. Blank("gone").stage = "gone"
      BY DEF Blank
    <3> QED BY <2>3, <3>1, Zenon
  <2> QED BY <1>0, <2>1, <2>2, <2>3, <2>4, EventInOrder
<1>8. ASSUME NEW room \in Rooms, NEW resolved \in BOOLEAN, JoinChannel(room, resolved) PROVE StreamInv'
  BY <1>8, BeginsInOrder
<1>9. CASE OnFinalMessage
  <2>1. sock' = 0 /\ UNCHANGED <<peers, roomName, fresh, full>>
    BY <1>9 DEF OnFinalMessage, SignOut, roomVars, histVars
  <2> QED BY <2>1 DEF StreamInv, Numbered, RoomFirst, RoomKnown, Unbroken, InSession
<1>10. ASSUME \/ \E room \in Rooms : JoinChannelConnected(room)
              \/ LeaveChannel \/ UIThreadCallback
              \/ \E id \in Own \cup Members : PeerCallback(id)
              \/ UNCHANGED vars
       PROVE  StreamInv'
  BY <1>3, <1>10 DEF JoinChannelConnected, LeaveChannel, UIThreadCallback, PeerCallback, vars,
                     clientVars, loopVars, roomVars, histVars
<1>11. CASE WindowMessage
  BY <1>0, <1>6, <1>7, <1>8, <1>9, <1>10, <1>11, LoopInOrder DEF WindowMessage
<1> QED BY <1>4, <1>5, <1>10, <1>11 DEF Next, Terminated

\* And every other step.
LEMMA StreamNext ==
  ASSUME MixedInv, SessionInv, StreamInv, [Next]_vars
  PROVE  StreamInv'
<1>0. Typed /\ Alone
  BY DEF MixedInv, SessionInv
<1>1. CASE InSession
  BY <1>1, SessionInOrder
<1>2. CASE \E room \in Rooms, resolved \in BOOLEAN : JoinChannel(room, resolved)
  BY <1>2, BeginsInOrder
<1>3. CASE ~InSession /\ ~\E room \in Rooms, resolved \in BOOLEAN : JoinChannel(room, resolved)
  <2>1. fresh' = fresh /\ (full' = full \/ full' = TRUE)
    BY <1>0, <1>3, OnlyJoinBegins
  <2>2. ~InSession'
    BY <1>3, NoSession DEF SignOut, InSession
  <2>3. RoomKnown'
    <3>1. CASE ~fresh
      BY <2>1, <3>1 DEF RoomKnown
    <3>2. CASE fresh
      <4>1. received = <<>>
        BY <1>0, <1>3, <3>2 DEF Alone, InSession
      <4>2. Len(received) = 0
        BY <4>1
      <4>3. ~DispatchPacket
        BY <4>2 DEF DispatchPacket, Whole
      <4>4. UNCHANGED <<peers, roomName>>
        BY <4>3, RoomOnlyHandled
      <4> QED BY <2>1, <4>4 DEF StreamInv, RoomKnown
    <3> QED BY <3>1, <3>2
  <2> QED BY <2>2, <2>3 DEF StreamInv, Numbered, RoomFirst, Unbroken
<1> QED BY <1>1, <1>2, <1>3

\* At first nothing is under way.
LEMMA StreamInit == Init => StreamInv
  BY DEF Init, StreamInv, Numbered, RoomFirst, RoomKnown, Unbroken, InSession

\* What is ahead is of this connection.
LEMMA AheadIsOurs ==
  ASSUME Typed, Silent, Legible, InSession
  PROVE  \A i \in 1 .. Len(Ahead) : Ahead[i].from = sock
<1> DEFINE d == down[sock]
           b == received \o rest
<1>1. received \in Seq(Fragment) /\ rest \in Seq(Fragment) /\ d \in Seq(Fragment) /\ sock \in Sockets
  BY SessionTypes DEF InSession
<1>2. \A x \in Pieces(received) \cup Pieces(rest) : x.from = sock
  BY DEF Legible
<1>3. \A x \in Pieces(d) : x.from = sock
  BY <1>1 DEF Silent, SilentAt, Pieces
<1>4. Ahead = b \o d
  BY DEF Ahead
<1> HIDE DEF d
<1>5. b \in Seq(Fragment) /\ Pieces(b) = Pieces(received) \cup Pieces(rest)
  BY <1>1, ConcatProperties, PiecesJoined
<1> HIDE DEF b
<1>6. Pieces(b \o d) = Pieces(b) \cup Pieces(d)
  BY <1>1, <1>5, PiecesJoined
<1> DEFINE q == Ahead
<1>7. Pieces(q) = Pieces(b) \cup Pieces(d)
  BY <1>4, <1>6
<1> HIDE DEF q
<1>8. \A x \in Pieces(q) : x.from = sock
  BY <1>2, <1>3, <1>5, <1>7
<1>9. \A i \in 1 .. Len(q) : q[i].from = sock
  BY <1>8 DEF Pieces
<1> QED BY <1>9 DEF q

\* All of it always holds.
LEMMA InvHolds == Spec => []IInv
<1>1. Init => IInv
  BY MixedInit, SessionInit, StreamInit DEF IInv
<1>2. IInv /\ [Next]_vars => IInv'
  BY MixedNext, SessionNext, StreamNext DEF IInv
<1> QED BY <1>1, <1>2, PTL DEF Spec

\* As long as no data was dropped for want of room, what waits in the buffer, in the segment
\* at hand and on the network are the pieces of the packets that follow the last one handled,
\* each once and in order, for any segmentation (OnRead), any block size (DataReceived), with
\* and without encryption; and no complete packet is left in the buffer but behind one that was
\* not understood.
THEOREM StreamHolds == Spec => []StreamIntact
<1>1. ASSUME IInv PROVE StreamIntact
  <2>1. Typed /\ Silent /\ Legible /\ Numbered
    BY <1>1 DEF IInv, MixedInv, SessionInv, StreamInv
  <2>2. TypeOK
    BY <2>1, TypedIsTypeOK
  <2>3. ASSUME fresh, ~full, sock # 0
        PROVE  /\ \A i \in 1 .. Len(Ahead) : /\ Ahead[i].from = sock
                                            /\ Ahead[i].n = last + (i + 1) \div 2
                                            /\ Ahead[i].part = 2 - (i % 2)
               /\ ui = "idle" /\ Whole(received) => refused
    <3>1. Unbroken /\ InSession
      BY <2>3 DEF Unbroken, InSession
    <3>2. InOrder(Ahead, last) /\ (ui = "idle" /\ Whole(received) => refused)
      BY <2>1, <3>1 DEF Numbered
    <3>3. \A i \in 1 .. Len(Ahead) : Ahead[i].from = sock
      BY <2>1, <3>1, AheadIsOurs
    <3> DEFINE q == Ahead
    <3>4. InOrder(q, last) /\ \A i \in 1 .. Len(q) : q[i].from = sock
      BY <3>2, <3>3
    <3> HIDE DEF q
    <3>5. \A i \in 1 .. Len(q) : /\ q[i].from = sock
                                /\ q[i].n = last + (i + 1) \div 2
                                /\ q[i].part = 2 - (i % 2)
      BY <3>4 DEF InOrder
    <3> QED BY <3>2, <3>5 DEF q
  <2> QED BY <2>2, <2>3 DEF StreamIntact
<1> QED BY <1>1, InvHolds, PTL

\* In a session begun in the initial state the window knows a room to leave while there is a
\* peer connection: the packet that tells the room is handled before those that tell its
\* members.  The own peer connection has its stream in any mixture of connections.
THEOREM RoomKept == Spec => []RoomToLeave
<1>1. IInv => RoomToLeave
  BY DEF IInv, MixedInv, StreamInv, OwnHasStream, RoomKnown, RoomToLeave
<1> QED BY <1>1, InvHolds, PTL

\* Whatever connections overlap and whatever is lost, Conductor's peer connections and
\* MainFrame's dialogs come apart on a member only by an offline message that names another
\* client than its sender (or none), and only on those two.
THEOREM RoomAgreed == Spec => RoomViewAgrees
<1> DEFINE Both(m) == (m \in dlgs <=> m \in peers) => (m \in dlgs' <=> m \in peers') \/ ComeApart(m)
<1>1. ASSUME Typed, [Next]_vars, NEW m \in Members PROVE Both(m)
  <2>1. CASE UNCHANGED <<peers, stream, dlgs, roomName>>
    BY <2>1
  <2>2. CASE DispatchPacket
    <3> DEFINE p == received[1].pkt
    <3>1. ui = "dispatch" /\ Whole(received) /\ HandlePacket(p)
      BY <2>2 DEF DispatchPacket
    <3>2. p \in Packet
      BY <1>1, <3>1, InHand
    <3>3. /\ p.kind = "offline" /\ p.arg.id \notin {p.arg.from, clientID}
          /\ m \in {p.arg.from, p.arg.id}
          => ComeApart(m)
      BY <3>1 DEF ComeApart
    <3> HIDE DEF p
    <3>4. Enters(p) \/ Meets(p) \/ Loses(p) \/ Clears \/ UNCHANGED roomVars
      BY <3>1, <3>2, RoomHandled DEF StaysAway
    <3>5. CASE Enters(p)
      <4>1. clientID \notin Members
        BY <1>1, <3>5, Constants DEF Enters, Typed, ClientTypes
      <4> QED BY <3>5, <4>1 DEF Enters
    <3>6. CASE Meets(p)
      BY <3>6 DEF Meets
    <3>7. CASE Loses(p)
      BY <3>3, <3>7 DEF Loses, DeletePeerConnection
    <3>8. CASE Clears
      BY <3>8 DEF Clears, DeletePeerConnection
    <3>9. CASE UNCHANGED roomVars
      BY <3>9 DEF roomVars
    <3> QED BY <3>4, <3>5, <3>6, <3>7, <3>8, <3>9
  <2> QED BY <1>1, <2>1, <2>2, RoomOnlyHandled
<1>2. MixedInv /\ [Next]_vars => [\A m \in Members : Both(m)]_vars
  BY <1>1 DEF MixedInv
<1> QED BY <1>2, MixedInit, MixedNext, PTL DEF Spec, RoomViewAgrees
=============================================================================
