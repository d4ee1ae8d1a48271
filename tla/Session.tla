------------------------------ MODULE Session ------------------------------
(***************************************************************************)
(* The signalling session of the client: ConnectionClient (socket, packet  *)
(* framing, cipher, protocol state) with the callbacks it makes into       *)
(* Conductor (peer connections) and MainFrame (the room and its dialogs).  *)
(*                                                                         *)
(* All of this code runs on the UI thread: window messages carry the user's*)
(* clicks, the socket's events (WSAAsyncSelect) and the callbacks posted by*)
(* the peer connections.  A window message is handled to its end before the*)
(* next one; what makes it more than one step here is the loop over the    *)
(* received bytes, whose handlers may sign out under its feet.             *)
(*                                                                         *)
(* Bytes are abstracted to pieces: a packet is two of them, TCP may deliver*)
(* them in any segments, and a piece remembers the packet, its number on   *)
(* the connection and the key it was encrypted with (0: in the clear).     *)
(***************************************************************************)
EXTENDS Naturals, Sequences

CONSTANTS
  Rooms,        \* names a user can type
  Own,          \* client IDs the server may give to this client
  Members,      \* client IDs of the other members
  NextStates,   \* what a status packet may ask the client to go to
  MaxSockets,   \* bound: sockets the client opens
  MaxSent,      \* bound: packets the server sends on a connection
  MaxUp,        \* bound: packets under way when a click or a callback adds one
  MaxPosted,    \* bound: callbacks waiting in the message queue
  Capacity,     \* size of m_ReceivedData, in pieces
  Block         \* what DataReceived decrypts at a time, in pieces

ASSUME SessionAssumption ==
  /\ 0 \notin Own \cup Members /\ Own \cap Members = {}
  /\ "" \notin Rooms
  /\ NextStates \subseteq Nat /\ NextStates \cap {1, 3} = {}   \* OnConnect asks for 2
  /\ MaxSockets \in Nat /\ MaxSent \in Nat /\ MaxUp \in Nat /\ MaxPosted \in Nat
  /\ Capacity \in Nat /\ Block \in Nat \ {0}

Sockets == 1 .. MaxSockets

VARIABLES
  \* ConnectionClient
  connected,   \* m_bConnect
  sock,        \* sock_ (0: none)
  opened,      \* how many sockets have been opened
  state,       \* m_State: 1 status, 2 login, 3 work
  encrypted,   \* m_IsEncrypted
  ciphers,     \* m_Encryptor and m_Decryptor: the socket whose key they hold, 0: none
  clientID,    \* m_ClientID
  channel,     \* m_rChannel
  received,    \* m_ReceivedData
  ui,          \* where the UI thread is in the handling of a message
  rest,        \* what DataReceived has not yet decrypted of a segment
  \* Conductor and MainFrame
  peers,       \* keys of peer_connections_ and pcObservers_
  stream,      \* active_stream_ exists
  dlgs,        \* keys of m_Dlgs
  roomName,    \* roomName_
  posted,      \* SEND_MESSAGE_TO_PEER callbacks in the message queue: receivers
  \* the server and the network, per socket (external)
  srv,         \* how far the server is, and what it has told the client
  down,        \* pieces on their way to the client
  up,          \* packets on their way to the server
  \* history
  fresh,       \* the connection was begun by a client in its initial state
  full,        \* PacketBufferFull was called since the client was in its initial state
  last,        \* number of the packet last taken from m_ReceivedData
  refused      \* HandlePacket returned false for it

clientVars == <<connected, sock, opened, state, encrypted, ciphers, clientID,
                channel, received>>
loopVars   == <<ui, rest>>
roomVars   == <<peers, stream, dlgs, roomName, posted>>
histVars   == <<fresh, full, last, refused>>
vars == <<clientVars, loopVars, roomVars, srv, down, up, histVars>>

\* stage: what the server waits for; keyed: it encrypts; room: where it put the client;
\* announced: members it announced as publishers; sent: how many packets it sent.
Blank(stage) == [stage |-> stage, keyed |-> FALSE, room |-> "", announced |-> {},
                 sent |-> 0]

Init ==
  /\ connected = FALSE
  /\ sock = 0
  /\ opened = 0
  /\ state = 1
  /\ encrypted = FALSE
  /\ ciphers = 0
  /\ clientID = 0
  /\ channel = ""
  /\ received = <<>>
  /\ ui = "idle"
  /\ rest = <<>>
  /\ peers = {}
  /\ stream = FALSE
  /\ dlgs = {}
  /\ roomName = ""
  /\ posted = <<>>
  /\ srv = [s \in Sockets |-> Blank("none")]
  /\ down = [s \in Sockets |-> <<>>]
  /\ up = [s \in Sockets |-> <<>>]
  /\ fresh = FALSE
  /\ full = FALSE
  /\ last = 0
  /\ refused = FALSE

\* What a member says of a client: who says it, and the client ID in the message.
Saying == [from: Members, id: Own \cup Members \cup {0}]

-----------------------------------------------------------------------------
(***************************************************************************)
(* Packets.                                                                *)
(***************************************************************************)
\* From the server: kind and the argument its handler reads.  "future" stands
\* for a type the client does not know, and for a packet too short for a type.
Kinds == {"status", "disconnect", "keyRequest", "allow", "success", "keepAlive",
          "joined", "publisher", "offline", "left", "error", "future"}
Type(k) ==
  CASE k \in {"status", "disconnect", "keepAlive"} -> 0
    [] k \in {"keyRequest", "joined"} -> 1
    [] k \in {"allow", "publisher", "offline"} -> 2
    [] k = "success" -> 3
    [] k = "left" -> 9
    [] k = "error" -> 64
    [] k = "future" -> 127

\* HandlePacket's switch: in a state, a type has a handler, written for one kind of
\* packet (for either channel message).
Handlers == {<<1, 0, "status">>,
             <<2, 0, "disconnect">>, <<2, 1, "keyRequest">>, <<2, 2, "allow">>,
             <<2, 3, "success">>,
             <<3, 0, "keepAlive">>, <<3, 1, "joined">>, <<3, 2, "publisher">>,
             <<3, 2, "offline">>, <<3, 9, "left">>, <<3, 64, "error">>}
\* What it can make of another kind of the same type: HandlePacketLoginAllow reads
\* nothing, HandlePacketLoginDisconnect an Int32, HandlePacketKeepAlive a VarInt (a
\* zero byte is one).  The other handlers miss bytes, or read that nobody has joined.
Misreads == {<<"allow", "publisher">>, <<"allow", "offline">>,
             <<"disconnect", "status">>, <<"disconnect", "keepAlive">>,
             <<"keepAlive", "status">>, <<"keepAlive", "disconnect">>}
Known(p)   == \E h \in Handlers : h[1] = state /\ h[2] = Type(p.kind)
Runs(k, p) == /\ <<state, Type(p.kind), k>> \in Handlers
              /\ p.kind = k \/ <<k, p.kind>> \in Misreads
\* No handler reads enough.  A short VarInt is not enough for an Int32 either.
Misread(p) == Known(p) /\ \/ \A k \in Kinds : ~Runs(k, p)
                          \/ Runs("disconnect", p) /\ p.kind = "keepAlive"

Piece(s, k, a, part) ==
  [from |-> s, n |-> srv[s].sent + 1, part |-> part,
   key |-> IF srv'[s].keyed THEN s ELSE 0, pkt |-> [kind |-> k, arg |-> a]]
\* What decrypting with the wrong key, or not decrypting, makes of a piece.
Garbage == [from |-> 0, n |-> 0, part |-> 0, key |-> 0,
            pkt |-> [kind |-> "future", arg |-> 0]]
Decoded(q, key) == [i \in 1 .. Len(q) |-> IF q[i].key = key THEN q[i] ELSE Garbage]

\* A complete packet is at the front; or something that is not the beginning of one.
Whole(q) == /\ Len(q) >= 2
            /\ q[1].part = 1 /\ q[2].part = 2
            /\ q[1].from = q[2].from /\ q[1].n = q[2].n
Torn(q)  == q # <<>> /\ ~Whole(q) /\ ~(Len(q) = 1 /\ q[1].part = 1)

-----------------------------------------------------------------------------
(***************************************************************************)
(* ConnectionClient: sending, signing out.                                 *)
(***************************************************************************)
\* The server still answers on a socket.
Live(stage) == stage \notin {"none", "connecting", "closed", "gone"}

\* Faulty: the new key is already used for the packet that carries it.
OutKey_Early == ciphers'

\* The key SendData uses.
OutKey == IF encrypted THEN ciphers' ELSE 0

\* cPacketizer writes the packet and its destructor sends it on sock_.
SendPacket(k, room) ==
  up' = [s \in Sockets |->
           IF s = sock /\ Live(srv'[s].stage)
           THEN Append(up[s], [kind |-> k, key |-> OutKey, room |-> room])
           ELSE up[s]]

\* Faulty: the next session believes in encryption without having a cipher.
SignOut_KeepsEncrypted ==
  /\ srv' = [s \in Sockets |-> IF s = sock THEN Blank("gone") ELSE srv[s]]
  /\ down' = [s \in Sockets |-> IF s = sock THEN <<>> ELSE down[s]]
  /\ up' = [s \in Sockets |-> IF s = sock THEN <<>> ELSE up[s]]
  /\ sock' = 0
  /\ clientID' = 0
  /\ channel' = ""
  /\ received' = <<>>
  /\ ciphers' = 0
  /\ state' = 1
  /\ connected' = FALSE
  /\ UNCHANGED <<opened, encrypted>>

SignOut ==
  /\ srv' = [s \in Sockets |-> IF s = sock THEN Blank("gone") ELSE srv[s]]
  /\ down' = [s \in Sockets |-> IF s = sock THEN <<>> ELSE down[s]]
  /\ up' = [s \in Sockets |-> IF s = sock THEN <<>> ELSE up[s]]
  /\ sock' = 0
  /\ clientID' = 0
  /\ channel' = ""
  /\ received' = <<>>
  /\ ciphers' = 0
  /\ state' = 1
  /\ encrypted' = FALSE
  /\ connected' = FALSE
  /\ UNCHANGED opened

-----------------------------------------------------------------------------
(***************************************************************************)
(* The packet handlers.  A handler starts when its packet has been taken   *)
(* from m_ReceivedData.                                                    *)
(***************************************************************************)
Taken == received' = SubSeq(received, 3, Len(received))

HandlePacketStatusRequest(p) ==
  /\ Runs("status", p)
  /\ Taken
  /\ UNCHANGED <<connected, sock, opened, encrypted, ciphers, clientID, channel,
                 roomVars, srv, down>>
  /\ IF p.arg \in 1 .. 3
     THEN /\ state' = p.arg
          /\ SendPacket("loginStart", "")
     ELSE UNCHANGED <<state, up>>

\* HandleErrorCode: Conductor::OnLoginError signs out.
HandlePacketErrorCode(p) ==
  /\ Runs("disconnect", p) \/ Runs("error", p)
  /\ SignOut
  /\ UNCHANGED roomVars

\* The nonce has another length or the secret cannot be encrypted: nothing is sent.
KeyRequestDropped(p) ==
  /\ Runs("keyRequest", p)
  /\ Taken
  /\ UNCHANGED <<connected, sock, opened, state, encrypted, ciphers, clientID, channel,
                 roomVars, srv, down, up>>

\* The shared secret is made for whoever sock_ leads to; without a socket, for nobody.
NewKey == IF sock = 0 THEN MaxSockets + 1 ELSE sock

\* The nonce cannot be encrypted: there are ciphers, but no response.
KeyRequestHalfDone(p) ==
  /\ Runs("keyRequest", p)
  /\ Taken
  /\ ciphers' = NewKey
  /\ UNCHANGED <<connected, sock, opened, state, encrypted, clientID, channel, roomVars,
                 srv, down, up>>

SendEncryptionKeyResponse(p) ==
  /\ Runs("keyRequest", p)
  /\ Taken
  /\ ciphers' = NewKey
  /\ UNCHANGED <<connected, sock, opened, state, clientID, channel, roomVars, srv, down>>
  /\ SendPacket("keyResponse", "")
  /\ encrypted' = TRUE

HandlePacketLoginAllow(p) ==
  /\ Runs("allow", p)
  /\ Taken
  /\ UNCHANGED <<connected, sock, opened, state, encrypted, ciphers, clientID, channel,
                 roomVars, srv, down>>
  /\ SendPacket("loginInfo", "")

HandlePacketLoginSuccess(p) ==
  /\ Runs("success", p)
  /\ Taken
  /\ clientID' = p.arg
  /\ state' = 3
  /\ UNCHANGED <<connected, sock, opened, encrypted, ciphers, channel, roomVars, srv,
                 down>>
  /\ SendPacket("join", channel)

HandlePacketKeepAlive(p) ==
  /\ Runs("keepAlive", p)
  /\ Taken
  /\ UNCHANGED <<connected, sock, opened, state, encrypted, ciphers, clientID, channel,
                 roomVars, srv, down>>
  /\ SendPacket("keepAlive", "")

\* OnJoinedChannel: CreatePeerConnection(own ID) and MainFrame::OnJoinChannel.
HandlePacketRoomJoin(p) ==
  /\ Runs("joined", p)
  /\ Taken
  /\ IF p.arg = ""
     THEN UNCHANGED roomVars
     ELSE /\ peers' = peers \cup {clientID}
          /\ stream' = TRUE
          /\ roomName' = p.arg
          /\ UNCHANGED <<dlgs, posted>>
  /\ UNCHANGED <<connected, sock, opened, state, encrypted, ciphers, clientID, channel,
                 srv, down, up>>

\* OnMessageFromChannel: a peer connection and a dialog for the sender of "publisher",
\* and a message to subscribe to the client it names.  Nothing if it names none.
PublisherMessage(p) ==
  /\ Runs("publisher", p)
  /\ Taken
  /\ IF p.arg.id = 0
     THEN UNCHANGED <<peers, dlgs, posted>>
     ELSE /\ peers' = peers \cup {p.arg.from}
          /\ dlgs' = dlgs \cup {p.arg.from}
          /\ posted' = Append(posted, p.arg.id)
  /\ UNCHANGED <<connected, sock, opened, state, encrypted, ciphers, clientID, channel,
                 stream, roomName, srv, down, up>>

\* DeletePeerConnection(id) and the dialogs it leaves of the set d: all peer connections
\* and their dialogs go with the client's own ID, otherwise one peer connection (of
\* nobody, if id is 0).
DeletePeerConnection(id, d) ==
  IF id = clientID
  THEN stream' = FALSE /\ peers' = {} /\ dlgs' = d \ peers
  ELSE peers' = peers \ {id} /\ dlgs' = d /\ UNCHANGED stream

\* Faulty: the dialog of a member that left stays.
OfflineMessage_KeepsDialog(p) ==
  /\ Runs("offline", p)
  /\ Taken
  /\ DeletePeerConnection(p.arg.id, dlgs)
  /\ UNCHANGED <<connected, sock, opened, state, encrypted, ciphers, clientID, channel,
                 roomName, posted, srv, down, up>>

\* "offline" or "unpublisher": OnUserLeftChannel for the sender, and then, if it can be
\* parsed, DeletePeerConnection for the client that the message names.
OfflineMessage(p) ==
  /\ Runs("offline", p)
  /\ Taken
  /\ DeletePeerConnection(p.arg.id, dlgs \ {p.arg.from})
  /\ UNCHANGED <<connected, sock, opened, state, encrypted, ciphers, clientID, channel,
                 roomName, posted, srv, down, up>>

\* Faulty: the room is left and the peer connections stay.
HandlePacketRoomLeft_KeepsPeers(p) ==
  /\ Runs("left", p)
  /\ IF p.arg # ""
     THEN /\ SignOut
          /\ roomName' = ""
          /\ UNCHANGED <<stream, peers, dlgs, posted>>
     ELSE /\ Taken
          /\ channel' = ""
          /\ UNCHANGED <<connected, sock, opened, state, encrypted, ciphers, clientID,
                         roomVars, srv, down, up>>

\* OnLeaveChannel: DeletePeerConnection of the own ID, then SignOut.  If the server
\* refused, only the channel's name is forgotten.
HandlePacketRoomLeft(p) ==
  /\ Runs("left", p)
  /\ IF p.arg # ""
     THEN /\ DeletePeerConnection(clientID, dlgs)
          /\ SignOut
          /\ roomName' = ""
          /\ UNCHANGED posted
     ELSE /\ Taken
          /\ channel' = ""
          /\ UNCHANGED <<connected, sock, opened, state, encrypted, ciphers, clientID,
                         roomVars, srv, down, up>>

\* No handler, or one that cannot read this packet's arguments.
NotUnderstood(p) ==
  /\ ~Known(p) \/ Misread(p)
  /\ Taken
  /\ UNCHANGED <<connected, sock, opened, state, encrypted, ciphers, clientID, channel,
                 roomVars, srv, down, up>>

HandlePacket(p) ==
  \/ HandlePacketStatusRequest(p)
  \/ HandlePacketErrorCode(p)
  \/ KeyRequestDropped(p) \/ KeyRequestHalfDone(p) \/ SendEncryptionKeyResponse(p)
  \/ HandlePacketLoginAllow(p)
  \/ HandlePacketLoginSuccess(p)
  \/ HandlePacketKeepAlive(p)
  \/ HandlePacketRoomJoin(p)
  \/ PublisherMessage(p)
  \/ OfflineMessage(p)
  \/ HandlePacketRoomLeft(p)
  \/ NotUnderstood(p)

-----------------------------------------------------------------------------
(***************************************************************************)
(* OnRead, DataReceived and AddReceivedData.                               *)
(***************************************************************************)
\* The statement after AddReceivedData: the next block, or the end.
After(left) == IF left = <<>> THEN "idle" ELSE "decrypt"

\* Faulty: what does not fit is dropped and what does is kept.
AddReceivedData_Partly(q, left) ==
  /\ LET all == received \o q
     IN received' = SubSeq(all, 1, IF Len(all) < Capacity THEN Len(all) ELSE Capacity)
  /\ ui' = "dispatch"
  /\ UNCHANGED full

\* Up to the loop: the bytes go to m_ReceivedData, all or none.
AddReceivedData(q, left) ==
  IF Len(received) + Len(q) <= Capacity
  THEN /\ received' = received \o q
       /\ ui' = "dispatch"
       /\ UNCHANGED full
  ELSE /\ full' = TRUE
       /\ ui' = After(left)
       /\ UNCHANGED received

\* FD_READ: recv returns the next k pieces.
OnRead(s, k) ==
  /\ ui = "idle"
  /\ k \in 1 .. Len(down[s])
  /\ down' = [down EXCEPT ![s] = SubSeq(@, k + 1, Len(@))]
  /\ LET q == SubSeq(down[s], 1, k) IN
       IF encrypted
       THEN /\ rest' = q
            /\ ui' = "decrypt"
            /\ UNCHANGED <<received, full>>
       ELSE /\ rest' = <<>>
            /\ AddReceivedData(Decoded(q, 0), <<>>)
  /\ UNCHANGED <<connected, sock, opened, state, encrypted, ciphers, clientID, channel,
                 roomVars, srv, up, fresh, last, refused>>

\* One turn of the loop in DataReceived; m_IsEncrypted is not tested again, and
\* without m_Decryptor the program ends here.
DecryptBlock ==
  /\ ui = "decrypt"
  /\ LET k == IF Len(rest) < Block THEN Len(rest) ELSE Block
         left == SubSeq(rest, k + 1, Len(rest))
     IN IF ciphers = 0
        THEN /\ ui' = "crashed"
             /\ UNCHANGED <<rest, received, full>>
        ELSE /\ rest' = left
             /\ AddReceivedData(Decoded(SubSeq(rest, 1, k), ciphers), left)
  /\ UNCHANGED <<connected, sock, opened, state, encrypted, ciphers, clientID, channel,
                 roomVars, srv, down, up, fresh, last, refused>>

\* A turn of the loop in AddReceivedData with a complete packet.
DispatchPacket ==
  /\ ui = "dispatch"
  /\ Whole(received)
  /\ LET p == received[1].pkt IN
       /\ last' = received[1].n
       /\ refused' = ~Known(p)
       /\ ui' = IF Known(p) THEN "dispatch" ELSE After(rest)
       /\ HandlePacket(p)
  /\ UNCHANGED <<rest, fresh, full>>

\* Not enough data, or what is taken for a length says so.
DispatchEnds ==
  /\ ui = "dispatch"
  /\ ~Whole(received)
  /\ ui' = After(rest)
  /\ UNCHANGED <<clientVars, rest, roomVars, srv, down, up, histVars>>

\* What is no packet is taken for one of k pieces, and not understood.
DispatchTorn(k, known) ==
  /\ ui = "dispatch"
  /\ Torn(received)
  /\ k \in 1 .. Len(received)
  /\ received' = SubSeq(received, k + 1, Len(received))
  /\ refused' = ~known
  /\ ui' = IF known THEN "dispatch" ELSE After(rest)
  /\ UNCHANGED <<connected, sock, opened, state, encrypted, ciphers, clientID, channel,
                 rest, roomVars, srv, down, up, fresh, full, last>>

ReceiveStep ==
  \/ DecryptBlock
  \/ DispatchPacket
  \/ DispatchEnds
  \/ \E k \in 1 .. Capacity, known \in BOOLEAN : DispatchTorn(k, known)

-----------------------------------------------------------------------------
(***************************************************************************)
(* The other window messages: socket events, clicks and callbacks.         *)
(***************************************************************************)
\* Nothing is left of an earlier session, in the client or on the network.
Pristine == /\ state = 1 /\ ~encrypted /\ received = <<>>
            /\ peers = {} /\ posted = <<>> /\ roomName = ""
            /\ \A s \in Sockets : srv[s].stage \in {"none", "gone"}

\* Bound: what clicks and callbacks send does not pile up in the network.
UpRoom == sock # 0 => Len(up[sock]) <= MaxUp

\* doJoinRoom while connected only changes the name of the channel.
JoinChannelConnected(room) ==
  /\ ui = "idle"
  /\ connected
  /\ channel' = room
  /\ UNCHANGED <<connected, sock, opened, state, encrypted, ciphers, clientID, received,
                 loopVars, roomVars, srv, down, up, histVars>>

\* Otherwise ConnectToServer; the server's name may not resolve.
JoinChannel(room, resolved) ==
  /\ ui = "idle"
  /\ ~connected
  /\ opened < MaxSockets
  /\ channel' = room
  /\ opened' = opened + 1
  /\ sock' = opened + 1
  /\ srv' = IF resolved THEN [srv EXCEPT ![opened + 1] = Blank("connecting")] ELSE srv
  /\ fresh' = Pristine
  /\ full' = (full /\ ~Pristine)
  /\ last' = 0
  /\ refused' = FALSE
  /\ UNCHANGED <<connected, state, encrypted, ciphers, clientID, received, loopVars,
                 roomVars, down, up>>

\* doLeftRoom.
LeaveChannel ==
  /\ ui = "idle"
  /\ roomName # ""
  /\ UpRoom
  /\ UNCHANGED <<clientVars, loopVars, roomVars, srv, down, histVars>>
  /\ SendPacket("leave", roomName)

\* FD_CONNECT.
OnConnect(s) ==
  /\ ui = "idle"
  /\ srv[s].stage = "connecting"
  /\ srv' = [srv EXCEPT ![s] = Blank("status")]
  /\ connected' = TRUE
  /\ UNCHANGED <<sock, opened, state, encrypted, ciphers, clientID, channel, received,
                 loopVars, roomVars, down,
                 histVars>>
  /\ SendPacket("statusRequest", "")

\* FD_CLOSE, or FD_CONNECT with one of the three errors OnNetwork knows.
OnClose(s) ==
  /\ ui = "idle"
  /\ \/ srv[s].stage = "connecting"
     \/ srv[s].stage = "closed" /\ down[s] = <<>>
  /\ srv' = [srv EXCEPT ![s] = Blank("gone")]
  /\ connected' = FALSE
  /\ UNCHANGED <<sock, opened, state, encrypted, ciphers, clientID, channel, received,
                 loopVars, roomVars, down, up, histVars>>

\* An event with any other error is ignored.
OnNetworkError(s) ==
  /\ ui = "idle"
  /\ srv[s].stage \in {"connecting", "closed"}
  /\ srv' = [srv EXCEPT ![s] = Blank("gone")]
  /\ down' = [down EXCEPT ![s] = <<>>]
  /\ UNCHANGED <<clientVars, loopVars, roomVars, up, histVars>>

\* A peer connection has an offer, an answer or a candidate for its peer.
PeerCallback(id) ==
  /\ id \in peers
  /\ Len(posted) < MaxPosted
  /\ posted' = Append(posted, id)
  /\ UNCHANGED <<clientVars, loopVars, peers, stream, dlgs, roomName, srv, down,
                 up, histVars>>

\* SEND_MESSAGE_TO_PEER.
UIThreadCallback ==
  /\ ui = "idle"
  /\ posted # <<>>
  /\ UpRoom
  /\ posted' = Tail(posted)
  /\ UNCHANGED <<clientVars, loopVars, peers, stream, dlgs, roomName, srv, down,
                 histVars>>
  /\ IF connected THEN SendPacket("message", channel) ELSE UNCHANGED up

\* The window is closed: DisconnectFromServer, then Close, which signs out again.
OnFinalMessage ==
  /\ ui = "idle"
  /\ ui' = "over"
  /\ SignOut
  /\ UNCHANGED <<rest, roomVars, histVars>>

WindowMessage ==
  \/ \E room \in Rooms : JoinChannelConnected(room)
  \/ \E room \in Rooms, resolved \in BOOLEAN : JoinChannel(room, resolved)
  \/ LeaveChannel
  \/ \E s \in Sockets : \/ OnConnect(s) \/ OnClose(s) \/ OnNetworkError(s)
                        \/ \E k \in 1 .. Len(down[s]) : OnRead(s, k)
  \/ \E id \in Own \cup Members : PeerCallback(id)
  \/ UIThreadCallback
  \/ OnFinalMessage

-----------------------------------------------------------------------------
(***************************************************************************)
(* The server, as far as the client relies on it (external): it answers    *)
(* step by step, announces members only to a client it has put into a room,*)
(* and announces a member once.                                            *)
(***************************************************************************)
Readable(s, m) == m.key = IF srv[s].keyed THEN s ELSE 0

\* The server goes to what `r` says and sends a packet.
ServerSends(s, r, k, a) ==
  /\ srv[s].sent < MaxSent
  /\ srv' = [srv EXCEPT ![s] = [r EXCEPT !.sent = @ + 1]]
  /\ down' = [down EXCEPT ![s] = @ \o <<Piece(s, k, a, 1), Piece(s, k, a, 2)>>]

\* The packets the server waits for at each stage.
Expected(stage) ==
  CASE stage = "status" -> {"statusRequest"}
    [] stage = "login"  -> {"loginStart"}
    [] stage = "key"    -> {"keyResponse"}
    [] stage = "info"   -> {"loginInfo"}
    [] stage = "ready"  -> {"join"}
    [] stage = "joined" -> {"message", "keepAlive", "leave"}

ServerTakes(s, stage, kind) ==
  /\ srv[s].stage = stage
  /\ up[s] # <<>>
  /\ Head(up[s]).kind = kind
  /\ Readable(s, Head(up[s]))
  /\ up' = [up EXCEPT ![s] = Tail(@)]
  /\ UNCHANGED <<clientVars, loopVars, roomVars, histVars>>

ServerStatus(s, a) ==
  /\ ServerTakes(s, "status", "statusRequest")
  /\ ServerSends(s, [srv[s] EXCEPT !.stage = "login"], "status", a)

ServerLogin(s, encrypt) ==
  /\ ServerTakes(s, "login", "loginStart")
  /\ IF encrypt
     THEN ServerSends(s, [srv[s] EXCEPT !.stage = "key"], "keyRequest", 0)
     ELSE ServerSends(s, [srv[s] EXCEPT !.stage = "info"], "allow", 0)

ServerKey(s) ==
  /\ ServerTakes(s, "key", "keyResponse")
  /\ ServerSends(s, [srv[s] EXCEPT !.stage = "info", !.keyed = TRUE], "allow", 0)

ServerInfo(s, id) ==
  /\ ServerTakes(s, "info", "loginInfo")
  /\ IF id = 0
     THEN ServerSends(s, [srv[s] EXCEPT !.stage = "over"], "disconnect", 0)
     ELSE ServerSends(s, [srv[s] EXCEPT !.stage = "ready"], "success", id)

ServerJoin(s, ok) ==
  /\ ServerTakes(s, "ready", "join")
  /\ LET room == Head(up[s]).room IN
       IF ok
       THEN ServerSends(s, [srv[s] EXCEPT !.stage = "joined", !.room = room], "joined",
                        room)
       ELSE ServerSends(s, [srv[s] EXCEPT !.stage = "over"], "joined", "")

ServerLeave(s, ok) ==
  /\ ServerTakes(s, "joined", "leave")
  /\ IF ok
     THEN ServerSends(s, [srv[s] EXCEPT !.stage = "over"], "left", srv[s].room)
     ELSE ServerSends(s, srv[s], "left", "")

\* A message for another member, an echo, or anything once it has no use for it.
ServerIgnores(s) ==
  /\ \/ ServerTakes(s, "joined", "message") \/ ServerTakes(s, "joined", "keepAlive")
     \/ /\ srv[s].stage \in {"over", "confused"}
        /\ up[s] # <<>>
        /\ up' = [up EXCEPT ![s] = Tail(@)]
        /\ UNCHANGED <<clientVars, loopVars, roomVars, histVars>>
  /\ UNCHANGED <<srv, down>>

\* A packet it cannot read or does not expect.
ServerConfused(s) ==
  /\ srv[s].stage \in {"status", "login", "key", "info", "ready", "joined"}
  /\ up[s] # <<>>
  /\ ~Readable(s, Head(up[s])) \/ Head(up[s]).kind \notin Expected(srv[s].stage)
  /\ up' = [up EXCEPT ![s] = Tail(@)]
  /\ srv' = [srv EXCEPT ![s].stage = "confused"]
  /\ UNCHANGED <<clientVars, loopVars, roomVars, down, histVars>>

\* On its own: what members say (from: who; id: the client the message names, 0 if it
\* names none), an error, and a keep-alive or something newer than this client, which may
\* still follow the packet that ends the session.
ServerTalks(s, k, a) ==
  /\ \/ srv[s].stage = "joined"
     \/ srv[s].stage = "over" /\ k \in {"keepAlive", "future"}
  /\ srv[s].room # ""
  /\ k = "publisher" => a.from \in Members \ srv[s].announced
  /\ k = "offline" => a.from \in srv[s].announced
  /\ UNCHANGED <<clientVars, loopVars, roomVars, up, histVars>>
  /\ ServerSends(s, CASE k = "publisher" -> [srv[s] EXCEPT !.announced = @ \cup {a.from}]
                      [] k = "offline" -> [srv[s] EXCEPT !.announced = @ \ {a.from}]
                      [] k = "error" -> [srv[s] EXCEPT !.stage = "over"]
                      [] OTHER -> srv[s], k, a)

ServerCloses(s) ==
  /\ Live(srv[s].stage)
  /\ srv' = [srv EXCEPT ![s] = Blank("closed")]
  /\ up' = [up EXCEPT ![s] = <<>>]
  /\ UNCHANGED <<clientVars, loopVars, roomVars, down, histVars>>

ServerStep(s) ==
  \/ \E a \in NextStates : ServerStatus(s, a)
  \/ \E encrypt \in BOOLEAN : ServerLogin(s, encrypt)
  \/ ServerKey(s)
  \/ \E id \in Own \cup {0} : ServerInfo(s, id)
  \/ \E ok \in BOOLEAN : ServerJoin(s, ok) \/ ServerLeave(s, ok)
  \/ ServerIgnores(s)
  \/ ServerConfused(s)
  \/ \E k \in {"keepAlive", "future", "error"} : ServerTalks(s, k, 0)
  \/ \E k \in {"publisher", "offline"}, a \in Saying : ServerTalks(s, k, a)
  \/ ServerCloses(s)

Terminated == ui \in {"over", "crashed"} /\ UNCHANGED vars

Next == ReceiveStep \/ WindowMessage \/ (\E s \in Sockets : ServerStep(s)) \/ Terminated

Spec == Init /\ [][Next]_vars

-----------------------------------------------------------------------------
(***************************************************************************)
(* Properties.                                                             *)
(***************************************************************************)
Stages == {"none", "connecting", "status", "login", "key", "info", "ready", "joined",
           "over", "confused", "closed", "gone"}

\* The members of ConnectionClient, Conductor and MainFrame hold values of their types;
\* the protocol state is never anything but status, login or work (255 is dead code).
TypeOK ==
  /\ connected \in BOOLEAN
  /\ sock \in 0 .. MaxSockets /\ opened \in 0 .. MaxSockets
  /\ state \in 1 .. 3
  /\ encrypted \in BOOLEAN
  /\ ciphers \in 0 .. MaxSockets + 1
  /\ clientID \in Own \cup {0}
  /\ channel \in Rooms \cup {""}
  /\ Len(received) <= Capacity
  /\ ui \in {"idle", "decrypt", "dispatch", "over", "crashed"}
  /\ peers \subseteq Own \cup Members /\ dlgs \subseteq Members
  /\ stream \in BOOLEAN
  /\ roomName \in Rooms \cup {""}
  /\ \A s \in Sockets : srv[s].stage \in Stages
  /\ fresh \in BOOLEAN /\ full \in BOOLEAN /\ refused \in BOOLEAN

\* As long as PacketBufferFull was not reported, what waits in m_ReceivedData, in the
\* segment at hand and on the network are the pieces of the packets after the last one
\* handled, each once and in order: no segmentation, no block boundary and no packet
\* the client does not understand makes it lose the framing or the cipher.  "Handle all
\* complete packets": when the UI thread is back in its message loop, a complete packet is
\* left only behind one that was not understood, where the loop ends early.  (The types are
\* a part of it.)
Ahead == received \o rest \o down[sock]
StreamIntact ==
  /\ TypeOK
  /\ fresh /\ ~full /\ sock # 0
     => /\ \A i \in 1 .. Len(Ahead) : /\ Ahead[i].from = sock
                                      /\ Ahead[i].n = last + (i + 1) \div 2
                                      /\ Ahead[i].part = 2 - (i % 2)
        /\ ui = "idle" /\ Whole(received) => refused

\* A client that begins a connection in its initial state speaks the protocol: each of
\* its packets reaches the server at the stage that expects it and in the encryption
\* that is then in force, whatever the user and the peer connections do meanwhile.
SpeaksProtocol == fresh /\ sock # 0 => srv[sock].stage # "confused"

\* While m_IsEncrypted is set the ciphers exist, for every packet sent and received.
\* They are only missing for the rest of a segment whose first part signed out.
CipherAtHand ==
  /\ encrypted => ciphers # 0
  /\ ui \in {"decrypt", "crashed"} /\ ciphers = 0 => sock = 0

\* In a session begun in the initial state, as long as there is any peer connection the
\* window knows a room to leave, which is the only way to release it, and this client's
\* own one has its local stream.  (With the packets of two connections in one
\* m_ReceivedData, the packet that names the room may be torn.)
RoomToLeave ==
  /\ fresh /\ ~full /\ peers # {} => roomName # ""
  /\ peers \cap Own # {} => stream

\* Conductor's peer connections and MainFrame's dialogs agree on every member: nothing
\* makes them come apart, no lost connection, error, full buffer or second session, but
\* an offline message whose sender is not the client it names (or that names none, where
\* the code returns between the two halves), and only on those two.
ComeApart(m) ==
  /\ ui = "dispatch" /\ Whole(received)
  /\ LET p == received[1].pkt IN /\ p.kind = "offline"
                                 /\ p.arg.id \notin {p.arg.from, clientID}
                                 /\ m \in {p.arg.from, p.arg.id}
RoomViewAgrees ==
  [][\A m \in Members :
       (m \in dlgs <=> m \in peers) => (m \in dlgs' <=> m \in peers') \/ ComeApart(m)]_vars
=============================================================================
