-------------------------- MODULE TransportProofs --------------------------
(***************************************************************************)
(* The safety properties of Transport, for every set of versions, every    *)
(* HELLO line, buffer size and line length, and every client.              *)
(***************************************************************************)
EXTENDS Transport, TLAPS

(* The socket, through failures, kills and restarts                         *)

\* Where the thread is, and what is open, while main creates and destroys.
ServerPlace ==
    /\ server \in {"up", "destroyed"} \/ transport = "off"
    /\ server = "destroyed" => transport = "done"
    /\ server = "start" => ~fd /\ file # "bound"
    /\ server \in {"unlink", "bind", "listen"} => fd
    /\ server = "listen" => file = "bound"

SInv == SocketFollowsServer /\ ServerPlace

\* What the threads and the client leave alone: the server and its socket.  A
\* thread that takes a step has been started and has not ended.
LEMMA ThreadsLeaveSocket ==
    ASSUME Client \/ TransportStep \/ PollFails \/ AcceptFails \/ ServeMessage
             \/ ListenerStep \/ ListenerFails
    PROVE  /\ UNCHANGED main
           /\ \/ UNCHANGED transport
              \/ transport \notin {"off", "done"} /\ transport' # "off"
<1>1. CASE Client
  BY <1>1 DEF Client, ClientConnects, ClientSends, ClientReads, ClientCloses
<1>2. CASE LoopTop \/ PollTimeout \/ Accept \/ PollFails \/ AcceptFails
  BY <1>2 DEF LoopTop, PollTimeout, Accept, PollFails, AcceptFails
<1>3. CASE SendHello \/ ReadHello \/ ParseClientVersions \/ Answer
  BY <1>3 DEF SendHello, ReadHello, ParseClientVersions, Answer
<1>4. CASE Reject \/ Cleanup
  BY <1>4 DEF Reject, Cleanup, CloseConnection
<1>5. CASE Subscribe \/ StartListener \/ ServeEnds \/ ServeMessage \/ ServeWrite
  BY <1>5 DEF Subscribe, StartListener, ServeEnds, ServeMessage, ServeWrite,
     ClientLost
<1>6. CASE HangUp \/ JoinListener
  BY <1>6 DEF HangUp, JoinListener, AfterHangUp
<1>7. CASE ListenerStep \/ ListenerFails
  BY <1>7 DEF ListenerStep, ListenerPoll, ListenerRead, ListenerApply,
     ListenerExit, ListenerFails
<1> QED
  BY <1>1, <1>2, <1>3, <1>4, <1>5, <1>6, <1>7, Zenon DEF TransportStep

\* Every step preserves the invariant of the socket.
LEMMA SocketNext == SInv /\ [Next]_vars => SInv'
<1> SUFFICES ASSUME SInv, [Next]_vars PROVE SInv'
  OBVIOUS
<1> USE DEF SInv, SocketFollowsServer, ServerPlace, Listening, FileUnlinked
<1>1. CASE CreateSocket
  <2>1. CASE server' = "unlink"
    BY <1>1, <2>1, Zenon DEF CreateSocket
  <2>2. CASE server' = "failed"
    <3>1. fd = fd' /\ file' = file /\ transport' = transport /\ server = "start"
      BY <1>1, <2>2, Zenon DEF CreateSocket
    <3> QED
      BY <2>2, <3>1
  <2> QED
    BY <1>1, <2>1, <2>2, Zenon DEF CreateSocket
<1>2. CASE UnlinkStale
  BY <1>2, Zenon DEF UnlinkStale
<1>3. CASE Bind
  BY <1>3, Zenon DEF Bind, CloseListenFd
<1>4. CASE Listen
  BY <1>4, Zenon DEF Listen, CloseListenFd
<1>5. CASE StartThread
  BY <1>5, Zenon DEF StartThread, CloseListenFd
<1>6. CASE ShutdownRequest
  BY <1>6, Zenon DEF ShutdownRequest
<1>7. CASE TransportDestroy
  BY <1>7, Zenon DEF TransportDestroy, CloseListenFd, Joined
<1>8. CASE Restart
  BY <1>8, Zenon DEF Restart
<1>9. ASSUME UNCHANGED main,
             \/ UNCHANGED transport
             \/ transport \notin {"off", "done"} /\ transport' # "off"
      PROVE  SInv'
  BY <1>9, Zenon DEF main
<1>10. CASE UNCHANGED vars
  BY <1>9, <1>10, Zenon DEF vars, main
<1> QED
  BY <1>1, <1>2, <1>3, <1>4, <1>5, <1>6, <1>7, <1>8, <1>9, <1>10,
     ThreadsLeaveSocket, Zenon DEF Next, Create

\* A fresh process satisfies it.
LEMMA SocketInit == Init => SInv
BY Zenon DEF Init, SInv, SocketFollowsServer, ServerPlace, Listening

\* A file left behind never keeps a server from binding, clients find an open
\* socket behind the path, the thread never polls a closed one, and nothing is
\* left of a server that failed or was destroyed (transport.c:214-287).
THEOREM SocketCorrect == Spec => []SocketFollowsServer
<1>1. SInv => SocketFollowsServer
  BY DEF SInv
<1> QED
  BY <1>1, SocketInit, SocketNext, PTL DEF Spec

-----------------------------------------------------------------------------
(* The list of versions: the loop of parse_client_versions                  *)

\* The loop of parse_client_versions has read the numbers o up to position p.
Parsed(line, p, o) ==
    /\ o \in Seq(Int) /\ Len(o) <= OutCapacity
    /\ p \in 1 .. Len(line) + 1
    /\ \/ p = 2 * Len(o) + 1
       \/ p = Len(line) + 1 /\ Len(line) = 2 * Len(o) - 1
    /\ \A i \in 1 .. p - 1 :
          line[i].kind = IF i % 2 = 1 THEN "number" ELSE "comma"
    /\ \A k \in 1 .. Len(o) : o[k] = Cast(line[2 * k - 1].value)

\* The cast yields an int.
LEMMA CastType == ASSUME NEW v \in Int PROVE Cast(v) \in Int
<1>1. Modulus \in Nat \ {0}
  BY TransportAssumption, Zenon DEF TransportAssumption
<1>2. Modulus \div 2 \in Int
  BY <1>1
<1>3. v + (Modulus \div 2) \in Int
  BY <1>2
<1>4. \A x \in Int : x % Modulus \in Int
  BY <1>1
<1>5. \A x, y \in Int : x - y \in Int
  OBVIOUS
<1> QED
  BY <1>2, <1>3, <1>4, <1>5, Zenon DEF Cast

\* Positions in a list of numbers and commas: the odd ones are the numbers.
LEMMA OddPlaces ==
    ASSUME NEW n \in Nat, NEW L \in Nat, L = 2 * n \/ L = 2 * n - 1
    PROVE  /\ \A c \in Nat : n <= c => (L + 1) \div 2 <= c
           /\ \A k \in 1 .. n : 2 * k - 1 \in 1 .. L /\ (2 * k - 1) % 2 = 1
           /\ \A j \in 1 .. L : j % 2 = 1 => \E k \in 1 .. n : j = 2 * k - 1
<1>1. ASSUME NEW j \in 1 .. L, j % 2 = 1 PROVE \E k \in 1 .. n : j = 2 * k - 1
  <2>1. (j + 1) \div 2 \in 1 .. n /\ j = 2 * ((j + 1) \div 2) - 1
    BY <1>1
  <2> QED
    BY <2>1, Zenon
<1>2. \A c \in Nat : n <= c => (L + 1) \div 2 <= c
  OBVIOUS
<1>3. \A k \in 1 .. n : 2 * k - 1 \in 1 .. L /\ (2 * k - 1) % 2 = 1
  OBVIOUS
<1> QED
  BY <1>1, <1>2, <1>3, Zenon

\* One pass of the loop reads one number, and the comma after it.
LEMMA ParsePass ==
    ASSUME NEW line \in Seq(Tokens), NEW p, NEW o, Parsed(line, p, o),
           p <= Len(line), Len(o) < OutCapacity, line[p].kind = "number",
           p < Len(line) => line[p + 1].kind = "comma"
    PROVE  Parsed(line, IF p = Len(line) THEN p + 1 ELSE p + 2,
                  Append(o, Cast(line[p].value)))
<1> DEFINE c == Cast(line[p].value)
           o2 == Append(o, c)
           n == Len(o)
           L == Len(line)
           p2 == IF p = L THEN p + 1 ELSE p + 2
<1>1. /\ L \in Nat /\ n \in Nat /\ o \in Seq(Int)
      /\ p = 2 * n + 1 /\ p \in 1 .. L
  BY DEF Parsed
<1>2. c \in Int
  <2>1. line[p] \in Tokens
    BY <1>1
  <2>2. line[p].value \in Int
    BY <2>1 DEF Tokens
  <2> QED
    BY <2>2, CastType, Zenon
<1> HIDE DEF c
<1>3. /\ o2 \in Seq(Int) /\ Len(o2) = n + 1 /\ o2[n + 1] = c
      /\ \A k \in 1 .. n : o2[k] = o[k]
  BY <1>1, <1>2
<1>4. OutCapacity \in Nat
  BY TransportAssumption, Zenon DEF TransportAssumption
<1> HIDE DEF o2, n, L
<1>5. /\ p2 \in 1 .. L + 1
      /\ p2 = 2 * (n + 1) + 1 \/ (p2 = L + 1 /\ L = 2 * (n + 1) - 1)
      /\ \A i \in 1 .. p2 - 1 : i \in 1 .. p - 1 \/ i = p \/ (i = p + 1 /\ p < L)
      /\ p % 2 = 1 /\ (p + 1) % 2 # 1
      /\ \A k \in 1 .. n + 1 : k \in 1 .. n \/ (k = n + 1 /\ 2 * k - 1 = p)
      /\ n < OutCapacity => n + 1 <= OutCapacity
  BY <1>1, <1>4
<1> HIDE DEF p2
<1>6. ASSUME NEW i \in 1 .. p2 - 1
      PROVE  line[i].kind = IF i % 2 = 1 THEN "number" ELSE "comma"
  <2>1. CASE i \in 1 .. p - 1
    BY <2>1, Zenon DEF Parsed
  <2>2. CASE i = p
    BY <1>5, <2>2, Zenon
  <2>3. CASE i = p + 1 /\ p < L
    BY <1>5, <2>3, Zenon DEF L
  <2> QED
    BY <1>5, <2>1, <2>2, <2>3, Zenon
<1>7. ASSUME NEW k \in 1 .. n + 1 PROVE o2[k] = Cast(line[2 * k - 1].value)
  <2>1. CASE k \in 1 .. n
    BY <1>3, <2>1, Zenon DEF Parsed, n
  <2>2. CASE k = n + 1 /\ 2 * k - 1 = p
    BY <1>3, <2>2, Zenon DEF c
  <2> QED
    BY <1>5, <2>1, <2>2, Zenon
<1>8. Parsed(line, p2, o2)
  BY <1>3, <1>5, <1>6, <1>7, Zenon DEF Parsed, L, n
<1> QED
  BY <1>8, Zenon DEF p2, o2, c, L

WellFormed(line) ==
    /\ (Len(line) + 1) \div 2 <= OutCapacity
    /\ \A i \in DOMAIN line :
          line[i].kind = IF i % 2 = 1 THEN "number" ELSE "comma"

\* What a sequence is defined on.
LEMMA Places ==
    ASSUME NEW S, NEW s \in Seq(S) PROVE Len(s) \in Nat /\ DOMAIN s = 1 .. Len(s)
OBVIOUS

Elements(o) == {o[i] : i \in DOMAIN o}

\* At the end of the line the numbers read are those it advertises.
LEMMA ParseDone ==
    ASSUME NEW line \in Seq(Tokens), NEW p, NEW o, Parsed(line, p, o), p > Len(line)
    PROVE  Elements(o) = Advertised(line)
<1> DEFINE n == Len(o)
           L == Len(line)
<1>1. /\ L \in Nat /\ n \in Nat /\ p = L + 1 /\ p - 1 = L
      /\ L = 2 * n \/ L = 2 * n - 1
  BY DEF Parsed
<1>2. DOMAIN line = 1 .. L /\ DOMAIN o = 1 .. n /\ n <= OutCapacity
  BY Places, Zenon DEF Parsed
<1>3. OutCapacity \in Nat
  BY TransportAssumption, Zenon DEF TransportAssumption
<1>4. /\ n <= OutCapacity => (L + 1) \div 2 <= OutCapacity
      /\ \A k \in 1 .. n : 2 * k - 1 \in 1 .. L /\ (2 * k - 1) % 2 = 1
      /\ \A j \in 1 .. L : j % 2 = 1 => \E k \in 1 .. n : j = 2 * k - 1
  BY <1>1, <1>3, OddPlaces, Zenon
<1>5. \A i \in 1 .. L : line[i].kind = IF i % 2 = 1 THEN "number" ELSE "comma"
  BY <1>1, Zenon DEF Parsed
<1>6. \A k \in 1 .. n : o[k] = Cast(line[2 * k - 1].value)
  BY Zenon DEF Parsed
<1>7. WellFormed(line)
  BY <1>2, <1>4, <1>5, Zenon DEF WellFormed
<1>8. Advertised(line)
        = {Cast(line[i].value) : i \in {j \in DOMAIN line : j % 2 = 1}}
  BY <1>7, Zenon DEF Advertised, WellFormed
<1> HIDE DEF n, L
<1>9. ASSUME NEW k \in 1 .. n PROVE o[k] \in Advertised(line)
  <2>1. 2 * k - 1 \in {j \in DOMAIN line : j % 2 = 1}
    BY <1>2, <1>4, Zenon
  <2> QED
    BY <1>6, <1>8, <2>1, Zenon
<1>10. ASSUME NEW x \in Advertised(line) PROVE \E k \in 1 .. n : x = o[k]
  <2>1. PICK j \in DOMAIN line : j % 2 = 1 /\ x = Cast(line[j].value)
    BY <1>8, Zenon
  <2>2. PICK k \in 1 .. n : j = 2 * k - 1
    BY <1>2, <1>4, <2>1, Zenon
  <2> QED
    BY <1>6, <2>1, <2>2, Zenon
<1>11. {o[i] : i \in 1 .. n} = Advertised(line)
  BY <1>9, <1>10, Zenon
<1> QED
  BY <1>2, <1>11, Zenon DEF Elements

\* A line that goes wrong advertises nothing.
LEMMA ParseFails ==
    ASSUME NEW line \in Seq(Tokens), NEW p, NEW o, Parsed(line, p, o),
           p <= Len(line),
           ~(/\ Len(o) < OutCapacity /\ line[p].kind = "number"
             /\ p < Len(line) => line[p + 1].kind = "comma")
    PROVE  Advertised(line) = {}
<1> DEFINE n == Len(o)
           L == Len(line)
<1>1. L \in Nat /\ n \in Nat /\ p = 2 * n + 1 /\ p \in 1 .. L
  BY DEF Parsed
<1>2. DOMAIN line = 1 .. L
  BY Places, Zenon
<1>3. OutCapacity \in Nat
  BY TransportAssumption, Zenon DEF TransportAssumption
<1> HIDE DEF n, L
<1>4. /\ p % 2 = 1 /\ (p + 1) % 2 # 1
      /\ ~(n < OutCapacity) => ~((L + 1) \div 2 <= OutCapacity)
      /\ p < L => p + 1 \in 1 .. L
  BY <1>1, <1>3
<1>5. ~WellFormed(line)
  <2>1. CASE ~(n < OutCapacity)
    BY <1>4, <2>1, Zenon DEF WellFormed, L
  <2>2. CASE line[p].kind # "number"
    BY <1>1, <1>2, <1>4, <2>2, Zenon DEF WellFormed
  <2>3. CASE p < L /\ line[p + 1].kind # "comma"
    BY <1>2, <1>4, <2>3, Zenon DEF WellFormed
  <2> QED
    BY <2>1, <2>2, <2>3, Zenon DEF n, L
<1> QED
  BY <1>5, Zenon DEF Advertised, WellFormed

-----------------------------------------------------------------------------
(* The threads                                                              *)

\* The listener reads a byte only after poll() found room for it in the line
\* (command.c:27-47), and nobody else touches the line in between.
RoomForByte == listener = "read" => len + 1 < LINE_MAX

\* TypeOK bounds len only because of RoomForByte, which in turn needs that the
\* handshake and the listener never read at the same time.
IInv == TypeOK /\ ListenerInsideConnection /\ RoomForByte

\* What the tail of a sequence is.
LEMMA Shorter ==
    ASSUME NEW S, NEW s \in Seq(S), s # <<>>
    PROVE  Tail(s) \in Seq(S) /\ Len(s) \in Nat /\ Len(Tail(s)) = Len(s) - 1
OBVIOUS

Received == inbox \in Seq({"byte", "newline"}) /\ Len(inbox) <= InMax

\* Reading a byte, or none, leaves an inbox of the same type.
LEMMA InboxType ==
    ASSUME Received, inbox' = inbox \/ (inbox # <<>> /\ inbox' = Tail(inbox))
    PROVE  Received'
<1>1. CASE inbox' = inbox
  BY <1>1, Zenon DEF Received
<1>2. CASE inbox # <<>> /\ inbox' = Tail(inbox)
  <2>1. /\ Tail(inbox) \in Seq({"byte", "newline"}) /\ Len(inbox) \in Nat
        /\ Len(Tail(inbox)) = Len(inbox) - 1
    BY <1>2, Shorter, Zenon DEF Received
  <2>2. \A k, n \in Nat : k <= n => k - 1 <= n
    OBVIOUS
  <2>3. InMax \in Nat /\ Len(inbox) <= InMax
    BY TransportAssumption, Zenon DEF Received, TransportAssumption
  <2>4. Len(Tail(inbox)) <= InMax
    BY <2>1, <2>2, <2>3, Zenon
  <2> QED
    BY <1>2, <2>1, <2>4, Zenon DEF Received
<1> QED
  BY <1>1, <1>2, Zenon

USE TransportAssumption

\* A fresh transport satisfies the invariant.
LEMMA InitInv == Init => IInv
<1> SUFFICES ASSUME Init PROVE IInv
  OBVIOUS
<1>1. stop \in BOOLEAN /\ peer_alive \in BOOLEAN /\ fd \in BOOLEAN
  BY Zenon DEF Init
<1>2. /\ len \in 0 .. LINE_MAX - 1
      /\ pos \in Nat \ {0}
      /\ unread \in 0 .. OutMax
  BY DEF Init
<1>3. inbox \in Seq({"byte", "newline"}) /\ Len(inbox) <= InMax
  BY DEF Init
<1>4. TypeOK
  BY <1>1, <1>2, <1>3 DEF Init, TypeOK
<1> QED
  BY <1>4 DEF Init, IInv, ListenerInsideConnection, RoomForByte, Serving

\* The client changes nothing the threads rely on.
LEMMA ClientStep == ASSUME IInv, Client PROVE IInv'
<1> USE DEF IInv, TypeOK, ListenerInsideConnection, RoomForByte, Serving,
            session, socket, main, parser
<1>1. CASE ClientConnects
  BY <1>1 DEF ClientConnects
<1>2. CASE ClientSends
  BY <1>2 DEF ClientSends
<1>3. CASE ClientReads
  BY <1>3 DEF ClientReads
<1>4. CASE ClientCloses
  BY <1>4 DEF ClientCloses
<1> QED
  BY <1>1, <1>2, <1>3, <1>4 DEF Client

Flags == fd \in BOOLEAN /\ stop \in BOOLEAN /\ peer_alive \in BOOLEAN

\* A step of main that starts the thread or none, and may close the listening
\* descriptor, keeps the invariant.
LEMMA MainKeeps ==
    ASSUME IInv, Flags',
           server' \in {"start", "unlink", "bind", "listen", "thread", "up",
                        "failed", "destroyed"},
           file' \in {"none", "stale", "bound"},
           UNCHANGED <<listener, len, hello, pos, negotiated, answer>>,
           UNCHANGED socket \/ (client' = "away" /\ inbox' = <<>> /\ unread' = 0),
           UNCHANGED transport \/ (listener = "off" /\ transport' = "loop")
    PROVE  IInv'
<1>1. TypeOK'
  <2>1. /\ client' \in {"away", "waiting", "connected", "half_closed", "gone"}
        /\ inbox' \in Seq({"byte", "newline"}) /\ Len(inbox') <= InMax
        /\ unread' \in 0 .. OutMax
    <3>1. CASE UNCHANGED socket
      BY <3>1 DEF IInv, TypeOK, socket
    <3>2. CASE client' = "away" /\ inbox' = <<>> /\ unread' = 0
      BY <3>2
    <3> QED
      BY <3>1, <3>2, Zenon
  <2>2. transport' \in {"off", "loop", "poll", "send_hello", "read_hello", "parse",
                      "answer", "reject", "subscribe", "start_listener", "serve",
                      "write", "hang_up", "join", "cleanup", "done"}
    BY DEF IInv, TypeOK
  <2> QED
    BY <2>1, <2>2, Zenon DEF IInv, TypeOK, Flags
<1>2. ListenerInsideConnection' /\ RoomForByte'
  BY DEF IInv, ListenerInsideConnection, RoomForByte, Serving
<1> QED
  BY <1>1, <1>2, Zenon DEF IInv

\* main starts the thread when there is none, and a restart starts from nothing.
LEMMA MainStep ==
    ASSUME IInv, SInv,
           Create \/ ShutdownRequest \/ TransportDestroy \/ Restart
    PROVE  IInv'
<1>0. /\ Flags
      /\ server \in {"start", "unlink", "bind", "listen", "thread", "up",
                     "failed", "destroyed"}
      /\ file \in {"none", "stale", "bound"}
  BY Zenon DEF IInv, TypeOK, Flags
<1> USE DEF Flags, session, parser, FileUnlinked, CloseListenFd
<1>1. CASE CreateSocket
  BY <1>0, <1>1, MainKeeps, Zenon DEF CreateSocket
<1>2. CASE UnlinkStale
  BY <1>0, <1>2, MainKeeps, Zenon DEF UnlinkStale
<1>3. CASE Bind
  BY <1>0, <1>3, MainKeeps, Zenon DEF Bind
<1>4. CASE Listen
  BY <1>0, <1>4, MainKeeps, Zenon DEF Listen
<1>5. CASE StartThread
  <2>1. listener = "off"
    BY <1>5 DEF StartThread, SInv, ServerPlace, IInv, ListenerInsideConnection, Serving
  <2> QED
    BY <1>0, <1>5, <2>1, MainKeeps, Zenon DEF StartThread
<1>6. CASE ShutdownRequest
  BY <1>0, <1>6, MainKeeps, Zenon DEF ShutdownRequest
<1>7. CASE TransportDestroy
  BY <1>0, <1>7, MainKeeps, Zenon DEF TransportDestroy
<1>8. CASE Restart
  <2>1. Flags' /\ file' \in {"none", "stale", "bound"}
    BY <1>0, <1>8, Zenon DEF Restart
  <2>2. /\ server' = "start" /\ transport' = "off" /\ listener' = "off"
        /\ client' = "away" /\ inbox' = <<>> /\ unread' = 0 /\ len' = 0
        /\ negotiated' = 0 /\ answer' = "none" /\ hello' = <<>> /\ pos' = 1
    BY <1>8, Zenon DEF Restart, NoConnection
  <2>3. TypeOK'
    BY <2>1, <2>2 DEF TypeOK
  <2> QED
    BY <2>2, <2>3 DEF IInv, ListenerInsideConnection, RoomForByte
<1> QED
  BY <1>1, <1>2, <1>3, <1>4, <1>5, <1>6, <1>7, <1>8, Zenon DEF Create

\* highest_common_version returns the highest version both sides know, or 0.
LEMMA VersionType ==
    ASSUME NEW versions
    PROVE  LET v == HighestCommonVersion(versions)
               common == HANDSHAKE_SERVER_VERSIONS \cap versions
           IN  \/ v = 0
               \/ v # 0 /\ v \in common /\ \A w \in common : w <= v
<1> DEFINE common == HANDSHAKE_SERVER_VERSIONS \cap versions
           v == CHOOSE x \in common : \A w \in common : w <= x
<1>1. CASE common = {}
  BY <1>1 DEF HighestCommonVersion
<1>2. CASE common # {}
  <2>1. \E x \in common : \A w \in common : w <= x
    BY <1>2, Zenon
  <2>2. v \in common /\ \A w \in common : w <= v
    BY <2>1, Zenon
  <2>3. HighestCommonVersion(versions) = v
    BY <1>2, ZenonT(30) DEF HighestCommonVersion
  <2> QED
    BY <2>2, <2>3, Zenon
<1> QED
  BY <1>1, <1>2

\* The transport thread keeps the invariant: it starts a listener only when there
\* is none and joins it before it closes the connection.
LEMMA TransportThread ==
    ASSUME IInv, TransportStep \/ PollFails \/ AcceptFails \/ ServeMessage
    PROVE  IInv'
<1> USE DEF IInv, TypeOK, ListenerInsideConnection, RoomForByte, Serving,
            session, socket, main, parser
<1>1. CASE LoopTop
  BY <1>1 DEF LoopTop
<1>2. CASE PollTimeout
  BY <1>2 DEF PollTimeout
<1>3. CASE Accept
  BY <1>3 DEF Accept
<1>4. CASE SendHello
  BY <1>4 DEF SendHello, Write, WriteFails
<1>5. CASE ReadHello
  <2>1. /\ listener' = "off" /\ listener = "off"
        /\ transport' \in {"read_hello", "parse", "reject"}
        /\ UNCHANGED <<main, peer_alive, negotiated, answer, pos, client, unread>>
    BY <1>5 DEF ReadHello
  <2>2. inbox' = inbox \/ (inbox # <<>> /\ inbox' = Tail(inbox))
    BY <1>5 DEF ReadHello
  <2>3. Received'
    BY <2>2, InboxType, Zenon DEF Received
  <2>4. len' \in 0 .. LINE_MAX - 1 /\ hello' \in Lines \cup {<<>>}
    BY <1>5 DEF ReadHello, LineFull
  <2> QED
    BY <2>1, <2>3, <2>4 DEF Received
<1>6. CASE Answer
  BY <1>6, VersionType DEF Answer, Write, WriteFails
<1>7. CASE Reject
  BY <1>7 DEF Reject, CloseConnection, NoConnection
<1>8. CASE Subscribe
  BY <1>8 DEF Subscribe
<1>9. CASE StartListener
  BY <1>9 DEF StartListener
<1>10. CASE ServeEnds
  BY <1>10 DEF ServeEnds
<1>11. CASE ServeWrite
  BY <1>11 DEF ServeWrite, Write, WriteFails, ClientLost
<1>12. CASE HangUp
  <2>0. /\ peer_alive' \in BOOLEAN /\ transport' \in {"cleanup", "join"}
        /\ UNCHANGED <<main, listener, negotiated, answer, parser, len, socket>>
    BY <1>12, Zenon DEF HangUp, AfterHangUp
  <2>1. TypeOK'
    BY <2>0
  <2>2. ListenerInsideConnection' /\ RoomForByte'
    BY <1>12 DEF HangUp, AfterHangUp
  <2> QED
    BY <2>1, <2>2, Zenon
<1>13. CASE JoinListener
  BY <1>13 DEF JoinListener
<1>14. CASE Cleanup
  BY <1>14 DEF Cleanup, CloseConnection, NoConnection
<1>15. CASE PollFails
  BY <1>15 DEF PollFails
<1>16. CASE AcceptFails
  BY <1>16 DEF AcceptFails
<1>17. CASE ServeMessage
  BY <1>17 DEF ServeMessage
<1>18. CASE ParseClientVersions
  BY <1>18 DEF ParseClientVersions
<1> QED
  BY <1>1, <1>2, <1>3, <1>4, <1>5, <1>6, <1>7, <1>8, <1>9, <1>10,
     <1>11, <1>12, <1>13, <1>14, <1>15, <1>16, <1>17,
     <1>18 DEF TransportStep

\* The listener keeps the invariant.
LEMMA ListenerThread ==
    ASSUME IInv, ListenerStep \/ ListenerFails PROVE IInv'
<1> USE DEF IInv, TypeOK, ListenerInsideConnection, RoomForByte, Serving,
            session, socket, main, parser
<1>1. CASE ListenerPoll
  BY <1>1 DEF ListenerPoll, LineFull
<1>2. CASE ListenerRead
  <2>1. /\ listener = "read" /\ listener' \in {"poll", "apply", "exit"}
        /\ UNCHANGED <<main, transport, session, client, unread>>
    BY <1>2 DEF ListenerRead
  <2>2. inbox' = inbox \/ (inbox # <<>> /\ inbox' = Tail(inbox))
    BY <1>2 DEF ListenerRead
  <2>3. Received'
    BY <2>2, InboxType, Zenon DEF Received
  <2>4. len' \in 0 .. LINE_MAX - 1
    BY <1>2 DEF ListenerRead
  <2>5. TypeOK'
    BY <2>1, <2>3, <2>4 DEF Received
  <2>6. ListenerInsideConnection' /\ RoomForByte'
    BY <2>1
  <2> QED
    BY <2>5, <2>6, Zenon
<1>3. CASE ListenerApply
  BY <1>3 DEF ListenerApply
<1>4. CASE ListenerExit
  <2>1. /\ peer_alive' \in BOOLEAN /\ listener = "exit" /\ listener' = "done"
        /\ UNCHANGED <<main, transport, negotiated, answer, parser, len, socket>>
    BY <1>4, Zenon DEF ListenerExit, Cleared
  <2> QED
    BY <2>1
<1>5. CASE ListenerFails
  BY <1>5 DEF ListenerFails
<1> QED
  BY <1>1, <1>2, <1>3, <1>4, <1>5 DEF ListenerStep

\* Every step preserves the invariant.
LEMMA NextInv == IInv /\ SInv /\ [Next]_vars => IInv'
<1> SUFFICES ASSUME IInv, SInv, [Next]_vars PROVE IInv'
  OBVIOUS
<1>1. CASE UNCHANGED vars
  BY <1>1 DEF vars, IInv, TypeOK, ListenerInsideConnection, RoomForByte, Serving
<1> QED
  BY <1>1, ClientStep, MainStep, TransportThread, ListenerThread, Zenon DEF Next

\* The invariants hold together.
LEMMA Invariant == Spec => [](IInv /\ SInv)
BY InitInv, NextInv, SocketInit, SocketNext, PTL DEF Spec

\* The variables keep their types: no line overruns its buffer (handshake.c:45,
\* command.c:27).
THEOREM TypeCorrect == Spec => []TypeOK
<1>1. IInv => TypeOK
  BY Zenon DEF IInv
<1> QED
  BY <1>1, Invariant, PTL

\* The listener never outlives its connection: the socket it reads and the
\* peer_alive it points to are there as long as it runs (transport.c:164-193).
THEOREM ListenerStaysInside == Spec => []ListenerInsideConnection
<1>1. IInv => ListenerInsideConnection
  BY Zenon DEF IInv
<1> QED
  BY <1>1, Invariant, PTL

-----------------------------------------------------------------------------
(* The handshake                                                           *)

\* The client's answer and the connection's version change together: every
\* other step leaves both alone and stays on its side of the handshake.
LEMMA AnswerNext ==
    AnswerMatchesConnection /\ SInv /\ [Next]_vars => AnswerMatchesConnection'
<1> SUFFICES ASSUME AnswerMatchesConnection, SInv, [Next]_vars
             PROVE  AnswerMatchesConnection'
  OBVIOUS
<1> USE DEF AnswerMatchesConnection, Serving
<1>1. CASE Accept
  BY <1>1 DEF Accept
<1>2. CASE ReadHello \/ ParseClientVersions
  BY <1>2 DEF ReadHello, ParseClientVersions
<1>3. CASE Answer
  <2>1. CASE transport' = "reject"
    BY <1>3, <2>1 DEF Answer
  <2>2. CASE transport' # "reject"
    <3>1. /\ HighestCommonVersion(offered) # 0
          /\ negotiated' = HighestCommonVersion(offered)
          /\ answer' = "ack" /\ transport' = "subscribe" /\ offered' = offered
      BY <1>3, <2>2 DEF Answer
    <3> QED
      BY <3>1, VersionType
  <2> QED
    BY <2>1, <2>2
<1>4. CASE Reject \/ Cleanup
  BY <1>4 DEF Reject, Cleanup, CloseConnection, NoConnection
<1>5. CASE LoopTop \/ PollTimeout \/ AcceptFails \/ PollFails \/ SendHello
  BY <1>5 DEF LoopTop, PollTimeout, AcceptFails, PollFails, SendHello, session, parser
<1>6. CASE Subscribe \/ StartListener
  BY <1>6 DEF Subscribe, StartListener, session, parser
<1>7. CASE ServeEnds \/ ServeMessage \/ ServeWrite
  BY <1>7 DEF ServeEnds, ServeMessage, ServeWrite, ClientLost, session, parser
<1>8. CASE HangUp \/ JoinListener
  BY <1>8 DEF HangUp, JoinListener, AfterHangUp, session, parser
<1>9. CASE Client
  BY <1>9 DEF Client, ClientConnects, ClientSends, ClientReads, ClientCloses,
     session, parser
<1>10. CASE ListenerStep \/ ListenerFails
  BY <1>10 DEF ListenerStep, ListenerPoll, ListenerRead, ListenerApply,
     ListenerExit, ListenerFails, session, parser
<1>11. CASE UNCHANGED vars
  BY <1>11 DEF vars
<1>12. CASE StartThread
  BY <1>12 DEF StartThread, SInv, ServerPlace, session, parser
<1>13. CASE CreateSocket \/ UnlinkStale \/ Bind \/ Listen
  BY <1>13 DEF CreateSocket, UnlinkStale, Bind, Listen, session, parser
<1>14. CASE ShutdownRequest \/ TransportDestroy \/ Restart
  BY <1>14 DEF ShutdownRequest, TransportDestroy, Restart, NoConnection, session,
     parser
<1> QED
  BY <1>1, <1>2, <1>3, <1>4, <1>5, <1>6, <1>7, <1>8, <1>9, <1>10, <1>11,
     <1>12, <1>13, <1>14 DEF Next, TransportStep, Create

\* Client and server agree on the outcome of the handshake, whatever the versions
\* of either side (handshake.c:153-176, transport.c:134).
THEOREM HandshakeAgrees == Spec => []AnswerMatchesConnection
<1>1. Init => AnswerMatchesConnection
  BY DEF Init, AnswerMatchesConnection, Serving
<1> QED
  BY <1>1, AnswerNext, Invariant, PTL DEF Spec
-----------------------------------------------------------------------------
(* The list of versions: the transport thread                               *)

PInv ==
    /\ transport = "parse" => Parsed(hello, pos, out)
    /\ transport # "parse" => pos = 1 /\ out = <<>>
    /\ ParserAgrees

\* Every step preserves the parser's invariant.
LEMMA ParserNext == PInv /\ IInv /\ SInv /\ [Next]_vars => PInv'
<1> SUFFICES ASSUME PInv, IInv, SInv, [Next]_vars PROVE PInv'
  OBVIOUS
<1>0. hello \in Seq(Tokens)
  <2>1. <<>> \in Seq(Tokens)
    OBVIOUS
  <2> QED
    BY <2>1, Zenon DEF IInv, TypeOK, TransportAssumption
<1>1. CASE ReadHello
  <2>1. CASE transport' = "parse"
    <3>1. /\ transport = "read_hello" /\ hello' \in Lines
          /\ pos' = 1 /\ out' = <<>>
      BY <1>1, <2>1 DEF ReadHello, PInv
    <3>2. hello' \in Seq(Tokens)
      BY <3>1, Zenon DEF TransportAssumption
    <3>3. Len(hello') \in Nat /\ OutCapacity \in Nat
      BY <3>2, Places, Zenon DEF TransportAssumption
    <3>4. 1 \in 1 .. Len(hello') + 1 /\ 0 <= OutCapacity /\ 1 = 2 * 0 + 1
      BY <3>3
    <3>5. <<>> \in Seq(Int) /\ Len(<<>>) = 0 /\ 1 .. 0 = {} /\ 1 .. 1 - 1 = {}
      OBVIOUS
    <3>6. Parsed(hello', 1, <<>>)
      BY <3>4, <3>5, Zenon DEF Parsed
    <3> QED
      BY <2>1, <3>1, <3>6, Zenon DEF PInv, ParserAgrees
  <2>2. CASE transport' # "parse"
    BY <1>1, <2>2 DEF ReadHello, PInv, ParserAgrees
  <2> QED
    BY <2>1, <2>2, Zenon
<1>2. CASE ParseClientVersions
  <2>0. /\ transport = "parse" /\ hello' = hello /\ Parsed(hello, pos, out)
        /\ pos \in Nat /\ Len(hello) \in Nat
    BY <1>0, <1>2 DEF ParseClientVersions, PInv, Parsed
  <2>1. CASE NumberFollows
    <3>1. /\ transport' = transport
          /\ pos' = IF pos = Len(hello) THEN pos + 1 ELSE pos + 2
          /\ out' = Append(out, Cast(hello[pos].value))
      BY <1>2, <2>1, Zenon DEF ParseClientVersions
    <3>2. Parsed(hello, pos', out')
      BY <1>0, <2>0, <2>1, <3>1, ParsePass, Zenon DEF NumberFollows
    <3> QED
      BY <2>0, <3>1, <3>2, Zenon DEF PInv, ParserAgrees
  <2>2. CASE ~NumberFollows
    <3>1. /\ transport' = "answer" /\ pos' = 1 /\ out' = <<>>
          /\ offered' = IF pos > Len(hello) THEN {out[i] : i \in DOMAIN out} ELSE {}
      BY <1>2, <2>2, Zenon DEF ParseClientVersions
    <3>2. CASE pos > Len(hello)
      <4>1. Elements(out) = Advertised(hello)
        BY <1>0, <2>0, <3>2, ParseDone, Zenon
      <4>2. offered' = Advertised(hello')
        BY <2>0, <3>1, <3>2, <4>1, Zenon DEF Elements
      <4> QED
        BY <3>1, <4>2, Zenon DEF PInv, ParserAgrees
    <3>3. CASE ~(pos > Len(hello))
      <4>1. pos <= Len(hello)
        BY <2>0, <3>3
      <4>2. Advertised(hello) = {}
        BY <1>0, <2>0, <2>2, <4>1, ParseFails, Zenon DEF NumberFollows
      <4> QED
        BY <2>0, <3>1, <3>3, <4>2, Zenon DEF PInv, ParserAgrees
    <3> QED
      BY <3>2, <3>3, Zenon
  <2> QED
    BY <2>1, <2>2, Zenon
<1>3. ASSUME UNCHANGED <<hello, pos, out, offered>>, transport # "parse",
             transport' \notin {"parse", "answer"}
      PROVE  PInv'
  BY <1>3, Zenon DEF PInv, ParserAgrees
<1>4. ASSUME UNCHANGED <<hello, pos, out, offered, transport>> PROVE PInv'
  BY <1>4, Zenon DEF PInv, ParserAgrees
<1>5. CASE Answer \/ Reject \/ Cleanup \/ Restart
  BY <1>5 DEF Answer, Reject, Cleanup, Restart, CloseConnection, PInv, ParserAgrees
<1>6. CASE LoopTop \/ PollTimeout \/ Accept \/ PollFails \/ AcceptFails \/ SendHello
  BY <1>3, <1>6 DEF LoopTop, PollTimeout, Accept, PollFails, AcceptFails,
     SendHello, session, parser
<1>7. CASE Subscribe \/ StartListener \/ ServeEnds \/ ServeMessage \/ ServeWrite
  BY <1>3, <1>7 DEF Subscribe, StartListener, ServeEnds, ServeMessage, ServeWrite,
     ClientLost, session, parser
<1>8. CASE HangUp \/ JoinListener
  BY <1>3, <1>8 DEF HangUp, JoinListener, AfterHangUp, session, parser
<1>9. CASE Client \/ ListenerStep \/ ListenerFails
  BY <1>4, <1>9, Zenon DEF Client, ClientConnects, ClientSends, ClientReads,
     ClientCloses, ListenerStep, ListenerPoll, ListenerRead, ListenerApply,
     ListenerExit, ListenerFails, session, parser
<1>10. CASE StartThread
  BY <1>3, <1>4, <1>10 DEF StartThread, SInv, ServerPlace, session, parser
<1>11. CASE CreateSocket \/ UnlinkStale \/ Bind \/ Listen \/ ShutdownRequest
            \/ TransportDestroy
  BY <1>4, <1>11, Zenon DEF CreateSocket, UnlinkStale, Bind, Listen,
     ShutdownRequest, TransportDestroy, session, parser
<1>12. CASE UNCHANGED vars
  BY <1>4, <1>12, Zenon DEF vars
<1> QED
  BY <1>1, <1>2, <1>5, <1>6, <1>7, <1>8, <1>9, <1>10, <1>11, <1>12, Zenon
  DEF Next, TransportStep, Create

\* parse_client_versions hands over exactly the versions a line advertises, for
\* every line and every capacity (handshake.c:84-115).
THEOREM ParserCorrect == Spec => []ParserAgrees
<1>1. Init => PInv
  BY DEF Init, PInv, ParserAgrees
<1>2. PInv => ParserAgrees
  BY Zenon DEF PInv
<1> QED
  BY <1>1, <1>2, ParserNext, Invariant, PTL DEF Spec

-----------------------------------------------------------------------------
(* A connection whose client is gone                                        *)

\* Every step keeps the two threads informed of each other.
LEMMA ToldNext == SiblingIsTold /\ [Next]_vars => SiblingIsTold'
<1> SUFFICES ASSUME SiblingIsTold, [Next]_vars PROVE SiblingIsTold'
  OBVIOUS
<1> USE DEF SiblingIsTold
<1>1. ASSUME UNCHANGED <<listener, peer_alive>>, transport' = transport \/ transport' # "join"
      PROVE  SiblingIsTold'
  BY <1>1, Zenon
<1>2. CASE Client \/ CreateSocket \/ UnlinkStale \/ Bind \/ Listen \/ ShutdownRequest
             \/ TransportDestroy \/ UNCHANGED vars
  BY <1>1, <1>2, Zenon DEF Client, ClientConnects, ClientSends, ClientReads, ClientCloses,
     CreateSocket, UnlinkStale, Bind, Listen, ShutdownRequest, TransportDestroy, session,
     vars
<1>3. CASE StartThread \/ LoopTop \/ PollTimeout \/ Accept \/ PollFails \/ AcceptFails
             \/ SendHello \/ ReadHello
  BY <1>1, <1>3 DEF StartThread, LoopTop, PollTimeout, Accept, PollFails, AcceptFails,
     SendHello, ReadHello, session
<1>4. CASE ParseClientVersions \/ Answer \/ Reject \/ Subscribe \/ ServeEnds
             \/ ServeMessage \/ ServeWrite \/ Cleanup
  BY <1>1, <1>4 DEF ParseClientVersions, Answer, Reject, Subscribe, ServeEnds, Cleanup,
     ServeMessage, ServeWrite, ClientLost, CloseConnection, session
<1>5. CASE Restart \/ StartListener
  BY <1>5 DEF Restart, StartListener
<1>6. CASE HangUp \/ JoinListener
  BY <1>6 DEF HangUp, AfterHangUp, JoinListener
<1>7. CASE ListenerPoll \/ ListenerRead \/ ListenerApply \/ ListenerFails
  <2>1. /\ listener # "off" /\ listener' \notin {"off", "done"}
        /\ UNCHANGED <<transport, peer_alive>>
    BY <1>7 DEF ListenerPoll, ListenerRead, ListenerApply, ListenerFails, session
  <2> QED
    BY <2>1, Zenon
<1>8. CASE ListenerExit
  <2>1. listener' = "done" /\ UNCHANGED transport /\ ~peer_alive'
    BY <1>8, Zenon DEF ListenerExit, Cleared
  <2> QED
    BY <2>1
<1> QED
  BY <1>2, <1>3, <1>4, <1>5, <1>6, <1>7, <1>8, Zenon
  DEF Next, Create, TransportStep, ListenerStep

\* Neither thread of a connection is left without the news that the other has gone,
\* for every client and every interleaving (transport.c:186-193, command.c:140).
THEOREM SiblingsTellEachOther == Spec => []SiblingIsTold
<1>1. Init => SiblingIsTold
  BY DEF Init, SiblingIsTold
<1> QED
  BY <1>1, ToldNext, PTL DEF Spec

\* The parts of StepsToClose: where the threads are, and what is left to them.
Sender(pc) == [off |-> 0, loop |-> 0, poll |-> 0, done |-> 0, cleanup |-> 1,
               reject |-> 1, join |-> 2, hang_up |-> 3, write |-> 4, serve |-> 5,
               start_listener |-> 8, subscribe |-> 9, answer |-> 10,
               parse |-> 11 + OutCapacity, read_hello |-> 12 + OutCapacity,
               send_hello |-> 13 + OutCapacity][pc]
Reader(pc) == [off |-> 0, done |-> 0, exit |-> 1, poll |-> 2, apply |-> 3, read |-> 3][pc]
Parsing == Sender(transport) - Len(out)
Reading == Reader(listener)
NInbox == Len(inbox)
NUnread == unread
Unasked == IF Connected /\ ~stop THEN 1 ELSE 0

LEMMA Sum ==
    /\ StepsToClose = Parsing + Reading + NInbox + NUnread + Unasked
    /\ StepsToClose' = Parsing' + Reading' + NInbox' + NUnread' + Unasked'
BY Zenon DEF StepsToClose, Sender, Reader, Parsing, Reading, NInbox, NUnread, Unasked

\* What the places cost.
LEMMA SenderCosts ==
    /\ Sender("off") = 0 /\ Sender("loop") = 0 /\ Sender("cleanup") = 1
    /\ Sender("reject") = 1 /\ Sender("join") = 2 /\ Sender("hang_up") = 3
    /\ Sender("write") = 4 /\ Sender("serve") = 5 /\ Sender("start_listener") = 8
    /\ Sender("subscribe") = 9 /\ Sender("answer") = 10
    /\ Sender("parse") = 11 + OutCapacity /\ Sender("read_hello") = 12 + OutCapacity
    /\ Sender("send_hello") = 13 + OutCapacity
BY DEF Sender

LEMMA ReaderCosts ==
    /\ Reader("off") = 0 /\ Reader("done") = 0 /\ Reader("exit") = 1
    /\ Reader("poll") = 2 /\ Reader("apply") = 3 /\ Reader("read") = 3
BY DEF Reader

\* They are numbers.
Counts == /\ Parsing \in Nat /\ Reading \in Nat /\ NInbox \in Nat
          /\ NUnread \in Nat /\ Unasked \in Nat

LEMMA Numbers == IInv /\ PInv => Counts /\ (Connected => Parsing \in Nat \ {0})
<1> SUFFICES ASSUME IInv, PInv PROVE Counts /\ (Connected => Parsing \in Nat \ {0})
  OBVIOUS
<1>1. Reading \in Nat
  BY ReaderCosts DEF IInv, TypeOK, Reading
<1>2. NInbox \in Nat /\ NUnread \in Nat
  BY DEF IInv, TypeOK, NInbox, NUnread
<1>3. Unasked \in Nat
  BY DEF Unasked
<1>4. Parsing \in Nat /\ (Connected => Parsing # 0)
  <2>1. CASE transport = "parse"
    <3>1. Len(out) \in Nat /\ Len(out) <= OutCapacity /\ OutCapacity \in Nat
      BY <2>1 DEF PInv, Parsed, TransportAssumption
    <3> QED
      BY <2>1, <3>1, SenderCosts DEF Parsing
  <2>2. CASE transport # "parse"
    <3>1. Len(out) = 0
      BY <2>2 DEF PInv
    <3>2. Sender(transport) \in Nat /\ (Connected => Sender(transport) # 0)
      <4>1. OutCapacity \in Nat
        BY Zenon DEF TransportAssumption
      <4>2. Sender("poll") = 0 /\ Sender("done") = 0
        BY DEF Sender
      <4> QED
        BY <4>1, <4>2, SenderCosts DEF IInv, TypeOK, Connected
    <3> QED
      BY <3>1, <3>2 DEF Parsing
  <2> QED
    BY <2>1, <2>2
<1> QED
  BY <1>1, <1>2, <1>3, <1>4 DEF Counts

\* A sum is lower when one part is and no other is higher.
LEMMA Lower ==
    ASSUME Counts, Counts',
           Parsing' + Reading' < Parsing + Reading
             \/ (Parsing' + Reading' = Parsing + Reading
                   /\ NInbox' + NUnread' + Unasked' < NInbox + NUnread + Unasked),
           NInbox' <= NInbox, NUnread' <= NUnread, Unasked' <= Unasked
    PROVE  StepsToClose' < StepsToClose
<1>1. \A p, r, n, u, a, q, s, m, v, b \in Nat :
         /\ q + s < p + r \/ (q + s = p + r /\ m + v + b < n + u + a)
         /\ m <= n /\ v <= u /\ b <= a
         => q + s + m + v + b < p + r + n + u + a
  OBVIOUS
<1> QED
  BY <1>1, Sum, Zenon DEF Counts

\* The flag does not go down while a connection is open.
LEMMA StillAsked ==
    ASSUME Connected, stop => stop' PROVE Unasked' <= Unasked
<1>1. CASE ~Connected' \/ stop'
  BY <1>1 DEF Unasked
<1>2. CASE ~(~Connected' \/ stop')
  <2>1. Connected /\ ~stop /\ Connected' /\ ~stop'
    BY <1>2, Zenon
  <2>2. Unasked' = 1 /\ Unasked = 1
    BY <2>1 DEF Unasked
  <2> QED
    BY <2>2
<1> QED
  BY <1>1, <1>2

\* Outside the parser's loop out[] is empty.
LEMMA OutsideParser ==
    ASSUME IInv, PInv, transport # "parse" PROVE Parsing = Sender(transport)
<1>1. Len(out) = 0
  BY DEF PInv
<1>2. Sender(transport) \in Nat
  <2>1. OutCapacity \in Nat
    BY Zenon DEF TransportAssumption
  <2>2. Sender("poll") = 0 /\ Sender("done") = 0
    BY DEF Sender
  <2>3. transport \in {"off", "loop", "poll", "send_hello", "read_hello", "answer",
                       "reject", "subscribe", "start_listener", "serve", "write",
                       "hang_up", "join", "cleanup", "done"}
    BY Zenon DEF IInv, TypeOK
  <2> QED
    BY <2>1, <2>2, <2>3, SenderCosts
<1> QED
  BY <1>1, <1>2 DEF Parsing

\* And after the step.
LEMMA OutsideParserNext ==
    ASSUME IInv', PInv', transport' # "parse" PROVE Parsing' = Sender(transport')
<1>1. Len(out') = 0
  BY DEF PInv
<1>2. Sender(transport') \in Nat
  <2>1. OutCapacity \in Nat
    BY Zenon DEF TransportAssumption
  <2>2. Sender("poll") = 0 /\ Sender("done") = 0
    BY DEF Sender
  <2>3. transport' \in {"off", "loop", "poll", "send_hello", "read_hello", "answer",
                       "reject", "subscribe", "start_listener", "serve", "write",
                       "hang_up", "join", "cleanup", "done"}
    BY Zenon DEF IInv, TypeOK
  <2> QED
    BY <2>1, <2>2, <2>3, SenderCosts
<1> QED
  BY <1>1, <1>2 DEF Parsing

\* A step of the transport thread that moves nothing but its pc.
LEMMA SenderMoves ==
    ASSUME Counts, Counts', Connected, UNCHANGED <<listener, inbox, unread, stop>>,
           Parsing' < Parsing
    PROVE  StepsToClose' < StepsToClose
<1>1. /\ Reading' = Reading /\ NInbox' = NInbox /\ NUnread' = NUnread
      /\ Unasked' <= Unasked
  BY StillAsked, Zenon DEF Reading, NInbox, NUnread
<1>2. \A p, q, r \in Nat : q < p => q + r < p + r
  OBVIOUS
<1>3. \A n \in Nat : n <= n
  OBVIOUS
<1> QED
  BY <1>1, <1>2, <1>3, Lower, Zenon DEF Counts

\* Closing the connection ends it.
LEMMA CloseAdvances ==
    ASSUME IInv, PInv, IInv', PInv', Counts, Counts', Connected, Reject \/ Cleanup
    PROVE  StepsToClose' < StepsToClose
<1>1. /\ transport \in {"reject", "cleanup"} /\ transport' = "loop" /\ inbox' = <<>>
      /\ unread' = 0 /\ UNCHANGED <<listener, stop>>
  BY DEF Reject, Cleanup, CloseConnection, NoConnection, main
<1>2. Parsing = 1 /\ Parsing' = 0
  BY <1>1, OutsideParser, OutsideParserNext, SenderCosts
<1>3. NInbox' = 0 /\ NUnread' = 0 /\ Reading' = Reading
  BY <1>1 DEF NInbox, NUnread, Reading
<1>4. Unasked' <= Unasked
  BY <1>1, StillAsked, Zenon
<1>5. \A r, n, u, a, b \in Nat : b <= a => 0 + r + 0 + 0 + b < 1 + r + n + u + a
  OBVIOUS
<1> QED
  BY <1>2, <1>3, <1>4, <1>5, Sum, Zenon DEF Counts

\* The handshake ends: read() finds what is left and then the end of the file, and
\* write() fails.
LEMMA HandshakeAdvances ==
    ASSUME IInv, PInv, IInv', PInv', Counts, Counts', client = "gone", Connected,
           SendHello \/ ReadHello \/ ParseClientVersions \/ Answer \/ Reject
    PROVE  StepsToClose' < StepsToClose
<1>0. OutCapacity \in Nat
  BY Zenon DEF TransportAssumption
<1>1. CASE SendHello \/ Answer
  <2>1. /\ transport \in {"send_hello", "answer"} /\ transport' = "reject"
        /\ UNCHANGED <<listener, inbox, unread, stop>>
    BY <1>1 DEF SendHello, Answer, Write, WriteFails, main, socket
  <2>2. Parsing' < Parsing
    BY <1>0, <2>1, OutsideParser, OutsideParserNext, SenderCosts
  <2> QED
    BY <2>1, <2>2, SenderMoves, Zenon
<1>2. CASE ReadHello /\ inbox' = inbox
  <2>1. /\ transport = "read_hello" /\ transport' = "reject"
        /\ UNCHANGED <<listener, inbox, unread, stop>>
    <3>1. inbox # <<>> => Tail(inbox) # inbox
      BY Shorter DEF IInv, TypeOK
    <3> QED
      BY <1>2, <3>1, Zenon DEF ReadHello, main
  <2>2. Parsing' < Parsing
    BY <1>0, <2>1, OutsideParser, OutsideParserNext, SenderCosts
  <2> QED
    BY <2>1, <2>2, SenderMoves, Zenon
<1>3. CASE ReadHello /\ inbox' # inbox
  <2>1. /\ transport = "read_hello" /\ transport' \in {"read_hello", "parse"}
        /\ inbox # <<>> /\ inbox' = Tail(inbox)
        /\ UNCHANGED <<listener, unread, stop, out>>
    BY <1>3, Zenon DEF ReadHello, main
  <2>2. NInbox' = NInbox - 1
    BY <2>1, Shorter, Zenon DEF IInv, TypeOK, NInbox
  <2>3. Parsing = 12 + OutCapacity
    BY <2>1, OutsideParser, OutsideParserNext, SenderCosts
  <2>4. Parsing' \in {12 + OutCapacity, 11 + OutCapacity}
    <3>1. Len(out') = 0
      BY <2>1 DEF PInv
    <3> QED
      BY <1>0, <2>1, <3>1, SenderCosts DEF Parsing
  <2>5. Reading' = Reading /\ NUnread' = NUnread /\ Unasked' <= Unasked
    BY <2>1, StillAsked, Zenon DEF Reading, NUnread
  <2>6. \A c, r, n, u, a, b \in Nat :
           /\ b <= a
           => /\ (12 + c) + r + (n - 1) + u + b < (12 + c) + r + n + u + a
              /\ (11 + c) + r + (n - 1) + u + b < (12 + c) + r + n + u + a
    OBVIOUS
  <2> QED
    BY <1>0, <2>2, <2>3, <2>4, <2>5, <2>6, Sum, Zenon DEF Counts
<1>4. CASE ParseClientVersions
  <2>1. /\ transport = "parse" /\ UNCHANGED <<listener, inbox, unread, stop>>
        /\ \/ transport' = "parse" /\ \E v : out' = Append(out, v)
           \/ transport' = "answer"
    BY <1>4, Zenon DEF ParseClientVersions, socket, main
  <2>2. out \in Seq(Int) /\ Len(out) \in Nat /\ Len(out) <= OutCapacity
    BY <2>1 DEF PInv, Parsed
  <2>3. Parsing = (11 + OutCapacity) - Len(out)
    BY <2>1, SenderCosts, Zenon DEF Parsing
  <2>4. CASE transport' = "parse" /\ \E v : out' = Append(out, v)
    <3>1. Len(out') = Len(out) + 1
      BY <2>2, <2>4
    <3>2. Parsing' = (11 + OutCapacity) - (Len(out) + 1)
      BY <2>4, <3>1, SenderCosts, Zenon DEF Parsing
    <3>3. Parsing' < Parsing
      BY <1>0, <2>2, <2>3, <3>2
    <3> QED
      BY <2>1, <3>3, SenderMoves, Zenon
  <2>5. CASE transport' = "answer"
    <3>1. Parsing' = 10
      BY <2>5, OutsideParser, OutsideParserNext, SenderCosts
    <3>2. Parsing' < Parsing
      BY <1>0, <2>2, <2>3, <3>1
    <3> QED
      BY <2>1, <3>2, SenderMoves, Zenon
  <2> QED
    BY <2>1, <2>4, <2>5, Zenon
<1>5. CASE Reject
  BY <1>5, CloseAdvances
<1> QED
  BY <1>1, <1>2, <1>3, <1>4, <1>5, Zenon

\* The service ends.
LEMMA ServiceAdvances ==
    ASSUME IInv, PInv, IInv', PInv', Counts, Counts', client = "gone", Connected,
           Subscribe \/ ServeEnds \/ ServeMessage \/ ServeWrite \/ HangUp
    PROVE  StepsToClose' < StepsToClose
<1>1. UNCHANGED <<listener, inbox, unread, stop>>
  BY DEF Subscribe, ServeEnds, ServeMessage, ServeWrite, HangUp, Write, WriteFails,
     main, socket
<1>2. \/ transport = "subscribe" /\ transport' \in {"start_listener", "cleanup"}
      \/ transport = "serve" /\ transport' \in {"hang_up", "write"}
      \/ transport = "write" /\ transport' = "hang_up"
      \/ transport = "hang_up" /\ transport' \in {"join", "cleanup"}
  BY Zenon DEF Subscribe, ServeEnds, ServeMessage, ServeWrite, HangUp, Write, ClientLost,
     AfterHangUp
<1>3. Parsing' < Parsing
  BY <1>2, OutsideParser, OutsideParserNext, SenderCosts
<1> QED
  BY <1>1, <1>3, SenderMoves, Zenon

\* A listener is started once, and joined.
LEMMA ListenerComesAndGoes ==
    ASSUME IInv, PInv, IInv', PInv', Counts, Counts', Connected,
           StartListener \/ JoinListener
    PROVE  StepsToClose' < StepsToClose
<1>1. UNCHANGED <<inbox, unread, stop>>
  BY DEF StartListener, JoinListener, main, socket
<1>2. NInbox' = NInbox /\ NUnread' = NUnread /\ Unasked' <= Unasked
  BY <1>1, StillAsked, Zenon DEF NInbox, NUnread
<1>3. \/ Parsing = 8 /\ Parsing' = 5 /\ Reading = 0 /\ Reading' = 2
      \/ Parsing = 8 /\ Parsing' = 5 /\ Reading = 0 /\ Reading' = 0
      \/ Parsing = 2 /\ Parsing' = 1 /\ Reading = 0 /\ Reading' = 0
  <2>1. \/ /\ transport = "start_listener" /\ transport' = "serve"
           /\ listener = "off" /\ listener' \in {"poll", "off"}
        \/ /\ transport = "join" /\ transport' = "cleanup"
           /\ listener = "done" /\ listener' = "off"
    BY Zenon DEF StartListener, JoinListener, IInv, ListenerInsideConnection
  <2> QED
    BY <2>1, OutsideParser, OutsideParserNext, SenderCosts, ReaderCosts DEF Reading
<1>4. Parsing' + Reading' < Parsing + Reading
  BY <1>3
<1>5. \A n \in Nat : n <= n
  OBVIOUS
<1> QED
  BY <1>2, <1>4, <1>5, Lower, Zenon DEF Counts

\* The listener reads what is left, or sees POLLHUP.
LEMMA ListenerAdvances ==
    ASSUME IInv, Counts, Counts', client = "gone", Connected,
           ListenerStep \/ ListenerFails
    PROVE  StepsToClose' < StepsToClose
<1>1. UNCHANGED <<transport, out, unread, stop>>
  BY Zenon DEF ListenerStep, ListenerPoll, ListenerRead, ListenerApply, ListenerExit,
     ListenerFails, main, session, parser, socket
<1>2. Parsing' = Parsing /\ NUnread' = NUnread /\ Unasked' <= Unasked
  BY <1>1, StillAsked, Zenon DEF Parsing, NUnread
<1>3. CASE inbox' = inbox
  <2>1. \/ listener = "poll" /\ listener' = "exit"
        \/ listener = "read" /\ listener' = "exit"
        \/ listener = "apply" /\ listener' = "poll"
        \/ listener = "exit" /\ listener' = "done"
    <3>1. inbox # <<>> => Tail(inbox) # inbox
      BY Shorter DEF IInv, TypeOK
    <3> QED
      BY <1>3, <3>1, Zenon DEF ListenerStep, ListenerPoll, ListenerRead, ListenerApply,
         ListenerExit, ListenerFails
  <2>2. Reading' < Reading
    BY <2>1, ReaderCosts DEF Reading
  <2>3. NInbox' = NInbox
    BY <1>3, Zenon DEF NInbox
  <2>4. \A p, q, r \in Nat : q < r => p + q < p + r
    OBVIOUS
  <2>5. \A n \in Nat : n <= n
    OBVIOUS
  <2> QED
    BY <1>2, <2>2, <2>3, <2>4, <2>5, Lower, Zenon DEF Counts
<1>4. CASE inbox' # inbox
  <2>1. /\ listener = "read" /\ listener' \in {"poll", "apply"}
        /\ inbox # <<>> /\ inbox' = Tail(inbox)
    BY <1>4, Zenon DEF ListenerStep, ListenerPoll, ListenerRead, ListenerApply,
       ListenerExit, ListenerFails, socket
  <2>2. NInbox' = NInbox - 1
    BY <2>1, Shorter, Zenon DEF IInv, TypeOK, NInbox
  <2>3. Reading = 3 /\ Reading' \in {2, 3}
    BY <2>1, ReaderCosts DEF Reading
  <2>4. \A p, n, u, a, b \in Nat :
           b <= a => /\ p + 2 + (n - 1) + u + b < p + 3 + n + u + a
                     /\ p + 3 + (n - 1) + u + b < p + 3 + n + u + a
    OBVIOUS
  <2> QED
    BY <1>2, <2>2, <2>3, <2>4, Sum, Zenon DEF Counts
<1> QED
  BY <1>3, <1>4

\* main, and what is left of the client: a shutdown is requested once, a process
\* that is killed has no connections, and nobody sends any more.
LEMMA OthersAdvance ==
    ASSUME IInv, PInv, SInv, IInv', PInv', Counts, Counts', client = "gone", Connected,
           ~UNCHANGED vars,
           Client \/ Create \/ ShutdownRequest \/ TransportDestroy \/ Restart
    PROVE  StepsToClose' < StepsToClose
<1>1. ~Create /\ ~TransportDestroy
  BY DEF Create, CreateSocket, UnlinkStale, Bind, Listen, StartThread, TransportDestroy,
     Joined, SInv, ServerPlace, Connected
<1>2. CASE Client
  <2>1. /\ unread' = unread - 1 /\ UNCHANGED <<inbox, transport, listener, stop, out>>
    BY <1>2 DEF Client, ClientConnects, ClientSends, ClientReads, ClientCloses, main,
       session, parser
  <2>2. /\ Parsing' = Parsing /\ Reading' = Reading /\ NInbox' = NInbox
        /\ NUnread' = NUnread - 1 /\ Unasked' = Unasked
    BY <2>1, Zenon DEF Parsing, Reading, NInbox, NUnread, Unasked, Connected
  <2> QED
    BY <2>2, Sum DEF Counts
<1>3. CASE ShutdownRequest
  <2>1. UNCHANGED <<inbox, unread, transport, listener, out>> /\ stop' = TRUE
    BY <1>3, Zenon DEF ShutdownRequest, session, parser, socket
  <2>2. stop = FALSE
    <3>1. stop # TRUE
      BY <1>3, Zenon DEF ShutdownRequest, session, parser, socket, vars
    <3> QED
      BY <3>1, Zenon DEF IInv, TypeOK
  <2>3. Unasked = 1 /\ Unasked' = 0
    BY <2>1, <2>2, Zenon DEF Unasked
  <2>4. Parsing' = Parsing /\ Reading' = Reading /\ NInbox' = NInbox /\ NUnread' = NUnread
    BY <2>1, Zenon DEF Parsing, Reading, NInbox, NUnread
  <2> QED
    BY <2>3, <2>4, Sum DEF Counts
<1>4. CASE Restart
  <2>1. /\ transport' = "off" /\ listener' = "off" /\ inbox' = <<>> /\ unread' = 0
    BY <1>4, Zenon DEF Restart, NoConnection
  <2>2. Parsing' = 0 /\ Reading' = 0 /\ NInbox' = 0 /\ NUnread' = 0 /\ Unasked' = 0
    BY <2>1, OutsideParser, OutsideParserNext, SenderCosts, ReaderCosts
    DEF Reading, NInbox, NUnread, Unasked, Connected
  <2>3. Parsing \in Nat \ {0}
    BY Numbers, Zenon
  <2> QED
    BY <2>2, <2>3, Sum DEF Counts
<1> QED
  BY <1>1, <1>2, <1>3, <1>4

\* Once its client is gone a connection ends after a number of steps that is known
\* beforehand, for every client, line and buffer: the ranking by which
\* HangUpFreesTransport holds (transport.c:79-103, 186-207, command.c:25-63).
THEOREM ConnectionsRunOut == Spec => HangUpAdvances
<1>1. IInv /\ SInv /\ PInv /\ IInv' /\ PInv' /\ [Next]_vars
         => [client = "gone" /\ Connected => StepsToClose' < StepsToClose]_vars
  <2> SUFFICES ASSUME IInv, SInv, PInv, IInv', PInv', Next, ~UNCHANGED vars,
                      client = "gone", Connected
               PROVE  StepsToClose' < StepsToClose
    BY Zenon
  <2>1. Counts /\ Counts'
    BY Numbers, PTL
  <2>2. ~(LoopTop \/ PollTimeout \/ Accept \/ PollFails \/ AcceptFails)
    BY DEF LoopTop, PollTimeout, Accept, PollFails, AcceptFails, Connected
  <2> QED
    BY <2>1, <2>2, HandshakeAdvances, CloseAdvances, ServiceAdvances,
       ListenerComesAndGoes, ListenerAdvances, OthersAdvance, Zenon
    DEF Next, TransportStep
<1>2. Init => PInv
  BY DEF Init, PInv, ParserAgrees
<1> QED
  BY <1>1, <1>2, ParserNext, Invariant, PTL DEF Spec, HangUpAdvances
=============================================================================
