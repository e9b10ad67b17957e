----------------------------- MODULE Transport -----------------------------
(***************************************************************************)
(* The life of the transport and its connections, one after another:        *)
(* transport_create, transport_destroy, transport_routine and serve_client *)
(* (c/src/transport.c), handshake_perform (c/src/handshake.c) and the      *)
(* sibling thread command_listener_routine (c/src/command.c), which shares *)
(* a socket and the flag peer_alive with it; with a client that may        *)
(* connect, send, read, close its sending half and close at any time (it   *)
(* does not shut down its reading half alone), and a process that may be   *)
(* killed and started again.  One process runs at a time, and unlink()     *)
(* removes the file if there is one.                                       *)
(*                                                                         *)
(* The socket is two buffers.  From the client come bytes, of which only   *)
(* the newline is told apart: what a complete line says is chosen when     *)
(* its newline is read.  To the client goes a number of lines it has not   *)
(* read.  read() waits while there is nothing to read and the client has   *)
(* not closed, write() while the client's buffer is full.  What follows    *)
(* the prefix of a HELLO line is a sequence of tokens: numbers, commas and *)
(* other text; a line without the prefix is one that starts with other     *)
(* text, since it is refused in the same way.                              *)
(***************************************************************************)
EXTENDS Integers, Sequences

CONSTANTS
    HANDSHAKE_SERVER_VERSIONS,
    Lines,                  \* what a client's HELLO line may say
    OutCapacity,            \* the places of client_versions[]
    Modulus,                \* 2^32, the number of values of an int
    LINE_MAX,               \* HANDSHAKE_LINE_MAX and COMMAND_LINE_MAX
    InMax, OutMax           \* what the socket buffers hold

Tokens == [kind : {"number", "comma", "other"}, value : Int]

ASSUME TransportAssumption ==
    /\ HANDSHAKE_SERVER_VERSIONS \subseteq Nat \ {0}
    /\ \A S \in SUBSET HANDSHAKE_SERVER_VERSIONS :    \* the list is finite
          S # {} => \E v \in S : \A w \in S : w <= v
    /\ \A line \in Lines : line \in Seq(Tokens)
    /\ OutCapacity \in Nat
    /\ Modulus \in Nat \ {0}
    /\ LINE_MAX \in Nat \ {0, 1}
    /\ InMax \in Nat /\ OutMax \in Nat

VARIABLES
    server,         \* where main is in transport_create or transport_destroy
    fd,             \* the listening descriptor is open
    file,           \* at the socket's path: nothing, a stale file, or our socket
    stop,           \* shutdown_requested()
    transport,      \* pc of the transport thread
    listener,       \* pc of the command listener
    peer_alive,
    len,            \* length of the line being read, by whichever thread reads
    hello, pos, out,    \* parse_client_versions: the line, p and out[]
    negotiated,     \* conn.negotiated_version
    client,         \* the client's end of the socket
    inbox,          \* bytes sent by the client and not read yet
    unread,         \* lines written to the client and not read yet
    offered,        \* the versions parse_client_versions returned
    answer          \* history: the answer written to the client

main == <<server, fd, file, stop>>
socket == <<client, inbox, unread>>
parser == <<hello, pos, out, offered>>
session == <<peer_alive, negotiated, answer, parser>>
vars == <<server, fd, file, stop, transport, listener, peer_alive, len, hello,
          pos, out, negotiated, client, inbox, unread, offered, answer>>

Init ==
    /\ server = "start" /\ fd = FALSE /\ file \in {"none", "stale"}
    /\ stop = FALSE /\ transport = "off" /\ listener = "off" /\ peer_alive = FALSE
    /\ client = "away" /\ inbox = <<>> /\ unread = 0
    /\ len = 0 /\ negotiated = 0 /\ offered = {} /\ answer = "none"
    /\ hello = <<>> /\ pos = 1 /\ out = <<>>

-----------------------------------------------------------------------------
(* The client.                                                             *)

\* After listen(): a connection waits in the backlog until it is accepted.
Listening == server \in {"thread", "up"}

ClientConnects ==
    /\ client = "away"
    /\ Listening /\ file = "bound"
    /\ client' = "waiting"
    /\ UNCHANGED <<inbox, unread, main, transport, listener, session, len>>

ClientSends ==
    /\ client \in {"waiting", "connected"}
    /\ Len(inbox) < InMax
    /\ \E b \in {"byte", "newline"} : inbox' = Append(inbox, b)
    /\ UNCHANGED <<client, unread, main, transport, listener, session, len>>

ClientReads ==
    /\ unread > 0
    /\ unread' = unread - 1
    /\ UNCHANGED <<client, inbox, main, transport, listener, session, len>>

\* It closes its sending half, or the socket.
ClientCloses ==
    /\ \/ client = "connected" /\ client' = "half_closed"
       \/ client \in {"waiting", "connected", "half_closed"} /\ client' = "gone"
    /\ UNCHANGED <<inbox, unread, main, transport, listener, session, len>>

\* read() returns 0.
EndOfFile == inbox = <<>> /\ client \in {"half_closed", "gone"}

\* write_all() succeeds, or fails with EPIPE.
Write == client # "gone" /\ unread < OutMax /\ unread' = unread + 1
WriteFails == client = "gone" /\ UNCHANGED unread

-----------------------------------------------------------------------------
(* main: transport_create, shutdown_request and transport_destroy.         *)

\* malloc or socket() may fail, or the path be too long.
CreateSocket ==
    /\ server = "start"
    /\ \/ server' = "unlink" /\ fd' = TRUE
       \/ server' = "failed" /\ UNCHANGED fd
    /\ UNCHANGED <<file, stop, transport, listener, session, len, socket>>

\* Mutant: a file that is there stays there.
FileKept == file

\* unlink(socket_path).
FileUnlinked == "none"

UnlinkStale ==
    /\ server = "unlink"
    /\ server' = "bind" /\ file' = FileUnlinked
    /\ UNCHANGED <<fd, stop, transport, listener, session, len, socket>>

\* close(listen_fd): connections that wait to be accepted are reset.
CloseListenFd ==
    /\ fd' = FALSE
    /\ client' = "away" /\ inbox' = <<>> /\ unread' = 0

\* bind() refuses a path where there is a file, and may fail for other reasons.
Bind ==
    /\ server = "bind"
    /\ \/ /\ file = "none"
          /\ server' = "listen" /\ file' = "bound"
          /\ UNCHANGED <<fd, socket>>
       \/ server' = "failed" /\ CloseListenFd /\ UNCHANGED file
    /\ UNCHANGED <<stop, transport, listener, session, len>>

Listen ==
    /\ server = "listen"
    /\ \/ server' = "thread" /\ UNCHANGED <<fd, file, socket>>
       \/ server' = "failed" /\ CloseListenFd /\ file' = FileUnlinked
    /\ UNCHANGED <<stop, transport, listener, session, len>>

StartThread ==
    /\ server = "thread"
    /\ \/ /\ server' = "up" /\ transport' = "loop"
          /\ UNCHANGED <<fd, file, socket>>
       \/ /\ server' = "failed" /\ CloseListenFd /\ file' = FileUnlinked
          /\ UNCHANGED transport
    /\ UNCHANGED <<stop, listener, session, len>>

ShutdownRequest ==
    /\ server = "up"
    /\ stop' = TRUE
    /\ UNCHANGED <<server, fd, file, transport, listener, session, len, socket>>

\* pthread_join(transport->thread) returns.
Joined == transport = "done"

TransportDestroy ==
    /\ server = "up" /\ stop /\ Joined
    /\ server' = "destroyed" /\ CloseListenFd /\ file' = FileUnlinked
    /\ UNCHANGED <<stop, transport, listener, session, len>>

\* Nothing is left of a connection.
NoConnection ==
    /\ client' = "away" /\ inbox' = <<>> /\ unread' = 0
    /\ len' = 0 /\ negotiated' = 0 /\ offered' = {} /\ answer' = "none"

\* The process ends, or is killed at any moment, and is started again: the file
\* of its socket, if there is one, has no listener any more.
Restart ==
    /\ server # "start"
    /\ server' = "start" /\ fd' = FALSE
    /\ file' = IF file = "bound" THEN "stale" ELSE file
    /\ stop' = FALSE /\ transport' = "off" /\ listener' = "off" /\ peer_alive' = FALSE
    /\ NoConnection
    /\ hello' = <<>> /\ pos' = 1 /\ out' = <<>>

-----------------------------------------------------------------------------
(* transport_routine: accept, and handshake_perform.                       *)

\* Mutant: the server's newest version, whatever the client knows.
NewestVersion(versions) ==
    CHOOSE v \in HANDSHAKE_SERVER_VERSIONS :
        \A w \in HANDSHAKE_SERVER_VERSIONS : w <= v

\* 0 when there is none, as for a malformed line, which advertises nothing.
HighestCommonVersion(versions) ==
    LET common == HANDSHAKE_SERVER_VERSIONS \cap versions
    IN  IF common = {} THEN 0
        ELSE CHOOSE v \in common : \A w \in common : w <= v

LoopTop ==
    /\ transport = "loop"
    /\ transport' = IF stop THEN "done" ELSE "poll"
    /\ UNCHANGED <<main, listener, session, len, socket>>

\* A connection waits to be accepted; its client may have closed again.
Pending == client \in {"waiting", "gone"}

PollTimeout ==
    /\ transport = "poll" /\ ~Pending
    /\ transport' = "loop"
    /\ UNCHANGED <<main, listener, session, len, socket>>

AcceptFails ==
    /\ transport = "poll" /\ Pending
    /\ transport' = "loop"
    /\ UNCHANGED <<main, listener, session, len, socket>>

PollFails ==
    /\ transport = "poll"
    /\ transport' = "done"
    /\ UNCHANGED <<main, listener, session, len, socket>>

Accept ==
    /\ transport = "poll" /\ Pending
    /\ transport' = "send_hello"
    /\ client' = IF client = "gone" THEN "gone" ELSE "connected"
    /\ len' = 0 /\ negotiated' = 0 /\ answer' = "none"
    /\ UNCHANGED <<main, listener, peer_alive, parser, inbox, unread>>

SendHello ==
    /\ transport = "send_hello"
    /\ \/ Write /\ transport' = "read_hello"
       \/ WriteFails /\ transport' = "reject"
    /\ UNCHANGED <<main, listener, session, len, client, inbox>>

\* Mutant: the terminator has no place in the buffer.
LineOverfull == len >= LINE_MAX

LineFull == len + 1 >= LINE_MAX

ReadHello ==
    /\ transport = "read_hello"
    /\ \/ /\ LineFull \/ EndOfFile
          /\ transport' = "reject"
          /\ UNCHANGED <<len, inbox, hello>>
       \/ /\ ~LineFull /\ inbox # <<>>
          /\ inbox' = Tail(inbox)
          /\ \/ Head(inbox) = "byte" /\ len' = len + 1
                /\ UNCHANGED <<transport, hello>>
             \/ Head(inbox) = "newline" /\ len' = 0
                /\ hello' \in Lines
                /\ transport' = "parse"
    /\ UNCHANGED <<main, listener, peer_alive, negotiated, answer, pos, out,
                   offered, client, unread>>

\* (int)v.
Cast(v) == ((v + (Modulus \div 2)) % Modulus) - (Modulus \div 2)

\* Mutant: what follows a number is not looked at.
NumberThenAnything ==
    pos <= Len(hello) /\ Len(out) < OutCapacity /\ hello[pos].kind = "number"

\* The line goes on, there is room for a number, there is one, and a comma or
\* the end after it.
NumberFollows ==
    /\ pos <= Len(hello)
    /\ Len(out) < OutCapacity
    /\ hello[pos].kind = "number"
    /\ pos < Len(hello) => hello[pos + 1].kind = "comma"

\* One pass of the loop of parse_client_versions, or its end.  A line that is
\* not as expected advertises nothing, and neither does an empty list.
ParseClientVersions ==
    /\ transport = "parse"
    /\ \/ /\ NumberFollows
          /\ out' = Append(out, Cast(hello[pos].value))
          /\ pos' = IF pos = Len(hello) THEN pos + 1 ELSE pos + 2
          /\ UNCHANGED <<transport, offered>>
       \/ /\ ~NumberFollows
          /\ offered' = IF pos > Len(hello) THEN {out[i] : i \in DOMAIN out} ELSE {}
          /\ transport' = "answer"
          /\ pos' = 1 /\ out' = <<>>
    /\ UNCHANGED <<main, listener, peer_alive, negotiated, answer, hello, len, socket>>

\* send_nack does not look at write_all's result.
Answer ==
    /\ transport = "answer"
    /\ LET version == HighestCommonVersion(offered)
       IN  \/ /\ version = 0
              /\ \/ Write /\ answer' = "nack"
                 \/ WriteFails /\ UNCHANGED answer
              /\ transport' = "reject"
              /\ UNCHANGED negotiated
           \/ /\ version # 0 /\ Write
              /\ answer' = "ack" /\ negotiated' = version
              /\ transport' = "subscribe"
           \/ /\ version # 0 /\ WriteFails
              /\ transport' = "reject"
              /\ UNCHANGED <<answer, negotiated>>
    /\ hello' = <<>>
    /\ UNCHANGED <<main, listener, peer_alive, pos, out, offered, len, client, inbox>>

\* close(client_fd): the client is free to connect again.
CloseConnection ==
    /\ NoConnection
    /\ transport' = "loop"
    /\ UNCHANGED <<hello, pos, out>>

Reject ==
    /\ transport = "reject"
    /\ CloseConnection
    /\ UNCHANGED <<main, listener, peer_alive>>

-----------------------------------------------------------------------------
(* transport_routine: serving.  Subscribing and unsubscribing the queues   *)
(* is modelled in PubSub; here it succeeds or fails.                       *)

Subscribe ==
    /\ transport = "subscribe"
    /\ transport' \in {"start_listener", "cleanup"}
    /\ UNCHANGED <<main, listener, session, len, socket>>

\* malloc or pthread_create may fail; the client is served all the same.
StartListener ==
    /\ transport = "start_listener"
    /\ peer_alive' = TRUE
    /\ listener' \in {"poll", "off"}
    /\ transport' = "serve"
    /\ UNCHANGED <<main, negotiated, answer, parser, len, socket>>

\* serve_client's loop condition fails.
ServeEnds ==
    /\ transport = "serve"
    /\ stop \/ ~peer_alive
    /\ transport' = "hang_up"
    /\ UNCHANGED <<main, listener, session, len, socket>>

\* A message is waiting in one of the subscriber queues.
ServeMessage ==
    /\ transport = "serve"
    /\ ~stop /\ peer_alive
    /\ transport' = "write"
    /\ UNCHANGED <<main, listener, session, len, socket>>

\* Mutant: client_alive keeps its value.
ServeOn == "serve"

\* client_alive is false.
ClientLost == "hang_up"

ServeWrite ==
    /\ transport = "write"
    /\ \/ Write /\ transport' = "serve"
       \/ WriteFails /\ transport' = ClientLost
    /\ UNCHANGED <<main, listener, session, len, client, inbox>>

\* Mutant: the listener is not joined.
AfterHangUpDetached == "cleanup"

AfterHangUp == IF listener = "off" THEN "cleanup" ELSE "join"

HangUp ==
    /\ transport = "hang_up"
    /\ peer_alive' = FALSE
    /\ transport' = AfterHangUp
    /\ UNCHANGED <<main, listener, negotiated, answer, parser, len, socket>>

JoinListener ==
    /\ transport = "join" /\ listener = "done"
    /\ listener' = "off"
    /\ transport' = "cleanup"
    /\ UNCHANGED <<main, session, len, socket>>

Cleanup ==
    /\ transport = "cleanup"
    /\ CloseConnection
    /\ UNCHANGED <<main, listener, peer_alive>>

-----------------------------------------------------------------------------
(* command_listener_routine: read_command_line and apply_command.          *)

\* Mutant: the read is not gated by poll().
NeverTold == FALSE

\* What a poll() that times out looks at.
ToldToStop == stop \/ ~peer_alive

\* poll() reports POLLHUP although bytes may still be waiting; it times out only
\* when there is nothing to read.
ListenerPoll ==
    /\ listener = "poll"
    /\ \/ LineFull /\ listener' = "exit"
       \/ /\ ~LineFull
          /\ \/ client = "gone" /\ listener' = "exit"
             \/ client # "gone" /\ (inbox # <<>> \/ EndOfFile) /\ listener' = "read"
             \/ client # "gone" /\ inbox = <<>> /\ ~EndOfFile
                /\ ToldToStop /\ listener' = "exit"
    /\ UNCHANGED <<main, transport, session, len, socket>>

ListenerRead ==
    /\ listener = "read"
    /\ \/ /\ EndOfFile
          /\ listener' = "exit"
          /\ UNCHANGED <<len, inbox>>
       \/ /\ inbox # <<>>
          /\ inbox' = Tail(inbox)
          /\ \/ Head(inbox) = "byte" /\ len' = len + 1 /\ listener' = "poll"
             \/ Head(inbox) = "newline" /\ len' = 0 /\ listener' = "apply"
    /\ UNCHANGED <<main, transport, session, client, unread>>

\* poll() or read() fails with something other than EINTR.
ListenerFails ==
    /\ listener \in {"poll", "read"}
    /\ listener' = "exit"
    /\ UNCHANGED <<main, transport, session, len, socket>>

\* What a command does is modelled in Sampling (SET_INTERVAL) and Pipeline
\* (TRIGGER_ALERT); no command, malformed or unknown, ends the listener.
ListenerApply ==
    /\ listener = "apply"
    /\ listener' = "poll"
    /\ UNCHANGED <<main, transport, session, len, socket>>

\* Mutant: the sibling is not told.
ClearedNever == peer_alive

\* *args->peer_alive = 0.
Cleared == FALSE

ListenerExit ==
    /\ listener = "exit"
    /\ peer_alive' = Cleared
    /\ listener' = "done"
    /\ UNCHANGED <<main, transport, negotiated, answer, parser, len, socket>>

-----------------------------------------------------------------------------
Client == ClientConnects \/ ClientSends \/ ClientReads \/ ClientCloses

Create == CreateSocket \/ UnlinkStale \/ Bind \/ Listen \/ StartThread

TransportStep ==
    \/ LoopTop \/ PollTimeout \/ Accept \/ SendHello \/ ReadHello
    \/ ParseClientVersions \/ Answer \/ Reject \/ Subscribe \/ StartListener \/ ServeEnds \/ ServeWrite
    \/ HangUp \/ JoinListener \/ Cleanup

ListenerStep == ListenerPoll \/ ListenerRead \/ ListenerApply \/ ListenerExit

Next ==
    \/ Client
    \/ Create \/ ShutdownRequest \/ TransportDestroy \/ Restart
    \/ TransportStep \/ PollFails \/ AcceptFails \/ ServeMessage
    \/ ListenerStep \/ ListenerFails

Spec == Init /\ [][Next]_vars

\* main and both threads run whenever they can, and accept() does not fail for
\* ever.  Nothing is owed by the client, by those who publish messages, by a
\* system call that might fail, or by whoever stops and starts the process.
FairSpec ==
    /\ Spec
    /\ WF_vars(Create) /\ WF_vars(TransportDestroy)
    /\ WF_vars(TransportStep) /\ WF_vars(ListenerStep)
    /\ SF_vars(Accept)

-----------------------------------------------------------------------------
(* Properties                                                              *)

\* While the client's queues are subscribed and it may have a listener.
Serving == transport \in {"serve", "write", "hang_up", "join"}

\* Types.  A line and its terminator never outgrow the buffer (handshake.c:45,
\* command.c:27).  What the parser returns is the subject of ParserAgrees.
TypeOK ==
    /\ server \in {"start", "unlink", "bind", "listen", "thread", "up", "failed",
                   "destroyed"}
    /\ fd \in BOOLEAN /\ stop \in BOOLEAN /\ peer_alive \in BOOLEAN
    /\ file \in {"none", "stale", "bound"}
    /\ transport \in {"off", "loop", "poll", "send_hello", "read_hello", "parse",
                      "answer", "reject", "subscribe", "start_listener", "serve",
                      "write", "hang_up", "join", "cleanup", "done"}
    /\ listener \in {"off", "poll", "read", "apply", "exit", "done"}
    /\ len \in 0 .. LINE_MAX - 1
    /\ hello \in Lines \cup {<<>>} /\ pos \in Nat \ {0}
    /\ negotiated \in HANDSHAKE_SERVER_VERSIONS \cup {0}
    /\ client \in {"away", "waiting", "connected", "half_closed", "gone"}
    /\ inbox \in Seq({"byte", "newline"}) /\ Len(inbox) <= InMax
    /\ unread \in 0 .. OutMax
    /\ answer \in {"none", "ack", "nack"}

\* The socket follows the server through failures, kills and restarts.  A file
\* left behind never keeps the next process from binding (transport.c:247-249);
\* while clients may connect the path leads to an open descriptor; the thread
\* that polls it has ended before it is closed (transport.c:283-284); and a
\* server that is not there leaves neither descriptor nor file of its own.  This
\* is with no second instance on the same path and an unlink() that succeeds.
SocketFollowsServer ==
    /\ server = "bind" => file = "none"
    /\ Listening => fd /\ file = "bound"
    /\ transport \notin {"off", "done"} => fd
    /\ server \in {"failed", "destroyed"} => ~fd /\ file # "bound"

\* A listener lives inside its connection: while it runs, the descriptor it
\* reads is open and the peer_alive it points to, a local of transport_routine
\* (transport.c:164), is in scope; and two never share a socket.
ListenerInsideConnection ==
    /\ listener # "off" => Serving
    /\ transport = "start_listener" => listener = "off"

\* Client and server agree on the outcome of the handshake: a connection gets
\* past it exactly when the client has been sent an ACK, for the highest version
\* both know, and negotiated_version is 0 on every other path, a failed write of
\* the ACK included (handshake.h:16-19, 32-36).
AnswerMatchesConnection ==
    LET past == Serving \/ transport \in {"subscribe", "start_listener", "cleanup"}
    IN  /\ past <=> answer = "ack"
        /\ past <=> negotiated # 0
        /\ past => /\ negotiated \in HANDSHAKE_SERVER_VERSIONS \cap offered
                   /\ \A v \in HANDSHAKE_SERVER_VERSIONS \cap offered : v <= negotiated

\* What a line advertises, read as a whole: numbers with commas between them, and
\* perhaps a last comma, no more numbers than there are places for.
Advertised(line) ==
    IF /\ (Len(line) + 1) \div 2 <= OutCapacity
       /\ \A i \in DOMAIN line :
             line[i].kind = IF i % 2 = 1 THEN "number" ELSE "comma"
    THEN {Cast(line[i].value) : i \in {j \in DOMAIN line : j % 2 = 1}}
    ELSE {}

\* parse_client_versions hands over exactly the versions the line advertises, and
\* nothing of a line that goes wrong after some numbers (handshake.c:82-115).
ParserAgrees == transport = "answer" => offered = Advertised(hello)

\* Whichever thread of a connection leaves first, the other one has been told, and
\* the transport waits only for a listener there is (transport.c:186-193,
\* command.c:140).
SiblingIsTold ==
    /\ listener = "done" => ~peer_alive
    /\ transport = "join" => listener # "off" /\ ~peer_alive

\* A connection has been accepted and not closed.
Connected == transport \notin {"off", "loop", "poll", "done"}

\* At most how many steps a connection still takes when its client is gone.  The
\* parser makes one for every place of client_versions[], either reader one or two
\* for a byte that is left.
StepsToClose ==
    LET sender == [off |-> 0, loop |-> 0, poll |-> 0, done |-> 0, cleanup |-> 1,
                   reject |-> 1, join |-> 2, hang_up |-> 3, write |-> 4, serve |-> 5,
                   start_listener |-> 8, subscribe |-> 9, answer |-> 10,
                   parse |-> 11 + OutCapacity, read_hello |-> 12 + OutCapacity,
                   send_hello |-> 13 + OutCapacity]
        reader == [off |-> 0, done |-> 0, exit |-> 1, poll |-> 2, apply |-> 3, read |-> 3]
    IN  sender[transport] - Len(out) + reader[listener] + Len(inbox) + unread
        + (IF Connected /\ ~stop THEN 1 ELSE 0)

\* Once its client is gone, every step of a connection's threads brings it nearer to
\* its end, whatever is still in the buffers and wherever the handshake or the
\* service has got to: no message, no command and no retry keeps the transport
\* from the next client (transport.c:79-103, 186-207, command.c:25-63).
HangUpAdvances ==
    [][client = "gone" /\ Connected => StepsToClose' < StepsToClose]_vars

\* When the client is gone the transport comes back for the next one, whichever
\* thread notices.  Without a listener only a write notices, so a message is
\* needed then (transport.c:84-102).
HangUpFreesTransport ==
    client = "gone" ~>
        \/ client # "gone"
        \/ transport = "serve" /\ listener = "off"
        \/ transport = "done"

\* Shutdown ends the service of a client that from some time on is silent and
\* keeps reading: both threads notice within a timeout, and the join of the
\* listener returns (transport.c:186-193, command.c:36-41).
QuietClientLetsGo ==
    (<>[](inbox = <<>>) /\ []<>(unread = 0)) => (stop /\ Serving ~> ~Serving)

\* handshake.h:34-36: "On no overlap, or any I/O/parse failure: sends
\* HELLO_NACK ... on a best-effort basis", so a client that is still there when
\* it is turned away has been sent one.
FailureIsNacked ==
    transport = "reject" /\ client # "gone" => answer = "nack"

\* transport.h:31-34: new connections are gated on shutdown_requested(), "so
\* transport_destroy actually returns once shutdown_request() has been called".
TransportEnds == stop ~> server # "up"

\* command.h:32-34: the listener applies commands "until the client disconnects,
\* *arg->peer_alive is cleared, or shutdown_requested() becomes true".
ListenerEnds == (stop /\ listener # "off") ~> listener \in {"off", "done"}
=============================================================================
