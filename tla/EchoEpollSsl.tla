---------------------------- MODULE EchoEpollSsl ----------------------------
(***************************************************************************)
(* The TLS echo server socket_else/ssl/echo_epoll_ssl.c.  A unit of         *)
(* EpollSocket is a TLS record, [type, data]: "hello" and "finish" of the  *)
(* client's handshake, "app" (data is the sequence of its bytes), "frag"   *)
(* the first part of a record, "bad" what is no TLS.  OpenSSL reads one    *)
(* record at a time from the socket and keeps the rest of its bytes.       *)
(***************************************************************************)
EXTENDS EpollSocket

VARIABLES
    ssl,         \* state of the SSL object of a connection
    rest,        \* bytes of a record that SSL_read() has not given yet
    buf,         \* bytes read and not written yet
    echo         \* bytes that came back to each client

vars == <<socketVars, ssl, rest, buf, echo>>

Init ==
    /\ SocketInit
    /\ ssl = [c \in Clients |-> "none"]
    /\ rest = [c \in Clients |-> <<>>]
    /\ buf = <<>>
    /\ echo = [c \in Clients |-> <<>>]

Wait == epoll_wait /\ UNCHANGED <<client, sent, backlog, conns, inbox, broken, lost, server, faults,
                                  ssl, rest, buf, echo>>

AtEvent == server = "up" /\ events # <<>> /\ buf = <<>>

\* EPOLLERR or EPOLLHUP: socket and userdata go, the SSL object stays.
Hup ==
    /\ AtEvent
    /\ Head(events).hup
    /\ close(fd)
    /\ EventDone
    /\ UNCHANGED <<client, sent, backlog, inbox, broken, lost, server, faults, ssl, rest, buf, echo>>

\* accept() until it fails with EAGAIN: each connection gets an SSL object.
Accept ==
    /\ AtEvent
    /\ fd = Listen
    /\ backlog # <<>>
    /\ LET c == Head(backlog) IN
       /\ accept(c)
       /\ ssl' = [ssl EXCEPT ![c] = "handshake"]
    /\ backlog' = Tail(backlog)
    /\ UNCHANGED <<client, sent, inbox, broken, lost, events, server, faults, rest, buf, echo>>

\* fcntl() or epoll_ctl() fails: error() ends the process.
RegisterFails ==
    /\ AtEvent
    /\ fd = Listen
    /\ backlog # <<>>
    /\ "register" \in faults
    /\ server' = "exited"
    /\ UNCHANGED <<client, sent, backlog, conns, inbox, broken, lost, rdlist, events, faults,
                   ssl, rest, buf, echo>>

\* Mutant: one accept() for each event.
AcceptedOne == backlog = <<>> \/ conns # {}

AllAccepted == backlog = <<>>

\* The loop also ends when accept() fails otherwise: who waits goes on waiting.
AcceptEnds ==
    /\ AtEvent
    /\ fd = Listen
    /\ AllAccepted \/ "accept" \in faults
    /\ EventDone
    /\ UNCHANGED <<client, sent, backlog, conns, inbox, broken, lost, rdlist, server, faults,
                   ssl, rest, buf, echo>>

\* The event of a connection in state st, not reset.
AtConn(st) == AtEvent /\ ~Head(events).hup /\ fd # Listen /\ ssl[fd] = st

\* SSL_do_handshake() takes a record of the handshake.  With the last one it
\* returns and so does the event: what else has come is not looked at.
ssl_handshake ==
    /\ AtConn("handshake")
    /\ inbox[fd] # <<>>
    /\ Head(inbox[fd]).type \in {"hello", "finish", "frag"}
    /\ inbox' = [inbox EXCEPT ![fd] = Tail(@)]
    /\ IF Head(inbox[fd]).type = "finish"
       THEN ssl' = [ssl EXCEPT ![fd] = "finished"] /\ EventDone
       ELSE UNCHANGED <<ssl, events>>
    /\ UNCHANGED <<client, sent, backlog, conns, broken, lost, rdlist, server, faults, rest, buf, echo>>

\* WANT_READ, in the handshake or from SSL_read().
WouldBlock ==
    /\ AtConn("handshake") \/ AtConn("finished")
    /\ rest[fd] = <<>> /\ ~Readable(fd)
    /\ EventDone
    /\ UNCHANGED <<client, sent, backlog, conns, inbox, broken, lost, rdlist, server, faults,
                   ssl, rest, buf, echo>>

\* Any other error of the handshake: error() ends the process; so may SIGPIPE,
\* when the answer meets a reset.
HandshakeFails ==
    /\ AtConn("handshake")
    /\ Readable(fd)
    /\ fd \in broken \/ (inbox[fd] # <<>> => Head(inbox[fd]).type \in {"bad", "app"})
    /\ server' \in IF fd \in broken THEN {"exited", "sigpipe"} ELSE {"exited"}
    /\ UNCHANGED <<client, sent, backlog, conns, inbox, broken, lost, rdlist, events, faults,
                   ssl, rest, buf, echo>>

First(bytes) == SubSeq(bytes, 1, IF Len(bytes) < Chunk THEN Len(bytes) ELSE Chunk)
After(bytes) == SubSeq(bytes, Len(First(bytes)) + 1, Len(bytes))

\* SSL_read() gives bytes of one record: the one it has, or the next.
Read ==
    /\ AtConn("finished")
    /\ \/ /\ rest[fd] # <<>>
          /\ buf' = First(rest[fd])
          /\ rest' = [rest EXCEPT ![fd] = After(@)]
          /\ UNCHANGED inbox
       \/ /\ rest[fd] = <<>> /\ inbox[fd] # <<>> /\ Head(inbox[fd]).type = "app"
          /\ buf' = First(Head(inbox[fd]).data)
          /\ rest' = [rest EXCEPT ![fd] = After(Head(inbox[fd]).data)]
          /\ inbox' = [inbox EXCEPT ![fd] = Tail(@)]
       \/ /\ rest[fd] = <<>> /\ inbox[fd] # <<>> /\ Head(inbox[fd]).type = "frag"
          /\ inbox' = [inbox EXCEPT ![fd] = Tail(@)]
          /\ UNCHANGED <<rest, buf>>
    /\ UNCHANGED <<client, sent, backlog, conns, broken, lost, rdlist, events, server, faults,
                   ssl, echo>>

\* Mutant: the SSL object is not freed.
SslKept == UNCHANGED ssl

SslFreed == ssl' = [ssl EXCEPT ![fd] = "freed"]

\* done: SSL object and socket go.
Done == SslFreed /\ close(fd) /\ EventDone

\* SIGPIPE ends the process, with everything as it is.
Sigpipe ==
    /\ fd \in broken
    /\ server' = "sigpipe"
    /\ UNCHANGED <<conns, rdlist, events, ssl>>

\* The end of the connection, or what is no TLS, which is answered with an alert.
ReadEnd ==
    /\ AtConn("finished")
    /\ rest[fd] = <<>> /\ Readable(fd)
    /\ inbox[fd] # <<>> => Head(inbox[fd]).type \notin {"app", "frag"}
    /\ (Done /\ UNCHANGED server) \/ (inbox[fd] # <<>> /\ Sigpipe)
    /\ UNCHANGED <<client, sent, backlog, inbox, broken, lost, faults, rest, buf, echo>>

\* SSL_write() writes the record, or keeps some of it for a next call
\* (WANT_WRITE): nobody waits for EPOLLOUT, so what it keeps is lost.
Write ==
    /\ server = "up"
    /\ buf # <<>>
    /\ Taken(fd)
    /\ \/ echo' = Echoed(echo, fd, buf) /\ UNCHANGED lost
       \/ "full" \in faults /\ client[fd] = "open" /\ lost' = lost \cup {fd} /\ UNCHANGED echo
    /\ buf' = <<>>
    /\ EventDone
    /\ UNCHANGED <<client, sent, backlog, conns, inbox, broken, rdlist, server, faults, ssl, rest>>

\* SSL_write() fails: the reset came behind epoll_wait(), or an earlier record is
\* not written yet and this is not that one again.
WriteFails ==
    /\ server = "up"
    /\ buf # <<>>
    /\ (fd \in broken \cup lost /\ Done /\ UNCHANGED server) \/ Sigpipe
    /\ buf' = <<>>
    /\ UNCHANGED <<client, sent, backlog, inbox, broken, lost, faults, rest, echo>>

Server ==
    \/ Wait \/ Hup \/ Accept \/ RegisterFails \/ AcceptEnds \/ ssl_handshake \/ WouldBlock
    \/ HandshakeFails \/ Read \/ ReadEnd \/ Write \/ WriteFails

\* A client finishes its handshake only when the server has answered its hello.
MaySend(c) ==
    sent[c] < Len(Plans[c]) /\ Head(Plans[c][sent[c] + 1]).type = "finish" =>
        c \in conns /\ \A i \in DOMAIN inbox[c] : inbox[c][i].type # "hello"

Network ==
    /\ \E c \in Clients : Connect(c) \/ (MaySend(c) /\ Send(c)) \/ Leave(c) \/ Reset(c)
    /\ UNCHANGED <<ssl, rest, buf, echo>>

Next == Network \/ Server

\* The server runs; nobody need connect, send or leave.
Fairness == WF_vars(Server)

Spec == Init /\ [][Next]_vars /\ Fairness

-----------------------------------------------------------------------------
Bytes(records) ==
    FlattenSeq([i \in DOMAIN records |-> IF records[i].type = "app" THEN records[i].data ELSE <<>>])

TypeOK ==
    /\ SocketTypeOK
    /\ ssl \in [Clients -> {"none", "handshake", "finished", "freed"}]
    /\ \A c \in conns : ssl[c] \in {"handshake", "finished"}

\* Each client gets its own bytes back in order, up to the first that is lost, and
\* what was read and what is still to be read are all that is missing, whatever a
\* record is cut into.
EchoInOrder ==
    \A c \in Clients : client[c] = "open" =>
        LET sentBytes == Bytes(FlattenSeq(SubSeq(Plans[c], 1, sent[c]))) IN
        /\ IsPrefix(echo[c], sentBytes)
        /\ c \notin lost =>
               sentBytes = echo[c] \o (IF events # <<>> /\ c = fd THEN buf ELSE <<>>) \o rest[c]
                               \o Bytes(inbox[c])

\* An event that is still to be handled is about an SSL object that is not freed,
\* also when several events of one array are about connections that end; a
\* connection that is closed has no SSL object left unless it was reset; and what
\* ends the server is a client that fails its handshake, a call that cannot
\* register a new one, or a write to a connection that was reset.
SslReleased ==
    /\ \A i \in DOMAIN events :
           events[i].fd # Listen => ssl[events[i].fd] \in {"handshake", "finished"}
    /\ \A c \in Clients \ conns : ssl[c] \in {"handshake", "finished"} => c \in broken
    /\ server = "exited" =>
           "register" \in faults \/ \E c \in conns : ssl[c] = "handshake" /\ Readable(c)
    /\ server = "sigpipe" => conns \cap broken # {}

\* More waits than one event will take: a second record, a longer one, the end
\* of the connection behind a record.
Overrun(c) ==
    \/ Len(inbox[c]) > 1 \/ (inbox[c] # <<>> /\ client[c] = "left")
    \/ rest[c] # <<>>

\* Every connection is accepted, also when several come at once, unless accept()
\* fails; and every
\* record of a client is read, as long as no two wait at a time and each fits
\* the buffer.
Served ==
    \A c \in Clients :
        /\ "accept" \notin faults => [](c \in ToSet(backlog) => <>(c \in conns \/ server # "up"))
        /\ [](~Overrun(c)) =>
               [](c \in conns /\ Readable(c) =>
                     <>(c \notin conns \/ ~Readable(c) \/ server # "up"))

=============================================================================
