----------------------------- MODULE SockEpoll -----------------------------
(***************************************************************************)
(* The echo server file_io/sock_epoll.c: one accept() for each event of    *)
(* the listening socket, one read() of at most MAXLINE bytes for each      *)
(* event of a connection.  A unit of EpollSocket is a byte.                *)
(***************************************************************************)
EXTENDS EpollSocket

VARIABLES
    connfd,      \* the local of main()
    line,        \* bytes read and not written yet
    echo         \* bytes that came back to each client

vars == <<socketVars, connfd, line, echo>>

Init ==
    /\ SocketInit
    /\ connfd = Listen
    /\ line = <<>>
    /\ echo = [c \in Clients |-> <<>>]

\* Mutant: connfd, which the answer goes to, is only set by accept().
LastAccepted == connfd

\* connfd = events[i].data.fd
EventFd == fd

Wait == epoll_wait /\ UNCHANGED <<client, sent, backlog, conns, inbox, broken, lost, server, faults,
                                  connfd, line, echo>>

\* The loop is at events[i].
AtEvent == server = "up" /\ events # <<>> /\ line = <<>>

\* A new connection: one, however many are waiting.
Accept ==
    /\ AtEvent
    /\ fd = Listen
    /\ accept(Head(backlog))
    /\ backlog' = Tail(backlog)
    /\ connfd' = Head(backlog)
    /\ EventDone
    /\ UNCHANGED <<client, sent, inbox, broken, lost, server, faults, line, echo>>

\* accept() fails: exit(1).
AcceptFails ==
    /\ AtEvent
    /\ fd = Listen
    /\ "accept" \in faults
    /\ server' = "exited"
    /\ UNCHANGED <<client, sent, backlog, conns, inbox, broken, lost, rdlist, events, faults,
                   connfd, line, echo>>

\* fcntl() fails: exit(1); or epoll_ctl() does: the server goes on and nobody
\* looks at the new connection.
RegisterFails ==
    /\ AtEvent
    /\ fd = Listen
    /\ "register" \in faults
    /\ server' \in {"up", "exited"}
    /\ backlog' = Tail(backlog)
    /\ connfd' = Head(backlog)
    /\ EventDone
    /\ UNCHANGED <<client, sent, conns, inbox, broken, lost, rdlist, faults, line, echo>>

\* Mutant: a byte is kept for the end of the string.
ShortLine == Chunk - 1

LineLength == Chunk

\* read() gives at most MAXLINE bytes, once.
Read ==
    /\ AtEvent
    /\ fd # Listen
    /\ connfd' = EventFd
    /\ LET n == IF Len(inbox[fd]) < LineLength THEN Len(inbox[fd]) ELSE LineLength IN
       /\ n > 0
       /\ line' = SubSeq(inbox[fd], 1, n)
       /\ inbox' = [inbox EXCEPT ![fd] = SubSeq(@, n + 1, Len(@))]
    /\ UNCHANGED <<client, sent, backlog, conns, broken, lost, rdlist, events, server, faults, echo>>

\* read() gives 0 or ECONNRESET: the connection is closed.
ReadEnd ==
    /\ AtEvent
    /\ fd # Listen
    /\ inbox[fd] = <<>>
    /\ connfd' = fd
    /\ close(fd)
    /\ EventDone
    /\ UNCHANGED <<client, sent, backlog, inbox, broken, lost, server, faults, line, echo>>

\* write(connfd, line, bytes_len); nobody looks at its result: what it did not
\* take is lost.
Write ==
    /\ server = "up"
    /\ line # <<>>
    /\ \/ \E n \in 0 .. Len(line) :
              /\ n < Len(line) => "full" \in faults /\ client[connfd] = "open"
              /\ Taken(connfd)
              /\ echo' = Echoed(echo, connfd, SubSeq(line, 1, n))
              /\ lost' = IF n < Len(line) THEN lost \cup {connfd} ELSE lost
              /\ UNCHANGED server
       \/ Refused(connfd) /\ UNCHANGED <<echo, lost>>
    /\ line' = <<>>
    /\ EventDone
    /\ UNCHANGED <<client, sent, backlog, conns, inbox, broken, rdlist, faults, connfd>>

Server == Wait \/ Accept \/ AcceptFails \/ RegisterFails \/ Read \/ ReadEnd \/ Write

Network ==
    /\ \E c \in Clients : Connect(c) \/ Send(c) \/ Leave(c) \/ Reset(c)
    /\ UNCHANGED <<connfd, line, echo>>

Next == Network \/ Server

\* The server runs; nobody need connect, send or leave.
Fairness == WF_vars(Server)

Spec == Init /\ [][Next]_vars /\ Fairness

-----------------------------------------------------------------------------
TypeOK ==
    /\ SocketTypeOK
    /\ connfd \in Clients \cup {Listen}

SentBytes(c) == FlattenSeq(SubSeq(Plans[c], 1, sent[c]))

\* A client gets its own bytes back, in order and without a gap up to the first
\* that is lost, whichever connections the events of one epoll_wait() are about;
\* and what was read and what is still to be read are all that is missing.
EchoInOrder ==
    /\ \A c \in Clients : IsPrefix(echo[c], SentBytes(c))
    /\ \A c \in Clients : client[c] = "open" /\ c \notin lost =>
           SentBytes(c) = echo[c] \o (IF c = connfd THEN line ELSE <<>>) \o inbox[c]

\* More waits in a socket than one event will take.
Overrun(c) == Len(inbox[c]) > Chunk \/ (client[c] = "left" /\ inbox[c] # <<>>)

\* Edge-triggered with one accept() and one read() for an event: nothing is
\* left waiting for an event that does not come, as long as no two connections
\* and no more than one line wait at a time (and the server does not end).
Served ==
    \A c \in Clients :
        [](Len(backlog) <= 1 /\ ~Overrun(c)) =>
            /\ "register" \notin faults =>
                   [](c \in ToSet(backlog) => <>(c \in conns \/ server # "up"))
            /\ [](c \in conns /\ Readable(c) =>
                     <>(c \notin conns \/ ~Readable(c) \/ server # "up"))

=============================================================================
