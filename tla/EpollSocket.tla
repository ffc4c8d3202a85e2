---------------------------- MODULE EpollSocket ----------------------------
(***************************************************************************)
(* What the two echo servers (SockEpoll, EchoEpollSsl) share: TCP clients, *)
(* the sockets of the kernel and an epoll instance in which every socket   *)
(* is registered with EPOLLIN | EPOLLET.  A descriptor is the client at    *)
(* its other end, or Listen.  A socket is put on the ready list when       *)
(* something arrives; it is not put there again because something is left. *)
(***************************************************************************)
EXTENDS Integers, Sequences, FiniteSets, SequencesExt

CONSTANTS
    Clients,
    Listen,      \* the listening socket
    Plans,       \* what each client sends: a sequence of segments of units
    Leavers,     \* clients that may close their connection
    SocketFaults,  \* the sets of what may go wrong in an execution: "accept" (it
                 \* fails), "register" (fcntl() or epoll_ctl() for a new connection
                 \* fails), "full" (a client does not read, so that write() does not
                 \* take everything)
    MAXEVENTS,   \* length of the array given to epoll_wait()
    Chunk        \* bytes a server reads for an event: MAXLINE, or sizeof buf

ASSUME SocketAssumption ==
    /\ IsFiniteSet(Clients) /\ Listen \notin Clients
    /\ Leavers \subseteq Clients
    /\ SocketFaults \subseteq SUBSET {"accept", "register", "full"}
    /\ MAXEVENTS \in Nat \ {0} /\ Chunk \in Nat \ {0}
    /\ \A c \in Clients : \A i \in DOMAIN Plans[c] : Plans[c][i] # <<>>

VARIABLES
    client,      \* "new", "open" or "left"
    sent,        \* segments each client has sent
    backlog,     \* connections the listening socket holds
    conns,       \* connections accepted, registered and not closed
    inbox,       \* units in the server's socket of each client
    broken,      \* connections that the client has reset
    lost,        \* clients that did not get some byte back
    rdlist,      \* the ready list of the epoll instance
    events,      \* what is left of the array epoll_wait() filled: [fd, hup]
    server,      \* "up" or how the process ended
    faults       \* what may go wrong in this execution

socketVars == <<client, sent, backlog, conns, inbox, broken, lost, rdlist, events, server, faults>>

SocketInit ==
    /\ client = [c \in Clients |-> "new"]
    /\ sent = [c \in Clients |-> 0]
    /\ backlog = <<>>
    /\ conns = {}
    /\ inbox = [c \in Clients |-> <<>>]
    /\ broken = {} /\ lost = {}
    /\ rdlist = <<>>
    /\ events = <<>>
    /\ server = "up"
    /\ faults \in SocketFaults

SocketTypeOK ==
    /\ client \in [Clients -> {"new", "open", "left"}]
    /\ \A c \in Clients : sent[c] \in 0 .. Len(Plans[c])
    /\ IsInjective(backlog) /\ ToSet(backlog) \subseteq Clients \ conns
    /\ conns \cup broken \cup lost \subseteq Clients
    /\ IsInjective(rdlist) /\ ToSet(rdlist) \subseteq conns \cup {Listen}
    /\ \A i \in DOMAIN events : events[i].fd \in conns \cup {Listen}
    /\ server \in {"up", "exited", "sigpipe"}
    /\ faults \in SocketFaults

\* What a sequence has of S, in its order.
Only(S, seq) ==
    LET pick[i \in 0 .. Len(seq)] ==
            IF i = 0 THEN <<>>
            ELSE IF seq[i] \in S THEN Append(pick[i - 1], seq[i]) ELSE pick[i - 1]
    IN  pick[Len(seq)]

\* Something arrived at d, which is registered.
Woken(d) == IF d \in ToSet(rdlist) THEN rdlist ELSE Append(rdlist, d)

\* EPOLLIN; the end of the connection is one, too.
Readable(d) ==
    IF d = Listen THEN backlog # <<>> ELSE inbox[d] # <<>> \/ client[d] = "left"

-----------------------------------------------------------------------------
(* The clients.                                                             *)

Connect(c) ==
    /\ client[c] = "new"
    /\ client' = [client EXCEPT ![c] = "open"]
    /\ backlog' = Append(backlog, c)
    /\ rdlist' = Woken(Listen)
    /\ UNCHANGED <<sent, conns, inbox, broken, lost, events, server, faults>>

Send(c) ==
    /\ client[c] = "open"
    /\ sent[c] < Len(Plans[c])
    /\ sent' = [sent EXCEPT ![c] = @ + 1]
    /\ inbox' = [inbox EXCEPT ![c] = @ \o Plans[c][sent[c] + 1]]
    /\ rdlist' = IF c \in conns THEN Woken(c) ELSE rdlist
    /\ UNCHANGED <<client, backlog, conns, broken, lost, events, server, faults>>

Leave(c) ==
    /\ client[c] = "open"
    /\ c \in Leavers
    /\ client' = [client EXCEPT ![c] = "left"]
    /\ rdlist' = IF c \in conns THEN Woken(c) ELSE rdlist
    /\ UNCHANGED <<sent, backlog, conns, inbox, broken, lost, events, server, faults>>

\* A client that has left resets the connection: at once, when it has not read
\* everything, or some time after something more was written to it.
Reset(c) ==
    /\ client[c] = "left"
    /\ c \notin broken
    /\ broken' = broken \cup {c}
    /\ rdlist' = IF c \in conns THEN Woken(c) ELSE rdlist
    /\ UNCHANGED <<client, sent, backlog, conns, inbox, lost, events, server, faults>>

-----------------------------------------------------------------------------
(* System calls of a server, as parts of its actions.                       *)

fd == Head(events).fd
EventDone == events' = Tail(events)

\* epoll_wait(): the head of the ready list without what is not readable.
epoll_wait ==
    /\ server = "up"
    /\ events = <<>>
    /\ rdlist # <<>>
    /\ LET listed == SubSeq(rdlist, 1, IF Len(rdlist) < MAXEVENTS THEN Len(rdlist) ELSE MAXEVENTS)
           found == Only({d \in ToSet(listed) : Readable(d)}, listed)
       IN  /\ events' = [i \in DOMAIN found |-> [fd |-> found[i], hup |-> found[i] \in broken]]
           /\ rdlist' = SubSeq(rdlist, Len(listed) + 1, Len(rdlist))

\* accept() and EPOLL_CTL_ADD: a socket that is readable already is ready.
accept(c) ==
    /\ conns' = conns \cup {c}
    /\ rdlist' = IF Readable(c) THEN Append(rdlist, c) ELSE rdlist

\* close() also takes the socket out of the epoll instance.
close(c) ==
    /\ conns' = conns \ {c}
    /\ rdlist' = Only(ToSet(rdlist) \ {c}, rdlist)

\* Up to the reset, what is written to a client is taken, also when it has left;
\* it comes back to a client that is there.
Taken(c) == c \notin broken
Echoed(echo, c, bytes) ==
    IF client[c] = "open" /\ c \notin lost THEN [echo EXCEPT ![c] = @ \o bytes] ELSE echo

\* After the reset a write gets an error, or SIGPIPE when a call has reported it.
Refused(c) == c \in broken /\ server' \in {"up", "sigpipe"}

=============================================================================
