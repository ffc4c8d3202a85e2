----------------------------- MODULE MCStreams -----------------------------
(***************************************************************************)
(* The programs that pass data over stream sockets, for TLC: the tunnel    *)
(* and the two echo servers.  They are separate programs: an execution is  *)
(* one of the program that "program" names, the rest stays as it is.       *)
(***************************************************************************)
EXTENDS SimpleTun, EpollSocket

CONSTANTS
    BytePlans,   \* Plans of EpollSocket, for the plain server
    a, b, c1, c2

ASSUME StreamsAssumption ==
    /\ BytePlans \in [Clients -> Seq(Seq(Nat) \ {<<>>})]
    /\ Plans \in [Clients -> Seq(Seq([type : {"hello", "finish", "app", "frag", "bad"},
                                      data : Seq(Nat)]))]

VARIABLES program, connfd, line, ssl, rest, buf, echo

echoVars == <<socketVars, connfd, line, ssl, rest, buf, echo>>
mcVars == <<vars, echoVars, program>>

-----------------------------------------------------------------------------
(* The instances.                                                           *)

TwoPeers == {a, b}

\* One packet is longer than the buffer.
TwoEach == [p \in TwoPeers |-> IF p = a THEN <<1, 3, 2>> ELSE <<2, 1, 2>>]

TwoClients == {c1, c2}

U(type, data) == <<[type |-> type, data |-> data]>>

\* The end of a handshake with and without a record behind it, a record in two
\* parts, one longer than the buffer, and what is no TLS.
TlsPlans ==
    [c \in TwoClients |->
        IF c = c1
        THEN <<U("hello", <<>>), U("finish", <<>>), U("app", <<1>>), U("frag", <<>>),
               U("app", <<2, 3, 4>>), U("bad", <<>>)>>
        ELSE <<U("hello", <<>>), U("finish", <<>>) \o U("app", <<11, 12>>), U("bad", <<>>)>>]

TwoBytePlans ==
    [c \in TwoClients |-> IF c = c1 THEN <<<<1>>, <<2, 3>>>> ELSE <<<<11, 12>>, <<13>>>>]

Sock == INSTANCE SockEpoll WITH Plans <- BytePlans
Tls == INSTANCE EchoEpollSsl

-----------------------------------------------------------------------------
MCInit ==
    /\ program \in {"simpletun", "sock_epoll", "echo_epoll_ssl"}
    /\ Init
    /\ Sock!Init
    /\ Tls!Init

Tunnel(A) == program = "simpletun" /\ A /\ UNCHANGED <<echoVars, program>>

Plain(A) == program = "sock_epoll" /\ A /\ UNCHANGED <<vars, ssl, rest, buf, program>>
Secure(A) == program = "echo_epoll_ssl" /\ A /\ UNCHANGED <<vars, connfd, line, program>>

MCNext == Tunnel(Next) \/ Plain(Sock!Next) \/ Secure(Tls!Next)

\* The fairness of each program.
MCSpec ==
    /\ MCInit /\ [][MCNext]_mcVars
    /\ \A p \in Peers : WF_mcVars(Tunnel(Loop(p)))
    /\ WF_mcVars(Plain(Sock!Server))
    /\ WF_mcVars(Secure(Tls!Server))

-----------------------------------------------------------------------------
\* Both echo servers: every client gets its own bytes back, in order and whole.
EchoRight ==
    /\ program = "sock_epoll" => Sock!TypeOK /\ Sock!EchoInOrder
    /\ program = "echo_epoll_ssl" => Tls!TypeOK /\ Tls!EchoInOrder

\* TLS: what is closed is freed, unless it was reset, what is used is not, and
\* what ends the server.
TlsReleased == program = "echo_epoll_ssl" => Tls!SslReleased

\* What waits in a socket is looked at, within what one event takes.
PlainServed == program = "sock_epoll" => Sock!Served
TlsServed == program = "echo_epoll_ssl" => Tls!Served

=============================================================================
