----------------------------- MODULE UringHttp -----------------------------
(***************************************************************************)
(* The web server uring_test/uring_http.c (built without SENDFILE): one    *)
(* thread that submits requests to an io_uring and handles their           *)
(* completions.  The context of a request is with the kernel until its     *)
(* completion is handled.  The kernel performs requests                    *)
(* in any order, and a request keeps the file its descriptor named when it *)
(* was submitted, although the number may be given to another file.        *)
(***************************************************************************)
EXTENDS Integers, Sequences, FiniteSets, Bags

CONSTANTS
    Clients,    \* each opens one connection
    Plans,      \* bound: the sequences of requests each client may send
    MaxFd,      \* bound: descriptors 1 .. MaxFd, the limit of the process
    Garbage,    \* what memory that was not written may hold
    Faults,     \* "disconnect": clients do not wait for their answers
    Free, File  \* what a descriptor names: no file; a file on disk

\* What a client may ask for: a file, a file of no bytes, one that is missing;
\* what is not a GET; a request with no end of line in its first 1024 bytes.
Kinds == {"file", "empty", "missing", "other", "malformed"}

ASSUME ConstantsAssumption ==
    /\ IsFiniteSet(Clients)
    /\ Free # File /\ Free \notin Clients /\ File \notin Clients
    /\ Plans \in [Clients -> SUBSET Seq(Kinds)]
    /\ MaxFd \in Nat \ {0}
    /\ Garbage \subseteq Nat /\ Garbage # {}
    /\ Faults \subseteq {"disconnect"}

Fds == 1 .. MaxFd

VARIABLES
    server,   \* "up" or "exited"
    fds,      \* what each descriptor names: a client, File or Free
    ring,     \* contexts whose request the kernel has not performed, a bag
    cq,       \* the completion queue: [context, res, got]
    client,   \* "waiting" for accept(), "here" or "gone"
    asked,    \* the requests each client has sent: a sequence of kinds
    input,    \* those the server has not read
    stream    \* what each client was sent: [part, client, n]

vars == <<server, fds, ring, cq, client, asked, input, stream>>

\* A context: event_type; client_socket; path_fd; the object its request works
\* on and, of a write, what is written (of a file read, what will be).
Answer == [part : {"header", "body", "static", "nothing"}, client : Clients \cup {File, Free}, n : Nat]
Context == [event : {"accept", "read_sock", "read_file", "write"}, socket : Fds \cup {0},
            path : Fds \cup {0} \cup Garbage, on : Clients \cup {File, Free}, what : Answer]
Nothing == [part |-> "nothing", client |-> Free, n |-> 0]
Content(part, c) ==
    [part |-> part, client |-> c, n |-> IF c \in Clients THEN Len(asked[c]) ELSE 0]

-----------------------------------------------------------------------------
(* Descriptors (the lowest free number is taken) and contexts.              *)

Full(f) == \A x \in Fds : f[x] # Free
FreeFd(f) == CHOOSE x \in Fds : f[x] = Free /\ \A y \in Fds : f[y] = Free => x <= y

\* The contexts that add_accept_request(), add_read_request(),
\* add_write_request() and copy_file_contents() submit; a file of no bytes is
\* read into no buffers.
AcceptContext == [event |-> "accept", socket |-> 0, path |-> 0, on |-> Free, what |-> Nothing]
ReadContext(fd) ==
    [event |-> "read_sock", socket |-> fd, path |-> 0, on |-> fds[fd], what |-> Nothing]
WriteContext(fd, path, what) ==
    [event |-> "write", socket |-> fd, path |-> path, on |-> fds[fd], what |-> what]
FileContext(fd, path, what) ==
    [event |-> "read_file", socket |-> fd, path |-> path, on |-> File, what |-> what]

Submits(contexts) == ring' = ring (+) SetToBag(contexts)

-----------------------------------------------------------------------------
(* The clients.                                                             *)

Has(c, part) == \E i \in DOMAIN stream[c] : stream[c][i] = Content(part, c)
AnsweredWith(c, kind) ==
    CASE kind = "file" -> Has(c, "header") /\ Has(c, "body")
      [] kind = "empty" -> Has(c, "header")
      [] kind \in {"missing", "other"} -> Has(c, "static")
      [] kind = "malformed" -> FALSE
Answered(c) == asked[c] # <<>> => AnsweredWith(c, asked[c][Len(asked[c])])

\* A client asks again when it has its answer.
Asking(c, kind) ==
    /\ client[c] = "here" /\ Answered(c)
    /\ \E plan \in Plans[c] :
          Len(plan) > Len(asked[c]) /\ SubSeq(plan, 1, Len(asked[c]) + 1) = Append(asked[c], kind)
    /\ asked' = [asked EXCEPT ![c] = Append(@, kind)]
    /\ input' = [input EXCEPT ![c] = Append(@, kind)]
    /\ UNCHANGED <<server, fds, ring, cq, client, stream>>

Leaves(c) ==
    /\ client[c] = "here"
    /\ Answered(c) \/ "disconnect" \in Faults
    /\ client' = [client EXCEPT ![c] = "gone"]
    /\ UNCHANGED <<server, fds, ring, cq, asked, input, stream>>

-----------------------------------------------------------------------------
(* The kernel performs the request of context x.                            *)

Completes(x, res, got) ==
    /\ ring' = ring (-) SetToBag({x})
    /\ cq' = Append(cq, [context |-> x, res |-> res, got |-> got])
    /\ UNCHANGED <<server, asked>>

KernelAccepts(x, c) ==
    /\ x.event = "accept" /\ client[c] = "waiting" /\ ~Full(fds)
    /\ client' = [client EXCEPT ![c] = "here"]
    /\ fds' = [fds EXCEPT ![FreeFd(fds)] = c]
    /\ Completes(x, FreeFd(fds), "nothing")
    /\ UNCHANGED <<input, stream>>

\* There is no descriptor left for a connection.
KernelRefuses(x) ==
    /\ x.event = "accept" /\ Full(fds)
    /\ Completes(x, -1, "nothing")
    /\ UNCHANGED <<fds, client, input, stream>>

\* From a client that is gone nothing more comes, or the read fails when it
\* went before its answer; a descriptor that names no file fails; a file on
\* disk holds something that is not a GET.
KernelReads(x) ==
    /\ x.event = "read_sock"
    /\ \/ \E c \in Clients \cap {x.on} :
             \/ /\ input[c] # <<>>
                /\ Completes(x, 1, Head(input[c]))
                /\ input' = [input EXCEPT ![c] = <<>>]
             \/ /\ input[c] = <<>> /\ client[c] = "gone"
                /\ \E res \in {0} \cup (IF Answered(c) THEN {} ELSE {-1}) :
                      Completes(x, res, "nothing")
                /\ UNCHANGED input
       \/ x.on = Free /\ Completes(x, -1, "nothing") /\ UNCHANGED input
       \/ /\ x.on = File
          /\ \E got \in {"other", "malformed"} : Completes(x, 1, got)
          /\ UNCHANGED input
    /\ UNCHANGED <<fds, client, stream>>

KernelReadsFile(x) ==
    /\ x.event = "read_file"
    /\ Completes(x, IF x.what = Nothing THEN 0 ELSE 1, "nothing")
    /\ UNCHANGED <<fds, client, input, stream>>

\* A write to a client that is gone is lost or fails.
KernelWrites(x) ==
    /\ x.event = "write"
    /\ \/ \E c \in Clients \cap {x.on} :
             \/ /\ client[c] # "gone"
                /\ stream' = [stream EXCEPT ![c] = Append(@, x.what)]
                /\ Completes(x, 1, "nothing")
             \/ /\ client[c] = "gone"
                /\ \E res \in {-1, 1} : Completes(x, res, "nothing")
                /\ UNCHANGED stream
       \/ x.on \in {Free, File} /\ Completes(x, -1, "nothing") /\ UNCHANGED stream
    /\ UNCHANGED <<fds, client, input>>

-----------------------------------------------------------------------------
(* server_loop(): the completion at the head of the queue, one action for   *)
(* each way its handling goes.                                              *)

Event == Head(cq).context
Result == Head(cq).res
Handles(event) ==
    /\ cq # <<>> /\ Event.event = event /\ Result >= 0
    /\ cq' = Tail(cq)
    /\ UNCHANGED <<client, asked, input, stream>>

\* What the process had is closed, the ring too.
Exits ==
    /\ server' = "exited"
    /\ fds' = [fd \in Fds |-> Free]
    /\ ring' = EmptyBag
    /\ cq' = <<>>
    /\ UNCHANGED <<client, asked, input, stream>>

\* Any request that fails ends the server, and so does one that is malformed.
HandleFailure ==
    /\ cq # <<>>
    /\ Result < 0 \/ (Event.event = "read_sock" /\ Head(cq).got = "malformed")
    /\ Exits

\* copy_file_contents() cannot open the file.  The header is with the kernel.
OpenFails ==
    /\ cq # <<>> /\ Result >= 0
    /\ Head(cq).got \in {"file", "empty"} /\ Full(fds)
    /\ Exits

HandleAccept ==
    /\ Handles("accept")
    /\ Submits({AcceptContext, ReadContext(Result)})
    /\ UNCHANGED <<server, fds>>

\* Mutant: the socket is not closed.
EofKeepsSocket ==
    /\ Handles("read_sock") /\ Result = 0
    /\ UNCHANGED <<server, fds, ring>>
\* The client has closed.
HandleEof ==
    /\ Handles("read_sock") /\ Result = 0
    /\ fds' = [fds EXCEPT ![Event.socket] = Free]
    /\ UNCHANGED <<server, ring>>

\* handle_http_404() and handle_unimplemented_method().  Like every context
\* but that of a file read, this one has its path_fd from malloc().
HandleStatic(garbage) ==
    /\ Handles("read_sock") /\ Head(cq).got \in {"missing", "other"}
    /\ LET answer == WriteContext(Event.socket, garbage, Content("static", Event.on))
       IN  Submits({answer})
    /\ UNCHANGED <<server, fds>>

\* Mutant: the client's socket is closed.
FdsOfGetClosing(path) == [fds EXCEPT ![path] = File, ![Event.socket] = Free]
\* handle_get_method() of a file: the header is written and the file read.
FdsOfGet(path) == [fds EXCEPT ![path] = File]
HandleGet(garbage) ==
    /\ Handles("read_sock") /\ Head(cq).got \in {"file", "empty"} /\ ~Full(fds)
    /\ LET path == FreeFd(fds)
           body == IF Head(cq).got = "empty" THEN Nothing ELSE Content("body", Event.on)
           header == WriteContext(Event.socket, garbage, Content("header", Event.on))
           read == FileContext(Event.socket, path, body)
       IN  /\ Submits({header, read})
           /\ fds' = FdsOfGet(path)
    /\ UNCHANGED server

\* The file was empty: its descriptor is closed, and that is all.
HandleEmptyFile ==
    /\ Handles("read_file") /\ Result = 0
    /\ fds' = [fds EXCEPT ![Event.path] = Free]
    /\ UNCHANGED <<server, ring>>

\* The body is written from the context it was read into.
HandleReadFile ==
    /\ Handles("read_file") /\ Result > 0
    /\ Submits({WriteContext(Event.socket, Event.path, Event.what)})
    /\ fds' = [fds EXCEPT ![Event.path] = Free]
    /\ UNCHANGED server

\* Mutant: every write counts as a body.
AnyWrite(context) == TRUE
\* Mutant: none does.
NoWrite(context) == FALSE
\* A path_fd says that this was a body: the next request is read.
IsBody(context) == context.path # 0
HandleWrite ==
    /\ Handles("write")
    /\ Submits(IF IsBody(Event) THEN {ReadContext(Event.socket)} ELSE {})
    /\ UNCHANGED <<server, fds>>

Server ==
    \/ HandleFailure \/ OpenFails \/ HandleAccept \/ HandleEof \/ HandleEmptyFile \/ HandleReadFile
    \/ HandleWrite
    \/ \E garbage \in Garbage : HandleStatic(garbage) \/ HandleGet(garbage)

Kernel(x) ==
    \/ \E c \in Clients : KernelAccepts(x, c)
    \/ KernelRefuses(x) \/ KernelReads(x) \/ KernelReadsFile(x) \/ KernelWrites(x)

-----------------------------------------------------------------------------
Init ==
    /\ server = "up"
    /\ fds = [fd \in Fds |-> Free]
    /\ ring = SetToBag({AcceptContext})
    /\ cq = <<>>
    /\ client = [c \in Clients |-> "waiting"]
    /\ asked = [c \in Clients |-> <<>>]
    /\ input = [c \in Clients |-> <<>>]
    /\ stream = [c \in Clients |-> <<>>]

Next ==
    /\ server = "up"
    /\ \/ Server
       \/ \E x \in BagToSet(ring) : Kernel(x)
       \/ \E c \in Clients :
             \/ Leaves(c)
             \/ \E kind \in Kinds : Asking(c, kind)

\* The server runs and the kernel performs what it can.
Spec ==
    /\ Init /\ [][Next]_vars
    /\ WF_vars(server = "up" /\ Server)
    /\ WF_vars(server = "up" /\ \E x \in BagToSet(ring) : Kernel(x))

-----------------------------------------------------------------------------
(* Properties.                                                              *)

\* Every variable has its type.
TypeOK ==
    /\ server \in {"up", "exited"}
    /\ fds \in [Fds -> Clients \cup {File, Free}]
    /\ IsABag(ring) /\ BagToSet(ring) \subseteq Context
    /\ cq \in Seq([context : Context, res : {-1, 0, 1} \cup Fds, got : Kinds \cup {"nothing"}])
    /\ client \in [Clients -> {"waiting", "here", "gone"}]
    /\ asked \in [Clients -> Seq(Kinds)]
    /\ input \in [Clients -> Seq(Kinds)]
    /\ stream \in [Clients -> Seq(Answer \ {Nothing})]

\* A context holds the turn of connection c: its next request is being read,
\* or the body of an answer is read or written.
HoldsTurn(x, c) ==
    \/ x.event = "read_sock" /\ x.on = c
    \/ x.what.part = "body" /\ x.what.client = c
Holding(c) == {x \in BagToSet(ring) : HoldsTurn(x, c)}
Done(c) == {i \in DOMAIN cq : HoldsTurn(cq[i].context, c)}

\* "path_fd says that it is a body; after the body is written the client
\* socket is put into the read queue" (comment in server_loop): a connection
\* is never read while the body of an answer is under way, nor by two requests
\* at a time, so that no descriptor is closed twice.
OneTurn ==
    \A c \in Clients :
        /\ Holding(c) = {} \/ Done(c) = {}
        /\ \A x, y \in Holding(c) : x = y /\ ring[x] = 1
        /\ \A i, j \in Done(c) : i = j

\* What is written for a client arrives at that client, although numbers of
\* descriptors are used again while requests are under way.
RightClient == \A c \in Clients : \A i \in DOMAIN stream[c] : stream[c][i].client = c

\* A descriptor of a file on disk is open exactly while that file is read.
FilesAccounted ==
    {fd \in Fds : fds[fd] = File} =
        {x.path : x \in {y \in BagToSet(ring) \cup {cq[i].context : i \in DOMAIN cq} :
                            y.event = "read_file"}}

\* Numbers of descriptors are given back and used again, and every one that is
\* written to, read or open is still the one that was meant.
DescriptorsRight == TypeOK /\ RightClient /\ FilesAccounted

\* The requests of c up to its last are for files of some bytes, the only ones
\* after which the server reads the connection again.
FilesBefore(c, n) == \A i \in 1 .. n - 1 : asked[c][i] = "file"

\* Every request of a client that stays is answered, unless the server exits:
\* the completion of one request always starts the next.
AllAnswered ==
    \A c \in Clients : \A n \in {Len(plan) : plan \in Plans[c]} :
        (Len(asked[c]) = n /\ FilesBefore(c, n)) ~>
            (Len(asked[c]) # n \/ Answered(c) \/ client[c] = "gone" \/ server = "exited")

\* When a client that asked only for files has gone, its socket is closed.
SocketClosed ==
    \A c \in Clients :
        (client[c] = "gone" /\ FilesBefore(c, Len(asked[c]) + 1)) ~>
            (server = "exited" \/ \A fd \in Fds : fds[fd] # c)

=============================================================================
