------------------------------- MODULE Httpd -------------------------------
(***************************************************************************)
(* The web server file_io/httpd.c: a thread per connection, and for a CGI  *)
(* request a child process behind two pipes.  The threads share one table  *)
(* of descriptors, and fork() copies all of it: the model keeps, for every *)
(* pipe end and client socket, which processes hold it open, for that is   *)
(* what decides who sees an end of file and who gets SIGPIPE.              *)
(***************************************************************************)
EXTENDS Integers, Sequences, FiniteSets

CONSTANTS
    Conns,      \* connections; the thread and the child of c are known by c
    Server,     \* the server process
    Requests,   \* requests clients send: [method, target, length, script]
    Capacity,   \* bytes a pipe holds
    Output,     \* bytes a script writes
    Faults      \* what may fail: "accept", "pthread_create", "pipe", "fork" and,
                \* for a client that goes away, "disconnect"

\* target: what stat() and the file's mode say of the path; "noexec" stands
\* for whatever is taken for a script but cannot be executed (a query or a
\* POST on a plain file, a directory).  length: Content-Length, -1 if absent.
\* script: how the CGI program behaves, see ChildRuns.
RequestType ==
    [method : {"GET", "POST", "OTHER"},
     target : {"missing", "file", "unreadable", "script", "noexec"},
     length : Int, script : {"reader", "talker", "eof", "quitter"}]

ASSUME ConstantsAssumption ==
    /\ IsFiniteSet(Conns) /\ Server \notin Conns
    /\ Requests \subseteq RequestType
    /\ Capacity \in Nat \ {0}
    /\ Output \in Nat
    /\ Faults \subseteq {"accept", "pthread_create", "pipe", "fork", "disconnect"}

VARIABLES
    req,      \* the request of each connection
    pc,       \* where its thread is
    child,    \* where its child is
    holders,  \* processes that hold each descriptor: [end, conn]
    inpipe,   \* bytes in the pipe cgi_input
    outpipe,  \* bytes in the pipe cgi_output
    body,     \* bytes of the request's body not yet passed on
    script,   \* the child's progress: bytes it has read and written
    client,   \* "here", or "gone" when it has closed the connection
    resp,     \* what was sent to the client
    server    \* "up", or how it ended: "exited", "crashed", "sigpipe"

vars == <<req, pc, child, holders, inpipe, outpipe, body, script, client, resp, server>>

Ends == {"sock", "out_r", "out_w", "in_r", "in_w"}
Descriptors == Ends \X Conns
Held(end, c) == holders[<<end, c>>]

\* Descriptors opened and closed by a process.
Opens(ends, c, proc) ==
    [d \in Descriptors |-> IF d[1] \in ends /\ d[2] = c THEN holders[d] \cup {proc} ELSE holders[d]]
Closes(ends, c, proc) ==
    [d \in Descriptors |-> IF d[1] \in ends /\ d[2] = c THEN holders[d] \ {proc} ELSE holders[d]]
Dies(proc) == [d \in Descriptors |-> holders[d] \ {proc}]

Sends(c, what) == resp' = [resp EXCEPT ![c] = Append(@, what)]

\* send() in the server: on a connection the client has closed it is accepted
\* at first, and from then on SIGPIPE ends the process with all its threads.
Tells(c, what) ==
    \/ Sends(c, what) /\ UNCHANGED <<server, holders>>
    \/ /\ client[c] = "gone"
       /\ server' = "sigpipe"
       /\ holders' = Dies(Server)
       /\ UNCHANGED resp

\* The thread of c goes from one place to the next.
Goes(c, from, to) ==
    /\ server = "up"
    /\ pc[c] = from
    /\ pc' = [pc EXCEPT ![c] = to]

-----------------------------------------------------------------------------
(* main() and accept_request().                                             *)

\* accept() and pthread_create(); when that fails the socket stays open.
Accept(c) ==
    /\ \/ Goes(c, "none", "request")
       \/ "pthread_create" \in Faults /\ Goes(c, "none", "done")
    /\ holders' = Opens({"sock"}, c, Server)
    /\ UNCHANGED <<req, child, inpipe, outpipe, body, script, client, resp, server>>

\* error_die("accept"): exit(1) ends the process with all its threads.
error_die ==
    /\ "accept" \in Faults
    /\ server = "up"
    /\ server' = "exited"
    /\ holders' = Dies(Server)
    /\ UNCHANGED <<req, pc, child, inpipe, outpipe, body, script, client, resp>>

\* GET of what is not taken for a script is served as a file.
IsCgi(r) == r.method = "POST" \/ r.target \in {"script", "noexec"}

\* A method other than GET and POST: answered, and the socket is not closed.
unimplemented(c) ==
    /\ req[c].method = "OTHER"
    /\ Goes(c, "request", "done")
    /\ Tells(c, "501")
    /\ UNCHANGED <<req, child, inpipe, outpipe, body, script, client>>

not_found(c) ==
    /\ req[c].method # "OTHER"
    /\ req[c].target = "missing"
    /\ Goes(c, "request", "close")
    /\ Tells(c, "404")
    /\ UNCHANGED <<req, child, inpipe, outpipe, body, script, client>>

\* serve_file(): a file that fopen() does not open is answered with 404, and
\* then fclose(NULL) ends the process.
serve_file(c) ==
    /\ req[c].method # "OTHER"
    /\ req[c].target # "missing"
    /\ ~IsCgi(req[c])
    /\ Goes(c, "request", "close")
    /\ \/ req[c].target = "file" /\ Tells(c, "200")
       \/ /\ req[c].target = "unreadable"
          /\ Sends(c, "404")
          /\ server' = "crashed"
          /\ holders' = Dies(Server)
    /\ UNCHANGED <<req, child, inpipe, outpipe, body, script, client>>

\* close(client) at the end of accept_request().
CloseClient(c) ==
    /\ Goes(c, "close", "done")
    /\ holders' = Closes({"sock"}, c, Server)
    /\ UNCHANGED <<req, child, inpipe, outpipe, body, script, client, resp, server>>

-----------------------------------------------------------------------------
(* execute_cgi(), the thread.                                               *)

\* The headers are read; a POST without Content-Length is answered with 400.
execute_cgi(c) ==
    /\ req[c].method # "OTHER"
    /\ req[c].target # "missing"
    /\ IsCgi(req[c])
    /\ IF req[c].method = "POST" /\ req[c].length = -1
       THEN Goes(c, "request", "close") /\ Tells(c, "400")
       ELSE Goes(c, "request", "pipe_out") /\ UNCHANGED <<holders, resp, server>>
    /\ UNCHANGED <<req, child, inpipe, outpipe, body, script, client>>

\* pipe(), pipe() and fork() fail one by one: 500, and what was opened before
\* stays open.
cannot_execute(c) ==
    /\ \/ "pipe" \in Faults /\ (Goes(c, "pipe_out", "close") \/ Goes(c, "pipe_in", "close"))
       \/ "fork" \in Faults /\ Goes(c, "fork", "close")
    /\ Tells(c, "500")
    /\ UNCHANGED <<req, child, inpipe, outpipe, body, script, client>>

OpenPipe(c) ==
    /\ \/ Goes(c, "pipe_out", "pipe_in") /\ holders' = Opens({"out_r", "out_w"}, c, Server)
       \/ Goes(c, "pipe_in", "fork") /\ holders' = Opens({"in_r", "in_w"}, c, Server)
    /\ UNCHANGED <<req, child, inpipe, outpipe, body, script, client, resp, server>>

\* fork(): the child holds whatever the server holds, for every connection.
Fork(c) ==
    /\ Goes(c, "fork", "status")
    /\ child' = [child EXCEPT ![c] = "status"]
    /\ holders' = [d \in Descriptors |->
                      IF Server \in holders[d] THEN holders[d] \cup {c} ELSE holders[d]]
    /\ UNCHANGED <<req, inpipe, outpipe, body, script, client, resp, server>>

\* The status line, sent behind fork() and so by both processes.
ParentStatus(c) ==
    /\ Goes(c, "status", "close_out_w")
    /\ Tells(c, "200")
    /\ UNCHANGED <<req, child, inpipe, outpipe, body, script, client>>

ParentKeepsWriter(c) ==
    /\ \/ Goes(c, "close_out_w", "close_in_r") /\ UNCHANGED holders
       \/ Goes(c, "close_in_r", "body") /\ holders' = Closes({"in_r"}, c, Server)
    /\ UNCHANGED <<req, child, inpipe, outpipe, body, script, client, resp, server>>
ParentClosesReader(c) ==
    /\ \/ Goes(c, "close_out_w", "close_in_r") /\ holders' = Closes({"out_r"}, c, Server)
       \/ Goes(c, "close_in_r", "body") /\ holders' = Closes({"in_r"}, c, Server)
    /\ UNCHANGED <<req, child, inpipe, outpipe, body, script, client, resp, server>>
ParentCloses(c) ==
    /\ \/ Goes(c, "close_out_w", "close_in_r") /\ holders' = Closes({"out_w"}, c, Server)
       \/ Goes(c, "close_in_r", "body") /\ holders' = Closes({"in_r"}, c, Server)
    /\ UNCHANGED <<req, child, inpipe, outpipe, body, script, client, resp, server>>

\* Bytes of the body the loop has still to pass on.
BodyLeft(c) == req[c].method = "POST" /\ body[c] > 0

\* write() on a pipe waits for room.
RoomInPipe(c) == inpipe[c] < Capacity

\* A byte of the body is read from the client (from one that has gone recv()
\* reads nothing and the last byte is taken again) and written to the script;
\* with no reader left, SIGPIPE kills the server.
PassBody(c) ==
    /\ Goes(c, "body", "body")
    /\ BodyLeft(c)
    /\ body' = [body EXCEPT ![c] = @ - 1]
    /\ \/ /\ Held("in_r", c) # {}
          /\ RoomInPipe(c)
          /\ inpipe' = [inpipe EXCEPT ![c] = @ + 1]
          /\ UNCHANGED <<server, holders>>
       \/ /\ Held("in_r", c) = {}
          /\ server' = "sigpipe"
          /\ holders' = Dies(Server)
          /\ UNCHANGED inpipe
    /\ UNCHANGED <<req, child, outpipe, script, client, resp>>

BodyPassed(c) ==
    /\ Goes(c, "body", "output")
    /\ ~BodyLeft(c)
    /\ UNCHANGED <<req, child, holders, inpipe, outpipe, body, script, client, resp, server>>

PassOutput(c) ==
    /\ Goes(c, "output", "output")
    /\ outpipe[c] > 0
    /\ outpipe' = [outpipe EXCEPT ![c] = @ - 1]
    /\ Tells(c, "out")
    /\ UNCHANGED <<req, child, inpipe, body, script, client>>

\* read() of the output returns 0 when no process holds its writing end.
NothingToRead(c) == outpipe[c] = 0
OutputAtEnd(c) == outpipe[c] = 0 /\ Held("out_w", c) = {}

\* End of the output: both remaining ends are closed.
OutputEndOnly == {"out_r"}
RemainingEnds == {"out_r", "in_w"}
OutputEnds(c) ==
    /\ Goes(c, "output", "wait")
    /\ OutputAtEnd(c)
    /\ holders' = Closes(RemainingEnds, c, Server)
    /\ UNCHANGED <<req, child, inpipe, outpipe, body, script, client, resp, server>>

Waitpid(c) ==
    /\ Goes(c, "wait", "close")
    /\ child[c] = "zombie"
    /\ child' = [child EXCEPT ![c] = "reaped"]
    /\ UNCHANGED <<req, holders, inpipe, outpipe, body, script, client, resp, server>>

-----------------------------------------------------------------------------
(* execute_cgi(), the child.                                                *)

ChildGoes(c, from, to) == child[c] = from /\ child' = [child EXCEPT ![c] = to]

\* It closes the two ends it does not use, of its own pipes only.
ChildCloses(c) ==
    /\ ChildGoes(c, "close", "exec")
    /\ holders' = Closes({"out_r", "in_w"}, c, c)
    /\ UNCHANGED <<req, pc, inpipe, outpipe, body, script, client, resp, server>>

\* exit(): every descriptor it holds is closed.
ChildExits(c, from) ==
    /\ ChildGoes(c, from, "zombie")
    /\ holders' = Dies(c)
    /\ UNCHANGED <<req, pc, inpipe, outpipe, body, script, client, resp, server>>

ChildStatus(c) ==
    \/ client[c] = "gone" /\ ChildExits(c, "status")
    \/ /\ ChildGoes(c, "status", "close")
       /\ Sends(c, "200")
       /\ UNCHANGED <<req, pc, holders, inpipe, outpipe, body, script, client, server>>

\* execl(); when it fails, exit(0) without a word.
Exec(c) ==
    \/ req[c].target # "script" /\ ChildExits(c, "exec")
    \/ /\ req[c].target = "script"
       /\ ChildGoes(c, "exec", "run")
       /\ UNCHANGED <<req, pc, holders, inpipe, outpipe, body, script, client, resp, server>>

\* How a script behaves: "reader" reads as many bytes as CONTENT_LENGTH says
\* and then writes, "talker" the other way round, "eof" reads to the end of
\* its input, "quitter" writes and ends without a look at it.
AtEof(c) == inpipe[c] = 0 /\ Held("in_w", c) = {}
InputWanted(c) ==
    req[c].method = "POST" /\ script[c].read < req[c].length /\ ~AtEof(c)
Reads(c) ==
    CASE req[c].script = "reader" -> InputWanted(c)
      [] req[c].script = "talker" -> InputWanted(c) /\ script[c].written = Output
      [] req[c].script = "eof" -> ~AtEof(c)
      [] req[c].script = "quitter" -> FALSE
Writes(c) == ~Reads(c) /\ script[c].written < Output

ScriptReads(c) ==
    /\ child[c] = "run" /\ Reads(c)
    /\ inpipe[c] > 0
    /\ inpipe' = [inpipe EXCEPT ![c] = @ - 1]
    /\ script' = [script EXCEPT ![c].read = @ + 1]
    /\ UNCHANGED <<req, pc, child, holders, outpipe, body, client, resp, server>>

\* A script that writes to a server that has gone is killed by SIGPIPE.
ScriptWrites(c) ==
    /\ child[c] = "run" /\ Writes(c)
    /\ Held("out_r", c) # {}
    /\ outpipe[c] < Capacity
    /\ outpipe' = [outpipe EXCEPT ![c] = @ + 1]
    /\ script' = [script EXCEPT ![c].written = @ + 1]
    /\ UNCHANGED <<req, pc, child, holders, inpipe, body, client, resp, server>>

ScriptEnds(c) ==
    /\ (~Reads(c) /\ ~Writes(c)) \/ (Writes(c) /\ Held("out_r", c) = {})
    /\ ChildExits(c, "run")

-----------------------------------------------------------------------------
\* The client closes its connection without waiting for the answer.
ClientCloses(c) ==
    /\ "disconnect" \in Faults
    /\ pc[c] # "none" /\ client[c] = "here"
    /\ client' = [client EXCEPT ![c] = "gone"]
    /\ UNCHANGED <<req, pc, child, holders, inpipe, outpipe, body, script, resp, server>>

Init ==
    /\ req \in [Conns -> Requests]
    /\ pc = [c \in Conns |-> "none"]
    /\ child = [c \in Conns |-> "none"]
    /\ holders = [d \in Descriptors |-> {}]
    /\ inpipe = [c \in Conns |-> 0]
    /\ outpipe = [c \in Conns |-> 0]
    /\ body = [c \in Conns |-> req[c].length]
    /\ script = [c \in Conns |-> [read |-> 0, written |-> 0]]
    /\ client = [c \in Conns |-> "here"]
    /\ resp = [c \in Conns |-> <<>>]
    /\ server = "up"

Thread(c) ==
    \/ unimplemented(c) \/ not_found(c) \/ serve_file(c) \/ CloseClient(c)
    \/ execute_cgi(c) \/ cannot_execute(c) \/ OpenPipe(c) \/ Fork(c)
    \/ ParentStatus(c) \/ ParentCloses(c) \/ PassBody(c) \/ BodyPassed(c)
    \/ PassOutput(c) \/ OutputEnds(c) \/ Waitpid(c)

Child(c) ==
    \/ ChildStatus(c) \/ ChildCloses(c) \/ Exec(c)
    \/ ScriptReads(c) \/ ScriptWrites(c) \/ ScriptEnds(c)

Next ==
    \/ error_die
    \/ \E c \in Conns : Accept(c) \/ Thread(c) \/ Child(c) \/ ClientCloses(c)

\* Threads and processes are scheduled; a client need not come.
Spec == Init /\ [][Next]_vars /\ \A c \in Conns : WF_vars(Thread(c)) /\ WF_vars(Child(c))

-----------------------------------------------------------------------------
(* Properties.                                                              *)

Places == {"none", "request", "close", "done", "pipe_out", "pipe_in", "fork", "status",
           "close_out_w", "close_in_r", "body", "output", "wait"}

\* Every variable has its type.
TypeOK ==
    /\ req \in [Conns -> Requests]
    /\ pc \in [Conns -> Places]
    /\ child \in [Conns -> {"none", "status", "close", "exec", "run", "zombie", "reaped"}]
    /\ holders \in [Descriptors -> SUBSET (Conns \cup {Server})]
    /\ inpipe \in [Conns -> 0 .. Capacity]
    /\ outpipe \in [Conns -> 0 .. Capacity]
    /\ body \in [Conns -> Int]
    /\ script \in [Conns -> [read : Nat, written : Nat]]
    /\ client \in [Conns -> {"here", "gone"}]
    /\ resp \in [Conns -> Seq({"200", "400", "404", "500", "501", "out"})]
    /\ server \in {"up", "exited", "crashed", "sigpipe"}

\* As many bytes as a script wrote are sent to its client: the thread takes an
\* end of file for the end of the output only when its script can write no more,
\* whichever other children inherited the pipe.
OutputComplete ==
    \A c \in Conns :
        pc[c] \in {"wait", "close", "done"} /\ child[c] # "none" =>
            Cardinality({i \in DOMAIN resp[c] : resp[c][i] = "out"}) = script[c].written

\* The script is given as many bytes as Content-Length says: when the thread
\* turns to the output, that many are in the pipe or have been read.  They are
\* the client's own as long as it is there; for one that has gone the thread
\* writes the last byte again and again.
BodyDelivered ==
    \A c \in Conns : pc[c] = "output" /\ req[c].method = "POST" =>
        inpipe[c] + script[c].read = IF req[c].length > 0 THEN req[c].length ELSE 0

\* The two pipes of a script pass the right number of bytes on either side.
DataWhole == TypeOK /\ OutputComplete /\ BodyDelivered

\* A request that is through leaves nothing open in the server: neither the
\* socket nor an end of its pipes, and no zombie.
Released ==
    \A c \in Conns : pc[c] = "done" =>
        /\ \A end \in Ends : Server \notin Held(end, c)
        /\ child[c] \in {"none", "reaped"}

\* A body for what ends before it has read it: it cannot be executed, or it is
\* a script that does not ask for its input.
BodyUnread(r) ==
    /\ r.method = "POST" /\ r.length > 0
    /\ r.target # "script" \/ r.script = "quitter"

\* A thread that works for one client ends the server for all of them in three
\* cases and no other: its client has gone, the child that its body was meant
\* for ended before reading it, or the file it serves cannot be opened.  main()
\* ends it when accept() fails.
EndsForCause ==
    /\ server = "exited" => "accept" \in Faults
    /\ server = "crashed" =>
          \E c \in Conns : pc[c] = "close" /\ req[c].method = "GET" /\ req[c].target = "unreadable"
    /\ server = "sigpipe" =>
          \E c \in Conns : client[c] = "gone" \/ (child[c] = "zombie" /\ BodyUnread(req[c]))

\* Every request comes to an end for the client: in the end no process, not
\* even a child forked for another client, holds its socket open.
ClientSeesEnd ==
    \A c \in Conns : pc[c] = "request" ~> \A proc \in Conns \cup {Server} : proc \notin Held("sock", c)

=============================================================================
