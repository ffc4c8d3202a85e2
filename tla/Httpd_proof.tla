---------------------------- MODULE Httpd_proof ----------------------------
(***************************************************************************)
(* Proofs about the web server: what passes between a client, its thread   *)
(* and its script, what a request leaves behind, and when the server       *)
(* survives, for every number of connections, capacity of a pipe, length   *)
(* of the output and of the body.                                          *)
(***************************************************************************)
EXTENDS Httpd, FiniteSetTheorems, TLAPS

-----------------------------------------------------------------------------
(* The inductive invariant, a connection at a time.                         *)

\* How far a thread is: before its child, with it, and after its output.
NoChildYet == {"none", "request", "pipe_out", "pipe_in", "fork"}
Forked == {"status", "close_out_w", "close_in_r", "body", "output", "wait"}
OutputRead == {"wait", "close", "done"}
Alive == {"status", "close", "exec", "run"}

\* Positions of the answer at which a byte of the script's output is.
Outs(s) == {i \in DOMAIN s : s[i] = "out"}
Said(c) == Cardinality(Outs(resp[c]))

\* The child follows its thread; whatever it wrote and is not in the pipe was
\* sent to the client, unless the send() of it ended the server; once its output
\* was read to the end it writes no more.
OutputInv(c) ==
    /\ pc[c] \in NoChildYet => child[c] = "none"
    /\ pc[c] \in Forked => child[c] \in Alive \cup {"zombie"}
    /\ child[c] = "none" => inpipe[c] = 0 /\ outpipe[c] = 0 /\ script[c].read = 0 /\ script[c].written = 0
    /\ pc[c] \in OutputRead /\ child[c] # "none" => child[c] \notin Alive /\ outpipe[c] = 0
    /\ server = "up" \/ pc[c] # "output" =>
          Said(c) + outpipe[c] = script[c].written

\* A byte of the body is at the client, in the pipe or with the script.
BodyInv(c) ==
    req[c].method = "POST" =>
        /\ pc[c] \in NoChildYet \cup {"status", "close_out_w", "close_in_r"} =>
              inpipe[c] = 0 /\ script[c].read = 0 /\ body[c] = req[c].length
        /\ pc[c] = "output" \/ (pc[c] = "body" /\ server = "up") =>
              IF req[c].length > 0
              THEN 0 <= body[c] /\ inpipe[c] + script[c].read + body[c] = req[c].length
              ELSE inpipe[c] = 0 /\ script[c].read = 0 /\ body[c] = req[c].length
        /\ pc[c] = "output" => body[c] <= 0

\* The ends of the pipes that the thread and the child keep open.
EndsInv(c) ==
    /\ server = "up" =>
          /\ pc[c] \in {"pipe_in", "fork"} => Server \in Held("out_r", c) /\ Server \in Held("out_w", c)
          /\ pc[c] = "fork" => Server \in Held("in_r", c) /\ Server \in Held("in_w", c)
          /\ pc[c] \in Forked \ {"wait"} => Server \in Held("out_r", c) /\ Server \in Held("in_w", c)
    /\ child[c] \in Alive => c \in Held("out_w", c) /\ c \in Held("in_r", c)

HInv == TypeOK /\ \A c \in Conns : OutputInv(c) /\ BodyInv(c) /\ EndsInv(c)

\* The ends that the server may still hold when the thread is at a place.
MayHold(place) ==
    CASE place = "none" -> {}
      [] place \in {"request", "pipe_out", "wait", "close"} -> {"sock"}
      [] place = "pipe_in" -> {"sock", "out_r", "out_w"}
      [] place \in {"fork", "status", "close_out_w"} -> Ends
      [] place = "close_in_r" -> {"sock", "out_r", "in_r", "in_w"}
      [] place \in {"body", "output"} -> {"sock", "out_r", "in_w"}
      [] OTHER -> {}

ReleasedAt(c) ==
    /\ \A end \in Ends : Server \in Held(end, c) => end \in MayHold(pc[c])
    /\ pc[c] \in {"close", "done"} => child[c] \in {"none", "reaped"}

\* The server's constants under which every request reaches its end: no call of
\* the server fails, and a request is a GET or a POST.
GivesBack ==
    /\ {"pthread_create", "pipe", "fork"} \cap Faults = {}
    /\ \A r \in Requests : r.method # "OTHER"

\* While the server is up, the child for which there is a body lives until it has
\* read all of it, unless its client has gone or it does not read its body.
CauseInv(c) ==
    /\ script[c].written <= Output
    /\ pc[c] \in Forked \cup {"pipe_out", "pipe_in", "fork"} => req[c].target # "missing"
    /\ /\ server = "up"
       /\ pc[c] \in {"status", "close_out_w", "close_in_r", "body"}
       /\ req[c].method = "POST" /\ body[c] > 0
       => child[c] \in Alive \/ client[c] = "gone" \/ BodyUnread(req[c])

\* A step for the sake of one connection: its thread's, its child's, its client's.
StepOf(c) == Accept(c) \/ Thread(c) \/ Child(c) \/ ClientCloses(c)

-----------------------------------------------------------------------------
(* What the helpers do to the variables they write.                         *)

\* Opening, closing and dying change only who holds a descriptor.
LEMMA HoldersType ==
    ASSUME TypeOK, NEW ends \in SUBSET Ends, NEW c \in Conns, NEW proc \in Conns \cup {Server}
    PROVE  /\ Opens(ends, c, proc) \in [Descriptors -> SUBSET (Conns \cup {Server})]
           /\ Closes(ends, c, proc) \in [Descriptors -> SUBSET (Conns \cup {Server})]
           /\ Dies(proc) \in [Descriptors -> SUBSET (Conns \cup {Server})]
BY DEF TypeOK, Opens, Closes, Dies

\* A message is added to the answer of c, or the server dies of it.
LEMMA TellsType ==
    ASSUME TypeOK, NEW c \in Conns, NEW what \in {"200", "400", "404", "500", "501", "out"},
           Tells(c, what)
    PROVE  /\ resp' \in [Conns -> Seq({"200", "400", "404", "500", "501", "out"})]
           /\ server' \in {server, "sigpipe"}
           /\ holders' \in [Descriptors -> SUBSET (Conns \cup {Server})]
<1>1. CASE Sends(c, what) /\ UNCHANGED <<server, holders>>
  BY <1>1 DEF TypeOK, Sends
<1>2. CASE server' = "sigpipe" /\ holders' = Dies(Server) /\ UNCHANGED resp
  BY <1>2 DEF TypeOK, Dies
<1> QED  BY <1>1, <1>2 DEF Tells

\* A thread goes to a place.
LEMMA GoesType ==
    ASSUME TypeOK, NEW c \in Conns, NEW from, NEW to \in Places, Goes(c, from, to)
    PROVE  pc' \in [Conns -> Places]
BY DEF TypeOK, Goes

\* The child counts.
LEMMA ScriptType ==
    ASSUME NEW r \in [read : Nat, written : Nat]
    PROVE  /\ [r EXCEPT !.read = @ + 1] \in [read : Nat, written : Nat]
           /\ [r EXCEPT !.written = @ + 1] \in [read : Nat, written : Nat]
OBVIOUS

\* A pipe has room for some bytes.
LEMMA CapacityType == Capacity \in Nat
BY ConstantsAssumption

-----------------------------------------------------------------------------
(* Types.                                                                   *)

\* Every step keeps the types.
LEMMA TypeStep ==
    ASSUME TypeOK, NEW c \in Conns, StepOf(c)
    PROVE  TypeOK'
<1> USE DEF TypeOK
<1>1. CASE Accept(c)
  BY <1>1 DEF Accept, Places, Goes, Opens
<1>2. CASE unimplemented(c)
  <2>1. Goes(c, "request", "done") /\ Tells(c, "501")
    BY <1>2 DEF unimplemented
  <2>2. pc' \in [Conns -> Places]
    BY <2>1, GoesType DEF Places
  <2>3. /\ resp' \in [Conns -> Seq({"200", "400", "404", "500", "501", "out"})]
        /\ server' \in {server, "sigpipe"}
        /\ holders' \in [Descriptors -> SUBSET (Conns \cup {Server})]
    BY <2>1, TellsType
  <2> QED  BY <1>2, <2>2, <2>3 DEF unimplemented
<1>3. CASE not_found(c)
  <2>1. Goes(c, "request", "close") /\ Tells(c, "404")
    BY <1>3 DEF not_found
  <2>2. pc' \in [Conns -> Places]
    BY <2>1, GoesType DEF Places
  <2>3. /\ resp' \in [Conns -> Seq({"200", "400", "404", "500", "501", "out"})]
        /\ server' \in {server, "sigpipe"}
        /\ holders' \in [Descriptors -> SUBSET (Conns \cup {Server})]
    BY <2>1, TellsType
  <2> QED  BY <1>3, <2>2, <2>3 DEF not_found
<1>4. CASE serve_file(c)
  <2>1. pc' \in [Conns -> Places]
    BY <1>4, GoesType DEF serve_file, Places
  <2>2. CASE Tells(c, "200")
    BY <1>4, <2>1, <2>2, TellsType DEF serve_file
  <2>3. CASE Sends(c, "404") /\ server' = "crashed" /\ holders' = Dies(Server)
    BY <1>4, <2>1, <2>3 DEF serve_file, Sends, Dies
  <2> QED  BY <1>4, <2>2, <2>3 DEF serve_file
<1>5. CASE CloseClient(c)
  BY <1>5 DEF CloseClient, Places, Goes, Closes
<1>6. CASE execute_cgi(c)
  <2>1. pc' \in [Conns -> Places]
    BY <1>6, GoesType DEF execute_cgi, Places
  <2>2. CASE Tells(c, "400")
    BY <1>6, <2>1, <2>2, TellsType DEF execute_cgi
  <2>3. CASE UNCHANGED <<holders, resp, server>>
    BY <1>6, <2>1, <2>3 DEF execute_cgi
  <2> QED  BY <1>6, <2>2, <2>3 DEF execute_cgi
<1>7. CASE cannot_execute(c)
  <2>1. pc' \in [Conns -> Places]
    BY <1>7, GoesType DEF cannot_execute, Places
  <2> QED  BY <1>7, <2>1, TellsType DEF cannot_execute
<1>8. CASE OpenPipe(c)
  <2>1. pc' \in [Conns -> Places]
    BY <1>8, GoesType DEF OpenPipe, Places
  <2>2. PICK ends \in SUBSET Ends : holders' = Opens(ends, c, Server)
    BY <1>8 DEF OpenPipe, Ends
  <2>3. holders' \in [Descriptors -> SUBSET (Conns \cup {Server})]
    <3>1. Opens(ends, c, Server) \in [Descriptors -> SUBSET (Conns \cup {Server})]
      BY HoldersType
    <3> QED  BY <2>2, <3>1
  <2> QED  BY <1>8, <2>1, <2>3 DEF OpenPipe
<1>9. CASE Fork(c)
  BY <1>9 DEF Fork, Places, Goes
<1>10. CASE ParentStatus(c)
  <2>1. Goes(c, "status", "close_out_w") /\ Tells(c, "200")
    BY <1>10 DEF ParentStatus
  <2>2. pc' \in [Conns -> Places]
    BY <2>1, GoesType DEF Places
  <2>3. /\ resp' \in [Conns -> Seq({"200", "400", "404", "500", "501", "out"})]
        /\ server' \in {server, "sigpipe"}
        /\ holders' \in [Descriptors -> SUBSET (Conns \cup {Server})]
    BY <2>1, TellsType
  <2> QED  BY <1>10, <2>2, <2>3 DEF ParentStatus
<1>11. CASE ParentCloses(c)
  <2>1. pc' \in [Conns -> Places]
    BY <1>11, GoesType DEF ParentCloses, Places
  <2>2. PICK ends \in SUBSET Ends : holders' = Closes(ends, c, Server)
    BY <1>11 DEF ParentCloses, Ends
  <2>3. holders' \in [Descriptors -> SUBSET (Conns \cup {Server})]
    <3>1. Closes(ends, c, Server) \in [Descriptors -> SUBSET (Conns \cup {Server})]
      BY HoldersType
    <3> QED  BY <2>2, <3>1
  <2> QED  BY <1>11, <2>1, <2>3 DEF ParentCloses
<1>12. CASE PassBody(c)
  <2>1. pc' \in [Conns -> Places] /\ body' \in [Conns -> Int]
    BY <1>12 DEF PassBody, Goes, Places
  <2>2. inpipe' \in [Conns -> 0 .. Capacity]
    <3>1. inpipe[c] < Capacity => inpipe[c] + 1 \in 0 .. Capacity
      BY CapacityType
    <3> QED  BY <1>12, <3>1 DEF PassBody, RoomInPipe
  <2>3. holders' \in [Descriptors -> SUBSET (Conns \cup {Server})] /\ server' \in {server, "sigpipe"}
    BY <1>12 DEF PassBody, Dies
  <2> QED  BY <1>12, <2>1, <2>2, <2>3 DEF PassBody
<1>13. CASE BodyPassed(c)
  BY <1>13 DEF BodyPassed, Places, Goes, BodyLeft
<1>14. CASE PassOutput(c)
  <2>1. Goes(c, "output", "output") /\ Tells(c, "out")
    BY <1>14 DEF PassOutput
  <2>2. pc' \in [Conns -> Places]
    BY <2>1, GoesType DEF Places
  <2>3. /\ resp' \in [Conns -> Seq({"200", "400", "404", "500", "501", "out"})]
        /\ server' \in {server, "sigpipe"}
        /\ holders' \in [Descriptors -> SUBSET (Conns \cup {Server})]
    BY <2>1, TellsType
  <2>4. outpipe' \in [Conns -> 0 .. Capacity]
    <3>1. outpipe[c] > 0 => outpipe[c] - 1 \in 0 .. Capacity
      BY CapacityType
    <3> QED  BY <1>14, <3>1 DEF PassOutput
  <2> QED  BY <1>14, <2>2, <2>3, <2>4 DEF PassOutput
<1>15. CASE OutputEnds(c)
  BY <1>15 DEF OutputEnds, Places, Goes, OutputAtEnd, Closes, RemainingEnds
<1>16. CASE Waitpid(c)
  BY <1>16 DEF Waitpid, Places, Goes
<1>17. CASE ChildStatus(c)
  <2>1. CASE ChildExits(c, "status")
    BY <2>1 DEF ChildExits, ChildGoes, Dies
  <2>2. CASE ~ChildExits(c, "status")
    <3>1. Append(resp[c], "200") \in Seq({"200", "400", "404", "500", "501", "out"})
      OBVIOUS
    <3>2. resp' \in [Conns -> Seq({"200", "400", "404", "500", "501", "out"})]
      BY <1>17, <2>2, <3>1 DEF ChildStatus, Sends
    <3> QED  BY <1>17, <2>2, <3>2 DEF ChildStatus, ChildGoes
  <2> QED  BY <2>1, <2>2
<1>18. CASE ChildCloses(c)
  BY <1>18 DEF ChildCloses, ChildGoes, Closes
<1>19. CASE Exec(c)
  <2>1. CASE ChildExits(c, "exec")
    BY <2>1 DEF ChildExits, ChildGoes, Dies
  <2>2. CASE ~ChildExits(c, "exec")
    BY <1>19, <2>2 DEF Exec, ChildGoes
  <2> QED  BY <2>1, <2>2
<1>20. CASE ScriptReads(c)
  <2>1. [script[c] EXCEPT !.read = @ + 1] \in [read : Nat, written : Nat]
    <3>1. script[c] \in [read : Nat, written : Nat]
      OBVIOUS
    <3> QED  BY <3>1, ScriptType
  <2>2. script' \in [Conns -> [read : Nat, written : Nat]]
    BY <1>20, <2>1 DEF ScriptReads
  <2>3. inpipe[c] - 1 \in 0 .. Capacity
    BY <1>20, CapacityType DEF ScriptReads
  <2>4. inpipe' \in [Conns -> 0 .. Capacity]
    BY <1>20, <2>3 DEF ScriptReads
  <2> QED  BY <1>20, <2>2, <2>4 DEF ScriptReads
<1>21. CASE ScriptWrites(c)
  <2>1. [script[c] EXCEPT !.written = @ + 1] \in [read : Nat, written : Nat]
    <3>1. script[c] \in [read : Nat, written : Nat]
      OBVIOUS
    <3> QED  BY <3>1, ScriptType
  <2>2. script' \in [Conns -> [read : Nat, written : Nat]]
    BY <1>21, <2>1 DEF ScriptWrites
  <2>3. outpipe[c] + 1 \in 0 .. Capacity
    BY <1>21, CapacityType DEF ScriptWrites
  <2>4. outpipe' \in [Conns -> 0 .. Capacity]
    BY <1>21, <2>3 DEF ScriptWrites
  <2> QED  BY <1>21, <2>2, <2>4 DEF ScriptWrites
<1>22. CASE ScriptEnds(c)
  BY <1>22 DEF ScriptEnds, ChildExits, ChildGoes, Dies
<1>23. CASE ClientCloses(c)
  BY <1>23 DEF ClientCloses
<1> QED
  BY <1>1, <1>2, <1>3, <1>4, <1>5, <1>6, <1>7, <1>8, <1>9, <1>10, <1>11, <1>12,
     <1>13, <1>14, <1>15, <1>16, <1>17, <1>18, <1>19, <1>20, <1>21, <1>22, <1>23
     DEF StepOf, Thread, Child

\* The pipes and the script count bytes.
LEMMA BytesType ==
    ASSUME TypeOK, NEW x \in Conns
    PROVE  /\ inpipe[x] \in Nat /\ outpipe[x] \in Nat
           /\ script[x].read \in Nat /\ script[x].written \in Nat
<1>1. inpipe[x] \in 0 .. Capacity /\ outpipe[x] \in 0 .. Capacity
  BY DEF TypeOK
<1>2. script[x] \in [read : Nat, written : Nat]
  BY DEF TypeOK
<1> QED  BY <1>1, <1>2

-----------------------------------------------------------------------------
(* The output of the script.                                                *)

\* A message more is a byte of output more, or none.
LEMMA OutsAppend ==
    ASSUME NEW S, NEW s \in Seq(S), NEW what \in S
    PROVE  /\ Cardinality(Outs(s)) \in Nat
           /\ Cardinality(Outs(Append(s, what))) =
                 IF what = "out" THEN Cardinality(Outs(s)) + 1 ELSE Cardinality(Outs(s))
<1>1. Len(s) \in Nat /\ DOMAIN s = 1 .. Len(s)
  OBVIOUS
<1>2. IsFiniteSet(Outs(s))
  <2>1. IsFiniteSet(1 .. Len(s))
    BY <1>1, FS_Interval
  <2> QED  BY <1>1, <2>1, FS_Subset DEF Outs
<1>3. /\ DOMAIN Append(s, what) = (DOMAIN s) \cup {Len(s) + 1}
      /\ \A i \in DOMAIN s : Append(s, what)[i] = s[i]
      /\ Append(s, what)[Len(s) + 1] = what
  OBVIOUS
<1>4. Outs(Append(s, what)) = IF what = "out" THEN Outs(s) \cup {Len(s) + 1} ELSE Outs(s)
  BY <1>3 DEF Outs
<1>5. Len(s) + 1 \notin Outs(s)
  BY <1>1 DEF Outs
<1> QED  BY <1>2, <1>4, <1>5, FS_CardinalityType, FS_AddElement

\* What is sent to a client is added to what it was sent.
LEMMA SendsOne ==
    ASSUME TypeOK, NEW c \in Conns, NEW what \in {"200", "400", "404", "500", "501", "out"},
           Sends(c, what), NEW x \in Conns
    PROVE  Said(x)' = IF x = c /\ what = "out" THEN Said(x) + 1 ELSE Said(x)
<1>1. resp[x] \in Seq({"200", "400", "404", "500", "501", "out"})
  BY DEF TypeOK
<1>2. resp'[x] = IF x = c THEN Append(resp[x], what) ELSE resp[x]
  BY DEF TypeOK, Sends
<1> QED  BY <1>1, <1>2, OutsAppend DEF Said

\* How much was sent is a number, and stays when nothing is sent.
LEMMA SaidType ==
    ASSUME TypeOK, NEW x \in Conns
    PROVE  Said(x) \in Nat /\ (UNCHANGED resp => Said(x)' = Said(x))
<1>1. resp[x] \in Seq({"200", "400", "404", "500", "501", "out"})
  BY DEF TypeOK
<1> QED  BY <1>1, OutsAppend DEF Said

\* A message that is not output adds nothing to it, whether it arrives or not.
LEMMA TellsNone ==
    ASSUME TypeOK, NEW c \in Conns, NEW what \in {"200", "400", "404", "500", "501"},
           Tells(c, what), NEW x \in Conns
    PROVE  Said(x)' = Said(x) /\ server' \in {server, "sigpipe"}
<1>1. CASE Sends(c, what) /\ UNCHANGED server
  BY <1>1, SendsOne
<1>2. CASE server' = "sigpipe" /\ UNCHANGED resp
  BY <1>2, SaidType
<1> QED  BY <1>1, <1>2 DEF Tells

\* No byte of the output is lost while the server is up.
LEMMA OutputStep ==
    ASSUME HInv, NEW c \in Conns, StepOf(c), NEW x \in Conns
    PROVE  OutputInv(x)'
<1> USE DEF HInv, OutputInv, EndsInv, TypeOK, NoChildYet, Forked, OutputRead, Alive, Held
<1>1. CASE Accept(c)
  <2>1. Said(x)' = Said(x)
    BY <1>1, SaidType DEF Accept
  <2>2. UNCHANGED <<child, inpipe, outpipe, script, server>>
    BY <1>1 DEF Accept
  <2>3. x # c => pc'[x] = pc[x]
    BY <1>1 DEF Accept, Goes
  <2>4. x = c => pc[x] = "none" /\ pc'[x] \in {"request", "done"}
    BY <1>1 DEF Accept, Goes
  <2> QED  BY <2>1, <2>2, <2>3, <2>4
<1>2. CASE unimplemented(c)
  <2>1. Said(x)' = Said(x) /\ server' \in {server, "sigpipe"}
    BY <1>2, TellsNone DEF unimplemented
  <2>2. UNCHANGED <<child, inpipe, outpipe, script>>
    BY <1>2 DEF unimplemented
  <2>3. server = "up" /\ (x # c => pc'[x] = pc[x])
    BY <1>2 DEF unimplemented, Goes
  <2>4. x = c => pc[x] \in NoChildYet \cup {"status"} /\ pc'[x] \in {"close", "done", "close_out_w"}
    BY <1>2 DEF unimplemented, Goes
  <2>5. x = c => (pc'[x] = "close_out_w" <=> pc[x] = "status")
    BY <1>2 DEF unimplemented, Goes
  <2> QED  BY <2>1, <2>2, <2>3, <2>4, <2>5
<1>3. CASE not_found(c)
  <2>1. Said(x)' = Said(x) /\ server' \in {server, "sigpipe"}
    BY <1>3, TellsNone DEF not_found
  <2>2. UNCHANGED <<child, inpipe, outpipe, script>>
    BY <1>3 DEF not_found
  <2>3. server = "up" /\ (x # c => pc'[x] = pc[x])
    BY <1>3 DEF not_found, Goes
  <2>4. x = c => pc[x] \in NoChildYet \cup {"status"} /\ pc'[x] \in {"close", "done", "close_out_w"}
    BY <1>3 DEF not_found, Goes
  <2>5. x = c => (pc'[x] = "close_out_w" <=> pc[x] = "status")
    BY <1>3 DEF not_found, Goes
  <2> QED  BY <2>1, <2>2, <2>3, <2>4, <2>5
<1>4. CASE serve_file(c)
  <2>1. Said(x)' = Said(x) /\ server' \in {server, "sigpipe", "crashed"}
    <3>1. CASE Tells(c, "200")
      BY <3>1, TellsNone
    <3>2. CASE Sends(c, "404") /\ server' = "crashed"
      BY <3>2, SendsOne
    <3> QED  BY <1>4, <3>1, <3>2 DEF serve_file
  <2>2. UNCHANGED <<child, inpipe, outpipe, script>>
    BY <1>4 DEF serve_file
  <2>3. server = "up" /\ (x # c => pc'[x] = pc[x])
    BY <1>4 DEF serve_file, Goes
  <2>4. x = c => pc[x] = "request" /\ pc'[x] = "close"
    BY <1>4 DEF serve_file, Goes
  <2> QED  BY <2>1, <2>2, <2>3, <2>4
<1>5. CASE CloseClient(c)
  BY <1>5, SendsOne, SaidType DEF CloseClient, Goes
<1>6. CASE execute_cgi(c)
  <2>1. CASE Tells(c, "400") /\ Goes(c, "request", "close")
    <3>1. Said(x)' = Said(x) /\ server' \in {server, "sigpipe"}
      BY <2>1, TellsNone
    <3>2. UNCHANGED <<child, inpipe, outpipe, script>>
      BY <1>6 DEF execute_cgi
    <3> QED  BY <2>1, <3>1, <3>2 DEF Goes
  <2>2. CASE Goes(c, "request", "pipe_out") /\ UNCHANGED <<holders, resp, server>>
    BY <1>6, <2>2, SaidType DEF execute_cgi, Goes
  <2> QED  BY <1>6, <2>1, <2>2 DEF execute_cgi
<1>7. CASE cannot_execute(c)
  <2>1. Said(x)' = Said(x) /\ server' \in {server, "sigpipe"}
    BY <1>7, TellsNone DEF cannot_execute
  <2>2. UNCHANGED <<child, inpipe, outpipe, script>>
    BY <1>7 DEF cannot_execute
  <2>3. server = "up" /\ (x # c => pc'[x] = pc[x])
    BY <1>7 DEF cannot_execute, Goes
  <2>4. x = c => pc[x] \in NoChildYet \cup {"status"} /\ pc'[x] \in {"close", "done", "close_out_w"}
    BY <1>7 DEF cannot_execute, Goes
  <2>5. x = c => (pc'[x] = "close_out_w" <=> pc[x] = "status")
    BY <1>7 DEF cannot_execute, Goes
  <2> QED  BY <2>1, <2>2, <2>3, <2>4, <2>5
<1>8. CASE OpenPipe(c)
  <2>1. Said(x)' = Said(x) /\ server' = server
    BY <1>8, SaidType DEF OpenPipe
  <2>2. UNCHANGED <<child, inpipe, outpipe, script>>
    BY <1>8 DEF OpenPipe
  <2>3. x # c => pc'[x] = pc[x]
    BY <1>8 DEF OpenPipe, Goes
  <2>4. x = c => pc[x] \in {"pipe_out", "pipe_in"} /\ pc'[x] \in {"pipe_in", "fork"}
    BY <1>8 DEF OpenPipe, Goes
  <2> QED  BY <2>1, <2>2, <2>3, <2>4
<1>9. CASE Fork(c)
  BY <1>9, SendsOne, SaidType DEF Fork, Goes
<1>10. CASE ParentStatus(c)
  <2>1. Said(x)' = Said(x) /\ server' \in {server, "sigpipe"}
    BY <1>10, TellsNone DEF ParentStatus
  <2>2. UNCHANGED <<child, inpipe, outpipe, script>>
    BY <1>10 DEF ParentStatus
  <2>3. server = "up" /\ (x # c => pc'[x] = pc[x])
    BY <1>10 DEF ParentStatus, Goes
  <2>4. x = c => pc[x] \in NoChildYet \cup {"status"} /\ pc'[x] \in {"close", "done", "close_out_w"}
    BY <1>10 DEF ParentStatus, Goes
  <2>5. x = c => (pc'[x] = "close_out_w" <=> pc[x] = "status")
    BY <1>10 DEF ParentStatus, Goes
  <2> QED  BY <2>1, <2>2, <2>3, <2>4, <2>5
<1>11. CASE ParentCloses(c)
  BY <1>11, SendsOne, SaidType DEF ParentCloses, Goes
<1>12. CASE PassBody(c)
  BY <1>12, SendsOne, SaidType DEF PassBody, Goes, BodyLeft, RoomInPipe
<1>13. CASE BodyPassed(c)
  BY <1>13, SendsOne, SaidType DEF BodyPassed, Goes, BodyLeft
<1>14. CASE PassOutput(c)
  <2>1. /\ server = "up" /\ pc[c] = "output" /\ pc' = [pc EXCEPT ![c] = "output"]
        /\ outpipe' = [outpipe EXCEPT ![c] = @ - 1]
        /\ UNCHANGED <<child, inpipe, script>>
    BY <1>14 DEF PassOutput, Goes
  <2>2. CASE Sends(c, "out")
    <3>1. Said(x)' = IF x = c THEN Said(x) + 1 ELSE Said(x)
      BY <2>2, SendsOne
    <3>2. Said(x) \in Nat /\ outpipe[x] \in Nat /\ script[x].written \in Nat
      BY SaidType, BytesType
    <3>3. CASE x = c
      <4>1. Said(x)' = Said(x) + 1 /\ outpipe'[x] = outpipe[x] - 1 /\ pc'[x] = "output"
        BY <2>1, <3>1, <3>3
      <4>2. Said(x) + outpipe[x] = script[x].written
        BY <2>1, <3>3
      <4>3. Said(x)' + outpipe'[x] = script'[x].written
        BY <2>1, <3>2, <4>1, <4>2
      <4> QED  BY <2>1, <3>3, <4>1, <4>3
    <3>4. CASE x # c
      BY <2>1, <2>2, <3>1, <3>4
    <3> QED  BY <3>3, <3>4
  <2>3. CASE server' = "sigpipe" /\ UNCHANGED resp
    <3>1. Said(x)' = Said(x)
      BY <2>3, SaidType
    <3> QED  BY <2>1, <2>3, <3>1
  <2> QED  BY <1>14, <2>2, <2>3 DEF PassOutput, Tells
<1>15. CASE OutputEnds(c)
  BY <1>15, SendsOne, SaidType DEF OutputEnds, Goes, OutputAtEnd, RemainingEnds
<1>16. CASE Waitpid(c)
  BY <1>16, SendsOne, SaidType DEF Waitpid, Goes
<1>17. CASE ChildStatus(c)
  <2>1. CASE ChildExits(c, "status")
    BY <2>1, SaidType DEF ChildExits, ChildGoes
  <2>2. CASE ChildGoes(c, "status", "close") /\ Sends(c, "200")
    <3>1. Said(x)' = Said(x)
      BY <2>2, SendsOne
    <3> QED  BY <1>17, <2>2, <3>1 DEF ChildStatus, ChildExits, ChildGoes
  <2> QED  BY <1>17, <2>1, <2>2 DEF ChildStatus
<1>18. CASE ChildCloses(c)
  BY <1>18, SendsOne, SaidType DEF ChildCloses, ChildGoes
<1>19. CASE Exec(c)
  <2>1. CASE ChildExits(c, "exec")
    BY <2>1, SaidType DEF ChildExits, ChildGoes
  <2>2. CASE ChildGoes(c, "exec", "run") /\ UNCHANGED <<pc, inpipe, outpipe, script, resp, server>>
    BY <2>2, SaidType DEF ChildGoes
  <2> QED  BY <1>19, <2>1, <2>2 DEF Exec
<1>20. CASE ScriptReads(c)
  <2>1. Said(x)' = Said(x)
    BY <1>20, SaidType DEF ScriptReads
  <2>2. script'[x].written = script[x].written /\ child[c] = "run" /\ inpipe'[x] \in Int
        /\ UNCHANGED <<pc, child, outpipe, server>>
    BY <1>20 DEF ScriptReads
  <2>3. x # c => inpipe'[x] = inpipe[x] /\ script'[x] = script[x]
    BY <1>20 DEF ScriptReads
  <2> QED  BY <2>1, <2>2, <2>3
<1>21. CASE ScriptWrites(c)
  <2>1. Said(x)' = Said(x)
    BY <1>21, SaidType DEF ScriptWrites
  <2>2. child[c] = "run" /\ UNCHANGED <<pc, child, inpipe, server>>
    BY <1>21 DEF ScriptWrites
  <2>3. x # c => outpipe'[x] = outpipe[x] /\ script'[x] = script[x]
    BY <1>21 DEF ScriptWrites
  <2>4. x = c => outpipe'[x] = outpipe[x] + 1 /\ script'[x].written = script[x].written + 1
    BY <1>21 DEF ScriptWrites
  <2>5. Said(x) \in Nat /\ outpipe[x] \in Nat /\ script[x].written \in Nat
    BY SaidType, BytesType
  <2>6. CASE x = c
    <3>1. pc[x] \notin NoChildYet /\ pc[x] \notin OutputRead
      BY <2>2, <2>6
    <3>2. server = "up" \/ pc[x] # "output" => Said(x) + outpipe[x] = script[x].written
      OBVIOUS
    <3>3. server = "up" \/ pc[x] # "output" => Said(x)' + outpipe'[x] = script'[x].written
      BY <2>1, <2>4, <2>5, <2>6, <3>2
    <3> QED  BY <2>2, <2>6, <3>1, <3>3
  <2>7. CASE x # c
    BY <2>1, <2>2, <2>3, <2>7
  <2> QED  BY <2>6, <2>7
<1>22. CASE ScriptEnds(c)
  BY <1>22, SendsOne, SaidType DEF ScriptEnds, ChildExits, ChildGoes
<1>23. CASE ClientCloses(c)
  BY <1>23, SendsOne, SaidType DEF ClientCloses
<1> QED
  BY <1>1, <1>2, <1>3, <1>4, <1>5, <1>6, <1>7, <1>8, <1>9, <1>10, <1>11, <1>12,
     <1>13, <1>14, <1>15, <1>16, <1>17, <1>18, <1>19, <1>20, <1>21, <1>22, <1>23
     DEF StepOf, Thread, Child

-----------------------------------------------------------------------------
(* The body, and the ends of the pipes.                                     *)

\* A length is a number.
LEMMA LengthType ==
    ASSUME TypeOK, NEW x \in Conns
    PROVE  req[x].length \in Int
BY ConstantsAssumption DEF TypeOK, RequestType

\* No byte of the body is lost or passed on twice while the server is up.
LEMMA BodyStep ==
    ASSUME HInv, NEW c \in Conns, StepOf(c), NEW x \in Conns
    PROVE  BodyInv(x)'
<1> USE DEF HInv, OutputInv, BodyInv, TypeOK, NoChildYet, Forked, Alive
<1>1. CASE Accept(c)
  BY <1>1 DEF Accept, Goes
<1>2. CASE unimplemented(c)
  BY <1>2 DEF unimplemented, Goes, Tells
<1>3. CASE not_found(c)
  BY <1>3 DEF not_found, Goes, Tells
<1>4. CASE serve_file(c)
  BY <1>4 DEF serve_file, Goes, Tells
<1>5. CASE CloseClient(c)
  BY <1>5 DEF CloseClient, Goes
<1>6. CASE execute_cgi(c)
  <2>1. \/ pc' = [pc EXCEPT ![c] = "close"]
        \/ pc' = [pc EXCEPT ![c] = "pipe_out"]
    BY <1>6 DEF execute_cgi, Goes
  <2>2. pc[c] = "request" /\ UNCHANGED <<req, inpipe, body, script>>
    BY <1>6 DEF execute_cgi, Goes
  <2>3. server' = server \/ pc'[c] # "body"
    BY <2>1, <2>2
  <2>4. x # c => pc'[x] = pc[x] /\ (server' = "up" => server = "up")
    BY <1>6, <2>1 DEF execute_cgi, Goes
  <2>5. x = c => pc[x] = "request" /\ pc'[x] \in {"close", "pipe_out"}
    BY <2>1, <2>2
  <2> QED  BY <2>2, <2>4, <2>5
<1>7. CASE cannot_execute(c)
  BY <1>7 DEF cannot_execute, Goes, Tells
<1>8. CASE OpenPipe(c)
  BY <1>8 DEF OpenPipe, Goes
<1>9. CASE Fork(c)
  BY <1>9 DEF Fork, Goes
<1>10. CASE ParentStatus(c)
  BY <1>10 DEF ParentStatus, Goes, Tells
<1>11. CASE ParentCloses(c)
  BY <1>11 DEF ParentCloses, Goes
<1>12. CASE PassBody(c)
  <2>1. /\ server = "up" /\ pc[c] = "body" /\ pc' = [pc EXCEPT ![c] = "body"]
        /\ req[c].method = "POST" /\ body[c] > 0
        /\ body' = [body EXCEPT ![c] = @ - 1]
        /\ UNCHANGED <<req, script>>
    BY <1>12 DEF PassBody, Goes, BodyLeft
  <2>2. \/ inpipe' = [inpipe EXCEPT ![c] = @ + 1]
        \/ server' = "sigpipe" /\ UNCHANGED inpipe
    BY <1>12 DEF PassBody
  <2>3. CASE x = c
    <3>1. pc'[x] = "body" /\ body'[x] = body[x] - 1
      BY <2>1, <2>3
    <3>2. CASE inpipe' = [inpipe EXCEPT ![c] = @ + 1]
      <4>1. inpipe'[x] = inpipe[x] + 1 /\ inpipe[x] \in Nat /\ script[x].read \in Nat
        BY <2>3, <3>2, BytesType
      <4>2. req[x].length > 0 /\ inpipe[x] + script[x].read + body[x] = req[x].length /\ body[x] \in Int
        BY <2>1, <2>3, <4>1, LengthType
      <4>3. 0 < body[x] /\ script'[x].read = script[x].read /\ req'[x].length = req[x].length
        BY <2>1, <2>3
      <4>4. 0 <= body'[x] /\ inpipe'[x] + script'[x].read + body'[x] = req'[x].length
        <5> HIDE DEF HInv, TypeOK, OutputInv, BodyInv
        <5> QED  BY <3>1, <4>1, <4>2, <4>3
      <4> QED  BY <2>1, <2>3, <3>1, <4>2, <4>3, <4>4
    <3>3. CASE server' = "sigpipe"
      BY <3>1, <3>3
    <3> QED  BY <2>2, <3>2, <3>3
  <2>4. CASE x # c
    BY <2>1, <2>2, <2>4
  <2> QED  BY <2>3, <2>4
<1>13. CASE BodyPassed(c)
  BY <1>13 DEF BodyPassed, Goes, BodyLeft
<1>14. CASE PassOutput(c)
  BY <1>14 DEF PassOutput, Goes, Tells
<1>15. CASE OutputEnds(c)
  BY <1>15 DEF OutputEnds, Goes, OutputAtEnd, RemainingEnds
<1>16. CASE Waitpid(c)
  BY <1>16 DEF Waitpid, Goes
<1>17. CASE ChildStatus(c)
  BY <1>17 DEF ChildStatus, ChildExits, ChildGoes
<1>18. CASE ChildCloses(c)
  BY <1>18 DEF ChildCloses, ChildGoes
<1>19. CASE Exec(c)
  BY <1>19 DEF Exec, ChildExits, ChildGoes
<1>20. CASE ScriptReads(c)
  <2>1. /\ child[c] = "run" /\ inpipe[c] > 0
        /\ inpipe' = [inpipe EXCEPT ![c] = @ - 1]
        /\ script' = [script EXCEPT ![c].read = @ + 1]
        /\ UNCHANGED <<req, pc, body, server>>
    BY <1>20 DEF ScriptReads
  <2>2. CASE x = c
    <3>1. inpipe'[x] = inpipe[x] - 1 /\ script'[x].read = script[x].read + 1
      BY <2>1, <2>2
    <3>2. inpipe[x] \in Nat /\ script[x].read \in Nat /\ body[x] \in Int /\ inpipe[x] > 0
      BY <2>1, <2>2, BytesType
    <3>3. inpipe'[x] + script'[x].read + body'[x] = inpipe[x] + script[x].read + body[x]
      BY <2>1, <3>1, <3>2
    <3> QED  BY <2>1, <2>2, <3>2, <3>3
  <2>3. CASE x # c
    BY <2>1, <2>3
  <2> QED  BY <2>2, <2>3
<1>21. CASE ScriptWrites(c)
  <2>1. script'[x].read = script[x].read /\ UNCHANGED <<req, pc, inpipe, body, server>>
    BY <1>21 DEF ScriptWrites
  <2> QED  BY <2>1
<1>22. CASE ScriptEnds(c)
  BY <1>22 DEF ScriptEnds, ChildExits, ChildGoes
<1>23. CASE ClientCloses(c)
  BY <1>23 DEF ClientCloses
<1> QED
  BY <1>1, <1>2, <1>3, <1>4, <1>5, <1>6, <1>7, <1>8, <1>9, <1>10, <1>11, <1>12,
     <1>13, <1>14, <1>15, <1>16, <1>17, <1>18, <1>19, <1>20, <1>21, <1>22, <1>23
     DEF StepOf, Thread, Child

\* Who holds an end after opening.
LEMMA HeldOpened ==
    ASSUME TypeOK, NEW ends, NEW c, NEW proc, holders' = Opens(ends, c, proc)
    PROVE  \A p : \A x \in Conns, end \in Ends :
              p \in Held(end, x)' <=> (p \in Held(end, x) \/ (p = proc /\ end \in ends /\ x = c))
<1>1. \A x \in Conns, end \in Ends : <<end, x>> \in Descriptors
  BY DEF Descriptors
<1> QED  BY <1>1 DEF TypeOK, Held, Opens

\* Who holds an end after closing.
LEMMA HeldClosed ==
    ASSUME TypeOK, NEW ends, NEW c, NEW proc, holders' = Closes(ends, c, proc)
    PROVE  \A p : \A x \in Conns, end \in Ends :
              p \in Held(end, x)' <=> (p \in Held(end, x) /\ ~(p = proc /\ end \in ends /\ x = c))
<1>1. \A x \in Conns, end \in Ends : <<end, x>> \in Descriptors
  BY DEF Descriptors
<1> QED  BY <1>1 DEF TypeOK, Held, Closes

\* Who holds an end after a process died.
LEMMA HeldDied ==
    ASSUME TypeOK, NEW proc, holders' = Dies(proc)
    PROVE  \A p : \A x \in Conns, end \in Ends :
              p \in Held(end, x)' <=> (p \in Held(end, x) /\ p # proc)
<1>1. \A x \in Conns, end \in Ends : <<end, x>> \in Descriptors
  BY DEF Descriptors
<1> QED  BY <1>1 DEF TypeOK, Held, Dies

\* Who holds an end after fork().
LEMMA HeldForked ==
    ASSUME TypeOK, NEW c \in Conns, Fork(c)
    PROVE  \A p : \A x \in Conns, end \in Ends :
              p \in Held(end, x)' <=> (p \in Held(end, x) \/ (p = c /\ Server \in Held(end, x)))
<1>1. \A x \in Conns, end \in Ends : <<end, x>> \in Descriptors
  BY DEF Descriptors
<1> QED  BY <1>1 DEF TypeOK, Held, Fork

\* Who holds an end after a step that opens and closes nothing.
LEMMA HeldSame ==
    ASSUME TypeOK, UNCHANGED holders
    PROVE  \A p : \A x \in Conns, end \in Ends :
              p \in Held(end, x)' <=> (p \in Held(end, x))
<1>1. \A x \in Conns, end \in Ends : <<end, x>> \in Descriptors
  BY DEF Descriptors
<1> QED  BY <1>1 DEF TypeOK, Held

\* A thread and its child keep the ends that they still use.
LEMMA EndsStep ==
    ASSUME HInv, NEW c \in Conns, StepOf(c), NEW x \in Conns
    PROVE  EndsInv(x)'
<1> USE DEF HInv, OutputInv, EndsInv, NoChildYet, Forked, Alive
<1>a. /\ pc \in [Conns -> Places] /\ x # Server /\ c # Server
      /\ child \in [Conns -> {"none", "status", "close", "exec", "run", "zombie", "reaped"}]
  BY ConstantsAssumption DEF TypeOK
<1>b. "out_r" \in Ends /\ "out_w" \in Ends /\ "in_r" \in Ends /\ "in_w" \in Ends
  BY DEF Ends
<1>1. CASE Accept(c)
  BY <1>1, <1>a, <1>b, HeldOpened DEF Accept, Goes
<1>2. CASE unimplemented(c)
  BY <1>2, <1>a, <1>b, HeldSame, HeldDied DEF unimplemented, Goes, Tells
<1>3. CASE not_found(c)
  BY <1>3, <1>a, <1>b, HeldSame, HeldDied DEF not_found, Goes, Tells
<1>4. CASE serve_file(c)
  BY <1>4, <1>a, <1>b, HeldSame, HeldDied DEF serve_file, Goes, Tells
<1>5. CASE CloseClient(c)
  BY <1>5, <1>a, <1>b, HeldClosed DEF CloseClient, Goes
<1>6. CASE execute_cgi(c)
  BY <1>6, <1>a, <1>b, HeldSame, HeldDied DEF execute_cgi, Goes, Tells
<1>7. CASE cannot_execute(c)
  BY <1>7, <1>a, <1>b, HeldSame, HeldDied DEF cannot_execute, Goes, Tells
<1>8. CASE OpenPipe(c)
  BY <1>8, <1>a, <1>b, HeldOpened DEF OpenPipe, Goes
<1>9. CASE Fork(c)
  BY <1>9, <1>a, <1>b, HeldForked DEF Fork, Goes
<1>10. CASE ParentStatus(c)
  BY <1>10, <1>a, <1>b, HeldSame, HeldDied DEF ParentStatus, Goes, Tells
<1>11. CASE ParentCloses(c)
  BY <1>11, <1>a, <1>b, HeldClosed DEF ParentCloses, Goes
<1>12. CASE PassBody(c)
  BY <1>12, <1>a, <1>b, HeldSame, HeldDied DEF PassBody, Goes
<1>13. CASE BodyPassed(c)
  BY <1>13, <1>a, <1>b, HeldSame DEF BodyPassed, Goes, BodyLeft
<1>14. CASE PassOutput(c)
  BY <1>14, <1>a, <1>b, HeldSame, HeldDied DEF PassOutput, Goes, Tells
<1>15. CASE OutputEnds(c)
  BY <1>15, <1>a, <1>b, HeldClosed DEF OutputEnds, RemainingEnds, Goes, OutputAtEnd, RemainingEnds
<1>16. CASE Waitpid(c)
  BY <1>16, <1>a, <1>b, HeldSame DEF Waitpid, Goes
<1>17. CASE ChildStatus(c)
  BY <1>17, <1>a, <1>b, HeldSame, HeldDied DEF ChildStatus, ChildExits, ChildGoes
<1>18. CASE ChildCloses(c)
  BY <1>18, <1>a, <1>b, HeldClosed DEF ChildCloses, ChildGoes
<1>19. CASE Exec(c)
  BY <1>19, <1>a, <1>b, HeldSame, HeldDied DEF Exec, ChildExits, ChildGoes
<1>20. CASE ScriptReads(c)
  BY <1>20, <1>a, <1>b, HeldSame DEF ScriptReads
<1>21. CASE ScriptWrites(c)
  BY <1>21, <1>a, <1>b, HeldSame DEF ScriptWrites
<1>22. CASE ScriptEnds(c)
  BY <1>22, <1>a, <1>b, HeldDied DEF ScriptEnds, ChildExits, ChildGoes
<1>23. CASE ClientCloses(c)
  BY <1>23, <1>a, <1>b, HeldSame DEF ClientCloses
<1> QED
  BY <1>1, <1>2, <1>3, <1>4, <1>5, <1>6, <1>7, <1>8, <1>9, <1>10, <1>11, <1>12,
     <1>13, <1>14, <1>15, <1>16, <1>17, <1>18, <1>19, <1>20, <1>21, <1>22, <1>23
     DEF StepOf, Thread, Child

\* exit() in main() closes what the server held, and nothing else changes.
LEMMA ErrorDieStep ==
    ASSUME HInv, error_die
    PROVE  /\ HInv'
           /\ \A x \in Conns : ReleasedAt(x) => ReleasedAt(x)'
<1>1. /\ server' = "exited" /\ holders' = Dies(Server) /\ server = "up"
      /\ UNCHANGED <<req, pc, child, inpipe, outpipe, body, script, client, resp>>
  BY DEF error_die
<1>2. TypeOK
  BY DEF HInv
<1>3. TypeOK'
  <2>1. holders' \in [Descriptors -> SUBSET (Conns \cup {Server})]
    BY <1>1, <1>2 DEF TypeOK, Dies
  <2> QED  BY <1>1, <1>2, <2>1 DEF TypeOK
<1>4. \A p : \A x \in Conns, end \in Ends : p \in Held(end, x)' <=> (p \in Held(end, x) /\ p # Server)
  BY <1>1, <1>2, HeldDied
<1>5. ASSUME NEW x \in Conns
      PROVE  OutputInv(x)' /\ BodyInv(x)' /\ EndsInv(x)'
  <2>1. OutputInv(x) /\ BodyInv(x) /\ EndsInv(x) /\ x # Server
    BY ConstantsAssumption DEF HInv
  <2>2. OutputInv(x)'
    BY <1>1, <2>1 DEF OutputInv, Said
  <2>3. BodyInv(x)'
    BY <1>1, <2>1 DEF BodyInv
  <2>4. EndsInv(x)'
    BY <1>1, <1>4, <2>1 DEF EndsInv, Ends
  <2> QED  BY <2>2, <2>3, <2>4
<1>6. \A x \in Conns : ReleasedAt(x) => ReleasedAt(x)'
  BY <1>1, <1>4 DEF ReleasedAt
<1> QED  BY <1>3, <1>5, <1>6 DEF HInv

-----------------------------------------------------------------------------
(* The theorems.                                                            *)

\* It holds in every execution.
LEMMA HInvariant == Spec => []HInv
<1>1. Init => HInv
  <2> SUFFICES ASSUME Init PROVE HInv
    OBVIOUS
  <2>1. req \in [Conns -> Requests] /\ \A c \in Conns : req[c].length \in Int
    BY ConstantsAssumption DEF Init, RequestType
  <2>2. body \in [Conns -> Int]
    BY <2>1 DEF Init
  <2>3. inpipe \in [Conns -> 0 .. Capacity] /\ outpipe \in [Conns -> 0 .. Capacity]
    BY CapacityType DEF Init
  <2>4. resp \in [Conns -> Seq({"200", "400", "404", "500", "501", "out"})]
    BY DEF Init
  <2>5. TypeOK
    BY <2>1, <2>2, <2>3, <2>4 DEF Init, TypeOK, Places
  <2>6. ASSUME NEW c \in Conns
        PROVE  OutputInv(c) /\ BodyInv(c) /\ EndsInv(c)
    <3>1. Said(c) = 0
      <4>1. Outs(resp[c]) = {}
        BY DEF Init, Outs
      <4> QED  BY <4>1, FS_EmptySet DEF Said
    <3>2. pc[c] = "none" /\ child[c] = "none" /\ inpipe[c] = 0 /\ outpipe[c] = 0
          /\ body[c] = req[c].length /\ script[c] = [read |-> 0, written |-> 0]
      BY DEF Init
    <3> QED  BY <3>1, <3>2 DEF OutputInv, BodyInv, EndsInv, NoChildYet, Forked, OutputRead, Alive
  <2> QED  BY <2>5, <2>6 DEF HInv
<1>2. HInv /\ [Next]_vars => HInv'
  <2> SUFFICES ASSUME HInv, [Next]_vars PROVE HInv'
    OBVIOUS
  <2>1. ASSUME NEW c \in Conns, StepOf(c)
        PROVE  HInv'
    <3>1. TypeOK'
      BY <2>1, TypeStep DEF HInv
    <3>2. \A x \in Conns : OutputInv(x)' /\ BodyInv(x)' /\ EndsInv(x)'
      BY <2>1, OutputStep, BodyStep, EndsStep
    <3> QED  BY <3>1, <3>2 DEF HInv
  <2>2. CASE UNCHANGED vars
    <3>1. TypeOK'
      BY <2>2 DEF HInv, TypeOK, vars
    <3>2. \A x \in Conns : OutputInv(x)'
      BY <2>2 DEF HInv, vars, OutputInv, Said
    <3>3. \A x \in Conns : BodyInv(x)'
      BY <2>2 DEF HInv, vars, BodyInv
    <3>4. \A x \in Conns : EndsInv(x)'
      BY <2>2 DEF HInv, vars, EndsInv, Held
    <3> QED  BY <3>1, <3>2, <3>3, <3>4 DEF HInv
  <2>3. CASE error_die
    BY <2>3, ErrorDieStep
  <2> QED  BY <2>1, <2>2, <2>3 DEF Next, StepOf
<1> QED  BY <1>1, <1>2, PTL DEF Spec

\* The two pipes of a script pass the right number of bytes on either side: when
\* the thread turns to the output, Content-Length bytes are in the pipe or with
\* the script, and when it is through, as many bytes were sent to the client as
\* its own script wrote and ever will write, whichever other children inherited
\* the pipe, whatever ends the server, and whatever fails.  It counts bytes: which
\* byte stands at which place is not said.
THEOREM DataArrives == Spec => []DataWhole
<1>1. HInv => DataWhole
  <2> SUFFICES ASSUME HInv PROVE DataWhole
    OBVIOUS
  <2>1. OutputComplete
    <3> SUFFICES ASSUME NEW c \in Conns, pc[c] \in OutputRead, child[c] # "none"
                 PROVE  Said(c) = script[c].written
      BY DEF OutputComplete, OutputRead, Said, Outs
    <3>1. Said(c) + outpipe[c] = script[c].written /\ outpipe[c] = 0
      BY DEF HInv, OutputInv, OutputRead
    <3>2. Said(c) \in Nat /\ script[c].written \in Nat
      BY SaidType, BytesType DEF HInv
    <3> QED  BY <3>1, <3>2
  <2>2. BodyDelivered
    <3> SUFFICES ASSUME NEW c \in Conns, pc[c] = "output", req[c].method = "POST"
                 PROVE  inpipe[c] + script[c].read = IF req[c].length > 0 THEN req[c].length ELSE 0
      BY DEF BodyDelivered
    <3>1. /\ inpipe[c] \in Nat /\ script[c].read \in Nat /\ body[c] \in Int
          /\ req[c].length \in Int
      BY BytesType, LengthType DEF HInv, TypeOK
    <3>2. /\ IF req[c].length > 0
             THEN 0 <= body[c] /\ inpipe[c] + script[c].read + body[c] = req[c].length
             ELSE inpipe[c] = 0 /\ script[c].read = 0 /\ body[c] = req[c].length
          /\ body[c] <= 0
      BY DEF HInv, BodyInv
    <3>3. CASE req[c].length > 0
      <4>1. body[c] = 0
        BY <3>1, <3>2, <3>3
      <4> QED  BY <3>1, <3>2, <3>3, <4>1
    <3>4. CASE ~(req[c].length > 0)
      BY <3>2, <3>4
    <3> QED  BY <3>3, <3>4
  <2> QED  BY <2>1, <2>2 DEF HInv, DataWhole
<1> QED  BY <1>1, HInvariant, PTL

\* What a thread opened it closes before it goes on to the end of its request.
LEMMA ReleasedStep ==
    ASSUME HInv, \A y \in Conns : ReleasedAt(y), GivesBack, NEW c \in Conns, StepOf(c), NEW x \in Conns
    PROVE  ReleasedAt(x)'
<1> USE DEF HInv, OutputInv, NoChildYet, Forked, ReleasedAt, MayHold
<1>a. /\ pc \in [Conns -> Places] /\ x # Server /\ c # Server
      /\ child \in [Conns -> {"none", "status", "close", "exec", "run", "zombie", "reaped"}]
      /\ req[c].method # "OTHER" /\ {"pthread_create", "pipe", "fork"} \cap Faults = {}
      /\ Server \in Conns \cup {Server}
  BY ConstantsAssumption DEF TypeOK, GivesBack
<1>b. Ends = {"sock", "out_r", "out_w", "in_r", "in_w"}
  BY DEF Ends
<1>1. CASE Accept(c)
  BY <1>1, <1>a, <1>b, HeldOpened DEF Accept, Goes
<1>2. CASE unimplemented(c)
  BY <1>2, <1>a DEF unimplemented
<1>3. CASE not_found(c)
  BY <1>3, <1>a, <1>b, HeldSame, HeldDied DEF not_found, Goes, Tells
<1>4. CASE serve_file(c)
  BY <1>4, <1>a, <1>b, HeldSame, HeldDied DEF serve_file, Goes, Tells
<1>5. CASE CloseClient(c)
  BY <1>5, <1>a, <1>b, HeldClosed DEF CloseClient, Goes
<1>6. CASE execute_cgi(c)
  BY <1>6, <1>a, <1>b, HeldSame, HeldDied DEF execute_cgi, Goes, Tells
<1>7. CASE cannot_execute(c)
  BY <1>7, <1>a DEF cannot_execute
<1>8. CASE OpenPipe(c)
  BY <1>8, <1>a, <1>b, HeldOpened DEF OpenPipe, Goes
<1>9. CASE Fork(c)
  <2>1. \A end \in Ends : Server \in Held(end, x)' <=> Server \in Held(end, x)
    BY <1>9, <1>a, HeldForked DEF HInv
  <2>2. /\ pc[c] = "fork" /\ pc' = [pc EXCEPT ![c] = "status"]
        /\ child' = [child EXCEPT ![c] = "status"]
    BY <1>9 DEF Fork, Goes
  <2>3. MayHold(pc'[x]) = MayHold(pc[x])
    BY <1>a, <2>2
  <2> QED  BY <1>a, <2>1, <2>2, <2>3
<1>10. CASE ParentStatus(c)
  BY <1>10, <1>a, <1>b, HeldSame, HeldDied DEF ParentStatus, Goes, Tells
<1>11. CASE ParentCloses(c)
  BY <1>11, <1>a, <1>b, HeldClosed DEF ParentCloses, Goes
<1>12. CASE PassBody(c)
  BY <1>12, <1>a, <1>b, HeldSame, HeldDied DEF PassBody, Goes
<1>13. CASE BodyPassed(c)
  BY <1>13, <1>a, <1>b, HeldSame DEF BodyPassed, Goes, BodyLeft
<1>14. CASE PassOutput(c)
  BY <1>14, <1>a, <1>b, HeldSame, HeldDied DEF PassOutput, Goes, Tells
<1>15. CASE OutputEnds(c)
  BY <1>15, <1>a, <1>b, HeldClosed DEF OutputEnds, RemainingEnds, Goes, OutputAtEnd, RemainingEnds
<1>16. CASE Waitpid(c)
  BY <1>16, <1>a, <1>b, HeldSame DEF Waitpid, Goes
<1>17. CASE ChildStatus(c)
  BY <1>17, <1>a, <1>b, HeldSame, HeldDied DEF ChildStatus, ChildExits, ChildGoes
<1>18. CASE ChildCloses(c)
  BY <1>18, <1>a, <1>b, HeldClosed DEF ChildCloses, ChildGoes
<1>19. CASE Exec(c)
  BY <1>19, <1>a, <1>b, HeldSame, HeldDied DEF Exec, ChildExits, ChildGoes
<1>20. CASE ScriptReads(c)
  BY <1>20, <1>a, <1>b, HeldSame DEF ScriptReads
<1>21. CASE ScriptWrites(c)
  BY <1>21, <1>a, <1>b, HeldSame DEF ScriptWrites
<1>22. CASE ScriptEnds(c)
  BY <1>22, <1>a, <1>b, HeldDied DEF ScriptEnds, ChildExits, ChildGoes
<1>23. CASE ClientCloses(c)
  BY <1>23, <1>a, <1>b, HeldSame DEF ClientCloses
<1> QED
  BY <1>1, <1>2, <1>3, <1>4, <1>5, <1>6, <1>7, <1>8, <1>9, <1>10, <1>11, <1>12,
     <1>13, <1>14, <1>15, <1>16, <1>17, <1>18, <1>19, <1>20, <1>21, <1>22, <1>23
     DEF StepOf, Thread, Child

\* A request that is through leaves nothing open in the server, neither its
\* socket nor an end of its pipes, and no zombie - whatever clients go away and
\* whatever request ends the server -, when the calls of the server succeed and
\* no client asks for another method: the ways out of execute_cgi() after a
\* failed pipe() or fork(), that of accept() after a failed pthread_create() and
\* that of unimplemented() are the ones that close nothing.
THEOREM NothingLeft ==
    ASSUME GivesBack
    PROVE  Spec => []Released
<1> DEFINE RInv == \A c \in Conns : ReleasedAt(c)
<1>1. Init /\ HInv => RInv
  BY DEF Init, HInv, ReleasedAt, Held, Descriptors, MayHold
<1>2. HInv /\ RInv /\ [Next]_vars => RInv'
  <2> SUFFICES ASSUME HInv, RInv, [Next]_vars PROVE RInv'
    OBVIOUS
  <2>1. ASSUME NEW c \in Conns, StepOf(c)
        PROVE  RInv'
    BY <2>1, ReleasedStep
  <2>2. CASE UNCHANGED vars
    BY <2>2 DEF ReleasedAt, vars, Held
  <2>3. CASE error_die
    BY <2>3, ErrorDieStep
  <2> QED  BY <2>1, <2>2, <2>3 DEF Next, StepOf
<1>3. RInv => Released
  BY DEF ReleasedAt, MayHold, Released
<1> QED  BY <1>1, <1>2, <1>3, HInvariant, PTL DEF Spec

\* What is left of a body that the thread passes on is part of what was
\* announced.
LEMMA BodyOfLength ==
    ASSUME HInv, NEW c \in Conns, server = "up", req[c].method = "POST", body[c] > 0,
           pc[c] \in {"status", "close_out_w", "close_in_r", "body"}
    PROVE  req[c].length > 0 /\ inpipe[c] + script[c].read < req[c].length
<1>1. /\ inpipe[c] \in Nat /\ script[c].read \in Nat /\ body[c] \in Int
      /\ req[c].length \in Int
  BY BytesType, LengthType DEF HInv, TypeOK
<1>2. CASE pc[c] = "body"
  BY <1>1, <1>2 DEF HInv, BodyInv
<1>3. CASE pc[c] # "body"
  BY <1>1, <1>3 DEF HInv, BodyInv
<1> QED  BY <1>2, <1>3

\* A script that reads its body ends only when it has read all of it: while the
\* thread passes it on, its input has no end and its output a reader.
LEMMA AllRead ==
    ASSUME HInv, NEW c \in Conns, CauseInv(c), server = "up", child[c] = "run",
           req[c].method = "POST", body[c] > 0, ~BodyUnread(req[c]),
           pc[c] \in {"status", "close_out_w", "close_in_r", "body"}
    PROVE  Reads(c) \/ (Writes(c) /\ Held("out_r", c) # {})
<1>1. Held("out_r", c) # {} /\ Held("in_w", c) # {}
  BY DEF HInv, EndsInv, Forked
<1>2. /\ inpipe[c] \in Nat /\ script[c].read \in Nat /\ script[c].written \in Nat
      /\ req[c].length \in Int /\ Output \in Nat
  BY BytesType, LengthType, ConstantsAssumption DEF HInv
<1>3. script[c].read < req[c].length
  BY <1>2, BodyOfLength
<1>4. InputWanted(c)
  BY <1>1, <1>3 DEF InputWanted, AtEof
<1>5. ~Reads(c) => script[c].written < Output
  <2>1. req[c].script \in {"reader", "talker", "eof"}
    <3>1. req[c].script \in {"reader", "talker", "eof", "quitter"}
      BY ConstantsAssumption DEF HInv, TypeOK, RequestType
    <3>2. req[c].length > 0
      BY BodyOfLength
    <3> QED  BY <3>1, <3>2 DEF BodyUnread
  <2>2. script[c].written <= Output
    BY DEF CauseInv
  <2>3. CASE req[c].script = "reader"
    BY <1>4, <2>3 DEF Reads
  <2>4. CASE req[c].script = "talker"
    <3>1. ~Reads(c) => script[c].written # Output
      BY <1>4, <2>4 DEF Reads
    <3> QED  BY <1>2, <2>2, <3>1
  <2>5. CASE req[c].script = "eof"
    BY <1>1, <2>5 DEF Reads, AtEof
  <2> QED  BY <2>1, <2>3, <2>4, <2>5
<1> QED  BY <1>1, <1>5 DEF Writes

\* A byte that is written for no reader is one the child was known not to read.
LEMMA NoReader ==
    ASSUME HInv, NEW c \in Conns, CauseInv(c), server = "up", pc[c] = "body",
           req[c].method = "POST", body[c] > 0, Held("in_r", c) = {}
    PROVE  client[c] = "gone" \/ (child[c] = "zombie" /\ BodyUnread(req[c]))
<1>1. child[c] \in Alive \cup {"zombie"}
  BY DEF HInv, OutputInv, Forked
<1>2. child[c] \notin Alive
  BY DEF HInv, EndsInv
<1>3. child[c] \in Alive \/ client[c] = "gone" \/ BodyUnread(req[c])
  BY DEF CauseInv
<1> QED  BY <1>1, <1>2, <1>3

\* The first half of the step: what the child of a connection does with its body.
LEMMA CauseStep ==
    ASSUME HInv, \A y \in Conns : CauseInv(y), NEW c \in Conns, StepOf(c), NEW x \in Conns
    PROVE  CauseInv(x)'
<1> USE DEF OutputInv, EndsInv, NoChildYet, Forked, Alive, CauseInv
<1>a. /\ pc \in [Conns -> Places] /\ body \in [Conns -> Int] /\ req \in [Conns -> Requests]
      /\ child \in [Conns -> {"none", "status", "close", "exec", "run", "zombie", "reaped"}]
      /\ client \in [Conns -> {"here", "gone"}]
      /\ script \in [Conns -> [read : Nat, written : Nat]]
      /\ OutputInv(x) /\ OutputInv(c) /\ EndsInv(c) /\ CauseInv(x) /\ CauseInv(c)
  <2>1. /\ pc \in [Conns -> Places] /\ body \in [Conns -> Int] /\ req \in [Conns -> Requests]
        /\ child \in [Conns -> {"none", "status", "close", "exec", "run", "zombie", "reaped"}]
        /\ client \in [Conns -> {"here", "gone"}]
        /\ script \in [Conns -> [read : Nat, written : Nat]]
    BY DEF HInv, TypeOK
  <2>2. OutputInv(x) /\ OutputInv(c) /\ EndsInv(c)
    <3> HIDE DEF OutputInv, EndsInv
    <3> QED  BY DEF HInv
  <2> QED  BY <2>1, <2>2
<1>1. CASE Accept(c)
  BY <1>1, <1>a DEF Accept, Goes
<1>2. CASE unimplemented(c)
  BY <1>2, <1>a DEF unimplemented, Goes, Tells
<1>3. CASE not_found(c)
  BY <1>3, <1>a DEF not_found, Goes, Tells
<1>4. CASE serve_file(c)
  BY <1>4, <1>a DEF serve_file, Goes, Tells
<1>5. CASE CloseClient(c)
  BY <1>5, <1>a DEF CloseClient, Goes
<1>6. CASE execute_cgi(c)
  BY <1>6, <1>a DEF execute_cgi, Goes, Tells
<1>7. CASE cannot_execute(c)
  BY <1>7, <1>a DEF cannot_execute, Goes, Tells
<1>8. CASE OpenPipe(c)
  BY <1>8, <1>a DEF OpenPipe, Goes
<1>9. CASE Fork(c)
  BY <1>9, <1>a DEF Fork, Goes
<1>10. CASE ParentStatus(c)
  BY <1>10, <1>a DEF ParentStatus, Goes, Tells
<1>11. CASE ParentCloses(c)
  BY <1>11, <1>a DEF ParentCloses, Goes
<1>12. CASE PassBody(c)
  <2>1. /\ pc[c] = "body" /\ req[c].method = "POST" /\ body[c] > 0 /\ server = "up"
        /\ pc' = [pc EXCEPT ![c] = "body"] /\ body' = [body EXCEPT ![c] = @ - 1]
        /\ UNCHANGED <<req, child, script, client>>
    BY <1>12 DEF PassBody, Goes, BodyLeft
  <2>2. pc'[x] = pc[x] /\ (body'[x] > 0 => body[x] > 0)
    BY <1>a, <2>1
  <2> QED  BY <1>a, <2>1, <2>2
<1>13. CASE BodyPassed(c)
  BY <1>13, <1>a DEF BodyPassed, Goes
<1>14. CASE PassOutput(c)
  BY <1>14, <1>a DEF PassOutput, Goes, Tells
<1>15. CASE OutputEnds(c)
  BY <1>15, <1>a DEF OutputEnds, Goes
<1>16. CASE Waitpid(c)
  BY <1>16, <1>a DEF Waitpid, Goes
<1>17. CASE ChildStatus(c)
  <2>1. CASE ChildGoes(c, "status", "close") /\ UNCHANGED <<req, pc, body, script, client, server>>
    BY <1>a, <2>1 DEF ChildGoes
  <2>2. CASE client[c] = "gone" /\ ChildExits(c, "status")
    BY <1>a, <2>2 DEF ChildExits, ChildGoes
  <2> QED  BY <1>17, <2>1, <2>2 DEF ChildStatus
<1>18. CASE ChildCloses(c)
  BY <1>18, <1>a DEF ChildCloses, ChildGoes
<1>19. CASE Exec(c)
  <2>1. CASE ChildGoes(c, "exec", "run") /\ UNCHANGED <<req, pc, body, script, client, server>>
    BY <1>a, <2>1 DEF ChildGoes
  <2>2. CASE req[c].target # "script" /\ ChildExits(c, "exec")
    <3>1. /\ server = "up"
          /\ pc[c] \in {"status", "close_out_w", "close_in_r", "body"}
          /\ req[c].method = "POST" /\ body[c] > 0
          => BodyUnread(req[c])
      BY <2>2, BodyOfLength DEF BodyUnread
    <3> QED  BY <1>a, <2>2, <3>1 DEF ChildExits, ChildGoes
  <2> QED  BY <1>19, <2>1, <2>2 DEF Exec
<1>20. CASE ScriptReads(c)
  <2>1. script'[x].written = script[x].written
    BY <1>20, <1>a DEF ScriptReads
  <2> QED  BY <1>20, <1>a, <2>1 DEF ScriptReads
<1>21. CASE ScriptWrites(c)
  <2>1. script'[x].written <= Output
    <3>1. script[c].written < Output => script[c].written + 1 <= Output
      BY BytesType, ConstantsAssumption DEF HInv
    <3> QED  BY <1>21, <3>1, <1>a DEF ScriptWrites, Writes
  <2> QED  BY <1>21, <1>a, <2>1 DEF ScriptWrites
<1>22. CASE ScriptEnds(c)
  <2>1. /\ server = "up"
        /\ pc[c] \in {"status", "close_out_w", "close_in_r", "body"}
        /\ req[c].method = "POST" /\ body[c] > 0
        => BodyUnread(req[c])
    BY <1>22, <1>a, AllRead DEF ScriptEnds, ChildExits, ChildGoes
  <2> QED  BY <1>22, <1>a, <2>1 DEF ScriptEnds, ChildExits, ChildGoes
<1>23. CASE ClientCloses(c)
  BY <1>23, <1>a DEF ClientCloses
<1> QED
  BY <1>1, <1>2, <1>3, <1>4, <1>5, <1>6, <1>7, <1>8, <1>9, <1>10, <1>11, <1>12,
     <1>13, <1>14, <1>15, <1>16, <1>17, <1>18, <1>19, <1>20, <1>21, <1>22, <1>23
     DEF StepOf, Thread, Child

\* send() ends the server only when the client it is meant for has gone.
LEMMA TellsCause ==
    ASSUME NEW c, NEW what, Tells(c, what)
    PROVE  server' = server \/ (server' = "sigpipe" /\ client[c] = "gone")
BY DEF Tells

\* The second half: a step of a server that is up ends it for a cause.
LEMMA EndStep ==
    ASSUME HInv, server = "up", \A y \in Conns : CauseInv(y), NEW c \in Conns, StepOf(c)
    PROVE  EndsForCause'
<1>1. CASE server' = "up"
  BY <1>1 DEF EndsForCause
<1>2. CASE server' = "sigpipe" /\ client'[c] = "gone"
  BY <1>2 DEF EndsForCause
<1>3. CASE PassBody(c) /\ server' # "up"
  <2>1. /\ pc[c] = "body" /\ req[c].method = "POST" /\ body[c] > 0 /\ Held("in_r", c) = {}
        /\ server' = "sigpipe" /\ UNCHANGED <<req, child, client>>
    BY <1>3 DEF PassBody, Goes, BodyLeft
  <2>2. client[c] = "gone" \/ (child[c] = "zombie" /\ BodyUnread(req[c]))
    BY <2>1, NoReader
  <2> QED  BY <2>1, <2>2 DEF EndsForCause
<1>4. CASE serve_file(c) /\ server' = "crashed"
  <2>1. /\ req[c].target = "unreadable" /\ req[c].method # "OTHER" /\ req[c].method # "POST"
        /\ pc' = [pc EXCEPT ![c] = "close"] /\ UNCHANGED req
    BY <1>4 DEF serve_file, IsCgi, Goes, Tells
  <2>2. req[c].method \in {"GET", "POST", "OTHER"} /\ pc'[c] = "close"
    BY <2>1, ConstantsAssumption DEF HInv, TypeOK, RequestType
  <2> QED  BY <1>4, <2>1, <2>2 DEF EndsForCause
<1>5. CASE \/ unimplemented(c) \/ not_found(c) \/ ParentStatus(c) \/ PassOutput(c)
           \/ cannot_execute(c) \/ execute_cgi(c) \/ (serve_file(c) /\ server' # "crashed")
  <2>1. \/ server' = server
        \/ \E what \in {"200", "400", "404", "500", "501", "out"} : Tells(c, what)
    BY <1>5 DEF unimplemented, not_found, ParentStatus, PassOutput, cannot_execute, execute_cgi, serve_file
  <2>2. UNCHANGED client
    BY <1>5 DEF unimplemented, not_found, ParentStatus, PassOutput, cannot_execute, execute_cgi, serve_file
  <2>3. server' = server \/ (server' = "sigpipe" /\ client[c] = "gone")
    BY <2>1, TellsCause
  <2> QED  BY <1>1, <1>2, <2>2, <2>3
<1>6. CASE \/ Accept(c) \/ CloseClient(c) \/ OpenPipe(c) \/ Fork(c) \/ ParentCloses(c)
           \/ BodyPassed(c) \/ OutputEnds(c) \/ Waitpid(c) \/ Child(c) \/ ClientCloses(c)
  <2>1. server' = server
    BY <1>6 DEF Accept, CloseClient, OpenPipe, Fork, ParentCloses, BodyPassed, OutputEnds, Waitpid,
                Child, ChildStatus, ChildCloses, Exec, ChildExits, ScriptReads, ScriptWrites,
                ScriptEnds, ClientCloses
  <2> QED  BY <1>1, <2>1
<1> QED  BY <1>1, <1>3, <1>4, <1>5, <1>6 DEF StepOf, Thread

\* A server that has ended does nothing any more, and its end keeps its cause.
LEMMA EndedStep ==
    ASSUME HInv, server # "up", EndsForCause, NEW c \in Conns, StepOf(c)
    PROVE  EndsForCause'
<1>1. Child(c) \/ ClientCloses(c)
  BY DEF StepOf, Thread, Accept, unimplemented, not_found, serve_file, CloseClient, execute_cgi,
         cannot_execute, OpenPipe, Fork, ParentStatus, ParentCloses, PassBody, BodyPassed,
         PassOutput, OutputEnds, Waitpid, Goes
<1>2. /\ server' = server /\ pc' = pc /\ req' = req
      /\ \A x \in Conns : child[x] = "zombie" => child'[x] = "zombie"
      /\ \A x \in Conns : client[x] = "gone" => client'[x] = "gone"
  <2>1. CASE Child(c)
    BY <2>1 DEF Child, ChildStatus, ChildCloses, Exec, ChildExits, ChildGoes, ScriptReads,
                ScriptWrites, ScriptEnds, HInv, TypeOK
  <2>2. CASE ClientCloses(c)
    BY <2>2 DEF ClientCloses, HInv, TypeOK
  <2> QED  BY <1>1, <2>1, <2>2
<1> QED  BY <1>2 DEF EndsForCause

\* The server ends, for all its clients, only because a client has gone, because
\* a child ended without reading the body meant for it (it could not be executed,
\* or is a script that asks for none), because a file to be served could not be
\* opened, or because accept() failed - whichever of its pipe(), fork() and
\* pthread_create() fail, whatever else its children inherited, and also when a
\* script writes all its output before it reads.  Nothing is assumed of requests,
\* clients or faults.
THEOREM EndsOnlyForCause == Spec => []EndsForCause
<1> DEFINE CInv == EndsForCause /\ \A c \in Conns : CauseInv(c)
<1>1. Init => CInv
  BY ConstantsAssumption DEF Init, EndsForCause, CauseInv, Forked
<1>2. HInv /\ CInv /\ [Next]_vars => CInv'
  <2> SUFFICES ASSUME HInv, CInv, [Next]_vars PROVE CInv'
    OBVIOUS
  <2>1. ASSUME NEW c \in Conns, StepOf(c)
        PROVE  CInv'
    <3>1. \A x \in Conns : CauseInv(x)'
      BY <2>1, CauseStep
    <3>2. EndsForCause'
      BY <2>1, EndStep, EndedStep
    <3> QED  BY <3>1, <3>2
  <2>2. CASE error_die
    <3>1. EndsForCause'
      BY <2>2 DEF error_die, EndsForCause
    <3>2. \A x \in Conns : CauseInv(x)'
      BY <2>2 DEF error_die, CauseInv
    <3> QED  BY <3>1, <3>2
  <2>3. CASE UNCHANGED vars
    BY <2>3 DEF CauseInv, EndsForCause, vars
  <2> QED  BY <2>1, <2>2, <2>3 DEF Next, StepOf
<1>3. CInv => EndsForCause
  OBVIOUS
<1> QED  BY <1>1, <1>2, <1>3, HInvariant, PTL DEF Spec

=============================================================================
