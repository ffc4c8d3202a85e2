# Verification of C-program-language

The repository is a collection of C programs about Linux: signals, threads,
processes, sockets, io_uring, memory, namespaces, netlink and eBPF. They do not
form one system; each program is a system of its own. This project models the
programs in which several actors share state (a thread and a signal handler, a
program and the kernel's rings, threads with child processes, two ends of a
connection, a shell and what it runs) and the allocator, whose difficulty is in
long sequences of calls.

Contents: the parts of the repository · the models, one by one, with state,
actions, runs, bounds and fairness · the proofs · what the checks show · what is
left out and the plan. `PROJECT.json` lists components, runs, mutants, hazards,
theorems and the lines each definition stands for.

## 1. The parts of the repository

| part | state it keeps | operations | actors and interaction |
|---|---|---|---|
| token bucket, `udp_prog/libmytbf/mytbf.c` | table `job[]` of buckets, tokens, disposition of SIGALRM, interval timer, `atexit` list | init, fetch, return, destroy, exit | the caller's thread and the SIGALRM handler share every bucket; used by `udp_prog/cli.c` |
| file copy, `uring_test/uring_copy.c` | counters of what is to be read and written, one `io_data` per block, the ring | queue reads, submit, reap completions | program and kernel, through submission and completion queues |
| allocator, `system_call/malloc_method.c` (same file as `basic/22_malloc.c`) | circular list of free blocks, `freep` | `my_malloc`, `my_free`, `my_morecore` | one thread; other users of `sbrk()` |
| web server with threads, `file_io/httpd.c` | descriptors shared by all threads and copied by `fork()` | accept, serve a file, run a CGI script | a thread per connection, a child per script, two pipes between them, clients |
| web server with io_uring, `uring_test/uring_http.c` | contexts of requests, descriptors | accept, read, read file, write, close | one thread, kernel, clients |
| tunnel, `tun_test/simpletun.c` | bytes in flight, a packet being read | device to connection, connection to device | two processes over one TCP connection |
| older token buckets, `signal/mytbf/`, and exercises, `signal/` | as the first row; masks and flags | as the first row | thread and handler; any SIGALRM, or the timer's only |
| token bucket clients, `udp_prog/cli.c`, `srv.c` | counters | send at a pace, count | two processes, the library |
| cat programs, `uring_test/uring_cat.c`, `liburing_cat.c`, `io_uring-test.c` | the rings with their indices, by hand or through liburing; counts of blocks | read one file after another, one read each; read a file in blocks | program and kernel share the rings |
| other tunnels, `tun_test/tun_test.c`, `tun_test_udp.c` | as simpletun | | two processes; neither file compiles |
| TLS echo servers, `socket_else/ssl/` | per connection an SSL object; the events of one `epoll_wait()` | handshake, echo, close | server, clients, OpenSSL, edge-triggered events |
| epoll echo server, `file_io/sock_epoll.c` | a connection that is served | accept, echo, close | server and clients, edge-triggered events |
| local sockets, descriptor passing, `socket_else/unix_domain/` | a connection | ask, answer, pass a descriptor | two processes that wait for each other in turn |
| ping and raw packets, `socket_else/` | sequence number | send, match the reply | program and network |
| namespace programs, `namespace/` | user maps and a pipe; children, process groups, the terminal, pending SIGCHLD | start a program behind its maps; run commands, reap what ends | parent, child, commands, kernel |
| IPC, mmap, file exercises | none of their own | one system call each | |
| netlink, `ip_command`, eBPF | none of their own | print what the kernel holds | program and kernel |
| language exercises, `basic/`, `leetcode/`, `relearn/` | none | small algorithms | |
| libbpf, libnetlink, vmlinux.h | | third-party or generated | |

The hard behaviours are: a handler between two accesses of a call; a wakeup lost
before `pause()`; two loads of a library; completions in any order, partial or
failed; a loop round a list that changes during the loop; descriptors inherited
by other requests' children; processes that wait for each other over bounded
pipes and connections; a number of a descriptor used again; a peer that stops in
the middle of a packet; an edge-triggered event that does not come again; ring
indices that wrap around; signals that do not queue. `PROJECT.json` has the main ones
at their lines under "hazards".

## 2. Modules

| module | what it is |
|---|---|
| `Mytbf` | the token bucket, its handler and its exit |
| `MytbfSignal`, `MCMytbf` | the two older token buckets beside it, as variants |
| `Mytbf_proof` | theorems about `Mytbf`, and about all three libraries |
| `UringCopy` | the file copy and the kernel's side of its ring |
| `BlockCopy` | the abstract copy that `UringCopy` implements |
| `KRMalloc` | the allocator |
| `Httpd`, `MCHttpd` | the threaded web server, its children and clients |
| `UringHttp`, `MCUringHttp` | the io_uring web server, the kernel and the clients |
| `SimpleTun` | both ends of the tunnel and the connection |
| `EpollSocket` | what the echo servers share: clients, sockets, the epoll instance |
| `SockEpoll`, `EchoEpollSsl` | the plain and the TLS echo server, over `EpollSocket` |
| `UringCat`, `LiburingCat`, `IoUringTest` | the cat programs: rings by hand, liburing, the test of liburing |
| `UsernsChildExec`, `SimpleInit` | the launcher of a namespace, and the init it starts |
| `UringCopy_proof`, `UringReads_proof` | theorems about `UringCopy`, and about the cats and `IoUringTest` |
| `Namespaces_proof` | theorems about the two namespace programs |
| `Streams_proof` | theorems about the tunnel and about the echo servers |
| `KRMalloc_proof` | theorems about the allocator |
| `Httpd_proof`, `UringHttp_proof` | theorems about the threaded web server, and about the io_uring one |
| `MCUring`, `MCStreams`, `MCNamespaces` | the programs of one kind, for TLC |

`MCUring` and `MCStreams` hold programs that never meet: their variable
`program` is chosen at the start and says which one runs, the variables of the
others keep their initial values. A property there is about one of them, or says
the same of several. `MCNamespaces` is a real composition: `execvp()` of
`UsernsChildExec` is the start of `SimpleInit`, the exit of the init is the end of
the launcher's child.

A definition keeps the name of the C function or variable it stands for. Some
definitions are commented "Mutant": these are plausible mistakes in the code,
defined next to what they would replace and used by no specification. Each
property is broken by one of them (`PROJECT.json`, "mutants").

### 2.1 Mytbf

*State.* `live` is the heap; `csp`, `burst`, `token`, `pos` are the fields of a
bucket (`csp` is the source's spelling); `job`, `old_sa` are the library's
statics; `sigact` and `timer` are the process's disposition of SIGALRM and
ITIMER_REAL; `atexits` counts the registrations of `mod_unload()`. `pc`, `tbf`,
`size`, `reg`, `n` and the two arguments of init are the thread. `inited` is no
variable: nothing assigns it. `faults` records memory errors, `win` is an
observer (below).

*Actions.* The handler runs to completion with SIGALRM blocked, so
`TimerExpires` (re-arm, refill every entry of `job[]`, end a `pause()`) is one
action. A call of the API is one action per access to what the handler shares:
`mytbf_fetchtoken` is `FetchTest`, `FetchPause`, `FetchCompare`, `FetchValue`,
`FetchLoad`, `FetchStore`, so the handler comes between the test and `pause()`,
between the two loads of line 148, and between the load and the store of
`tbf->token -= n`. `token` is not `volatile`: each load after the loop test may
read again or keep the value the build has (`Reload`). `UserSignal` is SIGALRM from another
process. `Exit`, `mod_unload`, `UnloadTimer`, `UnloadFree` are `exit()`, which
runs `mod_unload()` as often as it was registered. A signal that meets the
original disposition kills the process. `CallResults` says whether
`sigaction()`, `setitimer()` and `malloc()` may fail; a handler that cannot arm
the timer calls `exit()`, out of `mod_unload()` too.

*The rate.* `OpenWindow` starts to watch a bucket at any moment; `win` then
counts refills, tokens granted and tokens given back. `RateBound` says that in
every window granted ≤ burst + csp · refills + returned, the promise of a token
bucket. It holds although a refill between a load and its store is lost: what is
lost is the client's.

*Fairness.* The thread is scheduled, and an armed interval timer expires (the
timer is periodic, `it_interval` is one second). The fairness of the timer
abstracts from time: a program that calls `mytbf_init()` again within every
second would postpone its ticks for ever, which the bound `MaxLoads` excludes.

### 2.2 MytbfSignal

The older libraries `signal/mytbf/mytbf.c` and `mytbf_sigaction.c` differ from
`Mytbf` in few actions and share the others: they set `inited` and load once, look
at no result but `malloc()`'s, take 0 as a size, and never set `pos`, which has a
value of `Garbage`. `variant`, rigid, says which of the three runs; with "itimer"
`AllSpec` is `Mytbf!Spec`. "alarm" refills for any SIGALRM, "sigaction" for those of
the timer. `misplaced` is an observer: `mytbf_destroy()` has cleared an entry of
`job[]` that was not its bucket's. After that the freed bucket may be refilled,
another one never is, and exit may free twice; what `TableSound` and `LoadsOnce` say
is that nothing else leads there. `min()` reads `token` once (`OlderMin`).
`signal()`, `sigaction()`, `setitimer()` and `alarm()` succeed here: they have constant,
valid arguments, with which the kernel does not refuse them, and the code has no
other way to go.

### 2.3 UringCopy and BlockCopy

*State.* The locals of `copy_file()` (`insize`, `write_left`, `offset`, `reads`,
`writes`, `had_reads`, `got_comp`), the allocated `io_data` with their fields and
buffers, the submission queue `sq` (prepared, not submitted), `inflight` (with
the kernel), the completion queue `cq`, the output file. A byte of the input is
its own offset, so a byte of the output is right when it equals its position.

*Actions.* `OuterLoop`, `queue_read`, `Submit`, and one action per way the inner
loop goes: `WaitFails`, `RetryRequest` (-EAGAIN), `RequestFails`,
`ResumeRequest` (short transfer), `queue_write`, `WriteDone`, `InnerLoopEnds`.
`io_uring_wait_cqe()` does not submit: what `queue_prepped()` prepares stays in
`sq` until something else is submitted. The kernel performs any request in
flight, whole, in part, or not. What may go wrong is the rigid variable `faults`,
one of `FaultSets`, chosen at the start: one run has executions of every kind, and
a property says under which faults it holds.

*Refinement.* `BlockCopy` lets each block go once from "todo" over "read" and
"write" to "done", with at most `Depth` between. `Phase` maps the queues to it:
a block is where the `io_data` that carries its first offset is. `CopiesBlocks`
is `BlockCopy!Spec` under this mapping.

*Fairness.* The program runs and the kernel finishes what it was given; it is
not assumed that the kernel succeeds. `WaitFails`, a wait that a signal
interrupts, is outside the fair part: no signal need come, and a copy must not
owe its end to one.

### 2.4 KRMalloc

Memory is counted in units of one `Header`; a pointer is the number of its unit
and `base` is 0. `next` and `size` are the two fields of a header wherever one
lies. Each turn of a loop is a step: `my_malloc` starts the search, then
`SearchFits`, `SearchOn`, `my_morecore` or `OutOfMemory`; `my_free` starts to
look for the place, then `PlaceOn` and `PlaceHere`. `my_morecore()` calls
`my_free()` and returns into the search, one block on from the `freep` that
`my_free()` set. `Gaps` are units others took from `sbrk()`; the allocator must
not join across them. `base` is below what `sbrk()` returns, as in a
statically linked or position-independent executable on Linux, where the heap is
above the data segment. The client frees only what it holds and does not write
outside its block: both are C's rules for the caller. `FreeList`, of which the
properties speak, is the least set that has `freep` and with a block the next one.

*Fairness.* A call that has begun is executed; nobody need call.

### 2.5 Httpd

`holders` gives, for each pipe end and client socket, the processes that hold it
open: the server (all threads share one table) and children, each known by its
connection. `fork()` copies the whole table, so a child also holds the ends of
other requests' pipes and other clients' sockets; it closes two ends of its own
pipes only. From `holders` follow the end of a pipe, SIGPIPE, and whether a
client sees its connection closed. Pipes hold `Capacity` bytes.

A request is a record of what the code tells apart: method, what `stat()` and
`fopen()` say of the path, Content-Length, and how the script behaves: "reader"
reads as many bytes as CONTENT_LENGTH and then writes, "talker" writes first,
"eof" reads to the end of its input, "quitter" ends without reading. Actions follow
`accept_request()` and `execute_cgi()` step by step, failures of `accept()`,
`pthread_create()`, `pipe()` and `fork()` included. `fclose(NULL)`, SIGPIPE and
`error_die("accept")` end the server with all threads. The status
line is sent behind `fork()`, by both processes.

*Fairness.* Each thread and each child is scheduled; a client need not come, and
one that came has sent its whole request.

### 2.6 UringHttp

The context of a request carries what the code puts in it: type, client socket,
`path_fd`; and, for the model, the object the descriptor named when the request
was submitted, which is what the kernel works on even if the number is given
away meanwhile. `ring` is the bag of contexts with the kernel, `cq` the
completion queue, `fds` what each number names (the lowest free one is taken).
There is one action per branch of `server_loop()`; the calls that submit are
part of it. `Garbage` is what `path_fd` holds in a context whose maker never
sets it (the memory comes from `malloc()`). A completion with a negative result
and a malformed request end the server. Numbers run out: then `accept()` completes
with an error (`KernelRefuses`) or `open()` fails (`OpenFails`), and both end the
server too, the second one with a header already submitted. `Exits` closes all
descriptors, the ring's included.

Clients send their next request when they have the answer to the last one, and
leave at any time when `Faults` says so.

*Fairness.* The server runs and the kernel performs what it can. A client need
not ask nor leave.

### 2.7 SimpleTun

Each peer is at one place of its loop: "select", "tap", "write" (into the
connection), "length", "packet". The connection is a queue of bytes of bounded
`Room` each way; a byte carries its value and, for the properties, where it
comes from. `ReadByte` is one byte of `read()`, so any cut of the stream is
covered; length bytes are in network order (`htons`, `ntohs`). A peer ends
normally, fails, or is stopped at any time.

*Fairness.* Both processes run.

### 2.8 EpollSocket, SockEpoll, EchoEpollSsl

`EpollSocket` has the clients (`client`, `sent`), the listening socket
(`backlog`), accepted connections with what lies in their sockets (`conns`,
`inbox`), the ready list of the epoll instance (`rdlist`) and the array that
`epoll_wait()` has filled (`events`). A socket is put on the ready list when
something arrives and not because something is left: this is EPOLLET. A server
works on `events` one by one while clients go on; a descriptor is the client at
its other end.

* `SockEpoll` (`file_io/sock_epoll.c`): for each event one `accept()` or one
  `read()` of a line and one `write()`.
* `EchoEpollSsl` (`socket_else/ssl/echo_epoll_ssl.c`): `accept()` until there is
  nothing more; a handshake in several events; one `SSL_read()` and `SSL_write()`
  per event. A unit of `inbox` is a TLS record: of the handshake ("hello",
  "finish"), a whole one ("app"), the first part of one ("frag"), or what is no
  TLS ("bad"). `rest` is what OpenSSL has decrypted and not given out yet.

A client that has left resets the connection at any moment after that, also between
`epoll_wait()` and a write (`Reset`, `broken`). Before the reset a write is taken, after
it the write fails or is SIGPIPE, which ends the server. `SocketFaults` has the sets of
what else goes wrong in an execution: `accept()` fails, `fcntl()` or `epoll_ctl()` for a
new connection fails, or a client does not read, so that a write takes a part or nothing
("full"). `SockEpoll` does not look at what `write()` took; in `EchoEpollSsl` OpenSSL keeps
the rest of a record, which nobody writes later, and the next `SSL_write()` may fail for
it. The clients to which this has happened are in `lost`.

*Assumptions.* What OpenSSL writes by itself, in the handshake or as an alert, is taken.

*Fairness.* The server runs; nobody need connect, send or leave.

### 2.9 UringCat, LiburingCat, IoUringTest

* `UringCat`: `submit_to_sq()`, `io_uring_enter()`, `read_from_cq()` on the mapped
  rings: `sqHead`, `sqTail`, `cqHead`, `cqTail` are the shared indices, modulo
  `Wrap`; an index is masked into its array. Each side stores an index only after
  the entry (the barriers of the source), so an entry and its index are one step.
  An interrupted `io_uring_enter()` leaves its completion for a later turn.
* `LiburingCat`: the same program over liburing. An error of the read, or an
  interrupt, returns before the completion is marked as seen.
* `IoUringTest`: the first `QD` blocks of a file are submitted at once and their
  completions counted, in whatever order they come. `Holds` is what the file has of a
  block; a read gives that, fails, or is short of it (`Results`), which is what the test
  at line 95 is for.

A file is one read of all its blocks; `completed` is an observer, the order in
which the kernel completed.

*Fairness.* The program runs and the kernel completes what it was given.

### 2.10 UsernsChildExec and SimpleInit

`UsernsChildExec` is `main()` and `child_func()` of `userns_child_exec.c`: the
parent clones, writes the maps that were asked for (`wants`, `maps`), closes the
pipe and waits; the child drops its copy of the writing end and reads until the
end of the pipe. `writers` are the processes that hold that end open; it is also
dropped by a parent that gives up.

`SimpleInit` is `simple_init.c`, process 1 of a namespace of `MaxProcs` processes
with parents, process groups, the terminal (`foreground`) and pending SIGCHLD
(`sigchld`, a set, for signals do not queue). `Runs` is what a process does by
itself: expand the command (a failed expansion sends the child to the top of the
loop, where it reads commands as its parent does), execute it, reap, wait in
`pause()`, prompt. `Else` is what user and commands do; `InitExits` is the end of the
input, a failed `fork()`, and a `tcsetpgrp()` that fails after `pause()`. `daemons`, rigid, says
whether commands leave processes behind, which the init inherits.

*Fairness.* The launcher and every process of `simple_init` are scheduled. The
user need type nothing, and a command need not end.

## 3. Runs

| run | module, cfg | instance | what it shows |
|---|---|---|---|
| `mytbf_table` | MCMytbf, `Mytbf_table.cfg` | three versions, 3 blocks, table of 2, up to 3 loads, every call may fail, `pos` in the table or outside | table, heap and handler agree (`TableSound`); the older ones load once (`LoadsOnce`); the timer kills the process in `exit()` only (`KilledOnlyInExit`) |
| `mytbf_rate` | MCMytbf, `Mytbf_rate.cfg` | three versions, 1 bucket, rates 1–2, bursts 1 and 3, sizes 0–2, window of 3 refills | `TokenBounds`, `RateBound`; `FetchReturns` |
| `mytbf_freed_once` (violated) | Mytbf, `Mytbf_freed_once.cfg` | 2 blocks, 2 loads | exit frees every bucket twice after two `mytbf_init()` |
| `uring_programs` | MCUring, `Uring.cfg` | copy: depth 2, blocks of 2, file of 5, 3 `io_data`, four sets of faults; cats: 3 files, rings of 1 and 2 entries, indices modulo 4; test: 4 blocks of 2, files of 0–9 | copy: `assert(sqe)` holds and an `io_data` has one owner (`QueuesSound`), the output (`WholeTransfersRight`, `SuccessCoversFile`), the refinement (`CopiesBlocks`), its end (`CopyEnds`); cats: each completion is printed once and in order (`PrintsRight`), and they end (`CatsEnd`); what the test makes of completions out of order (`TestRight`) |
| `uring_copy_wrong_byte` (violated) | UringCopy, `UringCopy_wrong_byte.cfg` | short transfers | a wrong byte in the output |
| `kr_malloc` | KRMalloc, `KRMalloc.cfg` | 6 units, requests of up to 3 units, gaps | blocks that are held are apart from free ones and untouched (`HeapSound`); the list is one circle, ordered and joined (`FreeListSound`); searches end, and not too early |
| `httpd_all` | MCHttpd, `Httpd_all.cfg` | 2 connections, eleven kinds of request, failing calls, clients that go | as many bytes of output and of body are passed on as there should be (`DataWhole`); the server ends for named causes only (`EndsForCause`) |
| `httpd_good` | MCHttpd, `Httpd_good.cfg` | 2 connections, no faults, scripts that read their body | all is released, clients see an end |
| `uring_http` | MCUringHttp, `UringHttp.cfg` | 2 clients, one asking twice, clients that go, 3 descriptors, clean memory | one turn per connection, answers reach their client and files are closed (`DescriptorsRight`), requests are answered, sockets are closed |
| `uring_http_reads` (violated) | MCUringHttp, `UringHttp_reads.cfg` | 1 client, memory not clean | a header taken for a body |
| `streams` | MCStreams, `Streams.cfg` | tunnel: 3 packets each way, one longer than the buffer, connection of 5 bytes, interrupts; echo: 2 clients, 2 events per wait, 2 bytes per read, one client that leaves and resets, with and without failing calls and short writes | packets arrive whole (`TunnelSound`, `Arrives`, `EndTogether`); clients get their own bytes back (`EchoRight`); SSL objects are freed (`TlsReleased`); what waits in a socket is looked at (`PlainServed`, `TlsServed`) |
| `namespaces` | MCNamespaces, `Namespaces.cfg` | 4 processes, with and without daemons | the program starts behind its maps (`LauncherSound`, `Started`); one process reads commands (`InitSound`); what ends is reaped, and `pause()` ends (`Reaped`, `PauseEnds`) |

Several properties are conjunctions of named parts (`QueuesSound`, `HeapSound`,
`DescriptorsRight` and others): the parts say one thing together.

### The bounds, and why they are enough

* *Mytbf.* Two table entries and three blocks let an index be freed and used by
  another block, the table be full, and malloc return a freed block. Three loads
  stack two wrong dispositions. One bucket is enough for the rate, for handler
  and calls never combine two buckets' tokens; bursts below and above the rate
  and sizes below, at and above both give the cuts. `MaxWindow` closes a window
  after that many refills or returned tokens; the theorem is for every
  `MaxWindow`.
* *UringCopy.* A file of 5 with blocks of 2 gives three blocks, more than the
  depth of 2, and a last short block; a block of 2 bytes can be transferred in
  part. A third `io_data` lets `malloc()` choose. The proofs are for all sizes.
* *KRMalloc.* Six units, with at least three from each `sbrk()`, hold two
  extents, with or without a gap, and up to three blocks: below, above and
  between the place of a freed block.
* *Httpd.* Two connections are enough for one child to inherit the other's
  ends; a pipe of one byte is full after one byte, and bodies and outputs of two
  bytes exceed it.
* *UringHttp.* The client that asks twice has its connection read again; the
  other takes, and gives back, numbers meanwhile. Two sockets and two files may be
  open at once; `MaxFd` is one less, so that numbers are used again and run out, for
  a connection and for a file. The theorems are for every `MaxFd`.
* *SimpleTun.* A framed packet is 3 to 4 bytes, so that one and a half of them
  fill the connection, and cuts fall inside lengths and packets.
* *Echo servers.* With two clients one array of events holds both, one connection
  goes while the event of another waits, and two connections come at once. The
  plans have lines and records at and above the two bytes one event takes, a
  record in two parts, one behind the end of the handshake, and what is no TLS.
* *Cats.* Three files through rings of one and two entries with indices modulo 4
  wrap both indices, and an interrupt leaves two completions at once. The last
  block of a file of 0–9 bytes is absent, short or whole, and the file is shorter
  or longer than the four blocks of 2 that are read.
* *Namespaces.* Four processes hold the init, a child that reads commands in its
  place, its command, and a process left behind.

`CHECK_DEADLOCK FALSE` is set where the programs really stop: a copy that waits
for a request nobody submitted, cats that are done, servers that have exited or
whose clients do not come, tunnels that are over or blocked, a namespace that has
ended. In the other runs TLC also checks that there is no deadlock.

## 4. Proofs

The proofs hold for every value of the constants that satisfies the assumption
of the module; the runs check the same formulas on small values.

### 4.1 Mytbf_proof: the library

For every set of blocks, table length, rate, burst and size that satisfies
`ConstantsAssumption` (rates and bursts are naturals, the heap is finite):

* `TypeCorrect`: `Spec => []TypeOK`.
* `Safety`: `Spec => [](Registered /\ NoUseAfterFree /\ TokenBounds /\ RateBound
  /\ WaitIsTicked)`, for any number of loads (the runs check the first two as
  `TableSound`).
* `OneLoad`: with `MaxLoads = 1` also `OldSaIsOriginal` and `FreedOnce`. The
  hypothesis is needed: `mytbf_freed_once` is the counterexample with two. No run
  checks `OldSaIsOriginal` of this library: with one load it says little, with two
  it is false. For the older ones, which may be called often, it is in `LoadsOnce`.
* `KilledOnlyAtExit`: `Spec => KilledOnlyInExit`, an action property, for any
  number of loads and any calls that fail.

None of these properties is inductive. The invariant `IInv` adds what a call
holds in the middle:

* `RegisterInv`: between a load and the store after it, the register is at most
  what the bucket holds, for the handler only adds, however often the register is
  loaded again; and n is at most the register. Without it `FetchStore` might make a bucket negative or grant a
  token twice.
* `WindowInv`: granted + what is in the bucket ≤ what was there at the start +
  refills + returned. Granting moves tokens from one side's second term to its
  first, a lost refill makes the left side smaller. With `TokenBounds` at the
  start of the window, and `NotNegative` now, `RateBound` follows.
* `TableInv` and `LoadedInv`: a call's bucket is allocated; during
  `mod_unload()` the timer is off when blocks are freed; before `exit()` an armed
  timer means that the handler is installed (which is what `KilledOnlyAtExit`
  needs), and there is both when there is a bucket.

Each conjunct has a lemma with one step per action (`TableStep`, `LoadedStep`,
`NotNegativeStep`, `BoundsStep`, `RegisterStep`, `WindowStep`), and
`InvariantImplies` draws the properties from it.

### 4.2 Mytbf_proof: all three libraries

About `AllSpec`, that is, about `Mytbf` and the two older libraries, for every set
of blocks, table length, rate, burst, size and `Garbage`:

* `TableIsSound`: `AllSpec => []TableSound`.
* `LoadedOnce`: `AllSpec => []LoadsOnce`.
* `BoundedTokens`: `AllSpec => []TokenBounds`.
* `NoneKilled`: `AllSpec => KilledOnlyInExit`.

When the variant is "itimer" a step is one of `Mytbf`, and `IInv` is the invariant. `OlderInv` is the one of the other two:

* `OlderLoadInv`: what is loaded is loaded once. Before that there is no
  registration, no handler and no bucket; after that `old_sa` is the original
  disposition for good. So `mod_unload()` runs once, and the timer it stops is the
  only one.
* `OlderTableInv`: until something is `misplaced`, every entry of `job[]` is
  allocated and every bucket has exactly one entry (`OneEntry`: one that is counted
  once is at one index, which a `mytbf_init()` or a `mytbf_destroy()` changes alone).
* `OlderTokensInv`: the bounds of `TokenBounds` and the bound of the register. They
  do not rest on the table: a block that was freed and taken again may have two
  entries, then it is refilled twice in a tick, and each refill is cut at its burst.

That last case is why `RateBound` is a theorem of `Mytbf!Spec` only. For the older
libraries it is true of the one bucket and one load of `mytbf_rate`, and stays with
TLC.

### 4.3 UringCopy_proof

For every ring, block size, file size, set of `io_data` and set of faults:

* `Queues`: `Spec => []QueuesSound`. `TypeOK`, `AssertSqe` and `OneOwner` are not
  inductive together. `IInv` adds
  - `OwnersInv`: no queue names an `io_data` twice, and no two name the same one;
    a set and two lengths do not say that,
  - `CountsInv`: `reads` and `writes` are the numbers of blocks being read and
    written, and at most `QUEUE_DEPTH` together: this bounds `sq`, whence
    `AssertSqe`,
  - `BlocksInv`: a request is the end of its block from `base` on, blocks do not
    overlap, and lie below `offset`,
  - `LeftInv`: `write_left` is the number of bytes whose write is not queued; it
    keeps `write_left` a natural number when a block is turned round,
  - `ResultsInv`: a completion has an error or between one byte and what was
    asked for.

  Each conjunct has its step lemma; the one for `LeftInv` is about cardinalities
  of intervals of bytes.
* `WholeTransfers`: `Spec => []WholeTransfersRight`. `WholeInv`: as long as
  transfers are whole, `base` is 0 and the buffer of a block being written holds
  the block.
* `SuccessCovers`: `Spec => []SuccessCoversFile`. `CoverInv`: each byte below
  `offset` is written or in a block that is under way, and nothing is prepared
  once `write_left` is 0; with `LeftInv`, nothing is being read then either.
* `Refinement`: `Spec => CopiesBlocks`, the refinement of `BlockCopy`. `AlignInv`
  (blocks begin at multiples of `BLOCK_SZ`) makes `Phase` a function of the
  block; `PhaseStep` maps `queue_read`, `queue_write` and `WriteDone` to the
  abstract steps and all others to stuttering; `BusyBlocks` counts blocks by the
  `io_data` that carry them; `NextMultiple` says that the block after the last
  one read is the next in order.

### 4.4 Namespaces_proof

For every `MaxProcs`, about the composition `MCSpec`:

* `Launched`: `MCSpec => []LauncherSound`, from `LauncherInv`: the parent holds
  the writing end until the maps are written, so the child cannot read the end of
  the pipe before.
* `OneReader`: `MCSpec => []InitSound`. `OneAtPrompt` is not inductive.
  `FamilyInv`, with or without daemons, says that nothing runs before the init or
  without it, and that whoever runs has a parent. `ChainInv`, without daemons,
  says that the processes form a chain: each has at most one child, exactly one
  has none, and whoever has one is on its way to `pause()` or in it. So a process
  that gets out of `pause()` is the last of the chain, and nobody else reads.

### 4.5 Streams_proof

*The tunnel.* `Tunnelled`: `Spec => []TunnelSound`, for every `BufSize` up to 65535, every `Room`
and every plan of packets: no `read_n()` is asked for more bytes than `buffer` has, and
a TUN device is given, in order and whole, the packets the other one gave - in
whatever pieces the connection delivers them, and whoever stops when.

`PacketsWhole` says nothing about the bytes between. In the inductive invariant
`Sends(p)` says that what `cwrite()` of p has left is the end of its last frame (two
bytes of length, then the packet). `Live(p)` is about the reader p of what the other
one sends: its loop is over; or it is `Lost` (the other one is gone, nothing is left
in the connection, and p never reads on); or it is `InStep`: every byte in the
connection has a frame and a place in it (`Chain`), one following the other up to
what the sender has left, and the first of them is the byte p reads next (`Reads`),
with the two bytes of a length making the length of the packet that follows. From
that `LengthRead` asks for the rest of one packet, which is at most `BufSize` long,
and `PacketRead` has it. A stopped peer leaves a frame in the middle, and nothing is
sent behind it: this is why a packet in pieces is never written. The two bytes of a length are a quotient and a remainder by 256, so
`UINT16_MAX` and `UINT8_MAX` are named: the lemmas on `htons()` and `ntohs()` are the only
place where their values count.

*The echo servers.* About `MCSpec` of `MCStreams`, for every set of clients, plan of
segments (`BytePlans`) or of records (`Plans`), `MAXEVENTS`, `Chunk`, set of leavers and sets of
faults:

* `EchoesInOrder`: `MCSpec => []EchoRight`.
* `SslObjectsFreed`: `MCSpec => []TlsReleased`.

`EchoInv` has one invariant for each server, and `SocketsInv` is what both share. It
says what the ready list and the array of events are made of: open sockets, none
twice (`RdlistInv`, `EventsInv`), so that a server that closes the connection of one
event makes no later event stale. A reset is in the event that reports it.

* `PlainInv`: an event of the listening socket has a connection behind it - the
  reason why `accept()`, which `sock_epoll.c` calls without looking, does not end the server
  (`PlainLoop`). While a line is held, its event is still the first and `connfd` its
  connection. `PlainData`: what was sent is what came back, the line and what is in
  the socket. When the client has left, or a write did not take everything, bytes
  are lost, but what came back is still the beginning of what was sent.
* `SecureInv`: whoever is connected has an object in use; what is closed without being
  freed was reset, and the end of the server has its reason (`SecureLoop`: the client whose
  handshake fails is still connected, and so is the one that was reset). What `SSL_write()`
  was to write when it fails is dropped, so it must be for a client that is gone or has
  lost something already (`SecureClosed`, with `ResetInv`: only who has left resets). `SecureData` is `PlainData` with one part more, what
  OpenSSL keeps of a record (`rest`), and with the bytes of the records in the socket.

What a client has sent is the concatenation of its segments, by the library's
`FlattenSeq()`, a recursive function: `FlatIs` says what it is made of (`Pieces`), and by
induction up to a number (`AllUpTo`) it gives a sequence, grows by the last segment and
splits (`FlatType`, `FlatGrows`, `FlatConcat`). `Bytes` of `EchoEpollSsl` rests on the same
facts (`BytesConcat`, `BytesFirst`). `Only` of `EpollSocket`, what `epoll_wait()` and `close()`
leave of the ready list, is one more recursive function (`OnlyFacts`).

### 4.6 Httpd_proof

For every set of connections, capacity of a pipe, set of requests and set of failing
calls:

* `DataArrives`: `Spec => []DataWhole`, without a premise. `HInv` is `TypeOK` and, for
  each connection,
  - `OutputInv`: the bytes that were sent to the client and those that lie in the pipe
    are as many as the script has written,
  - `BodyInv`: the bytes still to be passed on, those in the pipe and those the script
    has read are together Content-Length,
  - `EndsInv`: who holds which end at each place of `execute_cgi()`. As long as the
    child may write, an end of its pipe is open for writing, in whatever other child
    also has it; so the thread cannot take the emptiness of a pipe for the end of
    the output.
* `NothingLeft`: `GivesBack` implies `Spec => []Released`. `ReleasedAt` bounds what the
  server may hold at each place of a request (`MayHold`). `GivesBack` says that
  `pthread_create()`, `pipe()` and `fork()` succeed and that every method is GET or POST:
  the ways out of `accept_request()` behind these failures close nothing (the runs
  with `Faults` reach them), so the premise is the exact one. Clients may leave at
  any moment, and any request may end the server.
* `EndsOnlyForCause`: `Spec => []EndsForCause`, without a premise. `CauseInv` says that
  while the thread passes a body on, the child it is for lives, unless its client has
  gone (the child too dies of its `send()`) or it is one that does not read its body
  (`BodyUnread`). So a `write()` without a reader has one of these causes (`NoReader`),
  a `send()` that raises SIGPIPE has a client that left (`TellsCause`), and once the
  server has ended, the cause remains (`EndedStep`).

The proofs of the last two use `HInv`. `httpd_good` checks `Released` under
premises that are stronger than the theorem's (no fault at all), since it also
checks liveness, which needs them; `httpd_all` checks the other two as they are proved.

### 4.7 UringHttp_proof

For every set of clients, plans of requests, number of descriptors and order of
completions, and whenever clients go:

* `OneAtATime`: `Clean` implies `Spec => []OneTurn`.
* `RightDescriptors`: `Clean` implies `Spec => []DescriptorsRight`.

`Clean` says that memory which was not written is zero where `path_fd` is. It is what
the server relies on (§5), and `uring_http_reads` is the counterexample without it.

Neither property is inductive: both rest on what the contexts under way carry.
`IInv` is `TypeOK` with `WayInv`, about `UnderWay`, the contexts with the kernel or in
the completion queue:

* `Shaped`: a context that holds the turn of a connection carries the number that
  still names it, one that reads a file a number that names a file (`Carries`); and
  except for the writes of headers and static answers, which may repeat, it is under
  way once only (`Alone`), whatever is in the bag beside it.
* `OneHolder`: at most one context holds the turn of a connection. Only the completion
  of the holder makes the next one, or the `accept()` of a connection nobody has read
  (`Accepted`).
* `FilesApart`, `FilesRead`: a number that names a file has exactly one context that
  reads it; so `close()` of it cannot hit another one.
* `Connected`: a connection has one number. `BodyRead`: what was read of a file and
  has bytes is a body.

A header carries its socket's number too, and that number may be closed and used
again before the header is written: the kernel holds the file, not the number, and
when the completion is handled the number is not looked at, since the header is no
body. That is the point where `Clean` is needed.

`Moves` is the step of `WayInv` for every handler at once: what it submits and which
numbers it changes are its hypotheses, which `AcceptStep`, `EofStep`, `StaticStep`,
`GetStep`, `EmptyFileStep`, `ReadFileStep` and `WriteStep` establish. `Stays` and
`AcceptsStep` are the kernel's. Beneath are facts about bags (`Removed`, `Added`), and
`Smallest`: a nonempty set of numbers has a smallest one, by which `accept()` and
`open()` get a number whenever one is free.

### 4.8 KRMalloc_proof

For every size of a header, least growth, memory, set of requests and gaps:

* `Heap`: `Spec => []HeapSound`.
* `FreeListKept`: `Spec => []FreeListSound`.
* `SearchesAll`: `Spec => []GivesUpLate`.

Two of these speak of the time between calls, and a call is many steps. `IInv` says
what holds at each of them:

* `HeapInv`: `FreeList` is a `Circle`, in which each block but the last has its
  successor next; no block of it ends where the next one begins (so a block that is
  put back touches at most its two neighbours, and joining with both is enough);
  `base` has size 0; and the free blocks, those held and the one being freed are a
  partition of what `sbrk()` gave (`Tiled`), below `brk`.
* `CallInv`: the loops stand at blocks of the list, and every block that the search has
  passed (`Passed`: from `freep` to `p` round the circle) is too small. When the search is
  at `freep` again these are all. `my_morecore()` moves `freep`, and then the search is
  one block behind it: nothing has been passed.

What a step does to the heap is one of five facts. `LinkedIn` and `Unlinked`: a circle
stays one when a block is put between two, or taken out. `CutAt`, `JoinedTo`, `GrownBy`:
a tiling stays one when a block is cut, when two are joined, when `sbrk()` gives
another. `IsFreeList` leads from a circle to the set `FreeList`: a set that is closed
under `next` and has one block of a circle has the whole circle (`Reached`, by `Last`, a
set of addresses has a last one).

### 4.9 UringReads_proof

About `MCSpec` of `MCUring`, for every number of files, size of the rings, modulus of
the indices that both sizes divide, queue depth, number and length of reads, size of
the file and set of faults:

* `CatsPrint`: `MCSpec => []PrintsRight`.
* `CountsInAnyOrder`: `MCSpec => []TestRight`.

`ReadersInv` has one invariant for each program:

* `RawInv` for `uring_cat`. The model knows indices modulo `Wrap` only; the invariant
  says that they are the remainders (`Index`) of the numbers of completions made and
  printed, and that there is a number k, at most what is printed, from which on every
  completion is still in its place (`RingAt`). The kernel sees `cqHead`, the index of
  k, and stops when the ring is full, so its next place is none of those: completions
  less than a ring apart have places of their own (`Slots`, `ModApart`), and the
  distance of two indices is the number of completions between them (`Between`). This
  needs that `Wrap` is larger than the ring and a multiple of it (`ModMod`), as 2^32
  is of a power of two. `TurnInv` is about executions without interrupts: a turn
  leaves neither a read in flight nor a completion to the next one.
* `LibInv` for `liburing_cat`: what is printed and what is not marked as seen are what
  was completed.
* `TestInv` for `io_uring-test`. `ReadsInv`: the reads that are queued are in flight or
  completed, each once, none gives more than the file has there, and all but the last
  are inside the file (`PlaceInv`). `CountInv`: the sum is that of whole blocks, until
  the last part of the file comes, and it comes last. A read that is short of the file, or
  that part before another, makes the sum differ from `st_size`, which is arithmetic about
  blocks (`WholeBlock`, `WholeCount`: n reads of whole blocks are n different reads, so
  the file has as many).

### 4.10 What stays with TLC

Liveness (`FetchReturns`, `CopyEnds`, `CatsEnd`, `CallsReturn`, `ClientSeesEnd`,
`AllAnswered`, `SocketClosed`, `Arrives`, `EndTogether`, `PlainServed`,
`TlsServed`, `Started`, `Reaped`, `PauseEnds`) is beyond the prover and only
model-checked; so is `RateBound` of the older token buckets. Every other invariant that a
run checks is proved.

## 5. What the checks show

Where the code departs from its own comments:

1. `mytbf.c:58` says that unloading releases what was taken. `inited` is never
   set, so each `mytbf_init()` registers `mod_unload` again, which frees the same
   table twice (`mytbf_freed_once`).
2. `uring_copy.c:200` says that a short read is adjusted and continued. The
   offset is not moved, so the rest is transferred at the wrong place
   (`uring_copy_wrong_byte`).
3. `uring_http.c:429-431` says that a `path_fd` marks a body. It is never set in
   the contexts of headers and static answers, and has what `malloc()` left there
   (`uring_http_reads`).

Conditions under which a property holds, and which the code does not establish:

* `OldSaIsOriginal`, `FreedOnce`: one `mytbf_init()` in the life of the process.
* `TableSound`, `LoadsOnce`: in the older libraries `pos` happens to be the bucket's
  index, as with one bucket in memory that is zero.
* `KilledOnlyInExit`: the kill that is left is real: between the two calls of
  `mod_unload()` a tick meets the original disposition.
* `CopyEnds` (`Terminates`): no request is prepared again. After -EAGAIN or a short transfer
  with nothing else to submit, the copy waits for ever.
* `SuccessCoversFile`: no failing submit and no short transfer; and "covered" means that the write is
  with the kernel, not that it has been done.
* `Released`, `ClientSeesEnd`: scripts read their body before they
  write much, clients stay, files are readable, no call fails. For other
  requests the server leaks descriptors, ends, or waits for its script.
* `EndsForCause`: not that the server stays up. A client that goes, a script that ends
  without reading its body, an unreadable file and a failing `accept()` end it for all.
* `DataWhole` counts bytes. That they are the right ones is not said: for a client that
  has gone `recv()` returns 0 and the last byte is written again (`httpd.c:289`).
* `OneTurn` and what rests on it: memory from `malloc()` happens to be zero where
  `path_fd` is (`Clean`, the premise of both theorems of `UringHttp_proof`).
* `AllAnswered`, `SocketClosed`: only after files of some bytes is a connection
  read again, so only then is the next request seen or the socket closed; and one
  failed request ends the server.
* `Arrives`: unless both directions of the connection are full at once.
* `PlainServed`: never two connections waiting at once (one `accept()` for an
  event), never more than one line waiting in a socket, no end of the connection
  behind a line (one `read()` for an event). `TlsServed`: never two records, or
  more than a buffer, or the end of the connection behind a record. Else what is
  left waits for an event that does not come. Nor is every connection served when
  `epoll_ctl()` fails in `sock_epoll.c` (nobody looks at it again) or `accept()` fails in
  `echo_epoll_ssl.c` (who waits goes on waiting); other failures end the server.
* `TlsReleased`: the connection is not reset. A hang-up event closes the socket and
  keeps the SSL object. One client that breaks off its handshake ends the server, and so
  does a second write to a client that has reset its connection.
* `EchoRight`: clients read what comes back. Both servers drop what a write did not take.
* `PrintsRight` (liburing): the failed completion is not marked as seen, so nothing
  after it is ever printed.
* `CatsEnd`: `io_uring_submit()` does not fail; `liburing_cat` does not look at its
  result: it waits for ever, or (interrupted) has no free sqe for the next file.
* `TestRight`: "stopped" also when the last, shorter part of the file completes before
  another one: a correct file is taken for a failure. A read that is short of the file
  always stops it, also as the last one.
* `LauncherSound`: the program also starts when the parent failed to write a map,
  for the end of the pipe does not tell why it came.
* `InitSound`: commands leave no process behind. The end of one wakes the init
  while a command runs.
* `PauseEnds`: no child ends before its parent is in `pause()`, else the signal
  that should end it has come already.

Smaller defects seen on the way, which no run is about: where the build loads
`token` twice for line 148 of `libmytbf/mytbf.c` and a tick comes between the two,
`mytbf_fetchtoken()` grants more than `size` (never more than the bucket holds:
`TokenBounds` and `RateBound` are checked with it; the older libraries call `min()`,
which has one load); the status line of a
script is sent twice (`httpd.c:260`, behind `fork()`); a last line without a
newline is not sent (`httpd.c:168`); a script that cannot be executed gives a
200 without a body (`httpd.c:282`); a send limit that is never reached, for
`count` is not incremented (`cli.c:91`).

## 6. Not modelled

* Within the modelled programs: the width of integers; time; the bytes of
  requests, paths and headers; option parsing and set-up; the `SENDFILE` build of
  `uring_http.c`; partial completion of its writes; two requests in one segment.
* `tun_test/tun_test.c` and `tun_test_udp.c` do not compile (an `else` without its
  `if` at `tun_test.c:219`, a member of a pointer), so there is no program whose
  behaviour a model could have.
* Programs without a state of their own (one system call each, or formatting of
  what the kernel answers): IPC and file exercises, netlink, `ip_command`, eBPF,
  `regular_cat.c`, single TLS clients, the language exercises.
* `udp_prog/cli.c`, `srv.c`: their calls of the library are the environment of
  `Mytbf`; what else they do is I/O on one socket. `signal/` beside its two
  libraries: exercises of one signal call each.
* Third-party and generated code. It is nearly all of the repository by lines: two
  copies of `vmlinux.h` have 282 000 of its 367 000, libbpf, its headers and
  libnetlink most of the rest. The repository's own C is about 12 000 lines, the
  larger part exercises of one system call. The share of *all* lines that a model
  stands for is therefore small, whatever is modelled.

## 7. Plan

The order put what shares most state between actors first. Done: `Mytbf`,
`MytbfSignal`, `UringCopy` with `BlockCopy`, `KRMalloc`, `Httpd`, `UringHttp`, `SimpleTun`, the
echo servers, the cats, the namespace programs; the proofs about the three token
buckets, `UringCopy`, the cats and `IoUringTest`, `KRMalloc`, `Httpd`, `UringHttp`,
`SimpleTun`, the echo servers and the namespace programs.

Next:

1. Abstract specifications: a FIFO of packets for `SimpleTun`; a heap as a set of
   disjoint extents for `KRMalloc`; one request at a time per connection for
   `UringHttp`; a queue each way for the rings of `UringCat`.
2. Pure operators against reference definitions: `get_line()`, the checksum of
   `ping.c`, the line sort and dates of `basic/`, the sizes of `my_malloc()` in 32
   bits.
