----------------------------- MODULE SimpleTun -----------------------------
(***************************************************************************)
(* The tunnel tun_test/simpletun.c: two processes, each between a tun/tap  *)
(* device and one TCP connection.  A packet read from the device is sent   *)
(* as its length in two bytes and its bytes; the other side reads the      *)
(* length, then as many bytes, and writes them to its device.  The TCP     *)
(* connection is a bounded queue of bytes each way.                        *)
(***************************************************************************)
EXTENDS Integers, Sequences, FiniteSets, SequencesExt

CONSTANTS
    Peers,     \* the process started with -s and the one started with -c
    Packets,   \* the lengths of the packets the device of each peer gives
    BufSize,   \* BUFSIZE: a longer packet is cut by the device
    Room,      \* bytes one direction of the connection holds
    Faults     \* "interrupt": a peer may be stopped (Ctrl-C) at any time

\* The largest number of one byte, and of the two that carry a length.
UINT8_MAX == 255
UINT16_MAX == 65535

ASSUME ConstantsAssumption ==
    /\ IsFiniteSet(Peers) /\ Cardinality(Peers) = 2
    /\ Packets \in [Peers -> Seq(Nat \ {0})]
    /\ BufSize \in 1 .. UINT16_MAX
    /\ Room \in Nat \ {0}
    /\ Faults \subseteq {"interrupt"}

Other(p) == CHOOSE q \in Peers : q # p

VARIABLES
    pc,        \* where each peer is
    ready,     \* what select() said: a subset of {"tap", "net"}
    taken,     \* packets read from the device
    pending,   \* bytes cwrite() has not written to the connection
    stream,    \* bytes on their way to the peer
    got,       \* bytes read_n() has read of what is being read
    plength,   \* the length read last
    written    \* packets written to the device

vars == <<pc, ready, taken, pending, stream, got, plength, written>>

\* A byte: its value, and for the properties where it comes from.
Length(p, i) == IF Packets[p][i] < BufSize THEN Packets[p][i] ELSE BufSize
Data(p, i) == [k \in 1 .. Length(p, i) |-> [v |-> 0, packet |-> i, k |-> k]]
LittleEndian(n) == <<n % 256, n \div 256>>
NetworkOrder(n) == <<n \div 256, n % 256>>
Frame(p, i) ==
    [k \in 1 .. 2 |-> [v |-> NetworkOrder(Length(p, i))[k], packet |-> i, k |-> 0]]
        \o Data(p, i)

Over == {"ended", "failed", "stopped"}
Goes(p, from, to) == pc[p] = from /\ pc' = [pc EXCEPT ![p] = to]

-----------------------------------------------------------------------------
\* select(): what is ready to be read; the end of the connection is, too.
TapReady(p) == taken[p] < Len(Packets[p])
NetReady(p) == stream[p] # <<>> \/ pc[Other(p)] \in Over
Select(p) ==
    /\ Goes(p, "select", "tap")
    /\ TapReady(p) \/ NetReady(p)
    /\ ready' = [ready EXCEPT ![p] = {x \in {"tap", "net"} : IF x = "tap" THEN TapReady(p)
                                                                         ELSE NetReady(p)}]
    /\ UNCHANGED <<taken, pending, stream, got, plength, written>>

\* A packet from the device: length and packet are to be written.
ReadTap(p) ==
    /\ Goes(p, "tap", "write")
    /\ "tap" \in ready[p]
    /\ taken' = [taken EXCEPT ![p] = @ + 1]
    /\ pending' = [pending EXCEPT ![p] = Frame(p, taken[p] + 1)]
    /\ UNCHANGED <<ready, stream, got, plength, written>>

\* The connection takes a byte more.
RoomForNone(p) == Len(stream[p]) <= Room
RoomLeft(p) == Len(stream[p]) < Room

\* write() on the connection waits for room for every byte.  When the other side
\* is gone, what is written may still be taken, for nobody, until the reset has
\* come; then SIGPIPE or the error ends the process.
WriteNet(p) ==
    /\ pending[p] # <<>>
    /\ \/ /\ Goes(p, "write", "write")
          /\ RoomLeft(Other(p))
          /\ stream' = [stream EXCEPT ![Other(p)] = Append(@, Head(pending[p]))]
          /\ pending' = [pending EXCEPT ![p] = Tail(@)]
       \/ /\ Goes(p, "write", "failed")
          /\ pc[Other(p)] \in Over
          /\ UNCHANGED <<stream, pending>>
    /\ UNCHANGED <<ready, taken, got, plength, written>>

\* The device is done with: what the connection has, if it was ready, comes
\* next, and then select() again.
TapDone(p) == IF "tap" \in ready[p] THEN pc[p] = "write" /\ pending[p] = <<>> ELSE pc[p] = "tap"
TurnToNet(p) ==
    /\ TapDone(p)
    /\ pc' = [pc EXCEPT ![p] = IF "net" \in ready[p] THEN "length" ELSE "select"]
    /\ got' = [got EXCEPT ![p] = <<>>]
    /\ UNCHANGED <<ready, taken, pending, stream, plength, written>>

\* read() inside read_n(): some of the bytes that are there.
Wanted(p) == IF pc[p] = "length" THEN 2 ELSE plength[p]
ReadByte(p) ==
    /\ pc[p] \in {"length", "packet"}
    /\ Len(got[p]) < Wanted(p)
    /\ stream[p] # <<>>
    /\ got' = [got EXCEPT ![p] = Append(@, Head(stream[p]))]
    /\ stream' = [stream EXCEPT ![p] = Tail(@)]
    /\ UNCHANGED <<pc, ready, taken, pending, plength, written>>

\* read_n() has all it was asked for.
SomeRead(p) == got[p] # <<>>
AllRead(p) == Len(got[p]) = Wanted(p)

NotSwapped(bytes) == bytes[Len(bytes)].v * 256 + bytes[1].v
HostOrder(bytes) == bytes[1].v * 256 + bytes[Len(bytes)].v
LengthRead(p) ==
    /\ AllRead(p)
    /\ Goes(p, "length", "packet")
    /\ plength' = [plength EXCEPT ![p] = HostOrder(got[p])]
    /\ got' = [got EXCEPT ![p] = <<>>]
    /\ UNCHANGED <<ready, taken, pending, stream, written>>

PacketRead(p) ==
    /\ AllRead(p)
    /\ Goes(p, "packet", "select")
    /\ written' = [written EXCEPT ![p] = Append(@, got[p])]
    /\ UNCHANGED <<ready, taken, pending, stream, got, plength>>

\* Mutant: main() does not look for 0 after it has read the length.
PacketNext(p) == Goes(p, "length", "packet")

\* if (nread == 0) break
Break(p) == Goes(p, "length", "ended")

\* The other side is gone and nothing is left to read: read_n() returns 0 (if
\* the other side had not read all it was sent, the read may fail instead).
\* At a length the loop ends; in a packet, zero bytes are written to the
\* device, which fails unless the device lets it pass.
EndOfStream(p) ==
    /\ pc[p] \in {"length", "packet"} /\ ~AllRead(p)
    /\ stream[p] = <<>> /\ pc[Other(p)] \in Over
    /\ \/ Break(p)
       \/ Goes(p, "packet", "failed")
       \/ Goes(p, "packet", "select")
       \/ stream[Other(p)] # <<>> /\ pc' = [pc EXCEPT ![p] = "failed"]
    /\ UNCHANGED <<ready, taken, pending, stream, got, plength, written>>

Interrupt(p) ==
    /\ "interrupt" \in Faults
    /\ pc[p] \notin Over
    /\ pc' = [pc EXCEPT ![p] = "stopped"]
    /\ UNCHANGED <<ready, taken, pending, stream, got, plength, written>>

-----------------------------------------------------------------------------
Init ==
    /\ pc = [p \in Peers |-> "select"]
    /\ ready = [p \in Peers |-> {}]
    /\ taken = [p \in Peers |-> 0]
    /\ pending = [p \in Peers |-> <<>>]
    /\ stream = [p \in Peers |-> <<>>]
    /\ got = [p \in Peers |-> <<>>]
    /\ plength = [p \in Peers |-> 0]
    /\ written = [p \in Peers |-> <<>>]

Loop(p) ==
    \/ Select(p) \/ ReadTap(p) \/ WriteNet(p) \/ TurnToNet(p) \/ ReadByte(p)
    \/ LengthRead(p) \/ PacketRead(p) \/ EndOfStream(p)

Next == \E p \in Peers : Loop(p) \/ Interrupt(p)

\* Both processes run.
Spec == Init /\ [][Next]_vars /\ \A p \in Peers : WF_vars(Loop(p))

-----------------------------------------------------------------------------
(* Properties.                                                              *)

Byte == [v : 0 .. UINT8_MAX, packet : Nat, k : Nat]

\* Every variable has its type.
TypeOK ==
    /\ pc \in [Peers -> {"select", "tap", "write", "length", "packet"} \cup Over]
    /\ ready \in [Peers -> SUBSET {"tap", "net"}]
    /\ taken \in [Peers -> Nat] /\ \A p \in Peers : taken[p] <= Len(Packets[p])
    /\ pending \in [Peers -> Seq(Byte)]
    /\ stream \in [Peers -> Seq(Byte)] /\ \A p \in Peers : Len(stream[p]) <= Room
    /\ got \in [Peers -> Seq(Byte)]
    /\ plength \in [Peers -> 0 .. UINT16_MAX]
    /\ written \in [Peers -> Seq(Seq(Byte))]

\* "Now buffer[] contains a full packet" (comment in the loop): what is
\* written to one device is what was read from the other, packet by packet,
\* in order and whole, however the connection cuts it up and whoever stops.
PacketsWhole ==
    \A p \in Peers :
        /\ Len(written[p]) <= taken[Other(p)]
        /\ \A i \in DOMAIN written[p] : written[p][i] = Data(Other(p), i)

\* The length that is read never exceeds the buffer the packet is read into,
\* although nothing in the loop compares the two.
FitsBuffer == \A p \in Peers : plength[p] <= BufSize

\* What one device gets is a prefix of what the other gave, and no read goes
\* past the buffer.
TunnelSound == TypeOK /\ PacketsWhole /\ FitsBuffer

\* A peer that can write nothing, for the other does not read.
Blocked(p) == pc[p] = "write" /\ pending[p] # <<>> /\ Len(stream[Other(p)]) = Room
BothBlocked == \A p \in Peers : Blocked(p)
SomeOver == \E p \in Peers : pc[p] \in Over

\* Every packet arrives, unless a side ends or each waits for the other to
\* read: one direction alone never blocks the tunnel.
Arrives ==
    \A p \in Peers :
        []((pc[p] = "write") => <>(Len(written[Other(p)]) >= taken[p] \/ SomeOver \/ BothBlocked))

\* When one side ends, the other does not stay behind.
EndTogether == \A p \in Peers : (pc[p] \in Over) ~> (pc[Other(p)] \in Over)

=============================================================================
