-------------------------- MODULE Streams_proof --------------------------
(***************************************************************************)
(* Proofs about the programs that pass data over stream sockets.           *)
(*                                                                         *)
(* The tunnel: whatever the packets, the buffer and the connection's room  *)
(* are, each device gets the packets of the other side whole and in order, *)
(* and no packet read exceeds the buffer.                                  *)
(*                                                                         *)
(* The echo servers: whatever the clients send and whenever they leave,    *)
(* each gets back what it sent, in order and whole; and the TLS server     *)
(* frees the SSL object of each connection that it closes unless a reset   *)
(* came first.                                                             *)
(***************************************************************************)
EXTENDS MCStreams, FiniteSetTheorems, SequenceTheorems, WellFoundedInduction, TLAPS

-----------------------------------------------------------------------------
(* Sequences.                                                               *)

\* The bytes of a concatenation, as the two parts of a frame.
LEMMA Joined ==
    ASSUME NEW S, NEW s \in Seq(S), NEW t \in Seq(S)
    PROVE  /\ s \o t \in Seq(S) /\ Len(s \o t) = Len(s) + Len(t)
           /\ \A j \in 1 .. Len(s) : (s \o t)[j] = s[j]
           /\ \A k \in 1 .. Len(t) : (s \o t)[k + Len(s)] = t[k]
OBVIOUS

\* Only the empty queue has no elements.
LEMMA Empty ==
    ASSUME NEW S, NEW s \in Seq(S)
    PROVE  s = <<>> <=> Len(s) < 1
OBVIOUS

\* A queue from which its first element is taken.
LEMMA Removed ==
    ASSUME NEW S, NEW s \in Seq(S), s # <<>>
    PROVE  /\ Len(s) \in Nat \ {0} /\ Head(s) = s[1] /\ Head(s) \in S
           /\ Tail(s) \in Seq(S) /\ Len(Tail(s)) = Len(s) - 1
           /\ \A j \in 1 .. Len(s) - 1 : Tail(s)[j] = s[j + 1]
OBVIOUS

\* A queue to which an element is added.
LEMMA Added ==
    ASSUME NEW S, NEW s \in Seq(S), NEW e \in S
    PROVE  /\ Append(s, e) \in Seq(S) /\ Len(Append(s, e)) = Len(s) + 1
           /\ Append(s, e)[Len(s) + 1] = e
           /\ \A j \in 1 .. Len(s) : Append(s, e)[j] = s[j]
OBVIOUS

\* A function on 1 .. m is a sequence of length m.
LEMMA Built ==
    ASSUME NEW S, NEW m \in Nat, NEW s \in [1 .. m -> S]
    PROVE  s \in Seq(S) /\ Len(s) = m
OBVIOUS

\* Sequences of one length with the same elements are the same.
LEMMA Equal ==
    ASSUME NEW S, NEW s \in Seq(S), NEW t \in Seq(S), Len(s) = Len(t),
           \A j \in 1 .. Len(s) : s[j] = t[j]
    PROVE  s = t
OBVIOUS

-----------------------------------------------------------------------------
(* The peers, and the bytes of a frame.                                     *)

\* There are two peers, each the other of the other.
LEMMA Others ==
    ASSUME NEW p \in Peers
    PROVE  /\ Other(p) \in Peers
           /\ Other(p) # p
           /\ Other(Other(p)) = p
           /\ \A x \in Peers : x = p \/ x = Other(p)
<1>1. IsFiniteSet(Peers \ {p}) /\ Cardinality(Peers \ {p}) = 1
  <2>1. IsFiniteSet(Peers \ {p}) /\ Cardinality(Peers \ {p}) = Cardinality(Peers) - 1
    BY ConstantsAssumption, FS_RemoveElement
  <2> QED  BY <2>1, ConstantsAssumption
<1>2. PICK q : Peers \ {p} = {q}
  BY <1>1, FS_Singleton
<1>3. q \in Peers /\ q # p /\ \A x \in Peers : x = p \/ x = q
  BY <1>2
<1>4. \A x : (x \in Peers /\ x # p) <=> x = q
  BY <1>3
<1>5. Other(p) = q
  BY <1>4 DEF Other
<1>6. \A x : (x \in Peers /\ x # q) <=> x = p
  BY <1>3
<1>7. Other(q) = p
  BY <1>6 DEF Other
<1> QED  BY <1>3, <1>5, <1>7

\* How many bytes cwrite() is given for a packet.
Size(q, i) == Length(q, i) + 2

\* The two bytes of htons() are the number.
LEMMA TwoBytes ==
    ASSUME NEW m \in 1 .. UINT16_MAX
    PROVE  /\ m \div 256 \in 0 .. UINT8_MAX
           /\ m % 256 \in 0 .. UINT8_MAX
           /\ (m \div 256) * 256 + (m % 256) = m
<1>1. m \in Nat /\ m <= 65535
  BY SMTT(30) DEF UINT16_MAX
<1>2. /\ m \div 256 \in Nat /\ m \div 256 <= 255
      /\ m % 256 \in Nat /\ m % 256 <= 255
      /\ (m \div 256) * 256 + (m % 256) = m
  BY <1>1, SMT
<1>3. UINT8_MAX = 255
  BY DEF UINT8_MAX
<1> QED  BY <1>2, <1>3

\* A frame is its two bytes of length, then the bytes of the packet, of which
\* there is at least one and which fit the buffer.
LEMMA FrameFacts ==
    ASSUME NEW q \in Peers, NEW i \in 1 .. Len(Packets[q])
    PROVE  /\ Length(q, i) \in 1 .. BufSize
           /\ Length(q, i) \in 1 .. UINT16_MAX
           /\ Data(q, i) \in Seq(Byte) /\ Len(Data(q, i)) = Length(q, i)
           /\ Frame(q, i) \in Seq(Byte) /\ Len(Frame(q, i)) = Size(q, i)
           /\ \A k \in 1 .. Length(q, i) : Frame(q, i)[k + 2] = Data(q, i)[k]
           /\ Frame(q, i)[1].v * 256 + Frame(q, i)[2].v = Length(q, i)
<1>0. UINT16_MAX \in Nat /\ UINT8_MAX \in Nat
  BY DEF UINT16_MAX, UINT8_MAX
<1>1. Length(q, i) \in 1 .. BufSize /\ Length(q, i) \in 1 .. UINT16_MAX
  BY <1>0, ConstantsAssumption DEF Length
<1>2. Data(q, i) \in Seq(Byte) /\ Len(Data(q, i)) = Length(q, i)
  <2>1. Data(q, i) \in [1 .. Length(q, i) -> Byte]
    BY <1>0, <1>1 DEF Data, Byte
  <2> QED  BY <1>1, <2>1, Built
<1> DEFINE header == [k \in 1 .. 2 |-> [v |-> NetworkOrder(Length(q, i))[k], packet |-> i, k |-> 0]]
<1>3. header \in Seq(Byte) /\ Len(header) = 2
  <2>1. \A k \in 1 .. 2 : NetworkOrder(Length(q, i))[k] \in 0 .. UINT8_MAX
    BY <1>1, TwoBytes DEF NetworkOrder
  <2>2. \A k \in 1 .. 2 : header[k] \in Byte
    BY <2>1 DEF Byte
  <2>3. header \in [1 .. 2 -> Byte]
    BY <2>2
  <2> HIDE DEF header
  <2> QED  BY <2>3, Built
<1>4. header[1].v * 256 + header[2].v = Length(q, i)
  <2>1. header[1].v = Length(q, i) \div 256 /\ header[2].v = Length(q, i) % 256
    BY DEF NetworkOrder
  <2>2. (Length(q, i) \div 256) * 256 + (Length(q, i) % 256) = Length(q, i)
    BY <1>1, TwoBytes
  <2> QED  BY <2>1, <2>2
<1> HIDE DEF header
<1>5. Frame(q, i) = header \o Data(q, i)
  BY DEF Frame, header
<1>6. /\ Frame(q, i) \in Seq(Byte) /\ Len(Frame(q, i)) = Len(header) + Len(Data(q, i))
      /\ \A j \in 1 .. Len(header) : Frame(q, i)[j] = header[j]
      /\ \A k \in 1 .. Len(Data(q, i)) : Frame(q, i)[k + Len(header)] = Data(q, i)[k]
  <2> DEFINE body == Data(q, i)
  <2> HIDE DEF body
  <2>1. header \in Seq(Byte) /\ body \in Seq(Byte)
    BY <1>2, <1>3 DEF body
  <2>2. /\ header \o body \in Seq(Byte) /\ Len(header \o body) = Len(header) + Len(body)
        /\ \A j \in 1 .. Len(header) : (header \o body)[j] = header[j]
    BY <2>1, Joined
  <2>3. \A k \in 1 .. Len(body) : (header \o body)[k + Len(header)] = body[k]
    BY <2>1, Joined
  <2> QED  BY <1>5, <2>2, <2>3 DEF body
<1>7. Frame(q, i) \in Seq(Byte) /\ Len(Frame(q, i)) = Size(q, i)
  BY <1>1, <1>2, <1>3, <1>6 DEF Size
<1>8. /\ \A k \in 1 .. Length(q, i) : Frame(q, i)[k + 2] = Data(q, i)[k]
      /\ Frame(q, i)[1] = header[1] /\ Frame(q, i)[2] = header[2]
  BY <1>1, <1>2, <1>3, <1>6
<1> QED  BY <1>1, <1>2, <1>4, <1>7, <1>8

-----------------------------------------------------------------------------
(* The bytes on their way.  Peer q has taken t packets and pd is what        *)
(* cwrite() has left of the last; the bytes s in the connection are told to  *)
(* their frame f[x] and their place o[x] in it, and so is the byte after     *)
(* them, which is the next that q writes.                                    *)

\* What cwrite() has left is the end of the last frame.
Left(q, t, pd) ==
    pd # <<>> =>
        /\ t \in 1 .. Len(Packets[q])
        /\ Len(pd) <= Size(q, t)
        /\ \A j \in 1 .. Len(pd) : pd[j] = Frame(q, t)[Size(q, t) - Len(pd) + j]

Chain(q, s, t, pd, f, o) ==
    /\ f \in [1 .. Len(s) + 1 -> Nat]
    /\ o \in [1 .. Len(s) + 1 -> Nat]
    /\ \A x \in 1 .. Len(s) :
          /\ f[x] \in 1 .. t
          /\ o[x] \in 1 .. Size(q, f[x])
          /\ s[x] = Frame(q, f[x])[o[x]]
          /\ IF o[x] = Size(q, f[x]) THEN f[x + 1] = f[x] + 1 /\ o[x + 1] = 1
                                     ELSE f[x + 1] = f[x] /\ o[x + 1] = o[x] + 1
    /\ IF pd = <<>> THEN f[Len(s) + 1] = t + 1 /\ o[Len(s) + 1] = 1
                    ELSE f[Len(s) + 1] = t /\ o[Len(s) + 1] = Size(q, t) - Len(pd) + 1

\* A new packet, when nothing is left of the one before.
LEMMA ChainTake ==
    ASSUME NEW q \in Peers, NEW s \in Seq(Byte), NEW t \in Nat,
           t + 1 \in 1 .. Len(Packets[q]),
           NEW f, NEW o, Chain(q, s, t, <<>>, f, o)
    PROVE  /\ Chain(q, s, t + 1, Frame(q, t + 1), f, o)
           /\ Left(q, t + 1, Frame(q, t + 1))
<1>1. /\ Frame(q, t + 1) \in Seq(Byte) /\ Len(Frame(q, t + 1)) = Size(q, t + 1)
      /\ Size(q, t + 1) \in Nat /\ Size(q, t + 1) > 2
  BY FrameFacts DEF Size
<1>2. Frame(q, t + 1) # <<>>
  BY <1>1
<1>3. Left(q, t + 1, Frame(q, t + 1))
  BY <1>1, <1>2 DEF Left
<1>4. f[Len(s) + 1] = t + 1 /\ o[Len(s) + 1] = 1
  BY DEF Chain
<1>5. \A x \in 1 .. Len(s) : f[x] \in 1 .. t + 1
  BY DEF Chain
<1> QED  BY <1>1, <1>2, <1>3, <1>4, <1>5 DEF Chain

\* What is left to be written stays an end of the frame.
LEMMA LeftTail ==
    ASSUME NEW q \in Peers, NEW t \in Nat, NEW pd \in Seq(Byte), pd # <<>>, Left(q, t, pd)
    PROVE  Left(q, t, Tail(pd))
<1>1. /\ t \in 1 .. Len(Packets[q]) /\ Size(q, t) \in Nat
      /\ Len(pd) \in 1 .. Size(q, t)
      /\ \A j \in 1 .. Len(pd) : pd[j] = Frame(q, t)[Size(q, t) - Len(pd) + j]
  BY FrameFacts DEF Left, Size
<1>2. /\ Len(Tail(pd)) = Len(pd) - 1
      /\ \A j \in 1 .. Len(pd) - 1 : Tail(pd)[j] = pd[j + 1]
  BY Removed
<1> SUFFICES ASSUME Tail(pd) # <<>>, NEW j \in 1 .. Len(Tail(pd))
             PROVE  Tail(pd)[j] = Frame(q, t)[Size(q, t) - Len(Tail(pd)) + j]
  BY <1>1, <1>2 DEF Left
<1>3. Tail(pd)[j] = pd[j + 1] /\ j + 1 \in 1 .. Len(pd)
  BY <1>1, <1>2
<1>4. Size(q, t) - Len(Tail(pd)) + j = Size(q, t) - Len(pd) + (j + 1)
  BY <1>1, <1>2
<1> QED  BY <1>1, <1>3, <1>4

\* write() of one byte.
LEMMA ChainPush ==
    ASSUME NEW q \in Peers, NEW s \in Seq(Byte), NEW t \in Nat, NEW pd \in Seq(Byte),
           pd # <<>>, Left(q, t, pd), NEW f, NEW o, Chain(q, s, t, pd, f, o)
    PROVE  \E f2, o2 : /\ Chain(q, Append(s, Head(pd)), t, Tail(pd), f2, o2)
                       /\ f2[1] = f[1] /\ o2[1] = o[1]
<1> DEFINE N == Len(s)
           last == Len(pd) < 2
           f2 == [x \in 1 .. N + 2 |-> IF x <= N + 1 THEN f[x] ELSE IF last THEN t + 1 ELSE t]
           o2 == [x \in 1 .. N + 2 |-> IF x <= N + 1 THEN o[x]
                                       ELSE IF last THEN 1 ELSE Size(q, t) - Len(pd) + 2]
           s2 == Append(s, Head(pd))
<1>1. /\ t \in 1 .. Len(Packets[q]) /\ Size(q, t) \in Nat
      /\ Len(pd) \in 1 .. Size(q, t)
      /\ \A j \in 1 .. Len(pd) : pd[j] = Frame(q, t)[Size(q, t) - Len(pd) + j]
  BY FrameFacts DEF Left, Size
<1>2. /\ Tail(pd) \in Seq(Byte) /\ Len(Tail(pd)) = Len(pd) - 1
      /\ \A j \in 1 .. Len(pd) - 1 : Tail(pd)[j] = pd[j + 1]
      /\ Head(pd) = pd[1] /\ Head(pd) \in Byte
      /\ (Tail(pd) = <<>>) <=> last
  <2>1. /\ Tail(pd) \in Seq(Byte) /\ Len(Tail(pd)) = Len(pd) - 1
        /\ \A j \in 1 .. Len(pd) - 1 : Tail(pd)[j] = pd[j + 1]
        /\ Head(pd) = pd[1] /\ Head(pd) \in Byte
    BY Removed
  <2>2. (Tail(pd) = <<>>) <=> Len(Tail(pd)) < 1
    BY <2>1, Empty
  <2>3. (Tail(pd) = <<>>) <=> last
    <3>1. Len(pd) \in Nat /\ Len(Tail(pd)) = Len(pd) - 1
      BY <1>1, <2>1
    <3> QED  BY <2>2, <3>1
  <2> QED  BY <2>1, <2>3
<1>4. Len(s2) = N + 1 /\ s2[N + 1] = pd[1] /\ \A x \in 1 .. N : s2[x] = s[x]
  BY <1>2, Added
<1>5. /\ f \in [1 .. N + 1 -> Nat] /\ o \in [1 .. N + 1 -> Nat]
      /\ f[N + 1] = t /\ o[N + 1] = Size(q, t) - Len(pd) + 1
  BY DEF Chain
<1>6. /\ f2 \in [1 .. N + 2 -> Nat] /\ o2 \in [1 .. N + 2 -> Nat]
      /\ f2[N + 2] = IF last THEN t + 1 ELSE t
      /\ o2[N + 2] = IF last THEN 1 ELSE Size(q, t) - Len(pd) + 2
      /\ \A x \in 1 .. N + 1 : f2[x] = f[x] /\ o2[x] = o[x]
  BY <1>1, <1>5, SMTT(30)
<1> HIDE DEF f2, o2, s2
<1>7. \A x \in 1 .. N :
          /\ f2[x] \in 1 .. t
          /\ o2[x] \in 1 .. Size(q, f2[x])
          /\ s2[x] = Frame(q, f2[x])[o2[x]]
          /\ IF o2[x] = Size(q, f2[x]) THEN f2[x + 1] = f2[x] + 1 /\ o2[x + 1] = 1
                                       ELSE f2[x + 1] = f2[x] /\ o2[x + 1] = o2[x] + 1
  BY <1>4, <1>6 DEF Chain
<1>8. /\ f2[N + 1] \in 1 .. t
      /\ o2[N + 1] \in 1 .. Size(q, f2[N + 1])
      /\ s2[N + 1] = Frame(q, f2[N + 1])[o2[N + 1]]
      /\ IF o2[N + 1] = Size(q, f2[N + 1])
         THEN f2[(N + 1) + 1] = f2[N + 1] + 1 /\ o2[(N + 1) + 1] = 1
         ELSE f2[(N + 1) + 1] = f2[N + 1] /\ o2[(N + 1) + 1] = o2[N + 1] + 1
  <2>1. /\ f2[N + 1] = t /\ t \in 1 .. t
        /\ o2[N + 1] = Size(q, t) - Len(pd) + 1
    <3>1. N + 1 \in 1 .. N + 1
      OBVIOUS
    <3>2. f2[N + 1] = f[N + 1] /\ o2[N + 1] = o[N + 1]
      BY <1>6, <3>1
    <3> QED  BY <1>1, <1>5, <3>2
  <2>4. o2[N + 1] \in 1 .. Size(q, t) /\ ((o2[N + 1] = Size(q, t)) <=> last)
    <3>1. Size(q, t) \in Nat /\ Len(pd) \in Nat /\ Len(pd) \in 1 .. Size(q, t)
      BY <1>1
    <3>2. o2[N + 1] = Size(q, t) - Len(pd) + 1
      BY <2>1
    <3> QED  BY <3>1, <3>2
  <2>2. s2[N + 1] = Frame(q, t)[o2[N + 1]]
    BY <1>1, <1>4, <2>1
  <2>3. (N + 1) + 1 = N + 2 /\ Size(q, t) - Len(pd) + 2 = (Size(q, t) - Len(pd) + 1) + 1
    BY <1>1
  <2> QED  BY <1>6, <2>1, <2>2, <2>3, <2>4
<1>9. Chain(q, s2, t, Tail(pd), f2, o2)
  <2>1. Len(s2) + 1 = N + 2 /\ N \in Nat
    BY <1>4
  <2>2. IF Tail(pd) = <<>> THEN f2[N + 2] = t + 1 /\ o2[N + 2] = 1
        ELSE f2[N + 2] = t /\ o2[N + 2] = Size(q, t) - Len(Tail(pd)) + 1
    <3>1. Size(q, t) - Len(Tail(pd)) + 1 = Size(q, t) - Len(pd) + 2
      BY <1>1, <1>2
    <3> QED  BY <1>2, <1>6, <3>1
  <2>3. \A x \in 1 .. Len(s2) : x \in 1 .. N \/ x = N + 1
    BY <1>4, <2>1
  <2> QED  BY <1>4, <1>6, <1>7, <1>8, <2>1, <2>2, <2>3 DEF Chain
<1>10. f2[1] = f[1] /\ o2[1] = o[1]
  BY <1>6
<1> QED  BY <1>9, <1>10 DEF s2

\* read() of one byte: it is the byte at the first place, and the place after
\* it comes next.
LEMMA ChainPop ==
    ASSUME NEW q \in Peers, NEW s \in Seq(Byte), NEW t \in Nat, NEW pd \in Seq(Byte),
           s # <<>>, NEW f, NEW o, Chain(q, s, t, pd, f, o)
    PROVE  /\ f[1] \in 1 .. t
           /\ Head(s) = Frame(q, f[1])[o[1]]
           /\ \E f2, o2 : /\ Chain(q, Tail(s), t, pd, f2, o2)
                          /\ IF o[1] = Size(q, f[1]) THEN f2[1] = f[1] + 1 /\ o2[1] = 1
                                                     ELSE f2[1] = f[1] /\ o2[1] = o[1] + 1
<1> DEFINE N == Len(s)
           f2 == [x \in 1 .. N |-> f[x + 1]]
           o2 == [x \in 1 .. N |-> o[x + 1]]
           s2 == Tail(s)
<1>1. /\ N \in Nat \ {0} /\ s2 \in Seq(Byte) /\ Len(s2) = N - 1
      /\ Head(s) = s[1] /\ \A x \in 1 .. N - 1 : s2[x] = s[x + 1]
  BY Removed
<1>2. /\ f2 \in [1 .. N -> Nat] /\ o2 \in [1 .. N -> Nat]
      /\ \A x \in 1 .. N : f2[x] = f[x + 1] /\ o2[x] = o[x + 1]
  BY <1>1, SMTT(30) DEF Chain
<1>3. f[1] \in 1 .. t /\ Head(s) = Frame(q, f[1])[o[1]]
  BY <1>1 DEF Chain
<1>4. IF o[1] = Size(q, f[1]) THEN f2[1] = f[1] + 1 /\ o2[1] = 1
                              ELSE f2[1] = f[1] /\ o2[1] = o[1] + 1
  <2>1. 1 \in 1 .. Len(s) /\ f2[1] = f[1 + 1] /\ o2[1] = o[1 + 1]
    BY <1>1, <1>2
  <2> HIDE DEF f2, o2
  <2> QED  BY <2>1 DEF Chain
<1> HIDE DEF f2, o2, s2, N
<1>5. \A x \in 1 .. N - 1 :
          /\ f2[x] \in 1 .. t
          /\ o2[x] \in 1 .. Size(q, f2[x])
          /\ s2[x] = Frame(q, f2[x])[o2[x]]
          /\ IF o2[x] = Size(q, f2[x]) THEN f2[x + 1] = f2[x] + 1 /\ o2[x + 1] = 1
                                       ELSE f2[x + 1] = f2[x] /\ o2[x + 1] = o2[x] + 1
  <2> SUFFICES ASSUME NEW x \in 1 .. N - 1
               PROVE  /\ f2[x] \in 1 .. t
                      /\ o2[x] \in 1 .. Size(q, f2[x])
                      /\ s2[x] = Frame(q, f2[x])[o2[x]]
                      /\ IF o2[x] = Size(q, f2[x]) THEN f2[x + 1] = f2[x] + 1 /\ o2[x + 1] = 1
                                                   ELSE f2[x + 1] = f2[x] /\ o2[x + 1] = o2[x] + 1
    OBVIOUS
  <2>1. /\ f2[x] = f[x + 1] /\ o2[x] = o[x + 1] /\ s2[x] = s[x + 1]
        /\ f2[x + 1] = f[(x + 1) + 1] /\ o2[x + 1] = o[(x + 1) + 1]
        /\ x + 1 \in 1 .. Len(s)
    BY <1>1, <1>2 DEF N
  <2>2. /\ f[x + 1] \in 1 .. t
        /\ o[x + 1] \in 1 .. Size(q, f[x + 1])
        /\ s[x + 1] = Frame(q, f[x + 1])[o[x + 1]]
        /\ IF o[x + 1] = Size(q, f[x + 1]) THEN f[(x + 1) + 1] = f[x + 1] + 1 /\ o[(x + 1) + 1] = 1
                                     ELSE f[(x + 1) + 1] = f[x + 1] /\ o[(x + 1) + 1] = o[x + 1] + 1
    BY <2>1 DEF Chain
  <2> QED  BY <2>1, <2>2
<1>6. IF pd = <<>> THEN f2[N] = t + 1 /\ o2[N] = 1
                   ELSE f2[N] = t /\ o2[N] = Size(q, t) - Len(pd) + 1
  <2>1. f2[N] = f[Len(s) + 1] /\ o2[N] = o[Len(s) + 1]
    BY <1>1, <1>2 DEF N
  <2> QED  BY <2>1 DEF Chain
<1>7. Chain(q, s2, t, pd, f2, o2)
  <2>1. Len(s2) = N - 1 /\ Len(s2) + 1 = N
    BY <1>1
  <2> QED  BY <1>2, <1>5, <1>6, <2>1 DEF Chain
<1> QED  BY <1>3, <1>4, <1>7 DEF s2

-----------------------------------------------------------------------------
(* The inductive invariant.                                                 *)

Moving == {"select", "tap", "write"}

\* Where a peer that is at "at" is in the bytes of q: it reads frame m, has
\* read g of it, and the next byte on its way has place k of frame i.
Reads(q, t, at, m, g, ln, i, k) ==
    /\ at \in Moving => i = m /\ k = 1
    /\ at = "length" =>
          /\ i = m /\ k = Len(g) + 1 /\ Len(g) <= 2
          /\ \A j \in 1 .. Len(g) : g[j] = Frame(q, m)[j]
          /\ Len(g) > 0 => m <= t
    /\ at = "packet" =>
          /\ m <= t /\ ln = Length(q, m) /\ Len(g) <= ln
          /\ \A j \in 1 .. Len(g) : g[j] = Data(q, m)[j]
          /\ IF Len(g) = ln THEN i = m + 1 /\ k = 1 ELSE i = m /\ k = Len(g) + 3

\* What is on its way to p goes on where p is.
InStep(p) ==
    \E f, o :
        /\ Chain(Other(p), stream[p], taken[Other(p)], pending[Other(p)], f, o)
        /\ Reads(Other(p), taken[Other(p)], pc[p], Len(written[p]) + 1, got[p], plength[p],
                 f[1], o[1])

\* The other side is gone, and p will never read a byte again.
Lost(p) ==
    /\ pc[Other(p)] \in Over
    /\ stream[p] = <<>>
    /\ pc[p] # "packet"
    /\ pc[p] = "length" => got[p] = <<>>

Live(p) == pc[p] \in Over \/ Lost(p) \/ InStep(p)

Sends(p) ==
    /\ Left(p, taken[p], pending[p])
    /\ pc[p] \in {"write"} \cup Over \/ pending[p] = <<>>
    /\ pc[p] = "tap" /\ "tap" \in ready[p] => TapReady(p)

IInv ==
    /\ TypeOK
    /\ FitsBuffer
    /\ PacketsWhole
    /\ \A p \in Peers : Sends(p) /\ Live(p)

-----------------------------------------------------------------------------
(* What a step keeps.                                                       *)

\* A peer whose connection, packets and place a step leaves alone is as before.
LEMMA Untouched ==
    ASSUME NEW x \in Peers, Live(x),
           stream'[x] = stream[x], got'[x] = got[x], plength'[x] = plength[x],
           written'[x] = written[x], pc'[x] = pc[x],
           taken'[Other(x)] = taken[Other(x)], pending'[Other(x)] = pending[Other(x)],
           pc[Other(x)] \in Over => pc'[Other(x)] \in Over
    PROVE  Live(x)'
<1>1. CASE pc[x] \in Over
  BY <1>1 DEF Live
<1>2. CASE Lost(x)
  BY <1>2 DEF Live, Lost
<1>3. CASE InStep(x)
  <2>1. InStep(x)'
    BY <1>3 DEF InStep
  <2> QED  BY <2>1 DEF Live
<1> QED  BY <1>1, <1>2, <1>3 DEF Live

\* What p writes does not change where a peer is that reads nothing of it.
LEMMA Moved ==
    ASSUME NEW x \in Peers, Live(x), pc[x] \in Moving, pc'[x] \in Moving,
           stream'[x] = stream[x], written'[x] = written[x],
           taken'[Other(x)] = taken[Other(x)], pending'[Other(x)] = pending[Other(x)],
           pc'[Other(x)] = pc[Other(x)]
    PROVE  Live(x)'
<1>1. pc[x] \notin Over
  BY DEF Moving, Over
<1>2. CASE Lost(x)
  BY <1>2 DEF Live, Lost, Moving
<1>3. CASE InStep(x)
  <2>1. PICK f, o :
           /\ Chain(Other(x), stream[x], taken[Other(x)], pending[Other(x)], f, o)
           /\ Reads(Other(x), taken[Other(x)], pc[x], Len(written[x]) + 1, got[x], plength[x],
                    f[1], o[1])
    BY <1>3 DEF InStep
  <2>2. Reads(Other(x), taken[Other(x)], pc'[x], Len(written[x]) + 1, got'[x], plength'[x],
              f[1], o[1])
    BY <2>1 DEF Reads, Moving
  <2>3. InStep(x)'
    BY <2>1, <2>2 DEF InStep
  <2> QED  BY <2>3 DEF Live
<1> QED  BY <1>1, <1>2, <1>3 DEF Live

\* The conjuncts about packets and buffer, when nothing is written or measured.
LEMMA Quiet ==
    ASSUME TypeOK, FitsBuffer, PacketsWhole, UNCHANGED <<plength, written>>,
           \A x \in Peers : taken'[x] \in Nat /\ taken[x] <= taken'[x]
    PROVE  FitsBuffer' /\ PacketsWhole'
<1>1. FitsBuffer'
  BY DEF FitsBuffer
<1>2. \A x \in Peers : Len(written[x]) <= taken'[Other(x)]
  <2> SUFFICES ASSUME NEW x \in Peers
               PROVE  Len(written[x]) <= taken'[Other(x)]
    OBVIOUS
  <2>1. Other(x) \in Peers
    BY Others
  <2>2. Len(written[x]) \in Nat /\ taken[Other(x)] \in Nat /\ Len(written[x]) <= taken[Other(x)]
    BY <2>1 DEF TypeOK, PacketsWhole
  <2> QED  BY <2>1, <2>2
<1>3. PacketsWhole'
  BY <1>2 DEF PacketsWhole
<1> QED  BY <1>1, <1>3

\* select() and the turn of the loop.
LEMMA SelectStep ==
    ASSUME IInv, NEW p \in Peers, Select(p)
    PROVE  IInv'
<1> DEFINE q == Other(p)
<1>0. q \in Peers /\ q # p /\ Other(q) = p /\ \A x \in Peers : x = p \/ x = q
  BY Others
<1>1. /\ TypeOK /\ FitsBuffer /\ PacketsWhole
      /\ \A x \in Peers : Sends(x) /\ Live(x)
  BY DEF IInv
<1> HIDE DEF q
<1>2. /\ pc[p] = "select" /\ pc' = [pc EXCEPT ![p] = "tap"]
      /\ UNCHANGED <<taken, pending, stream, got, plength, written>>
  BY DEF Select, Goes
<1>3. pc'[p] = "tap" /\ pc'[q] = pc[q]
  BY <1>0, <1>1, <1>2 DEF TypeOK
<1>4. TypeOK'
  <2>1. ready' \in [Peers -> SUBSET {"tap", "net"}]
    BY <1>1 DEF Select, TypeOK
  <2>2. pc' \in [Peers -> {"select", "tap", "write", "length", "packet"} \cup Over]
    BY <1>1, <1>2 DEF TypeOK
  <2> QED  BY <1>1, <1>2, <2>1, <2>2 DEF TypeOK
<1>5. FitsBuffer' /\ PacketsWhole'
  BY <1>1, <1>2, Quiet DEF TypeOK
<1>6. Live(p)'
  BY <1>0, <1>1, <1>2, <1>3, Moved DEF Moving, q
<1>7. Live(q)'
  <2>1. pc[p] \notin Over
    BY <1>2 DEF Over
  <2> QED  BY <1>0, <1>1, <1>2, <1>3, <2>1, Untouched
<1>8. Sends(p)' /\ Sends(q)'
  <2>1. Left(p, taken'[p], pending'[p]) /\ Left(q, taken'[q], pending'[q])
    BY <1>0, <1>1, <1>2 DEF Sends
  <2>2. pending'[p] = <<>> /\ (pc'[q] \in {"write"} \cup Over \/ pending'[q] = <<>>)
    BY <1>0, <1>1, <1>2, <1>3 DEF Sends, Over
  <2>3. ready'[q] = ready[q] /\ ("tap" \in ready'[p] => TapReady(p))
    BY <1>0, <1>1 DEF Select, TypeOK
  <2>4. TapReady(p)' = TapReady(p) /\ TapReady(q)' = TapReady(q)
    BY <1>2 DEF TapReady
  <2> QED  BY <1>0, <1>1, <1>3, <2>1, <2>2, <2>3, <2>4 DEF Sends
<1> QED  BY <1>0, <1>4, <1>5, <1>6, <1>7, <1>8 DEF IInv

\* read() of the device: the packet's frame follows what is on its way.
LEMMA ReadTapStep ==
    ASSUME IInv, NEW p \in Peers, ReadTap(p)
    PROVE  IInv'
<1> DEFINE q == Other(p)
           t == taken[p]
<1>0. q \in Peers /\ q # p /\ Other(q) = p /\ \A x \in Peers : x = p \/ x = q
  BY Others
<1>1. /\ TypeOK /\ FitsBuffer /\ PacketsWhole
      /\ \A x \in Peers : Sends(x) /\ Live(x)
  BY DEF IInv
<1> HIDE DEF q
<1>2. /\ pc[p] = "tap" /\ pc' = [pc EXCEPT ![p] = "write"]
      /\ taken' = [taken EXCEPT ![p] = t + 1]
      /\ pending' = [pending EXCEPT ![p] = Frame(p, t + 1)]
      /\ UNCHANGED <<ready, stream, got, plength, written>>
  BY DEF ReadTap, Goes
<1>3. /\ t \in Nat /\ t + 1 \in 1 .. Len(Packets[p])
      /\ Frame(p, t + 1) \in Seq(Byte)
  <2>1. t \in Nat /\ t < Len(Packets[p])
    BY <1>1, <1>2 DEF TypeOK, TapReady, Sends, ReadTap
  <2>2. Len(Packets[p]) \in Nat
    BY ConstantsAssumption
  <2>3. t + 1 \in 1 .. Len(Packets[p])
    BY <2>1, <2>2
  <2> QED  BY <2>1, <2>3, FrameFacts
<1>4. /\ pc'[p] = "write" /\ pc'[q] = pc[q]
      /\ taken'[p] = t + 1 /\ taken'[q] = taken[q]
      /\ pending'[p] = Frame(p, t + 1) /\ pending'[q] = pending[q]
  BY <1>0, <1>1, <1>2 DEF TypeOK
<1>5. TypeOK'
  <2>1. pc' \in [Peers -> {"select", "tap", "write", "length", "packet"} \cup Over]
    BY <1>1, <1>2 DEF TypeOK
  <2>2. taken' \in [Peers -> Nat] /\ pending' \in [Peers -> Seq(Byte)]
    BY <1>1, <1>2, <1>3 DEF TypeOK
  <2>3. \A x \in Peers : taken'[x] <= Len(Packets[x])
    <3>1. taken'[p] <= Len(Packets[p])
      BY <1>3, <1>4
    <3>2. taken'[q] <= Len(Packets[q])
      BY <1>0, <1>1, <1>4 DEF TypeOK
    <3> QED  BY <1>0, <3>1, <3>2
  <2> QED  BY <1>1, <1>2, <2>1, <2>2, <2>3 DEF TypeOK
<1>6. FitsBuffer' /\ PacketsWhole'
  <2>1. \A x \in Peers : taken'[x] \in Nat /\ taken[x] <= taken'[x]
    <3>1. taken'[p] \in Nat /\ taken[p] <= taken'[p]
      BY <1>3, <1>4
    <3>2. taken'[q] \in Nat /\ taken[q] <= taken'[q]
      BY <1>0, <1>1, <1>4 DEF TypeOK
    <3> QED  BY <1>0, <3>1, <3>2
  <2> QED  BY <1>1, <1>2, <2>1, Quiet
<1>7. pending[p] = <<>>
  BY <1>1, <1>2 DEF Sends, Over
<1>8. Live(p)'
  BY <1>0, <1>1, <1>2, <1>4, Moved DEF Moving, q
<1>9. Live(q)'
  <2>1. CASE pc[q] \in Over
    BY <1>4, <2>1 DEF Live
  <2>2. pc[p] \notin Over
    BY <1>2 DEF Over
  <2>3. CASE InStep(q)
    <3>1. PICK f, o :
             /\ Chain(p, stream[q], t, <<>>, f, o)
             /\ Reads(p, t, pc[q], Len(written[q]) + 1, got[q], plength[q], f[1], o[1])
      BY <1>0, <1>7, <2>3 DEF InStep
    <3>2. stream[q] \in Seq(Byte) /\ Len(written[q]) + 1 \in Nat
      BY <1>0, <1>1 DEF TypeOK
    <3>3. Chain(p, stream[q], t + 1, Frame(p, t + 1), f, o)
      BY <1>3, <3>1, <3>2, ChainTake
    <3>4. Reads(p, t + 1, pc[q], Len(written[q]) + 1, got[q], plength[q], f[1], o[1])
      BY <1>3, <3>1, <3>2 DEF Reads
    <3>5. InStep(q)'
      BY <1>0, <1>2, <1>4, <3>3, <3>4 DEF InStep
    <3> QED  BY <3>5 DEF Live
  <2> QED  BY <1>0, <1>1, <2>1, <2>2, <2>3 DEF Live, Lost
<1>10. Sends(p)' /\ Sends(q)'
  <2>1. Left(p, t + 1, Frame(p, t + 1))
    <3>1. /\ Len(Frame(p, t + 1)) = Size(p, t + 1) /\ Size(p, t + 1) \in Nat
      BY <1>3, FrameFacts DEF Size
    <3> QED  BY <1>3, <3>1 DEF Left
  <2> QED  BY <1>0, <1>1, <1>2, <1>4, <2>1 DEF Sends, TapReady
<1> QED  BY <1>0, <1>5, <1>6, <1>8, <1>9, <1>10 DEF IInv

\* write() on the connection: the other side is later told this byte.
LEMMA WriteNetStep ==
    ASSUME IInv, NEW p \in Peers, WriteNet(p)
    PROVE  IInv'
<1> DEFINE q == Other(p)
<1>0. q \in Peers /\ q # p /\ Other(q) = p /\ \A x \in Peers : x = p \/ x = q
  BY Others
<1>1. /\ TypeOK /\ FitsBuffer /\ PacketsWhole
      /\ \A x \in Peers : Sends(x) /\ Live(x)
  BY DEF IInv
<1> HIDE DEF q
<1>2. /\ pc[p] = "write" /\ pending[p] # <<>>
      /\ UNCHANGED <<ready, taken, got, plength, written>>
  BY DEF WriteNet, Goes
<1>3. FitsBuffer' /\ PacketsWhole'
  BY <1>1, <1>2, Quiet DEF TypeOK
<1>4. pc[p] \notin Over
  BY <1>2 DEF Over
<1>5. ASSUME pc' = [pc EXCEPT ![p] = "write"],
             RoomLeft(q),
             stream' = [stream EXCEPT ![q] = Append(@, Head(pending[p]))],
             pending' = [pending EXCEPT ![p] = Tail(@)]
      PROVE  IInv'
  <2>1. /\ pending[p] \in Seq(Byte) /\ Tail(pending[p]) \in Seq(Byte)
        /\ Head(pending[p]) \in Byte
    BY <1>1, <1>2, Removed DEF TypeOK
  <2>2. /\ stream[q] \in Seq(Byte)
        /\ Append(stream[q], Head(pending[p])) \in Seq(Byte)
        /\ Len(Append(stream[q], Head(pending[p]))) = Len(stream[q]) + 1
    BY <1>0, <1>1, <2>1, Added DEF TypeOK
  <2>3. /\ stream'[q] = Append(stream[q], Head(pending[p])) /\ stream'[p] = stream[p]
        /\ pending'[p] = Tail(pending[p]) /\ pending'[q] = pending[q]
        /\ pc' = pc
    BY <1>0, <1>1, <1>2, <1>5 DEF TypeOK
  <2>4. TypeOK'
    <3>1. stream' \in [Peers -> Seq(Byte)] /\ pending' \in [Peers -> Seq(Byte)]
      BY <1>0, <1>1, <1>5, <2>1, <2>2 DEF TypeOK
    <3>2. Len(stream'[q]) <= Room
      <4>1. Len(stream[q]) \in Nat /\ Room \in Nat /\ Len(stream[q]) < Room
        BY <1>5, <2>2, ConstantsAssumption DEF RoomLeft
      <4>2. Len(stream'[q]) = Len(stream[q]) + 1
        BY <2>2, <2>3
      <4> QED  BY <4>1, <4>2
    <3>3. \A x \in Peers : Len(stream'[x]) <= Room
      BY <1>0, <1>1, <2>3, <3>2 DEF TypeOK
    <3> QED  BY <1>1, <1>2, <2>3, <3>1, <3>3 DEF TypeOK
  <2>5. Left(p, taken[p], pending[p])
    BY <1>1 DEF Sends
  <2>6. Live(q)'
    <3> SUFFICES ASSUME pc[q] \notin Over PROVE Live(q)'
      BY <2>3 DEF Live
    <3>1. InStep(q)
      BY <1>0, <1>1, <1>4, <1>5 DEF Live, Lost
    <3>2. PICK f, o :
             /\ Chain(p, stream[q], taken[p], pending[p], f, o)
             /\ Reads(p, taken[p], pc[q], Len(written[q]) + 1, got[q], plength[q], f[1], o[1])
      BY <1>0, <3>1 DEF InStep
    <3>3. taken[p] \in Nat
      BY <1>1 DEF TypeOK
    <3>4. PICK f2, o2 : /\ Chain(p, Append(stream[q], Head(pending[p])), taken[p],
                                 Tail(pending[p]), f2, o2)
                        /\ f2[1] = f[1] /\ o2[1] = o[1]
      <4>1. pending[p] \in Seq(Byte) /\ pending[p] # <<>> /\ stream[q] \in Seq(Byte)
        BY <1>2, <2>1, <2>2
      <4> DEFINE s == stream[q]
                 t == taken[p]
                 pd == pending[p]
      <4>2. Chain(p, s, t, pd, f, o) /\ Left(p, t, pd)
        BY <2>5, <3>2
      <4>3. s \in Seq(Byte) /\ t \in Nat /\ pd \in Seq(Byte) /\ pd # <<>>
        BY <3>3, <4>1
      <4> HIDE DEF s, t, pd
      <4>4. \E f2, o2 : Chain(p, Append(s, Head(pd)), t, Tail(pd), f2, o2) /\ f2[1] = f[1] /\ o2[1] = o[1]
        BY <4>2, <4>3, ChainPush
      <4> QED  BY <4>4 DEF s, t, pd
    <3>5. InStep(q)'
      BY <1>0, <1>2, <2>3, <3>2, <3>4 DEF InStep
    <3> QED  BY <3>5 DEF Live
  <2>7. Live(p)'
    BY <1>0, <1>1, <1>2, <2>3, Untouched DEF q
  <2>8. Left(p, taken[p], Tail(pending[p]))
    BY <1>1, <1>2, <2>1, <2>5, LeftTail DEF TypeOK
  <2>9. Sends(p)' /\ Sends(q)'
    BY <1>0, <1>1, <1>2, <2>3, <2>8 DEF Sends, TapReady
  <2> QED  BY <1>0, <1>3, <2>4, <2>6, <2>7, <2>9 DEF IInv
<1>6. ASSUME pc' = [pc EXCEPT ![p] = "failed"], UNCHANGED <<stream, pending>>
      PROVE  IInv'
  <2>1. pc'[p] = "failed" /\ pc'[q] = pc[q]
    BY <1>0, <1>1, <1>6 DEF TypeOK
  <2>2. TypeOK'
    <3>1. pc' \in [Peers -> {"select", "tap", "write", "length", "packet"} \cup Over]
      BY <1>1, <1>6 DEF TypeOK, Over
    <3> QED  BY <1>1, <1>2, <1>6, <3>1 DEF TypeOK
  <2>3. Live(p)'
    BY <2>1 DEF Live, Over
  <2>4. Live(q)'
    BY <1>0, <1>1, <1>2, <1>4, <1>6, <2>1, Untouched
  <2>5. Sends(p)' /\ Sends(q)'
    BY <1>0, <1>1, <1>2, <1>6, <2>1 DEF Sends, Over, TapReady
  <2> QED  BY <1>0, <1>3, <2>2, <2>3, <2>4, <2>5 DEF IInv
<1> QED  BY <1>5, <1>6 DEF WriteNet, Goes, q

\* The turn to the connection, or back to select().
LEMMA TurnToNetStep ==
    ASSUME IInv, NEW p \in Peers, TurnToNet(p)
    PROVE  IInv'
<1> DEFINE q == Other(p)
<1>0. q \in Peers /\ q # p /\ Other(q) = p /\ \A x \in Peers : x = p \/ x = q
  BY Others
<1>1. /\ TypeOK /\ FitsBuffer /\ PacketsWhole
      /\ \A x \in Peers : Sends(x) /\ Live(x)
  BY DEF IInv
<1> HIDE DEF q
<1>2. /\ pc[p] \in {"tap", "write"} /\ pending[p] = <<>>
      /\ pc' = [pc EXCEPT ![p] = IF "net" \in ready[p] THEN "length" ELSE "select"]
      /\ got' = [got EXCEPT ![p] = <<>>]
      /\ UNCHANGED <<ready, taken, pending, stream, plength, written>>
  BY <1>1 DEF TurnToNet, TapDone, Sends, Over
<1>3. /\ pc'[p] \in {"length", "select"} /\ pc'[q] = pc[q]
      /\ got'[p] = <<>> /\ got'[q] = got[q]
  BY <1>0, <1>1, <1>2 DEF TypeOK
<1>4. TypeOK'
  <2>1. pc' \in [Peers -> {"select", "tap", "write", "length", "packet"} \cup Over]
    BY <1>1, <1>2 DEF TypeOK
  <2>2. got' \in [Peers -> Seq(Byte)]
    BY <1>1, <1>2 DEF TypeOK
  <2> QED  BY <1>1, <1>2, <2>1, <2>2 DEF TypeOK
<1>5. FitsBuffer' /\ PacketsWhole'
  BY <1>1, <1>2, Quiet DEF TypeOK
<1>6. pc[p] \notin Over
  BY <1>2 DEF Over
<1>7. Live(p)'
  <2>1. CASE Lost(p)
    BY <1>0, <1>2, <1>3, <2>1 DEF Live, Lost, q
  <2>2. CASE InStep(p)
    <3>1. PICK f, o :
             /\ Chain(q, stream[p], taken[q], pending[q], f, o)
             /\ Reads(q, taken[q], pc[p], Len(written[p]) + 1, got[p], plength[p], f[1], o[1])
      BY <2>2 DEF InStep, q
    <3>2. f[1] = Len(written[p]) + 1 /\ o[1] = 1
      BY <1>2, <3>1 DEF Reads, Moving
    <3>3. Len(got'[p]) = 0
      BY <1>3
    <3>4. Reads(q, taken[q], pc'[p], Len(written[p]) + 1, got'[p], plength[p], f[1], o[1])
      BY <1>3, <3>2, <3>3 DEF Reads, Moving
    <3>5. InStep(p)'
      BY <1>2, <3>1, <3>4 DEF InStep, q
    <3> QED  BY <3>5 DEF Live
  <2> QED  BY <1>1, <1>6, <2>1, <2>2 DEF Live
<1>8. Live(q)'
  BY <1>0, <1>1, <1>2, <1>3, <1>6, Untouched
<1>9. Sends(p)' /\ Sends(q)'
  BY <1>0, <1>1, <1>2, <1>3 DEF Sends, TapReady
<1> QED  BY <1>0, <1>4, <1>5, <1>7, <1>8, <1>9 DEF IInv

\* read() on the connection: the byte is the one that comes next.
LEMMA ReadByteStep ==
    ASSUME IInv, NEW p \in Peers, ReadByte(p)
    PROVE  IInv'
<1> DEFINE q == Other(p)
<1>0. q \in Peers /\ q # p /\ Other(q) = p /\ \A x \in Peers : x = p \/ x = q
  BY Others
<1>1. /\ TypeOK /\ FitsBuffer /\ PacketsWhole
      /\ \A x \in Peers : Sends(x) /\ Live(x)
  BY DEF IInv
<1> HIDE DEF q
<1>2. /\ pc[p] \in {"length", "packet"}
      /\ Len(got[p]) < Wanted(p)
      /\ stream[p] # <<>>
      /\ got' = [got EXCEPT ![p] = Append(@, Head(stream[p]))]
      /\ stream' = [stream EXCEPT ![p] = Tail(@)]
      /\ UNCHANGED <<pc, ready, taken, pending, plength, written>>
  BY DEF ReadByte
<1> DEFINE e == Head(stream[p])
           g == got[p]
           m == Len(written[p]) + 1
<1>3. /\ stream[p] \in Seq(Byte) /\ Len(stream[p]) \in Nat \ {0}
      /\ Tail(stream[p]) \in Seq(Byte) /\ Len(Tail(stream[p])) = Len(stream[p]) - 1
      /\ e \in Byte
  BY <1>1, <1>2, Removed DEF TypeOK
<1>4. /\ g \in Seq(Byte) /\ Len(g) \in Nat
      /\ Append(g, e) \in Seq(Byte) /\ Len(Append(g, e)) = Len(g) + 1
      /\ Append(g, e)[Len(g) + 1] = e
      /\ \A j \in 1 .. Len(g) : Append(g, e)[j] = g[j]
  BY <1>1, <1>3, Added DEF TypeOK
<1> HIDE DEF e
<1>5. /\ got'[p] = Append(g, e) /\ got'[q] = got[q]
      /\ stream'[p] = Tail(stream[p]) /\ stream'[q] = stream[q]
  BY <1>0, <1>1, <1>2 DEF TypeOK, e
<1>6. TypeOK'
  <2>1. got' \in [Peers -> Seq(Byte)] /\ stream' \in [Peers -> Seq(Byte)]
    BY <1>1, <1>2, <1>3, <1>4 DEF TypeOK, e
  <2>2. Len(stream'[p]) <= Room
    <3>1. Len(stream[p]) <= Room /\ Room \in Nat
      BY <1>1, ConstantsAssumption DEF TypeOK
    <3> QED  BY <1>3, <1>5, <3>1
  <2>3. \A x \in Peers : Len(stream'[x]) <= Room
    BY <1>0, <1>1, <1>5, <2>2 DEF TypeOK
  <2> QED  BY <1>1, <1>2, <2>1, <2>3 DEF TypeOK
<1>7. FitsBuffer' /\ PacketsWhole'
  BY <1>1, <1>2, Quiet DEF TypeOK
<1>8. Live(p)'
  <2>1. InStep(p)
    BY <1>1, <1>2 DEF Live, Lost, Over
  <2>2. PICK f, o :
           /\ Chain(q, stream[p], taken[q], pending[q], f, o)
           /\ Reads(q, taken[q], pc[p], m, g, plength[p], f[1], o[1])
    BY <2>1 DEF InStep, q
  <2>3. taken[q] \in Nat /\ pending[q] \in Seq(Byte) /\ m \in Nat \ {0}
        /\ taken[q] <= Len(Packets[q]) /\ Len(Packets[q]) \in Nat
    BY <1>0, <1>1, ConstantsAssumption, SMTT(30) DEF TypeOK
  <2>4. f[1] \in 1 .. taken[q] /\ e = Frame(q, f[1])[o[1]]
    BY <1>0, <1>2, <1>3, <2>2, <2>3, ChainPop DEF e
  <2>5. PICK f2, o2 :
           /\ Chain(q, Tail(stream[p]), taken[q], pending[q], f2, o2)
           /\ IF o[1] = Size(q, f[1]) THEN f2[1] = f[1] + 1 /\ o2[1] = 1
                                      ELSE f2[1] = f[1] /\ o2[1] = o[1] + 1
    BY <1>0, <1>2, <1>3, <2>2, <2>3, ChainPop
  <2>6. f[1] \in 1 .. Len(Packets[q])
    BY <2>3, <2>4
  <2>7. /\ Length(q, f[1]) \in Nat /\ Length(q, f[1]) >= 1 /\ Size(q, f[1]) = Length(q, f[1]) + 2
        /\ \A k \in 1 .. Length(q, f[1]) : Frame(q, f[1])[k + 2] = Data(q, f[1])[k]
    <3>1. Length(q, f[1]) \in 1 .. BufSize
      BY <1>0, <2>6, FrameFacts
    <3> QED  BY <1>0, <2>6, <3>1, FrameFacts DEF Size
  <2>8. CASE pc[p] = "length"
    <3>1. /\ f[1] = m /\ o[1] = Len(g) + 1 /\ Len(g) < 2
          /\ \A j \in 1 .. Len(g) : g[j] = Frame(q, m)[j]
      BY <1>2, <2>2, <2>8 DEF Reads, Wanted
    <3>2. f2[1] = m /\ o2[1] = Len(Append(g, e)) + 1
      BY <1>4, <2>5, <2>7, <3>1
    <3>3. \A j \in 1 .. Len(g) + 1 : Append(g, e)[j] = Frame(q, m)[j]
      <4>1. Append(g, e)[Len(g) + 1] = Frame(q, m)[Len(g) + 1]
        BY <1>4, <2>4, <3>1
      <4>2. \A j \in 1 .. Len(g) : Append(g, e)[j] = Frame(q, m)[j]
        BY <1>4, <3>1
      <4>3. \A j \in 1 .. Len(g) + 1 : j \in 1 .. Len(g) \/ j = Len(g) + 1
        BY <1>4
      <4> QED  BY <4>1, <4>2, <4>3
    <3>4. m <= taken[q] /\ Len(g) + 1 <= 2
      BY <1>4, <2>3, <2>4, <3>1
    <3>5. Reads(q, taken[q], "length", m, Append(g, e), plength[p], f2[1], o2[1])
      BY <1>4, <3>2, <3>3, <3>4 DEF Reads, Moving
    <3>6. InStep(p)'
      BY <1>2, <1>5, <2>5, <2>8, <3>5 DEF InStep, q
    <3> QED  BY <3>6 DEF Live
  <2>9. CASE pc[p] = "packet"
    <3>1. /\ m <= taken[q] /\ plength[p] = Length(q, m) /\ Len(g) < plength[p]
          /\ \A j \in 1 .. Len(g) : g[j] = Data(q, m)[j]
          /\ f[1] = m /\ o[1] = Len(g) + 3
      BY <1>2, <1>4, <2>2, <2>9 DEF Reads, Wanted
    <3>2. IF Len(g) + 1 = plength[p] THEN f2[1] = m + 1 /\ o2[1] = 1
                                     ELSE f2[1] = m /\ o2[1] = (Len(g) + 1) + 3
      <4>1. (Len(g) + 1 = plength[p]) <=> (o[1] = Size(q, f[1]))
        BY <1>4, <2>7, <3>1
      <4>2. o[1] + 1 = (Len(g) + 1) + 3
        BY <1>4, <3>1
      <4> QED  BY <2>5, <3>1, <4>1, <4>2
    <3>3. \A j \in 1 .. Len(g) + 1 : Append(g, e)[j] = Data(q, m)[j]
      <4>1. Append(g, e)[Len(g) + 1] = Data(q, m)[Len(g) + 1]
        <5>1. Len(g) + 1 \in 1 .. Length(q, f[1]) /\ (Len(g) + 1) + 2 = Len(g) + 3
          BY <1>4, <2>7, <3>1
        <5> QED  BY <1>4, <2>4, <2>7, <3>1, <5>1
      <4>2. \A j \in 1 .. Len(g) : Append(g, e)[j] = Data(q, m)[j]
        BY <1>4, <3>1
      <4>3. \A j \in 1 .. Len(g) + 1 : j \in 1 .. Len(g) \/ j = Len(g) + 1
        BY <1>4
      <4> QED  BY <4>1, <4>2, <4>3
    <3>4. Len(g) + 1 <= plength[p]
      BY <1>4, <2>7, <3>1
    <3>5. Reads(q, taken[q], "packet", m, Append(g, e), plength[p], f2[1], o2[1])
      BY <1>4, <3>1, <3>2, <3>3, <3>4 DEF Reads, Moving
    <3>6. InStep(p)'
      BY <1>2, <1>5, <2>5, <2>9, <3>5 DEF InStep, q
    <3> QED  BY <3>6 DEF Live
  <2> QED  BY <1>2, <2>8, <2>9
<1>9. Live(q)'
  BY <1>0, <1>1, <1>2, <1>5, Untouched
<1>10. Sends(p)' /\ Sends(q)'
  BY <1>0, <1>1, <1>2 DEF Sends, TapReady
<1> QED  BY <1>0, <1>6, <1>7, <1>8, <1>9, <1>10 DEF IInv

\* read_n() has the two bytes of the length: they are those of the frame.
LEMMA LengthReadStep ==
    ASSUME IInv, NEW p \in Peers, LengthRead(p)
    PROVE  IInv'
<1> DEFINE q == Other(p)
<1>0. q \in Peers /\ q # p /\ Other(q) = p /\ \A x \in Peers : x = p \/ x = q
  BY Others
<1>1. /\ TypeOK /\ FitsBuffer /\ PacketsWhole
      /\ \A x \in Peers : Sends(x) /\ Live(x)
  BY DEF IInv
<1> HIDE DEF q
<1> DEFINE m == Len(written[p]) + 1
           ln == HostOrder(got[p])
<1>2. /\ pc[p] = "length" /\ Len(got[p]) = 2
      /\ pc' = [pc EXCEPT ![p] = "packet"]
      /\ plength' = [plength EXCEPT ![p] = ln]
      /\ got' = [got EXCEPT ![p] = <<>>]
      /\ UNCHANGED <<ready, taken, pending, stream, written>>
  BY DEF LengthRead, Goes, AllRead, Wanted
<1>3. InStep(p)
  BY <1>1, <1>2 DEF Live, Lost, Over
<1>4. PICK f, o :
         /\ Chain(q, stream[p], taken[q], pending[q], f, o)
         /\ Reads(q, taken[q], pc[p], m, got[p], plength[p], f[1], o[1])
  BY <1>3 DEF InStep, q
<1>5. /\ f[1] = m /\ o[1] = 3 /\ m <= taken[q]
      /\ got[p][1] = Frame(q, m)[1] /\ got[p][2] = Frame(q, m)[2]
  BY <1>2, <1>4 DEF Reads
<1>6. m \in 1 .. Len(Packets[q])
  <2>1. taken[q] \in Nat /\ taken[q] <= Len(Packets[q])
    BY <1>0, <1>1 DEF TypeOK
  <2>2. m \in Nat \ {0}
    <3>1. written[p] \in Seq(Seq(Byte))
      BY <1>1 DEF TypeOK
    <3> QED  BY <3>1
  <2>3. Len(Packets[q]) \in Nat
    <3>1. Packets[q] \in Seq(Nat \ {0})
      BY <1>0, ConstantsAssumption
    <3> QED  BY <3>1
  <2> QED  BY <1>5, <2>1, <2>2, <2>3
<1>7. ln = Length(q, m)
  <2>1. ln = Frame(q, m)[1].v * 256 + Frame(q, m)[2].v
    BY <1>2, <1>5 DEF HostOrder
  <2> QED  BY <1>0, <1>6, <2>1, FrameFacts
<1>8. ln \in 1 .. BufSize /\ ln \in 1 .. UINT16_MAX
  BY <1>0, <1>6, <1>7, FrameFacts
<1> HIDE DEF ln
<1>9. UINT16_MAX \in Nat
  BY DEF UINT16_MAX
<1>10. BufSize \in Nat
  BY <1>9, ConstantsAssumption
<1>11. /\ pc'[p] = "packet" /\ pc'[q] = pc[q]
       /\ plength'[p] = ln /\ plength'[q] = plength[q]
       /\ got'[p] = <<>> /\ got'[q] = got[q]
  BY <1>0, <1>1, <1>2 DEF TypeOK
<1>12. TypeOK'
  <2>1. pc' \in [Peers -> {"select", "tap", "write", "length", "packet"} \cup Over]
    BY <1>1, <1>2 DEF TypeOK
  <2>2. plength' \in [Peers -> 0 .. UINT16_MAX]
    BY <1>1, <1>2, <1>8, <1>9 DEF TypeOK
  <2>3. got' \in [Peers -> Seq(Byte)]
    BY <1>1, <1>2 DEF TypeOK
  <2> QED  BY <1>1, <1>2, <2>1, <2>2, <2>3 DEF TypeOK
<1>13. FitsBuffer'
  BY <1>0, <1>1, <1>8, <1>10, <1>11 DEF FitsBuffer
<1>14. PacketsWhole'
  BY <1>1, <1>2 DEF PacketsWhole
<1>15. Live(p)'
  <2>1. ln > 0 /\ ln \in Nat
    BY <1>8, <1>10
  <2>2. Len(got'[p]) = 0
    BY <1>11
  <2>3. Reads(q, taken[q], "packet", m, got'[p], ln, f[1], o[1])
    BY <1>5, <1>7, <2>1, <2>2 DEF Reads, Moving
  <2>4. InStep(p)'
    BY <1>2, <1>4, <1>11, <2>3 DEF InStep, q
  <2> QED  BY <2>4 DEF Live
<1>16. Live(q)'
  <2>1. pc[p] \notin Over
    BY <1>2 DEF Over
  <2> QED  BY <1>0, <1>1, <1>2, <1>11, <2>1, Untouched
<1>17. Sends(p)' /\ Sends(q)'
  BY <1>0, <1>1, <1>2, <1>11 DEF Sends, TapReady, Over
<1> QED  BY <1>0, <1>12, <1>13, <1>14, <1>15, <1>16, <1>17 DEF IInv

\* read_n() has the packet, and it is written to the device: it is the next
\* packet of the other side.
LEMMA PacketReadStep ==
    ASSUME IInv, NEW p \in Peers, PacketRead(p)
    PROVE  IInv'
<1> DEFINE q == Other(p)
<1>0. q \in Peers /\ q # p /\ Other(q) = p /\ \A x \in Peers : x = p \/ x = q
  BY Others
<1>1. /\ TypeOK /\ FitsBuffer /\ PacketsWhole
      /\ \A x \in Peers : Sends(x) /\ Live(x)
  BY DEF IInv
<1> HIDE DEF q
<1> DEFINE m == Len(written[p]) + 1
<1>2. /\ pc[p] = "packet" /\ Len(got[p]) = plength[p]
      /\ pc' = [pc EXCEPT ![p] = "select"]
      /\ written' = [written EXCEPT ![p] = Append(@, got[p])]
      /\ UNCHANGED <<ready, taken, pending, stream, got, plength>>
  BY DEF PacketRead, Goes, AllRead, Wanted
<1>3. InStep(p)
  BY <1>1, <1>2 DEF Live, Lost, Over
<1>4. PICK f, o :
         /\ Chain(q, stream[p], taken[q], pending[q], f, o)
         /\ Reads(q, taken[q], pc[p], m, got[p], plength[p], f[1], o[1])
  BY <1>3 DEF InStep, q
<1>5. /\ m <= taken[q] /\ plength[p] = Length(q, m)
      /\ \A j \in 1 .. Len(got[p]) : got[p][j] = Data(q, m)[j]
      /\ f[1] = m + 1 /\ o[1] = 1
  BY <1>2, <1>4 DEF Reads
<1>6. /\ m \in 1 .. Len(Packets[q]) /\ taken[q] \in Nat
      /\ written[p] \in Seq(Seq(Byte)) /\ got[p] \in Seq(Byte)
  <2>1. taken[q] \in Nat /\ taken[q] <= Len(Packets[q])
    BY <1>0, <1>1 DEF TypeOK
  <2>2. written[p] \in Seq(Seq(Byte)) /\ got[p] \in Seq(Byte)
    BY <1>1 DEF TypeOK
  <2>3. m \in Nat \ {0}
    BY <2>2
  <2>4. Len(Packets[q]) \in Nat
    <3>1. Packets[q] \in Seq(Nat \ {0})
      BY <1>0, ConstantsAssumption
    <3> QED  BY <3>1
  <2> QED  BY <1>5, <2>1, <2>2, <2>3, <2>4
<1>7. got[p] = Data(q, m)
  <2>1. Data(q, m) \in Seq(Byte) /\ Len(Data(q, m)) = Len(got[p])
    BY <1>0, <1>2, <1>5, <1>6, FrameFacts
  <2> QED  BY <1>5, <1>6, <2>1, Equal
<1>8. /\ Append(written[p], got[p]) \in Seq(Seq(Byte))
      /\ Len(Append(written[p], got[p])) = m
      /\ Append(written[p], got[p])[m] = got[p]
      /\ \A j \in 1 .. Len(written[p]) : Append(written[p], got[p])[j] = written[p][j]
  BY <1>6, Added
<1>9. /\ pc'[p] = "select" /\ pc'[q] = pc[q]
      /\ written'[p] = Append(written[p], got[p]) /\ written'[q] = written[q]
  BY <1>0, <1>1, <1>2 DEF TypeOK
<1>10. TypeOK'
  <2>1. pc' \in [Peers -> {"select", "tap", "write", "length", "packet"} \cup Over]
    BY <1>1, <1>2 DEF TypeOK
  <2>2. written' \in [Peers -> Seq(Seq(Byte))]
    BY <1>1, <1>2, <1>8 DEF TypeOK
  <2> QED  BY <1>1, <1>2, <2>1, <2>2 DEF TypeOK
<1>11. FitsBuffer'
  BY <1>1, <1>2 DEF FitsBuffer
<1>12. PacketsWhole'
  <2>1. Len(written'[p]) <= taken[q]
    BY <1>5, <1>8, <1>9
  <2>2. \A i \in DOMAIN written'[p] : written'[p][i] = Data(q, i)
    <3>1. \A i \in 1 .. Len(written[p]) : written[p][i] = Data(q, i)
      BY <1>1, <1>6 DEF PacketsWhole, q
    <3>2. DOMAIN written'[p] = 1 .. m /\ Len(written[p]) \in Nat
      BY <1>6, <1>8, <1>9
    <3>3. \A i \in 1 .. m : i \in 1 .. Len(written[p]) \/ i = m
      BY <3>2
    <3> QED  BY <1>7, <1>8, <1>9, <3>1, <3>2, <3>3
  <2>3. /\ Len(written'[q]) <= taken[p]
        /\ \A i \in DOMAIN written'[q] : written'[q][i] = Data(p, i)
    BY <1>0, <1>1, <1>9 DEF PacketsWhole
  <2>4. taken' = taken
    BY <1>2
  <2> QED  BY <1>0, <2>1, <2>2, <2>3, <2>4 DEF PacketsWhole, q
<1>13. Live(p)'
  <2>1. Reads(q, taken[q], "select", Len(written'[p]) + 1, got[p], plength[p], f[1], o[1])
    BY <1>5, <1>8, <1>9 DEF Reads, Moving
  <2>2. InStep(p)'
    BY <1>2, <1>4, <1>9, <2>1 DEF InStep, q
  <2> QED  BY <2>2 DEF Live
<1>14. Live(q)'
  <2>1. pc[p] \notin Over
    BY <1>2 DEF Over
  <2> QED  BY <1>0, <1>1, <1>2, <1>9, <2>1, Untouched
<1>15. Sends(p)' /\ Sends(q)'
  BY <1>0, <1>1, <1>2, <1>9 DEF Sends, TapReady, Over
<1> QED  BY <1>0, <1>10, <1>11, <1>12, <1>13, <1>14, <1>15 DEF IInv

\* A peer that ends, or is stopped.
LEMMA OverStep ==
    ASSUME IInv, NEW p \in Peers, NEW over \in Over, pc[p] \notin Over,
           pc' = [pc EXCEPT ![p] = over],
           UNCHANGED <<ready, taken, pending, stream, got, plength, written>>
    PROVE  IInv'
<1> DEFINE q == Other(p)
<1>0. q \in Peers /\ q # p /\ Other(q) = p /\ \A x \in Peers : x = p \/ x = q
  BY Others
<1>1. /\ TypeOK /\ FitsBuffer /\ PacketsWhole
      /\ \A x \in Peers : Sends(x) /\ Live(x)
  BY DEF IInv
<1> HIDE DEF q
<1>2. pc'[p] \in Over /\ pc'[q] = pc[q]
  BY <1>0, <1>1 DEF TypeOK
<1>3. TypeOK'
  <2>1. pc' \in [Peers -> {"select", "tap", "write", "length", "packet"} \cup Over]
    BY <1>1 DEF TypeOK
  <2> QED  BY <1>1, <2>1 DEF TypeOK
<1>4. FitsBuffer' /\ PacketsWhole'
  BY <1>1, Quiet DEF TypeOK
<1>5. Live(p)'
  BY <1>2 DEF Live
<1>6. Live(q)'
  BY <1>0, <1>1, <1>2, Untouched
<1>7. Sends(p)' /\ Sends(q)'
  BY <1>0, <1>1, <1>2 DEF Sends, TapReady, Over
<1> QED  BY <1>0, <1>3, <1>4, <1>5, <1>6, <1>7 DEF IInv

\* read_n() returns 0 and the loop goes on: nothing will be read any more.
LEMMA LostStep ==
    ASSUME IInv, NEW p \in Peers, EndOfStream(p), Goes(p, "packet", "select")
    PROVE  IInv'
<1> DEFINE q == Other(p)
<1>0. q \in Peers /\ q # p /\ Other(q) = p /\ \A x \in Peers : x = p \/ x = q
  BY Others
<1>1. /\ TypeOK /\ FitsBuffer /\ PacketsWhole
      /\ \A x \in Peers : Sends(x) /\ Live(x)
  BY DEF IInv
<1> HIDE DEF q
<1>2. /\ pc[p] = "packet" /\ pc' = [pc EXCEPT ![p] = "select"]
      /\ stream[p] = <<>> /\ pc[q] \in Over
      /\ UNCHANGED <<ready, taken, pending, stream, got, plength, written>>
  BY DEF EndOfStream, Break, Goes, q
<1>3. pc'[p] = "select" /\ pc'[q] = pc[q]
  BY <1>0, <1>1, <1>2 DEF TypeOK
<1>4. TypeOK'
  <2>1. pc' \in [Peers -> {"select", "tap", "write", "length", "packet"} \cup Over]
    BY <1>1, <1>2 DEF TypeOK
  <2> QED  BY <1>1, <1>2, <2>1 DEF TypeOK
<1>5. FitsBuffer' /\ PacketsWhole'
  BY <1>1, <1>2, Quiet DEF TypeOK
<1>6. Live(p)'
  BY <1>2, <1>3 DEF Live, Lost, q
<1>7. Live(q)'
  BY <1>2, <1>3 DEF Live
<1>8. Sends(p)' /\ Sends(q)'
  BY <1>0, <1>1, <1>2, <1>3 DEF Sends, TapReady, Over
<1> QED  BY <1>0, <1>4, <1>5, <1>6, <1>7, <1>8 DEF IInv

-----------------------------------------------------------------------------
(* The theorem.                                                             *)

\* The invariant holds at the start.
LEMMA InvariantInit == Init => IInv
<1> SUFFICES ASSUME Init
             PROVE  IInv
  OBVIOUS
<1>1. UINT16_MAX \in Nat
  BY DEF UINT16_MAX
<1>2. \A x \in Peers : Len(Packets[x]) \in Nat
  BY ConstantsAssumption
<1>3. <<>> \in Seq(Byte) /\ <<>> \in Seq(Seq(Byte)) /\ Len(<<>>) = 0 /\ Room \in Nat
  BY ConstantsAssumption
<1>4. TypeOK
  <2>1. pc \in [Peers -> {"select", "tap", "write", "length", "packet"} \cup Over]
    BY DEF Init
  <2>2. ready \in [Peers -> SUBSET {"tap", "net"}]
    BY DEF Init
  <2>3. taken \in [Peers -> Nat] /\ \A x \in Peers : taken[x] <= Len(Packets[x])
    BY <1>2 DEF Init
  <2>4. stream \in [Peers -> Seq(Byte)] /\ \A x \in Peers : Len(stream[x]) <= Room
    BY <1>3 DEF Init
  <2>5. /\ pending \in [Peers -> Seq(Byte)] /\ got \in [Peers -> Seq(Byte)]
        /\ written \in [Peers -> Seq(Seq(Byte))]
    BY <1>3 DEF Init
  <2>6. plength \in [Peers -> 0 .. UINT16_MAX]
    BY <1>1 DEF Init
  <2> QED  BY <2>1, <2>2, <2>3, <2>4, <2>5, <2>6 DEF TypeOK
<1>5. ASSUME NEW p \in Peers
      PROVE  /\ plength[p] <= BufSize
             /\ Len(written[p]) <= taken[Other(p)]
             /\ \A i \in DOMAIN written[p] : written[p][i] = Data(Other(p), i)
             /\ Sends(p)
             /\ Live(p)
  <2>0. Other(p) \in Peers
    BY Others
  <2>1. plength[p] = 0 /\ BufSize >= 0
    BY <1>1, ConstantsAssumption DEF Init
  <2>2. /\ written[p] = <<>> /\ taken[Other(p)] = 0 /\ pending[Other(p)] = <<>>
        /\ stream[p] = <<>> /\ pc[p] = "select" /\ pending[p] = <<>>
    BY <2>0 DEF Init
  <2>3. Sends(p)
    BY <2>2 DEF Sends, Left
  <2> DEFINE one == [x \in 1 .. 1 |-> 1]
  <2>4. one \in [1 .. 1 -> Nat] /\ one[1] = 1
    OBVIOUS
  <2> HIDE DEF one
  <2>5. Len(stream[p]) = 0 /\ Len(stream[p]) + 1 = 1 /\ Len(written[p]) + 1 = 1
    BY <2>2
  <2>6. Chain(Other(p), stream[p], taken[Other(p)], pending[Other(p)], one, one)
    BY <2>2, <2>4, <2>5 DEF Chain
  <2>7. Reads(Other(p), taken[Other(p)], pc[p], Len(written[p]) + 1, got[p], plength[p],
              one[1], one[1])
    BY <2>2, <2>4, <2>5 DEF Reads, Moving
  <2>8. Live(p)
    BY <2>6, <2>7 DEF Live, InStep
  <2>9. Len(written[p]) <= taken[Other(p)] /\ DOMAIN written[p] = {}
    BY <2>2
  <2> QED  BY <2>1, <2>3, <2>8, <2>9
<1> QED  BY <1>4, <1>5 DEF IInv, FitsBuffer, PacketsWhole

\* Each step keeps it.
LEMMA InvariantStep == IInv /\ [Next]_vars => IInv'
<1> SUFFICES ASSUME IInv, [Next]_vars
             PROVE  IInv'
  OBVIOUS
<1>1. ASSUME NEW p \in Peers, Loop(p)
      PROVE  IInv'
  <2>1. CASE EndOfStream(p)
    <3>1. CASE Goes(p, "packet", "select")
      BY <2>1, <3>1, LostStep
    <3>2. ASSUME ~Goes(p, "packet", "select")
          PROVE  \E over \in Over : pc' = [pc EXCEPT ![p] = over]
      BY <2>1, <3>2 DEF EndOfStream, Break, Goes, Over
    <3>3. pc[p] \notin Over /\ UNCHANGED <<ready, taken, pending, stream, got, plength, written>>
      BY <2>1 DEF EndOfStream, Break, Goes, Over
    <3> QED  BY <3>1, <3>2, <3>3, OverStep
  <2> QED  BY <1>1, <2>1, SelectStep, ReadTapStep, WriteNetStep, TurnToNetStep, ReadByteStep,
              LengthReadStep, PacketReadStep DEF Loop
<1>2. ASSUME NEW p \in Peers, Interrupt(p)
      PROVE  IInv'
  <2>1. "stopped" \in Over
    BY DEF Over
  <2> QED  BY <1>2, <2>1, OverStep DEF Interrupt
<1>3. CASE UNCHANGED vars
  <2>1. TypeOK' /\ FitsBuffer' /\ PacketsWhole'
    BY <1>3 DEF vars, IInv, TypeOK, FitsBuffer, PacketsWhole
  <2>2. ASSUME NEW x \in Peers
        PROVE  Sends(x)' /\ Live(x)'
    BY <1>3, <2>2 DEF vars, IInv, Sends, TapReady, Live, Lost, InStep
  <2> QED  BY <2>1, <2>2 DEF IInv
<1> QED  BY <1>1, <1>2, <1>3 DEF Next

\* "Now buffer[] contains a full packet" (comment in the loop of simpletun.c):
\* whatever the packets are, however the connection cuts their bytes up and
\* whoever stops when, each device is given the packets of the other in order
\* and whole, and no length read is larger than the buffer it is read into.
THEOREM Tunnelled == Spec => []TunnelSound
<1>1. IInv => TunnelSound
  BY DEF IInv, TunnelSound
<1> QED  BY InvariantInit, InvariantStep, <1>1, PTL DEF Spec

-----------------------------------------------------------------------------
(* Induction over numbers, and what the library's FlattenSeq() gives.      *)

\* A set of numbers has a smallest one.
LEMMA Smallest ==
    ASSUME NEW T \in SUBSET Nat, T # {}
    PROVE  \E x \in T : \A y \in T : x <= y
<1>1. IsWellFoundedOn({p \in Nat \X Nat : p[1] < p[2]}, Nat)
  BY NatLessThanWellFounded DEF OpToRel
<1>2. PICK x \in T : \A y \in T : ~(<<y, x>> \in {p \in Nat \X Nat : p[1] < p[2]})
  <2>1. \E x \in T : \A y \in T : ~(<<y, x>> \in {p \in Nat \X Nat : p[1] < p[2]})
    BY <1>1, WFMin
  <2> QED  BY <2>1
<1>3. ASSUME NEW y \in T PROVE x <= y
  <2>1. x \in Nat /\ y \in Nat
    OBVIOUS
  <2>2. ~(<<y, x>> \in {p \in Nat \X Nat : p[1] < p[2]})
    BY <1>2
  <2>3. ~(y < x)
    BY <2>1, <2>2
  <2> QED  BY <2>1, <2>3
<1> QED  BY <1>3

\* Induction: a set of numbers that has 0, and n + 1 when it has n, has all up to m.
LEMMA AllUpTo ==
    ASSUME NEW T, NEW m \in Nat, 0 \in T, \A n \in 0 .. m - 1 : n \in T => n + 1 \in T
    PROVE  \A n \in 0 .. m : n \in T
<1> DEFINE F == {n \in Nat : n <= m /\ n \notin T}
<1>1. SUFFICES ASSUME F # {} PROVE FALSE
  OBVIOUS
<1>2. PICK x \in F : \A y \in F : x <= y
  <2>1. F \in SUBSET Nat
    OBVIOUS
  <2> HIDE DEF F
  <2> QED  BY <1>1, <2>1, Smallest
<1>3. x \in Nat /\ x <= m /\ x \notin T /\ x # 0
  OBVIOUS
<1>4. x - 1 \in 0 .. m - 1 /\ x - 1 \in Nat /\ x - 1 <= m /\ (x - 1) + 1 = x /\ ~(x <= x - 1)
  BY <1>3
<1>5. x - 1 \notin F
  BY <1>2, <1>4
<1>6. x - 1 \in T
  BY <1>4, <1>5
<1> QED  BY <1>3, <1>4, <1>6

\* What FlattenSeq() is made of: g[i] are the first i sequences put together.
Pieces(s, g, m) == g = [i \in 1 .. m |-> IF i = 1 THEN s[i] ELSE g[i - 1] \o s[i]]

\* There are such pieces, for every sequence.
LEMMA PiecesExist ==
    ASSUME NEW s, NEW m \in Nat
    PROVE  \E g : Pieces(s, g, m)
<1> DEFINE T == {n \in 0 .. m : \E g : Pieces(s, g, n)}
<1>1. 0 \in T
  <2>1. Pieces(s, [i \in 1 .. 0 |-> 0], 0)
    BY DEF Pieces
  <2> QED  BY <2>1
<1>2. ASSUME NEW n \in 0 .. m - 1, n \in T PROVE n + 1 \in T
  <2>1. PICK g : Pieces(s, g, n)
    BY <1>2
  <2> DEFINE h == [i \in 1 .. n + 1 |-> IF i = 1 THEN s[i] ELSE IF i = n + 1 THEN g[n] \o s[i] ELSE g[i]]
             k == [i \in 1 .. n + 1 |-> IF i = 1 THEN s[i] ELSE h[i - 1] \o s[i]]
  <2>2. ASSUME NEW i \in 1 .. n + 1 PROVE h[i] = k[i]
    <3>1. \A j \in 1 .. n : g[j] = IF j = 1 THEN s[j] ELSE g[j - 1] \o s[j]
      BY <2>1 DEF Pieces
    <3>2. CASE i = 1
      BY <3>2
    <3>3. CASE i # 1
      <4>1. i - 1 \in 1 .. n /\ i - 1 # n + 1 /\ i - 1 \in 1 .. n + 1 /\ n \in Int /\ i \in Int
        BY <3>3
      <4>2. h[i - 1] = g[i - 1]
        BY <3>1, <4>1
      <4>3. h[i] = g[i - 1] \o s[i]
        <5>1. CASE i = n + 1
          <6>1. i - 1 = n
            BY <4>1, <5>1
          <6>2. h[i] = g[n] \o s[i]
            BY <3>3, <5>1
          <6> QED  BY <6>1, <6>2
        <5>2. CASE i # n + 1
          <6>1. i \in 1 .. n
            BY <4>1, <5>2
          <6> QED  BY <3>1, <3>3, <5>2, <6>1
        <5> QED  BY <5>1, <5>2
      <4> QED  BY <3>3, <4>2, <4>3
    <3> QED  BY <3>2, <3>3
  <2>3. h = k
    BY <2>2
  <2>4. Pieces(s, h, n + 1)
    BY <2>3 DEF Pieces
  <2>5. n + 1 \in 0 .. m
    OBVIOUS
  <2> HIDE DEF h
  <2> QED  BY <2>4, <2>5
<1> HIDE DEF T
<1>3. m \in T
  BY <1>1, <1>2, AllUpTo
<1> QED  BY <1>3 DEF T

\* FlattenSeq() by its pieces.
LEMMA FlatIs ==
    ASSUME NEW S, NEW s \in Seq(Seq(S)), s # <<>>
    PROVE  \E g : Pieces(s, g, Len(s)) /\ FlattenSeq(s) = g[Len(s)]
<1>1. Len(s) \in Nat /\ Len(s) # 0
  BY LenProperties, EmptySeq
<1>2. FlattenSeq(s) = (CHOOSE g : Pieces(s, g, Len(s)))[Len(s)]
  BY <1>1 DEF FlattenSeq, Pieces
<1>3. Pieces(s, CHOOSE g : Pieces(s, g, Len(s)), Len(s))
  <2>1. \E g : Pieces(s, g, Len(s))
    BY <1>1, PiecesExist
  <2> QED  BY <2>1
<1> QED  BY <1>2, <1>3

\* The pieces of a sequence are those of a longer one.
LEMMA PiecesSame ==
    ASSUME NEW s, NEW t, NEW g, NEW h, NEW m \in Nat, NEW n \in Nat, m <= n,
           \A i \in 1 .. m : s[i] = t[i], Pieces(s, g, m), Pieces(t, h, n)
    PROVE  \A i \in 1 .. m : g[i] = h[i]
<1> DEFINE T == {k \in 0 .. m : k = 0 \/ g[k] = h[k]}
<1>1. 0 \in T
  OBVIOUS
<1>2. ASSUME NEW k \in 0 .. m - 1, k \in T PROVE k + 1 \in T
  <2>1. k + 1 \in 1 .. m /\ k + 1 \in 1 .. n /\ (k + 1) - 1 = k /\ (k + 1 = 1 <=> k = 0) /\ k + 1 \in 0 .. m
    OBVIOUS
  <2>2. g[k + 1] = IF k + 1 = 1 THEN s[k + 1] ELSE g[(k + 1) - 1] \o s[k + 1]
    BY <2>1 DEF Pieces
  <2>3. h[k + 1] = IF k + 1 = 1 THEN t[k + 1] ELSE h[(k + 1) - 1] \o t[k + 1]
    BY <2>1 DEF Pieces
  <2>4. s[k + 1] = t[k + 1]
    BY <2>1
  <2>5. k = 0 \/ g[k] = h[k]
    BY <1>2
  <2>6. g[k + 1] = h[k + 1]
    BY <2>1, <2>2, <2>3, <2>4, <2>5
  <2> QED  BY <2>1, <2>6
<1>3. \A k \in 0 .. m : k \in T
  <2> HIDE DEF T
  <2> QED  BY <1>1, <1>2, AllUpTo
<1>4. \A i \in 1 .. m : i \in 0 .. m /\ i # 0
  OBVIOUS
<1> QED  BY <1>3, <1>4

\* One more sequence at the end.
LEMMA FlatAppend ==
    ASSUME NEW S, NEW s \in Seq(Seq(S)), NEW x \in Seq(S), s # <<>>
    PROVE  FlattenSeq(Append(s, x)) = FlattenSeq(s) \o x
<1> DEFINE t == Append(s, x)
           m == Len(s)
<1>1. /\ t \in Seq(Seq(S)) /\ Len(t) = m + 1 /\ t[m + 1] = x /\ m \in Nat /\ m # 0
      /\ \A i \in 1 .. m : t[i] = s[i]
  BY AppendProperties, LenProperties, EmptySeq
<1> HIDE DEF t, m
<1>2. t # <<>>
  BY <1>1
<1>3. PICK g : Pieces(s, g, m) /\ FlattenSeq(s) = g[m]
  BY FlatIs DEF m
<1>4. PICK h : Pieces(t, h, m + 1) /\ FlattenSeq(t) = h[m + 1]
  BY <1>1, <1>2, FlatIs
<1>5. h[m + 1] = h[m] \o x
  <2>1. m + 1 \in 1 .. m + 1 /\ m + 1 # 1 /\ (m + 1) - 1 = m
    BY <1>1
  <2> QED  BY <1>1, <1>4, <2>1 DEF Pieces
<1>6. g[m] = h[m]
  <2>1. m \in 1 .. m /\ m + 1 \in Nat /\ m <= m + 1
    BY <1>1
  <2>2. \A i \in 1 .. m : s[i] = t[i]
    BY <1>1
  <2>3. ASSUME NEW n \in Nat, n = m + 1, m <= n PROVE \A i \in 1 .. m : g[i] = h[i]
    <3>1. Pieces(t, h, n) /\ Pieces(s, g, m) /\ m \in Nat
      BY <1>1, <1>3, <1>4, <2>3
    <3> QED  BY <2>2, <2>3, <3>1, PiecesSame
  <2>4. \A i \in 1 .. m : g[i] = h[i]
    BY <2>1, <2>3
  <2> QED  BY <2>1, <2>4
<1> QED  BY <1>3, <1>4, <1>5, <1>6 DEF t

\* One sequence put together, and none.
LEMMA FlatOne ==
    ASSUME NEW S, NEW x \in Seq(S)
    PROVE  FlattenSeq(<<x>>) = x /\ FlattenSeq(<<>>) = <<>>
<1>1. FlattenSeq(<<>>) = <<>>
  BY DEF FlattenSeq
<1> DEFINE s == <<x>>
<1>2. s \in Seq(Seq(S)) /\ Len(s) = 1 /\ s # <<>> /\ s[1] = x
  OBVIOUS
<1> HIDE DEF s
<1>3. PICK g : Pieces(s, g, 1) /\ FlattenSeq(s) = g[1]
  BY <1>2, FlatIs
<1>4. g[1] = s[1]
  BY <1>3 DEF Pieces
<1> QED  BY <1>1, <1>2, <1>3, <1>4 DEF s
\* Concatenation is associative.
LEMMA Assoc == \A S : \A s, t, u \in Seq(S) : (s \o t) \o u = s \o (t \o u)
<1> SUFFICES ASSUME NEW S, NEW s \in Seq(S), NEW t \in Seq(S), NEW u \in Seq(S)
             PROVE  (s \o t) \o u = s \o (t \o u)
  OBVIOUS
<1> QED  BY ConcatAssociative

\* What is appended to the second of two sequences is appended to both.
LEMMA AppendRight ==
    ASSUME NEW E, NEW s \in Seq(E), NEW t \in Seq(E), NEW e \in E
    PROVE  s \o Append(t, e) = Append(s \o t, e)
<1> DEFINE u == <<e>>
<1>1. u \in Seq(E) /\ s \o t \in Seq(E)
  BY ConcatProperties
<1>2. Append(s \o t, e) = (s \o t) \o u /\ Append(t, e) = t \o u
  BY <1>1, AppendIsConcat
<1> HIDE DEF u
<1>3. (s \o t) \o u = s \o (t \o u)
  BY <1>1, Assoc
<1> QED  BY <1>2, <1>3

\* One more element of a sequence.
LEMMA OneMore ==
    ASSUME NEW S, NEW s \in Seq(S), NEW n \in 0 .. Len(s) - 1
    PROVE  /\ SubSeq(s, 1, n + 1) = Append(SubSeq(s, 1, n), s[n + 1])
           /\ SubSeq(s, 1, n) \in Seq(S) /\ s[n + 1] \in S
<1>1. Len(s) \in Nat /\ n \in Int /\ n >= 0 /\ n + 1 \in 1 .. Len(s) /\ (n + 1) - 1 = n
  BY LenProperties
<1>2. s[n + 1] \in S
  BY <1>1, ElementOfSeq
<1>3. SubSeq(s, 1, n) \in Seq(S)
  <2>1. \A i \in 1 .. n : i \in 1 .. Len(s)
    BY <1>1
  <2>2. \A i \in 1 .. n : s[i] \in S
    BY <2>1, ElementOfSeq
  <2>3. 1 \in Int
    OBVIOUS
  <2> QED  BY <1>1, <2>2, <2>3, SubSeqProperties
<1>4. SubSeq(s, 1, n + 1) = SubSeq(s, 1, n) \o <<s[n + 1]>>
  <2>1. \A k \in 1 .. Len(s) : SubSeq(s, 1, k) = SubSeq(s, 1, k - 1) \o <<s[k]>>
    <3>1. ASSUME NEW k \in 1 .. Len(s) PROVE SubSeq(s, 1, k) = SubSeq(s, 1, k - 1) \o <<s[k]>>
      <4>1. 1 \in 1 .. Len(s) /\ k \in 1 .. Len(s)
        BY <1>1
      <4> QED  BY <4>1, SubSeqRecursiveSecond
    <3> QED  BY <3>1
  <2> QED  BY <1>1, <2>1
<1>5. Append(SubSeq(s, 1, n), s[n + 1]) = SubSeq(s, 1, n) \o <<s[n + 1]>>
  BY <1>2, <1>3, AppendIsConcat
<1> QED  BY <1>2, <1>3, <1>4, <1>5

\* FlattenSeq() gives a sequence.
LEMMA FlatType ==
    ASSUME NEW S, NEW s \in Seq(Seq(S))
    PROVE  FlattenSeq(s) \in Seq(S)
<1>1. CASE s = <<>>
  <2>1. FlattenSeq(s) = <<>> /\ <<>> \in Seq(S)
    BY <1>1 DEF FlattenSeq
  <2> QED  BY <2>1
<1>2. CASE s # <<>>
  <2>1. PICK g : Pieces(s, g, Len(s)) /\ FlattenSeq(s) = g[Len(s)]
    BY <1>2, FlatIs
  <2> DEFINE T == {n \in 0 .. Len(s) : n = 0 \/ g[n] \in Seq(S)}
  <2>2. Len(s) \in Nat /\ Len(s) # 0 /\ 0 \in T
    BY <1>2, LenProperties, EmptySeq
  <2>3. ASSUME NEW n \in 0 .. Len(s) - 1, n \in T PROVE n + 1 \in T
    <3>1. n + 1 \in 1 .. Len(s) /\ n + 1 \in 0 .. Len(s) /\ (n + 1) - 1 = n /\ (n + 1 = 1 <=> n = 0)
      BY <2>2
    <3>2. g[n + 1] = IF n + 1 = 1 THEN s[n + 1] ELSE g[(n + 1) - 1] \o s[n + 1]
      BY <2>1, <3>1 DEF Pieces
    <3>3. s[n + 1] \in Seq(S)
      BY <3>1, ElementOfSeq
    <3>4. CASE n = 0
      BY <3>1, <3>2, <3>3, <3>4
    <3>5. CASE n # 0
      <4>1. g[n] \in Seq(S)
        BY <2>3, <3>5
      <4>2. g[n + 1] = g[n] \o s[n + 1]
        BY <3>1, <3>2, <3>5
      <4>3. g[n + 1] \in Seq(S)
        BY <3>3, <4>1, <4>2, ConcatProperties
      <4> QED  BY <3>1, <4>3
    <3> QED  BY <3>4, <3>5
  <2>4. \A n \in 0 .. Len(s) : n \in T
    <3> HIDE DEF T
    <3> QED  BY <2>2, <2>3, AllUpTo
  <2>5. Len(s) \in T
    <3> HIDE DEF T
    <3>1. Len(s) \in 0 .. Len(s)
      BY <2>2
    <3> QED  BY <2>4, <3>1
  <2> QED  BY <2>1, <2>2, <2>5
<1> QED  BY <1>1, <1>2

\* One more sequence at the end, also of none.
LEMMA FlatGrows ==
    ASSUME NEW S, NEW s \in Seq(Seq(S)), NEW x \in Seq(S)
    PROVE  FlattenSeq(Append(s, x)) = FlattenSeq(s) \o x
<1>1. CASE s = <<>>
  <2>1. Append(s, x) = <<x>>
    BY <1>1
  <2>2. FlattenSeq(<<x>>) = x /\ FlattenSeq(<<>>) = <<>>
    BY FlatOne
  <2>3. <<>> \o x = x
    BY ConcatEmptySeq
  <2> QED  BY <1>1, <2>1, <2>2, <2>3
<1>2. CASE s # <<>>
  BY <1>2, FlatAppend
<1> QED  BY <1>1, <1>2

\* Two sequences of sequences.
LEMMA FlatConcat ==
    ASSUME NEW S, NEW s \in Seq(Seq(S)), NEW t \in Seq(Seq(S))
    PROVE  FlattenSeq(s \o t) = FlattenSeq(s) \o FlattenSeq(t)
<1> DEFINE Up(n) == SubSeq(t, 1, n)
           T == {n \in 0 .. Len(t) : Up(n) \in Seq(Seq(S)) /\ FlattenSeq(s \o Up(n)) = FlattenSeq(s) \o FlattenSeq(Up(n))}
<1>1. Len(t) \in Nat /\ FlattenSeq(s) \in Seq(S)
  BY LenProperties, FlatType
<1>2. 0 \in T
  <2>1. Up(0) = <<>> /\ 0 \in 0 .. Len(t)
    BY <1>1, SubSeqEmpty
  <2>2. s \o <<>> = s /\ FlattenSeq(s) \o <<>> = FlattenSeq(s) /\ FlattenSeq(<<>>) = <<>>
    <3>1. s \o <<>> = s
      BY ConcatEmptySeq
    <3>2. FlattenSeq(s) \o <<>> = FlattenSeq(s)
      BY <1>1, ConcatEmptySeq
    <3>3. FlattenSeq(<<>>) = <<>>
      BY DEF FlattenSeq
    <3> QED  BY <3>1, <3>2, <3>3
  <2>3. <<>> \in Seq(Seq(S))
    OBVIOUS
  <2> HIDE DEF Up
  <2> QED  BY <2>1, <2>2, <2>3
<1>3. ASSUME NEW n \in 0 .. Len(t) - 1, n \in T PROVE n + 1 \in T
  <2> DEFINE u == Up(n)
             x == t[n + 1]
  <2>1. Up(n + 1) = Append(u, x) /\ u \in Seq(Seq(S)) /\ x \in Seq(S)
    BY OneMore
  <2>2. FlattenSeq(s \o u) = FlattenSeq(s) \o FlattenSeq(u) /\ n + 1 \in 0 .. Len(t)
    BY <1>1, <1>3
  <2> HIDE DEF u, x, Up, T
  <2>3. Append(u, x) \in Seq(Seq(S)) /\ s \o u \in Seq(Seq(S)) /\ FlattenSeq(u) \in Seq(S)
    BY <2>1, AppendProperties, ConcatProperties, FlatType
  <2>4. s \o Append(u, x) = Append(s \o u, x)
    <3>1. PICK E : E = Seq(S)
      OBVIOUS
    <3>2. PICK p \in Seq(E), q \in Seq(E), r \in E : p = s /\ q = u /\ r = x
      BY <2>1, <3>1
    <3>3. p \o Append(q, r) = Append(p \o q, r)
      BY AppendRight
    <3> QED  BY <3>2, <3>3
  <2>5. FlattenSeq(Append(s \o u, x)) = FlattenSeq(s \o u) \o x
    BY <2>1, <2>3, FlatGrows
  <2>6. FlattenSeq(Append(u, x)) = FlattenSeq(u) \o x
    BY <2>1, FlatGrows
  <2>7. (FlattenSeq(s) \o FlattenSeq(u)) \o x = FlattenSeq(s) \o (FlattenSeq(u) \o x)
    <3>1. PICK p \in Seq(S), q \in Seq(S), r \in Seq(S) : p = FlattenSeq(s) /\ q = FlattenSeq(u) /\ r = x
      BY <1>1, <2>1, <2>3
    <3>2. (p \o q) \o r = p \o (q \o r)
      BY Assoc, SMTT(30)
    <3> QED  BY <3>1, <3>2
  <2>8. FlattenSeq(s \o Append(u, x)) = FlattenSeq(s) \o FlattenSeq(Append(u, x))
    BY <2>2, <2>4, <2>5, <2>6, <2>7
  <2> QED  BY <2>1, <2>2, <2>3, <2>8 DEF T
<1>4. Len(t) \in T
  <2>1. \A n \in 0 .. Len(t) : n \in T
    <3> HIDE DEF T
    <3> QED  BY <1>1, <1>2, <1>3, AllUpTo
  <2>2. Len(t) \in 0 .. Len(t)
    BY <1>1
  <2> HIDE DEF T
  <2> QED  BY <2>1, <2>2
<1>5. Up(Len(t)) = t
  BY SubSeqFull
<1> HIDE DEF Up
<1> QED  BY <1>4, <1>5

-----------------------------------------------------------------------------
(* Only().                                                                 *)

\* What Only() is made of: g[i] is what it has of the first i elements.
Picks(S, s, g, m) ==
    g = [i \in 0 .. m |-> IF i = 0 THEN <<>>
                          ELSE IF s[i] \in S THEN Append(g[i - 1], s[i]) ELSE g[i - 1]]

\* There are such picks, for every sequence.
LEMMA PicksExist ==
    ASSUME NEW S, NEW s, NEW m \in Nat
    PROVE  \E g : Picks(S, s, g, m)
<1> DEFINE T == {n \in 0 .. m : \E g : Picks(S, s, g, n)}
<1>1. 0 \in T
  <2> DEFINE g == [i \in 0 .. 0 |-> <<>>]
             h == [i \in 0 .. 0 |-> IF i = 0 THEN <<>>
                                    ELSE IF s[i] \in S THEN Append(g[i - 1], s[i]) ELSE g[i - 1]]
  <2>1. g = h
    OBVIOUS
  <2>2. Picks(S, s, g, 0)
    BY <2>1 DEF Picks
  <2> QED  BY <2>2
<1>2. ASSUME NEW n \in 0 .. m - 1, n \in T PROVE n + 1 \in T
  <2>1. PICK g : Picks(S, s, g, n)
    BY <1>2
  <2> DEFINE h == [i \in 0 .. n + 1 |-> IF i = n + 1 THEN IF s[i] \in S THEN Append(g[n], s[i]) ELSE g[n] ELSE g[i]]
             k == [i \in 0 .. n + 1 |-> IF i = 0 THEN <<>>
                                        ELSE IF s[i] \in S THEN Append(h[i - 1], s[i]) ELSE h[i - 1]]
  <2>2. ASSUME NEW i \in 0 .. n + 1 PROVE h[i] = k[i]
    <3>1. \A j \in 0 .. n : g[j] = IF j = 0 THEN <<>> ELSE IF s[j] \in S THEN Append(g[j - 1], s[j]) ELSE g[j - 1]
      BY <2>1 DEF Picks
    <3>2. CASE i = 0
      <4>1. i # n + 1 /\ i \in 0 .. n
        BY <3>2
      <4>2. h[i] = g[i] /\ k[i] = <<>>
        BY <3>2, <4>1
      <4>3. g[i] = <<>>
        BY <3>1, <3>2, <4>1
      <4> QED  BY <4>2, <4>3
    <3>3. CASE i # 0
      <4>1. i - 1 \in 0 .. n /\ i - 1 # n + 1 /\ i - 1 \in 0 .. n + 1 /\ n \in Int /\ i \in Int
        BY <3>3
      <4>2. h[i - 1] = g[i - 1]
        BY <4>1
      <4>3. h[i] = IF s[i] \in S THEN Append(g[i - 1], s[i]) ELSE g[i - 1]
        <5>1. CASE i = n + 1
          <6>1. i - 1 = n
            BY <4>1, <5>1
          <6>2. h[i] = IF s[i] \in S THEN Append(g[n], s[i]) ELSE g[n]
            BY <5>1
          <6> QED  BY <6>1, <6>2
        <5>2. CASE i # n + 1
          <6>1. i \in 0 .. n
            BY <4>1, <5>2
          <6>2. h[i] = g[i]
            BY <5>2
          <6> QED  BY <3>1, <3>3, <6>1, <6>2
        <5> QED  BY <5>1, <5>2
      <4>4. k[i] = IF s[i] \in S THEN Append(h[i - 1], s[i]) ELSE h[i - 1]
        BY <3>3
      <4> HIDE DEF h, k
      <4> QED  BY <4>2, <4>3, <4>4
    <3> QED  BY <3>2, <3>3
  <2>3. h = k
    BY <2>2
  <2>4. Picks(S, s, h, n + 1)
    BY <2>3 DEF Picks
  <2>5. n + 1 \in 0 .. m
    OBVIOUS
  <2> HIDE DEF h
  <2> QED  BY <2>4, <2>5
<1> HIDE DEF T
<1>3. m \in T
  BY <1>1, <1>2, AllUpTo
<1> QED  BY <1>3 DEF T

\* Elements of s that are in S, none twice that was not twice in s.
LEMMA OnlyFacts ==
    ASSUME NEW D, NEW s \in Seq(D), NEW S
    PROVE  /\ Only(S, s) \in Seq(D)
           /\ \A i \in 1 .. Len(Only(S, s)) : \E j \in 1 .. Len(s) : s[j] = Only(S, s)[i] /\ s[j] \in S
           /\ (\A i, j \in 1 .. Len(s) : s[i] = s[j] => i = j) =>
                 \A i, j \in 1 .. Len(Only(S, s)) : Only(S, s)[i] = Only(S, s)[j] => i = j
<1> DEFINE m == Len(s)
<1>1. m \in Nat
  BY LenProperties
<1>2. PICK g : Picks(S, s, g, m) /\ Only(S, s) = g[m]
  <2>1. Only(S, s) = (CHOOSE g : Picks(S, s, g, Len(s)))[Len(s)]
    BY DEF Only, Picks
  <2>2. Picks(S, s, CHOOSE g : Picks(S, s, g, Len(s)), Len(s))
    <3>1. \E g : Picks(S, s, g, Len(s))
      BY <1>1, PicksExist
    <3> QED  BY <3>1
  <2> QED  BY <2>1, <2>2
<1> DEFINE Apart(t) == \A i, j \in 1 .. Len(t) : t[i] = t[j] => i = j
           From(t, n) == \A i \in 1 .. Len(t) : \E j \in 1 .. n : s[j] = t[i] /\ s[j] \in S
           T == {n \in 0 .. m : g[n] \in Seq(D) /\ From(g[n], n) /\ (Apart(s) => Apart(g[n]))}
<1>3. 0 \in T
  <2>1. g[0] = <<>> /\ Len(<<>>) = 0
    BY <1>1, <1>2 DEF Picks
  <2>2. <<>> \in Seq(D) /\ From(<<>>, 0) /\ Apart(<<>>)
    OBVIOUS
  <2>3. 0 \in 0 .. m
    BY <1>1
  <2> HIDE DEF From, Apart, m
  <2> QED  BY <2>1, <2>2, <2>3
<1>4. ASSUME NEW n \in 0 .. m - 1, n \in T PROVE n + 1 \in T
  <2> DEFINE u == g[n]
             x == s[n + 1]
             l == Len(u)
  <2>1. n + 1 \in 1 .. m /\ n + 1 \in 0 .. m /\ (n + 1) - 1 = n /\ n + 1 # 0 /\ n \in Int /\ m \in Int
    BY <1>1
  <2>2. g[n + 1] = IF x \in S THEN Append(u, x) ELSE u
    BY <1>2, <2>1 DEF Picks
  <2>3. u \in Seq(D) /\ From(u, n) /\ (Apart(s) => Apart(u))
    BY <1>4
  <2>4. x \in D
    BY <2>1, ElementOfSeq
  <2>5. \A j \in 1 .. n : j \in 1 .. n + 1
    OBVIOUS
  <2>6. l \in Nat
    BY <2>3, LenProperties
  <2>7. CASE x \notin S
    <3>1. g[n + 1] = u
      BY <2>2, <2>7
    <3>2. From(u, n + 1)
      BY <2>3, <2>5
    <3> HIDE DEF From, Apart, m
    <3> QED  BY <2>1, <2>3, <3>1, <3>2
  <2>8. CASE x \in S
    <3> DEFINE v == Append(u, x)
    <3>1. v \in Seq(D) /\ Len(v) = l + 1 /\ v[l + 1] = x /\ \A i \in 1 .. l : v[i] = u[i]
      BY <2>3, <2>4, AppendProperties
    <3>2. g[n + 1] = v
      BY <2>2, <2>8
    <3> HIDE DEF v
    <3>3. From(v, n + 1)
      <4>1. ASSUME NEW i \in 1 .. Len(v) PROVE \E j \in 1 .. n + 1 : s[j] = v[i] /\ s[j] \in S
        <5>1. CASE i = l + 1
          <6>1. n + 1 \in 1 .. n + 1
            BY <2>1
          <6> QED  BY <2>8, <3>1, <5>1, <6>1
        <5>2. CASE i # l + 1
          <6>1. i \in 1 .. l
            BY <2>6, <3>1, <5>2
          <6> QED  BY <2>3, <2>5, <3>1, <6>1
        <5> QED  BY <5>1, <5>2
      <4> QED  BY <4>1
    <3>4. ASSUME Apart(s) PROVE Apart(v)
      <4>1. \A i \in 1 .. l : v[i] # x
        <5> SUFFICES ASSUME NEW i \in 1 .. l, v[i] = x PROVE FALSE
          OBVIOUS
        <5>1. PICK j \in 1 .. n : s[j] = u[i]
          BY <2>3
        <5>2. s[j] = s[n + 1] /\ j \in 1 .. m /\ n + 1 \in 1 .. m /\ j # n + 1
          BY <2>1, <3>1, <5>1
        <5> QED  BY <3>4, <5>2
      <4>2. ASSUME NEW i \in 1 .. Len(v), NEW j \in 1 .. Len(v), v[i] = v[j] PROVE i = j
        <5>1. (i \in 1 .. l \/ i = l + 1) /\ (j \in 1 .. l \/ j = l + 1)
          BY <2>6, <3>1
        <5>2. CASE i \in 1 .. l /\ j \in 1 .. l
          <6>1. u[i] = u[j]
            BY <3>1, <4>2, <5>2
          <6> QED  BY <2>3, <3>4, <5>2, <6>1
        <5>3. CASE i = l + 1 /\ j \in 1 .. l
          BY <3>1, <4>1, <4>2, <5>3
        <5>4. CASE i \in 1 .. l /\ j = l + 1
          BY <3>1, <4>1, <4>2, <5>4
        <5> QED  BY <5>1, <5>2, <5>3, <5>4
      <4> QED  BY <4>2
    <3> QED  BY <2>1, <3>1, <3>2, <3>3, <3>4
  <2> QED  BY <2>7, <2>8
<1>5. m \in T
  <2>1. \A n \in 0 .. m : n \in T
    <3> HIDE DEF T, m
    <3> QED  BY <1>1, <1>3, <1>4, AllUpTo
  <2>2. m \in 0 .. m
    BY <1>1
  <2> HIDE DEF T
  <2> QED  BY <2>1, <2>2
<1> QED  BY <1>2, <1>5

-----------------------------------------------------------------------------
(* The invariants of the echo servers.                                     *)

\* What a socket is known by.
Fd == Clients \cup {Listen}
\* No element twice.
Apart(s) == \A i, j \in 1 .. Len(s) : s[i] = s[j] => i = j

\* The types of the sockets, of the epoll instance and of the clients.
SocketTypes ==
    /\ client \in [Clients -> {"new", "open", "left"}]
    /\ sent \in [Clients -> Nat]
    /\ backlog \in Seq(Clients) /\ rdlist \in Seq(Fd)
    /\ events \in Seq([fd : Fd, hup : BOOLEAN])
    /\ conns \subseteq Clients /\ broken \subseteq Clients /\ lost \subseteq Clients
    /\ server \in {"up", "exited", "sigpipe"} /\ faults \in SocketFaults

\* A connection waits in the backlog once, until it is accepted.
BacklogInv ==
    /\ Apart(backlog)
    /\ \A i \in 1 .. Len(backlog) : backlog[i] \notin conns /\ client[backlog[i]] # "new"
    /\ \A c \in conns : client[c] # "new"

\* What is ready is registered.
RdlistInv ==
    /\ Apart(rdlist)
    /\ \A i \in 1 .. Len(rdlist) : rdlist[i] \in conns \cup {Listen}

\* So is what the events still to be handled are about, each something else.
EventsInv ==
    /\ \A i \in 1 .. Len(events) : events[i].fd \in conns \cup {Listen}
                                   /\ (events[i].hup => events[i].fd \in broken)
    /\ \A i, j \in 1 .. Len(events) : events[i].fd = events[j].fd => i = j

\* Only a client that has left resets its connection.
ResetInv == \A c \in broken : client[c] = "left"

\* What holds of the sockets, whichever server runs.
SocketsInv == SocketTypes /\ BacklogInv /\ RdlistInv /\ EventsInv /\ ResetInv

\* A client is there and has got all its bytes back so far.
There(c) == client[c] # "left" /\ c \notin lost

\* The types of the plain server.
PlainTypes ==
    /\ \A c \in Clients : sent[c] <= Len(BytePlans[c])
    /\ inbox \in [Clients -> Seq(Nat)] /\ echo \in [Clients -> Seq(Nat)]
    /\ line \in Seq(Nat) /\ connfd \in Fd

\* The locals of the loop.
PlainLoop ==
    /\ \A i \in 1 .. Len(events) : events[i].fd = Listen => backlog # <<>>
    /\ line # <<>> => events # <<>> /\ connfd = fd /\ connfd \in conns

\* The bytes a client of the plain server has sent, and those the server holds for it.
Said(c) == FlattenSeq(SubSeq(BytePlans[c], 1, sent[c]))
Line(c) == IF c = connfd THEN line ELSE <<>>

\* What was sent is what came back, what is held and what is still to be read; and
\* what came back to a client that has left, or before some was lost, is the
\* beginning of what it sent.
PlainData ==
    \A c \in Clients :
        /\ There(c) => Said(c) = echo[c] \o Line(c) \o inbox[c]
        /\ \E t \in Seq(Nat) : Said(c) = echo[c] \o t

\* The inductive invariant of the plain server.
PlainInv == SocketsInv /\ PlainTypes /\ PlainLoop /\ PlainData

\* A TLS record.
Unit == [type : {"hello", "finish", "app", "frag", "bad"}, data : Seq(Nat)]

\* The types of the TLS server.
SecureTypes ==
    /\ \A c \in Clients : sent[c] <= Len(Plans[c])
    /\ inbox \in [Clients -> Seq(Unit)] /\ echo \in [Clients -> Seq(Nat)]
    /\ rest \in [Clients -> Seq(Nat)] /\ buf \in Seq(Nat)
    /\ ssl \in [Clients -> {"none", "handshake", "finished", "freed"}]

\* The SSL objects, and the locals of the loop: who is connected has an object in use,
\* who is closed but not freed was reset, and the end of the server has its reason.
SecureLoop ==
    /\ \A c \in conns : ssl[c] \in {"handshake", "finished"}
    /\ \A c \in Clients \ conns : ssl[c] \in {"handshake", "finished"} => c \in broken
    /\ server = "exited" =>
           "register" \in faults \/ \E c \in conns : ssl[c] = "handshake" /\ Readable(c)
    /\ server = "sigpipe" => conns \cap broken # {}
    /\ buf # <<>> => events # <<>> /\ fd \in conns

\* The bytes a client of the TLS server has sent, and those the server holds for it.
Secret(c) == Tls!Bytes(FlattenSeq(SubSeq(Plans[c], 1, sent[c])))
Buf(c) == IF events # <<>> /\ c = fd THEN buf ELSE <<>>

\* What was sent is what came back, what is held and what is still to be read; and
\* what came back to the others is the beginning of what they sent.
SecureData ==
    \A c \in Clients :
        /\ There(c) => Secret(c) = echo[c] \o Buf(c) \o rest[c] \o Tls!Bytes(inbox[c])
        /\ \E t \in Seq(Nat) : Secret(c) = echo[c] \o t

\* The inductive invariant of the TLS server.
SecureInv == SocketsInv /\ SecureTypes /\ SecureLoop /\ SecureData

\* The invariant of whichever server runs.
EchoInv ==
    /\ program = "sock_epoll" => PlainInv
    /\ program = "echo_epoll_ssl" => SecureInv

-----------------------------------------------------------------------------
(* Lists of descriptors.                                                   *)

\* A list of descriptors of K, none twice.
Listed(l, K) == l \in Seq(Fd) /\ Apart(l) /\ \A i \in 1 .. Len(l) : l[i] \in K

\* One more at the end, that was not in it.
LEMMA OneMoreListed ==
    ASSUME NEW D, NEW l \in Seq(D), NEW x \in D, Apart(l), \A i \in 1 .. Len(l) : l[i] # x
    PROVE  Append(l, x) \in Seq(D) /\ Apart(Append(l, x))
           /\ \A i \in 1 .. Len(Append(l, x)) : Append(l, x)[i] = x \/ \E j \in 1 .. Len(l) : Append(l, x)[i] = l[j]
<1> DEFINE v == Append(l, x)
           n == Len(l)
<1>1. n \in Nat /\ v \in Seq(D) /\ Len(v) = n + 1 /\ v[n + 1] = x /\ \A i \in 1 .. n : v[i] = l[i]
  BY AppendProperties, LenProperties
<1> HIDE DEF v
<1>2. \A i \in 1 .. Len(v) : i \in 1 .. n \/ i = n + 1
  BY <1>1
<1>3. \A i \in 1 .. Len(v) : v[i] = x \/ \E j \in 1 .. n : v[i] = l[j]
  BY <1>1, <1>2
<1>4. ASSUME NEW i \in 1 .. Len(v), NEW j \in 1 .. Len(v), v[i] = v[j] PROVE i = j
  <2>1. CASE i \in 1 .. n /\ j \in 1 .. n
    <3>1. l[i] = l[j]
      BY <1>1, <1>4, <2>1
    <3> QED  BY <2>1, <3>1 DEF Apart
  <2>2. CASE i = n + 1 /\ j \in 1 .. n
    BY <1>1, <1>4, <2>2
  <2>3. CASE i \in 1 .. n /\ j = n + 1
    BY <1>1, <1>4, <2>3
  <2> QED  BY <1>2, <2>1, <2>2, <2>3
<1>5. Apart(v)
  BY <1>4 DEF Apart
<1> QED  BY <1>1, <1>3, <1>5 DEF v

\* Something arrives: the ready list has the socket once.
LEMMA WokenListed ==
    ASSUME NEW K, K \subseteq Fd, Listed(rdlist, K), NEW d \in K
    PROVE  Listed(Woken(d), K)
<1>1. rdlist \in Seq(Fd) /\ DOMAIN rdlist = 1 .. Len(rdlist)
  BY LenProperties DEF Listed
<1>2. CASE d \in ToSet(rdlist)
  BY <1>2 DEF Woken
<1>3. CASE d \notin ToSet(rdlist)
  <2>1. \A i \in 1 .. Len(rdlist) : rdlist[i] # d
    BY <1>1, <1>3 DEF ToSet
  <2>2. /\ Append(rdlist, d) \in Seq(Fd) /\ Apart(Append(rdlist, d))
        /\ \A i \in 1 .. Len(Append(rdlist, d)) :
               Append(rdlist, d)[i] = d \/ \E j \in 1 .. Len(rdlist) : Append(rdlist, d)[i] = rdlist[j]
    <3>1. d \in Fd /\ Apart(rdlist)
      BY DEF Listed
    <3> QED  BY <1>1, <2>1, <3>1, OneMoreListed
  <2> QED  BY <1>3, <2>2 DEF Woken, Listed
<1> QED  BY <1>2, <1>3

\* A socket that is new is put at the end.
LEMMA AddedListed ==
    ASSUME NEW K, NEW l, Listed(l, K), NEW x \in Fd, x \notin K
    PROVE  Listed(Append(l, x), K \cup {x})
<1>1. l \in Seq(Fd) /\ Apart(l) /\ \A i \in 1 .. Len(l) : l[i] # x
  BY DEF Listed
<1>2. /\ Append(l, x) \in Seq(Fd) /\ Apart(Append(l, x))
      /\ \A i \in 1 .. Len(Append(l, x)) :
             Append(l, x)[i] = x \/ \E j \in 1 .. Len(l) : Append(l, x)[i] = l[j]
  BY <1>1, OneMoreListed
<1> QED  BY <1>2 DEF Listed

\* Some of a list.
LEMMA OnlyListed ==
    ASSUME NEW K, NEW l, Listed(l, K), NEW S
    PROVE  Listed(Only(S, l), K \cap S)
<1>1. l \in Seq(Fd) /\ \A i, j \in 1 .. Len(l) : l[i] = l[j] => i = j
  BY DEF Listed, Apart
<1>2. /\ Only(S, l) \in Seq(Fd)
      /\ \A i \in 1 .. Len(Only(S, l)) : \E j \in 1 .. Len(l) : l[j] = Only(S, l)[i] /\ l[j] \in S
      /\ \A i, j \in 1 .. Len(Only(S, l)) : Only(S, l)[i] = Only(S, l)[j] => i = j
  BY <1>1, OnlyFacts
<1>3. \A i \in 1 .. Len(Only(S, l)) : Only(S, l)[i] \in K \cap S
  BY <1>2 DEF Listed
<1> QED  BY <1>2, <1>3 DEF Listed, Apart

\* A part of a list.
LEMMA PartListed ==
    ASSUME NEW K, NEW l, Listed(l, K), NEW m \in Nat \ {0}, NEW n \in Nat, n <= Len(l)
    PROVE  /\ Listed(SubSeq(l, m, n), K)
           /\ Len(SubSeq(l, m, n)) = IF m <= n THEN n - m + 1 ELSE 0
<1>1. l \in Seq(Fd) /\ Len(l) \in Nat /\ DOMAIN l = 1 .. Len(l) /\ m \in Int /\ n \in Int
  BY LenProperties DEF Listed
<1>2. \A i \in m .. n : i \in 1 .. Len(l)
  BY <1>1
<1>3. \A i \in m .. n : l[i] \in Fd
  BY <1>1, <1>2, ElementOfSeq
<1> DEFINE v == SubSeq(l, m, n)
<1>4. v \in Seq(Fd) /\ Len(v) = (IF m <= n THEN n - m + 1 ELSE 0) /\ \A i \in 1 .. n - m + 1 : v[i] = l[m + i - 1]
  BY <1>1, <1>3, SubSeqProperties
<1> HIDE DEF v
<1>5. \A i \in 1 .. Len(v) : i \in Int /\ i \in 1 .. n - m + 1 /\ m + i - 1 \in 1 .. Len(l)
  BY <1>1, <1>4
<1>6. \A i \in 1 .. Len(v) : v[i] = l[m + i - 1] /\ v[i] \in K
  BY <1>4, <1>5 DEF Listed
<1>7. ASSUME NEW i \in 1 .. Len(v), NEW j \in 1 .. Len(v), v[i] = v[j] PROVE i = j
  <2>1. l[m + i - 1] = l[m + j - 1]
    BY <1>6, <1>7
  <2>2. m + i - 1 = m + j - 1
    BY <1>5, <2>1 DEF Listed, Apart
  <2> QED  BY <1>1, <1>5, <2>2
<1>8. Apart(v)
  BY <1>7 DEF Apart
<1> QED  BY <1>4, <1>6, <1>8 DEF Listed, v

-----------------------------------------------------------------------------
(* The sockets.                                                            *)

\* What the other lemmas need of the sockets.
LEMMA SocketFacts ==
    ASSUME SocketsInv
    PROVE  /\ Listed(rdlist, conns \cup {Listen}) /\ conns \cup {Listen} \subseteq Fd
           /\ Listen \in Fd /\ Listen \notin conns /\ Clients \subseteq Fd
           /\ Len(events) \in Nat /\ DOMAIN events = 1 .. Len(events)
           /\ Len(backlog) \in Nat /\ DOMAIN backlog = 1 .. Len(backlog)
           /\ Len(rdlist) \in Nat /\ DOMAIN rdlist = 1 .. Len(rdlist)
BY LenProperties, SocketAssumption DEF SocketsInv, SocketTypes, RdlistInv, Listed, Fd

\* The first event and the others.
LEMMA EventsLeft ==
    ASSUME SocketsInv, events # <<>>
    PROVE  /\ fd \in conns \cup {Listen} /\ Len(events) >= 1 /\ 1 \in 1 .. Len(events) /\ fd = events[1].fd
           /\ Head(events).hup => fd \in broken
           /\ Tail(events) \in Seq([fd : Fd, hup : BOOLEAN])
           /\ Len(Tail(events)) = Len(events) - 1
           /\ \A i \in 1 .. Len(Tail(events)) :
                 i + 1 \in 1 .. Len(events) /\ Tail(events)[i] = events[i + 1] /\ Tail(events)[i].fd # fd
           /\ \A i, j \in 1 .. Len(Tail(events)) : Tail(events)[i].fd = Tail(events)[j].fd => i = j
<1>1. events \in Seq([fd : Fd, hup : BOOLEAN]) /\ Len(events) \in Nat /\ Len(events) # 0
  BY EmptySeq, LenProperties DEF SocketsInv, SocketTypes
<1>2. Len(events) >= 1 /\ 1 \in 1 .. Len(events) /\ Head(events) = events[1]
  BY <1>1
<1>3. /\ Tail(events) \in Seq([fd : Fd, hup : BOOLEAN]) /\ Len(Tail(events)) = Len(events) - 1
      /\ \A i \in 1 .. Len(Tail(events)) : Tail(events)[i] = events[i + 1]
  BY <1>1, HeadTailProperties
<1>4. \A i \in 1 .. Len(Tail(events)) : i + 1 \in 1 .. Len(events) /\ i + 1 # 1 /\ i \in Int
  BY <1>1, <1>3
<1>5. \A i \in 1 .. Len(Tail(events)) : Tail(events)[i].fd # events[1].fd
  BY <1>2, <1>3, <1>4 DEF SocketsInv, EventsInv
<1>6. ASSUME NEW i \in 1 .. Len(Tail(events)), NEW j \in 1 .. Len(Tail(events)), Tail(events)[i].fd = Tail(events)[j].fd
      PROVE  i = j
  <2>1. i + 1 = j + 1
    BY <1>3, <1>4, <1>6 DEF SocketsInv, EventsInv
  <2> QED  BY <1>4, <2>1
<1> QED  BY <1>2, <1>3, <1>4, <1>5, <1>6 DEF fd, SocketsInv, EventsInv

\* An element of the array that epoll_wait() fills.
Event == [fd : Fd, hup : BOOLEAN]

\* Events of connections that stay: all, or without the first.
LEMMA EventsKept ==
    ASSUME SocketsInv, events' = events \/ (events # <<>> /\ EventDone), conns \subseteq conns', broken \subseteq broken'
    PROVE  events' \in Seq(Event) /\ EventsInv'
<1>1. CASE events' = events
  BY <1>1 DEF SocketsInv, SocketTypes, EventsInv, Event
<1>2. CASE events # <<>> /\ EventDone
  <2>1. events' = Tail(events)
    BY <1>2 DEF EventDone
  <2>2. \A i \in 1 .. Len(events) : events[i].fd \in conns' \cup {Listen} /\ (events[i].hup => events[i].fd \in broken')
    BY DEF SocketsInv, EventsInv
  <2>3. /\ events' \in Seq(Event)
        /\ \A i \in 1 .. Len(events') : i + 1 \in 1 .. Len(events) /\ events'[i] = events[i + 1]
        /\ \A i, j \in 1 .. Len(events') : events'[i].fd = events'[j].fd => i = j
    BY <1>2, <2>1, EventsLeft DEF Event
  <2> QED  BY <2>2, <2>3 DEF EventsInv
<1> QED  BY <1>1, <1>2

\* The events after the one whose connection is closed are not about it.
LEMMA EventsClosed ==
    ASSUME SocketsInv, events # <<>>, EventDone, conns' = conns \ {fd}, broken' = broken
    PROVE  events' \in Seq(Event) /\ EventsInv'
<1>1. events' = Tail(events)
  BY DEF EventDone
<1>2. /\ events' \in Seq(Event)
      /\ \A i \in 1 .. Len(events') : i + 1 \in 1 .. Len(events) /\ events'[i] = events[i + 1] /\ events'[i].fd # fd
      /\ \A i, j \in 1 .. Len(events') : events'[i].fd = events'[j].fd => i = j
  BY <1>1, EventsLeft DEF Event
<1>3. \A i \in 1 .. Len(events) : events[i].fd \in conns \cup {Listen} /\ (events[i].hup => events[i].fd \in broken)
  BY DEF SocketsInv, EventsInv
<1>4. \A i \in 1 .. Len(events') : events'[i].fd \in conns' \cup {Listen}
  BY <1>2, <1>3
<1>5. \A i \in 1 .. Len(events') : events'[i].hup => events'[i].fd \in broken'
  BY <1>2, <1>3
<1> QED  BY <1>2, <1>4, <1>5 DEF EventsInv

\* The parts put together.
LEMMA SocketsParts ==
    ASSUME client' \in [Clients -> {"new", "open", "left"}], sent' \in [Clients -> Nat],
           backlog' \in Seq(Clients), conns' \subseteq Clients, broken' \subseteq Clients,
           lost' \subseteq Clients, faults' \in SocketFaults, ResetInv',
           server' \in {"up", "exited", "sigpipe"},
           events' \in Seq(Event), EventsInv', BacklogInv', Listed(rdlist', conns' \cup {Listen})
    PROVE  SocketsInv'
BY DEF SocketsInv, SocketTypes, RdlistInv, Listed, Event

\* A client connects.
LEMMA ConnectKeeps ==
    ASSUME SocketsInv, NEW c \in Clients, Connect(c)
    PROVE  SocketsInv'
<1>1. /\ client[c] = "new" /\ client' = [client EXCEPT ![c] = "open"] /\ backlog' = Append(backlog, c)
      /\ rdlist' = Woken(Listen) /\ UNCHANGED <<sent, conns, broken, lost, events, server, faults>>
  BY DEF Connect
<1>2. /\ client \in [Clients -> {"new", "open", "left"}] /\ sent \in [Clients -> Nat] /\ backlog \in Seq(Clients)
      /\ conns \subseteq Clients /\ broken \subseteq Clients /\ server \in {"up", "exited", "sigpipe"}
      /\ Apart(backlog) /\ \A i \in 1 .. Len(backlog) : backlog[i] \notin conns /\ client[backlog[i]] # "new"
      /\ \A d \in conns : client[d] # "new"
      /\ lost \subseteq Clients /\ faults \in SocketFaults /\ ResetInv
  BY DEF SocketsInv, SocketTypes, BacklogInv
<1>3. client' \in [Clients -> {"new", "open", "left"}] /\ client'[c] = "open"
      /\ \A d \in Clients : d # c => client'[d] = client[d]
  BY <1>1, <1>2
<1>4. Listed(rdlist', conns' \cup {Listen})
  <2>1. Listed(Woken(Listen), conns \cup {Listen})
    BY SocketFacts, WokenListed
  <2> QED  BY <1>1, <2>1
<1>5. events' \in Seq(Event) /\ EventsInv'
  BY <1>1, EventsKept
<1>6. /\ backlog' \in Seq(Clients) /\ Apart(backlog')
      /\ \A i \in 1 .. Len(backlog') : backlog'[i] = c \/ \E j \in 1 .. Len(backlog) : backlog'[i] = backlog[j]
  <2>1. \A i \in 1 .. Len(backlog) : backlog[i] # c
    BY <1>1, <1>2
  <2> QED  BY <1>1, <1>2, <2>1, OneMoreListed
<1>7. \A i \in 1 .. Len(backlog) : backlog[i] \in Clients
  BY <1>2, ElementOfSeq
<1>8. c \notin conns
  BY <1>1, <1>2
<1>9. BacklogInv'
  <2>1. \A d \in Clients : client[d] # "new" => client'[d] # "new"
    BY <1>1, <1>3
  <2>2. \A i \in 1 .. Len(backlog') : backlog'[i] \notin conns' /\ client'[backlog'[i]] # "new"
    BY <1>1, <1>2, <1>3, <1>6, <1>7, <1>8, <2>1
  <2>3. \A d \in conns' : client'[d] # "new"
    BY <1>1, <1>2, <2>1
  <2>4. Apart(backlog)'
    BY <1>6 DEF Apart
  <2> QED  BY <2>2, <2>3, <2>4 DEF BacklogInv
<1>10. ResetInv'
  BY <1>1, <1>2, <1>3 DEF ResetInv
<1> QED  BY <1>1, <1>2, <1>3, <1>4, <1>5, <1>6, <1>9, <1>10, SocketsParts

\* A client sends, leaves or resets.
LEMMA ClientKeeps ==
    ASSUME SocketsInv, NEW c \in Clients,
           UNCHANGED <<backlog, conns, lost, events, server, faults>>,
           \/ UNCHANGED <<client, broken>> /\ sent' = [sent EXCEPT ![c] = @ + 1]
           \/ client' = [client EXCEPT ![c] = "left"] /\ UNCHANGED <<sent, broken>>
           \/ client[c] = "left" /\ UNCHANGED <<client, sent>> /\ broken' = broken \cup {c},
           rdlist' = (IF c \in conns THEN Woken(c) ELSE rdlist)
    PROVE  SocketsInv'
<1>1. /\ client \in [Clients -> {"new", "open", "left"}] /\ sent \in [Clients -> Nat] /\ backlog \in Seq(Clients)
      /\ conns \subseteq Clients /\ broken \subseteq Clients /\ server \in {"up", "exited", "sigpipe"}
      /\ Apart(backlog) /\ \A i \in 1 .. Len(backlog) : backlog[i] \notin conns /\ client[backlog[i]] # "new"
      /\ \A d \in conns : client[d] # "new"
      /\ lost \subseteq Clients /\ faults \in SocketFaults /\ ResetInv
  BY DEF SocketsInv, SocketTypes, BacklogInv
<1>2. client' \in [Clients -> {"new", "open", "left"}] /\ sent' \in [Clients -> Nat]
      /\ \A d \in Clients : client[d] # "new" => client'[d] # "new"
  <2>1. CASE UNCHANGED <<client, broken>> /\ sent' = [sent EXCEPT ![c] = @ + 1]
    <3>1. sent[c] + 1 \in Nat
      BY <1>1
    <3> QED  BY <1>1, <2>1, <3>1
  <2>2. CASE client' = [client EXCEPT ![c] = "left"] /\ UNCHANGED <<sent, broken>>
    BY <1>1, <2>2
  <2>3. CASE UNCHANGED <<client, sent>>
    BY <1>1, <2>3
  <2> QED  BY <2>1, <2>2, <2>3
<1>3. Listed(rdlist', conns' \cup {Listen})
  <2>1. CASE c \in conns
    <3>1. c \in conns \cup {Listen}
      BY <2>1
    <3>2. Listed(Woken(c), conns \cup {Listen})
      BY <3>1, SocketFacts, WokenListed
    <3> QED  BY <2>1, <3>2
  <2>2. CASE c \notin conns
    BY <2>2, SocketFacts
  <2> QED  BY <2>1, <2>2
<1>4. events' \in Seq(Event) /\ EventsInv'
  <2>1. broken \subseteq broken' /\ conns \subseteq conns' /\ events' = events
    OBVIOUS
  <2> QED  BY <2>1, EventsKept
<1>7. broken' \subseteq Clients /\ ResetInv'
  BY <1>1 DEF ResetInv
<1>5. \A i \in 1 .. Len(backlog) : backlog[i] \in Clients
  BY <1>1, ElementOfSeq
<1>6. BacklogInv'
  <2>1. \A i \in 1 .. Len(backlog) : backlog[i] \notin conns' /\ client'[backlog[i]] # "new"
    BY <1>1, <1>2, <1>5
  <2>2. \A d \in conns' : client'[d] # "new"
    BY <1>1, <1>2
  <2> QED  BY <1>1, <2>1, <2>2 DEF BacklogInv, Apart
<1> QED  BY <1>1, <1>2, <1>3, <1>4, <1>6, <1>7, SocketsParts

\* epoll_wait() finds what is readable.
LEMMA WaitKeeps ==
    ASSUME SocketsInv, epoll_wait, UNCHANGED <<client, sent, backlog, conns, broken, lost, server, faults>>
    PROVE  SocketsInv' /\ \A i \in 1 .. Len(events') : Readable(events'[i].fd)
<1> DEFINE m == IF Len(rdlist) < MAXEVENTS THEN Len(rdlist) ELSE MAXEVENTS
           listed == SubSeq(rdlist, 1, m)
           S == {d \in ToSet(listed) : Readable(d)}
           found == Only(S, listed)
           K == conns \cup {Listen}
<1>1. /\ events' = [i \in DOMAIN found |-> [fd |-> found[i], hup |-> found[i] \in broken]]
      /\ rdlist' = SubSeq(rdlist, Len(listed) + 1, Len(rdlist))
  BY DEF epoll_wait
<1>2. m \in Nat /\ m <= Len(rdlist) /\ Len(rdlist) \in Nat /\ Listed(rdlist, K) /\ K \subseteq Fd
  BY SocketFacts, SocketAssumption
<1> HIDE DEF m
<1>3. Listed(listed, K) /\ Len(listed) \in Nat
  <2>1. 1 \in Nat \ {0}
    OBVIOUS
  <2>2. Listed(listed, K)
    BY <1>2, <2>1, PartListed
  <2> QED  BY <2>2, LenProperties DEF Listed
<1> HIDE DEF listed
<1>4. Listed(rdlist', K)
  <2> DEFINE n == Len(listed) + 1
  <2>1. n \in Nat \ {0} /\ Len(rdlist) <= Len(rdlist) /\ rdlist' = SubSeq(rdlist, n, Len(rdlist))
    BY <1>1, <1>2, <1>3
  <2> HIDE DEF n
  <2>2. Listed(SubSeq(rdlist, n, Len(rdlist)), K)
    BY <1>2, <2>1, PartListed
  <2> QED  BY <2>1, <2>2
<1>5. Listed(found, K \cap S)
  <2> HIDE DEF S, K
  <2> QED  BY <1>3, OnlyListed
<1> HIDE DEF found
<1>6. found \in Seq(Fd) /\ DOMAIN found = 1 .. Len(found) /\ Len(found) \in Nat
      /\ \A i \in 1 .. Len(found) : found[i] \in K /\ Readable(found[i]) /\ found[i] \in Fd
  BY <1>2, <1>5, LenProperties, ElementOfSeq DEF Listed
<1>7. events' \in Seq(Event) /\ Len(events') = Len(found)
      /\ \A i \in 1 .. Len(events') : events'[i].fd = found[i] /\ events'[i].hup = (found[i] \in broken)
  <2>1. \A i \in 1 .. Len(found) : [fd |-> found[i], hup |-> found[i] \in broken] \in Event
    BY <1>6 DEF Event
  <2>2. events' = [i \in 1 .. Len(found) |-> [fd |-> found[i], hup |-> found[i] \in broken]]
    BY <1>1, <1>6
  <2>3. events' \in Seq(Event) /\ Len(events') = Len(found)
    BY <1>6, <2>1, <2>2, IsASeq
  <2> QED  BY <2>2, <2>3
<1>8. EventsInv'
  <2>1. \A i \in 1 .. Len(events') : events'[i].fd \in conns' \cup {Listen} /\ (events'[i].hup => events'[i].fd \in broken')
    BY <1>6, <1>7
  <2>2. \A i, j \in 1 .. Len(events') : events'[i].fd = events'[j].fd => i = j
    BY <1>5, <1>7 DEF Listed, Apart
  <2> QED  BY <2>1, <2>2 DEF EventsInv
<1>9. BacklogInv'
  BY DEF SocketsInv, BacklogInv, Apart
<1>10. Listed(rdlist', conns' \cup {Listen})
  BY <1>4
<1>11. SocketsInv'
  <2>1. /\ client' \in [Clients -> {"new", "open", "left"}] /\ sent' \in [Clients -> Nat]
        /\ backlog' \in Seq(Clients) /\ conns' \subseteq Clients /\ broken' \subseteq Clients
        /\ server' \in {"up", "exited", "sigpipe"}
        /\ lost' \subseteq Clients /\ faults' \in SocketFaults /\ ResetInv'
    BY DEF SocketsInv, SocketTypes, ResetInv
  <2> QED  BY <1>7, <1>8, <1>9, <1>10, <2>1, SocketsParts
<1> QED  BY <1>6, <1>7, <1>11

\* accept() of the connection that waits longest, registered or not.
LEMMA AcceptKeeps ==
    ASSUME SocketsInv, backlog # <<>>, accept(Head(backlog)) \/ UNCHANGED <<conns, rdlist>>,
           backlog' = Tail(backlog), server' \in {"up", "exited", "sigpipe"},
           events' = events \/ (events # <<>> /\ EventDone), UNCHANGED <<client, sent, broken, lost, faults>>
    PROVE  SocketsInv' /\ Head(backlog) \in Clients \ conns
<1> DEFINE c == Head(backlog)
<1>1. \/ /\ conns' = conns \cup {c} /\ rdlist' = IF Readable(c) THEN Append(rdlist, c) ELSE rdlist
      \/ UNCHANGED <<conns, rdlist>>
  BY DEF accept
<1>2. /\ client \in [Clients -> {"new", "open", "left"}] /\ sent \in [Clients -> Nat] /\ backlog \in Seq(Clients)
      /\ conns \subseteq Clients /\ broken \subseteq Clients /\ server \in {"up", "exited", "sigpipe"}
      /\ Apart(backlog) /\ \A i \in 1 .. Len(backlog) : backlog[i] \notin conns /\ client[backlog[i]] # "new"
      /\ \A d \in conns : client[d] # "new"
      /\ lost \subseteq Clients /\ faults \in SocketFaults /\ ResetInv
  BY DEF SocketsInv, SocketTypes, BacklogInv
<1>3. /\ c \in Clients /\ backlog' \in Seq(Clients) /\ Len(backlog') = Len(backlog) - 1
      /\ \A i \in 1 .. Len(backlog') : backlog'[i] = backlog[i + 1]
  BY <1>2, HeadTailProperties
<1>4. Len(backlog) \in Nat /\ Len(backlog) >= 1 /\ c = backlog[1] /\ 1 \in 1 .. Len(backlog)
  BY <1>2, EmptySeq, LenProperties
<1>5. c \notin conns /\ client[c] # "new"
  BY <1>2, <1>4
<1> HIDE DEF c
<1>6. \A i \in 1 .. Len(backlog') : i + 1 \in 1 .. Len(backlog) /\ i + 1 # 1 /\ i \in Int
  BY <1>3, <1>4
<1>7. \A i \in 1 .. Len(backlog') : backlog'[i] # c /\ backlog'[i] \notin conns /\ client[backlog'[i]] # "new"
  BY <1>2, <1>3, <1>4, <1>6 DEF Apart
<1>8. ASSUME NEW i \in 1 .. Len(backlog'), NEW j \in 1 .. Len(backlog'), backlog'[i] = backlog'[j] PROVE i = j
  <2>1. i + 1 = j + 1
    BY <1>2, <1>3, <1>6, <1>8 DEF Apart
  <2> QED  BY <1>6, <2>1
<1>9. BacklogInv'
  <2>1. \A d \in conns' : client'[d] # "new"
    BY <1>1, <1>2, <1>5
  <2>2. Apart(backlog)'
    BY <1>8 DEF Apart
  <2> QED  BY <1>1, <1>7, <2>1, <2>2 DEF BacklogInv
<1>10. Listed(rdlist', conns' \cup {Listen})
  <2> DEFINE K == conns \cup {Listen}
  <2>1. /\ Listed(rdlist, K) /\ c \in Fd /\ c \notin K
        /\ conns' \cup {Listen} = K \cup {c} \/ (conns' \cup {Listen} = K /\ rdlist' = rdlist)
    BY <1>1, <1>3, <1>5, SocketFacts, SocketAssumption
  <2> HIDE DEF K
  <2>2. Listed(Append(rdlist, c), K \cup {c})
    BY <2>1, AddedListed
  <2>3. Listed(rdlist, K \cup {c})
    BY <2>1 DEF Listed
  <2> QED  BY <1>1, <2>1, <2>2, <2>3
<1>11. events' \in Seq(Event) /\ EventsInv'
  BY <1>1, EventsKept
<1>12. conns' \subseteq Clients
  BY <1>1, <1>2, <1>3
<1>14. ResetInv'
  BY <1>2 DEF ResetInv
<1>13. SocketsInv'
  BY <1>2, <1>3, <1>9, <1>10, <1>11, <1>12, <1>14, SocketsParts
<1> QED  BY <1>3, <1>5, <1>13 DEF c

\* close() of the connection that the event is about.
LEMMA CloseKeeps ==
    ASSUME SocketsInv, events # <<>>, fd # Listen, close(fd), EventDone,
           UNCHANGED <<client, sent, backlog, broken, lost, server, faults>>
    PROVE  SocketsInv' /\ fd \in conns
<1>1. conns' = conns \ {fd} /\ rdlist' = Only(ToSet(rdlist) \ {fd}, rdlist)
  BY DEF close
<1>2. fd \in conns
  BY EventsLeft
<1>3. /\ client \in [Clients -> {"new", "open", "left"}] /\ sent \in [Clients -> Nat] /\ backlog \in Seq(Clients)
      /\ conns \subseteq Clients /\ broken \subseteq Clients /\ server \in {"up", "exited", "sigpipe"}
      /\ Apart(backlog) /\ \A i \in 1 .. Len(backlog) : backlog[i] \notin conns /\ client[backlog[i]] # "new"
      /\ \A d \in conns : client[d] # "new"
      /\ lost \subseteq Clients /\ faults \in SocketFaults /\ ResetInv
  BY DEF SocketsInv, SocketTypes, BacklogInv
<1>4. BacklogInv'
  <2>1. \A d \in conns' : d \in conns
    BY <1>1
  <2>2. \A d \in conns' : client'[d] # "new"
    BY <1>3, <2>1
  <2>3. \A i \in 1 .. Len(backlog) : backlog[i] \notin conns' /\ client'[backlog[i]] # "new"
    BY <1>3, <2>1
  <2> QED  BY <1>3, <2>2, <2>3 DEF BacklogInv, Apart
<1>5. Listed(rdlist', conns' \cup {Listen})
  <2> DEFINE K == conns \cup {Listen}
             S == ToSet(rdlist) \ {fd}
  <2>1. Listed(rdlist, K)
    BY SocketFacts
  <2>2. K \cap S \subseteq conns' \cup {Listen}
    BY <1>1
  <2> HIDE DEF K, S
  <2>3. Listed(Only(S, rdlist), K \cap S)
    BY <2>1, OnlyListed
  <2>4. Listed(Only(S, rdlist), conns' \cup {Listen})
    BY <2>2, <2>3 DEF Listed
  <2> QED  BY <1>1, <2>4 DEF S
<1>6. events' \in Seq(Event) /\ EventsInv'
  BY <1>1, EventsClosed
<1>7. SocketsInv'
  <2>1. conns' \subseteq Clients /\ ResetInv'
    BY <1>1, <1>3 DEF ResetInv
  <2> QED  BY <1>3, <1>4, <1>5, <1>6, <2>1, SocketsParts
<1> QED  BY <1>2, <1>7

\* write(), and what leaves the sockets alone.
LEMMA WriteKeeps ==
    ASSUME SocketsInv, events' = events \/ (events # <<>> /\ EventDone),
           UNCHANGED <<client, sent, backlog, conns, broken, rdlist, faults>>,
           lost' \subseteq Clients, server' \in {"up", "exited", "sigpipe"}
    PROVE  SocketsInv'
<1>1. /\ client \in [Clients -> {"new", "open", "left"}] /\ sent \in [Clients -> Nat] /\ backlog \in Seq(Clients)
      /\ conns \subseteq Clients /\ broken \subseteq Clients /\ faults \in SocketFaults
  BY DEF SocketsInv, SocketTypes
<1>2. BacklogInv' /\ ResetInv'
  BY DEF SocketsInv, BacklogInv, ResetInv, Apart
<1>3. Listed(rdlist', conns' \cup {Listen})
  BY SocketFacts
<1>4. events' \in Seq(Event) /\ EventsInv'
  BY EventsKept
<1> QED  BY <1>1, <1>2, <1>3, <1>4, SocketsParts

-----------------------------------------------------------------------------
(* The plain echo server.                                                  *)

\* The plain server's copies of the sockets' operators are the same.
LEMMA SockSame ==
    /\ Sock!fd = fd /\ (Sock!EventDone <=> EventDone)
    /\ \A d : Sock!Woken(d) = Woken(d) /\ (Sock!Readable(d) <=> Readable(d))
    /\ \A S, s : Sock!Only(S, s) = Only(S, s)
    /\ \A s : Sock!FlattenSeq(s) = FlattenSeq(s)
BY DEF Sock!fd, fd, Sock!EventDone, EventDone, Sock!Woken, Woken, Sock!Readable, Readable,
       Sock!Only, Only, Sock!FlattenSeq, FlattenSeq, Sock!ToSet, ToSet

\* So are those of the steps and the calls.
LEMMA SockCalls ==
    /\ \A c : Sock!Connect(c) <=> Connect(c) /\ UNCHANGED inbox
    /\ \A c : (Sock!Leave(c) <=> Leave(c)) /\ (Sock!Reset(c) <=> Reset(c))
    /\ \A c : Sock!accept(c) <=> accept(c)
    /\ \A c : Sock!close(c) <=> close(c)
    /\ \A c : (Sock!Taken(c) <=> Taken(c)) /\ (Sock!Refused(c) <=> Refused(c))
    /\ \A c, s : Sock!Echoed(echo, c, s) = Echoed(echo, c, s)
<1>1. \A c : Sock!Connect(c) <=> Connect(c) /\ UNCHANGED inbox
  BY SockSame DEF Sock!Connect, Connect
<1>2. \A c : (Sock!Leave(c) <=> Leave(c)) /\ (Sock!Reset(c) <=> Reset(c))
  BY SockSame DEF Sock!Leave, Leave, Sock!Reset, Reset
<1>3. \A c : Sock!accept(c) <=> accept(c)
  BY SockSame DEF Sock!accept, accept
<1>4. \A c : Sock!close(c) <=> close(c)
  BY SockSame DEF Sock!close, close, Sock!ToSet, ToSet
<1>5. /\ \A c : (Sock!Taken(c) <=> Taken(c)) /\ (Sock!Refused(c) <=> Refused(c))
      /\ \A c, s : Sock!Echoed(echo, c, s) = Echoed(echo, c, s)
  BY DEF Sock!Taken, Taken, Sock!Refused, Refused, Sock!Echoed, Echoed
<1> QED  BY <1>1, <1>2, <1>3, <1>4, <1>5

\* And epoll_wait().
LEMMA SockWait == Sock!epoll_wait <=> epoll_wait
<1> DEFINE m == IF Len(rdlist) < MAXEVENTS THEN Len(rdlist) ELSE MAXEVENTS
           listed == SubSeq(rdlist, 1, m)
           S == {d \in ToSet(listed) : Readable(d)}
           R == {d \in Sock!ToSet(listed) : Sock!Readable(d)}
<1>1. R = S
  BY SockSame DEF Sock!ToSet, ToSet
<1>2. Sock!Only(R, listed) = Only(S, listed)
  <2> HIDE DEF R, S, listed
  <2> QED  BY <1>1, SockSame
<1> QED  BY <1>2 DEF Sock!epoll_wait, epoll_wait

\* A sequence is its beginning and its end.
LEMMA SplitOff ==
    ASSUME NEW S, NEW s \in Seq(S), NEW n \in 0 .. Len(s)
    PROVE  /\ SubSeq(s, 1, n) \in Seq(S) /\ SubSeq(s, n + 1, Len(s)) \in Seq(S)
           /\ Len(SubSeq(s, 1, n)) = n
           /\ SubSeq(s, 1, n) \o SubSeq(s, n + 1, Len(s)) = s
<1>1. Len(s) \in Nat /\ n \in Nat /\ n <= Len(s)
  BY LenProperties
<1>2. \A i \in 1 .. Len(s) : s[i] \in S
  BY ElementOfSeq
<1>3. SubSeq(s, 1, n) \in Seq(S) /\ Len(SubSeq(s, 1, n)) = n
  <2>1. \A i \in 1 .. n : s[i] \in S
    BY <1>1, <1>2
  <2>2. SubSeq(s, 1, n) \in Seq(S) /\ Len(SubSeq(s, 1, n)) = IF 1 <= n THEN n - 1 + 1 ELSE 0
    <3>1. 1 \in Int /\ n \in Int
      BY <1>1
    <3> QED  BY <2>1, <3>1, SubSeqProperties
  <2> QED  BY <1>1, <2>2
<1>4. SubSeq(s, n + 1, Len(s)) \in Seq(S)
  <2> DEFINE k == n + 1
  <2>1. k \in Int /\ Len(s) \in Int /\ \A i \in k .. Len(s) : s[i] \in S
    BY <1>1, <1>2
  <2> HIDE DEF k
  <2>2. SubSeq(s, k, Len(s)) \in Seq(S)
    BY <2>1, SubSeqProperties
  <2> QED  BY <2>2 DEF k
<1>5. SubSeq(s, 1, n) \o SubSeq(s, n + 1, Len(s)) = SubSeq(s, 1, Len(s))
  <2>1. 1 \in 1 .. Len(s) + 1 /\ n \in 1 - 1 .. Len(s) /\ Len(s) \in n .. Len(s)
    BY <1>1
  <2> QED  BY <2>1, ConcatAdjacentSubSeq
<1>6. SubSeq(s, 1, Len(s)) = s
  BY SubSeqFull
<1> QED  BY <1>3, <1>4, <1>5, <1>6

\* What a client of the plain server has sent is a sequence of bytes.
LEMMA SaidType ==
    ASSUME PlainTypes, sent \in [Clients -> Nat], NEW c \in Clients
    PROVE  Said(c) \in Seq(Nat) /\ BytePlans[c] \in Seq(Seq(Nat) \ {<<>>}) /\ sent[c] \in Nat
<1>1. BytePlans[c] \in Seq(Seq(Nat) \ {<<>>})
  BY StreamsAssumption
<1>2. sent[c] \in Nat /\ sent[c] <= Len(BytePlans[c])
  BY DEF PlainTypes
<1>3. SubSeq(BytePlans[c], 1, sent[c]) \in Seq(Seq(Nat))
  <2>1. sent[c] \in 0 .. Len(BytePlans[c])
    BY <1>1, <1>2, LenProperties
  <2>2. SubSeq(BytePlans[c], 1, sent[c]) \in Seq(Seq(Nat) \ {<<>>})
    <3>1. PICK E : E = Seq(Nat) \ {<<>>}
      OBVIOUS
    <3>2. BytePlans[c] \in Seq(E)
      BY <1>1, <3>1
    <3>3. SubSeq(BytePlans[c], 1, sent[c]) \in Seq(E)
      BY <2>1, <3>2, SplitOff
    <3> QED  BY <3>1, <3>3
  <2>3. Seq(Nat) \ {<<>>} \subseteq Seq(Nat)
    OBVIOUS
  <2> QED  BY <2>2, <2>3, SeqMonotonic
<1>4. Said(c) \in Seq(Nat)
  BY <1>3, FlatType DEF Said
<1> QED  BY <1>1, <1>2, <1>4

\* One more segment.
LEMMA SaidGrows ==
    ASSUME PlainTypes, sent \in [Clients -> Nat], NEW c \in Clients, sent[c] < Len(BytePlans[c]),
           sent' = [sent EXCEPT ![c] = @ + 1]
    PROVE  /\ Said(c)' = Said(c) \o BytePlans[c][sent[c] + 1]
           /\ BytePlans[c][sent[c] + 1] \in Seq(Nat) /\ sent'[c] = sent[c] + 1
           /\ \A d \in Clients : d # c => Said(d)' = Said(d)
<1> DEFINE n == sent[c]
           p == BytePlans[c]
<1>1. p \in Seq(Seq(Nat) \ {<<>>}) /\ n \in Nat /\ Len(p) \in Nat /\ n < Len(p)
  BY SaidType, LenProperties
<1>2. sent'[c] = n + 1 /\ \A d \in Clients : d # c => sent'[d] = sent[d]
  OBVIOUS
<1>3. p \in Seq(Seq(Nat))
  <2>1. Seq(Nat) \ {<<>>} \subseteq Seq(Nat)
    OBVIOUS
  <2> HIDE DEF p
  <2> QED  BY <1>1, <2>1, SeqMonotonic
<1>4. Said(c) = FlattenSeq(SubSeq(p, 1, n)) /\ Said(c)' = FlattenSeq(SubSeq(p, 1, n + 1))
  BY <1>2 DEF Said
<1>5. \A d \in Clients : d # c => Said(d)' = Said(d)
  BY <1>2 DEF Said
<1> HIDE DEF n, p
<1>6. n \in 0 .. Len(p) - 1
  BY <1>1
<1>7. SubSeq(p, 1, n + 1) = Append(SubSeq(p, 1, n), p[n + 1]) /\ SubSeq(p, 1, n) \in Seq(Seq(Nat)) /\ p[n + 1] \in Seq(Nat)
  <2>1. PICK E : E = Seq(Nat)
    OBVIOUS
  <2>2. p \in Seq(E)
    BY <1>3, <2>1
  <2>3. SubSeq(p, 1, n + 1) = Append(SubSeq(p, 1, n), p[n + 1]) /\ SubSeq(p, 1, n) \in Seq(E) /\ p[n + 1] \in E
    BY <1>6, <2>2, OneMore
  <2> QED  BY <2>1, <2>3
<1>8. FlattenSeq(SubSeq(p, 1, n + 1)) = FlattenSeq(SubSeq(p, 1, n)) \o p[n + 1]
  BY <1>7, FlatGrows
<1> QED  BY <1>2, <1>4, <1>5, <1>7, <1>8 DEF n, p

\* Sequences of bytes put together.
LEMMA Regroup ==
    ASSUME NEW s \in Seq(Nat), NEW t \in Seq(Nat), NEW u \in Seq(Nat)
    PROVE  /\ s \o t \in Seq(Nat) /\ t \o u \in Seq(Nat)
           /\ (s \o t) \o u = s \o (t \o u)
<1>1. s \o t \in Seq(Nat)
  BY ConcatProperties
<1>2. t \o u \in Seq(Nat)
  BY ConcatProperties
<1>3. (s \o t) \o u = s \o (t \o u)
  BY ConcatAssociative, SMTT(30)
<1> QED  BY <1>1, <1>2, <1>3

\* Who leaves the data alone keeps it in order.
LEMMA PlainDataKept ==
    ASSUME PlainData, UNCHANGED <<sent, echo, inbox>>,
           \A c \in Clients : There(c)' => There(c) /\ Line(c)' = Line(c)
    PROVE  PlainData'
<1>1. \A c \in Clients : Said(c)' = Said(c)
  BY DEF Said
<1>2. ASSUME NEW c \in Clients, There(c)' PROVE Said(c)' = echo'[c] \o Line(c)' \o inbox'[c]
  <2>1. Said(c) = echo[c] \o Line(c) \o inbox[c] /\ Line(c)' = Line(c)
    BY <1>2 DEF PlainData
  <2> QED  BY <1>1, <2>1
<1>3. ASSUME NEW c \in Clients PROVE \E t \in Seq(Nat) : Said(c)' = echo'[c] \o t
  BY <1>1 DEF PlainData
<1> QED  BY <1>2, <1>3 DEF PlainData

\* A client of the plain server connects.
LEMMA PlainConnect ==
    ASSUME PlainInv, NEW c \in Clients, Sock!Connect(c), UNCHANGED <<connfd, line, echo>>
    PROVE  PlainInv'
<1>1. Connect(c) /\ UNCHANGED inbox
  BY SockCalls
<1>2. SocketsInv'
  BY <1>1, ConnectKeeps DEF PlainInv
<1>3. client[c] = "new" /\ client' = [client EXCEPT ![c] = "open"] /\ backlog' = Append(backlog, c) /\ UNCHANGED <<sent, conns, lost, events>>
  BY <1>1 DEF Connect
<1>4. PlainTypes'
  BY <1>1, <1>3 DEF PlainInv, PlainTypes
<1>5. PlainLoop'
  <2>1. backlog' # <<>>
    <3>1. backlog' \in Seq(Clients) /\ Len(backlog') = Len(backlog) + 1 /\ Len(backlog) \in Nat
      BY <1>3, AppendProperties, LenProperties DEF PlainInv, SocketsInv, SocketTypes
    <3> QED  BY <3>1, EmptySeq
  <2> QED  BY <1>3, <2>1 DEF PlainInv, PlainLoop, fd
<1>6. PlainData'
  <2>1. \A d \in Clients : There(d)' => There(d) /\ Line(d)' = Line(d)
    BY <1>1, <1>3 DEF PlainInv, SocketsInv, SocketTypes, Line, There
  <2> QED  BY <1>1, <1>3, <2>1, PlainDataKept DEF PlainInv
<1> QED  BY <1>2, <1>4, <1>5, <1>6 DEF PlainInv

\* It closes its connection.
LEMMA PlainLeave ==
    ASSUME PlainInv, NEW c \in Clients, Sock!Leave(c), UNCHANGED <<connfd, line, echo>>
    PROVE  PlainInv'
<1>1. client[c] = "open" /\ client' = [client EXCEPT ![c] = "left"]
      /\ rdlist' = (IF c \in conns THEN Woken(c) ELSE rdlist)
      /\ UNCHANGED <<sent, backlog, conns, inbox, broken, lost, events, server, faults>>
  BY SockCalls DEF Leave
<1>2. SocketsInv'
  BY <1>1, ClientKeeps DEF PlainInv
<1>3. PlainTypes'
  BY <1>1 DEF PlainInv, PlainTypes
<1>4. PlainLoop'
  BY <1>1 DEF PlainInv, PlainLoop, fd
<1>5. PlainData'
  <2>1. \A d \in Clients : There(d)' => There(d) /\ Line(d)' = Line(d)
    BY <1>1 DEF PlainInv, SocketsInv, SocketTypes, Line, There
  <2> QED  BY <1>1, <2>1, PlainDataKept DEF PlainInv
<1> QED  BY <1>2, <1>3, <1>4, <1>5 DEF PlainInv

\* It resets the connection after it has left.
LEMMA PlainReset ==
    ASSUME PlainInv, NEW c \in Clients, Sock!Reset(c), UNCHANGED <<connfd, line, echo>>
    PROVE  PlainInv'
<1>1. client[c] = "left" /\ broken' = broken \cup {c}
      /\ rdlist' = (IF c \in conns THEN Woken(c) ELSE rdlist)
      /\ UNCHANGED <<client, sent, backlog, conns, inbox, lost, events, server, faults>>
  BY SockCalls DEF Reset
<1>2. SocketsInv'
  BY <1>1, ClientKeeps DEF PlainInv
<1>3. PlainTypes' /\ PlainLoop'
  BY <1>1 DEF PlainInv, PlainTypes, PlainLoop, fd
<1>4. PlainData'
  BY <1>1, PlainDataKept DEF PlainInv, Line, There
<1> QED  BY <1>2, <1>3, <1>4 DEF PlainInv

\* It sends: what was added to the socket is what was sent.
LEMMA PlainSend ==
    ASSUME PlainInv, NEW c \in Clients, Sock!Send(c), UNCHANGED <<connfd, line, echo>>
    PROVE  PlainInv'
<1>1. client[c] = "open" /\ sent[c] < Len(BytePlans[c]) /\ sent' = [sent EXCEPT ![c] = @ + 1]
      /\ inbox' = [inbox EXCEPT ![c] = @ \o BytePlans[c][sent[c] + 1]]
      /\ rdlist' = (IF c \in conns THEN Woken(c) ELSE rdlist)
      /\ UNCHANGED <<client, backlog, conns, broken, lost, events, server, faults>>
  BY SockSame DEF Sock!Send
<1>2. SocketsInv'
  BY <1>1, ClientKeeps DEF PlainInv
<1> DEFINE x == BytePlans[c][sent[c] + 1]
<1>3. PlainTypes /\ sent \in [Clients -> Nat] /\ inbox \in [Clients -> Seq(Nat)] /\ echo \in [Clients -> Seq(Nat)] /\ line \in Seq(Nat)
  BY DEF PlainInv, PlainTypes, SocketsInv, SocketTypes
<1>4. /\ Said(c)' = Said(c) \o x /\ x \in Seq(Nat) /\ sent'[c] = sent[c] + 1
      /\ \A d \in Clients : d # c => Said(d)' = Said(d)
  BY <1>1, <1>3, SaidGrows
<1>5. inbox'[c] = inbox[c] \o x /\ inbox'[c] \in Seq(Nat) /\ \A d \in Clients : d # c => inbox'[d] = inbox[d] /\ sent'[d] = sent[d]
  <2>1. inbox'[c] = inbox[c] \o x
    BY <1>1, <1>3
  <2>2. inbox[c] \in Seq(Nat)
    BY <1>3
  <2> HIDE DEF x
  <2>3. inbox[c] \o x \in Seq(Nat)
    BY <1>4, <2>2, ConcatProperties
  <2>4. \A d \in Clients : d # c => inbox'[d] = inbox[d] /\ sent'[d] = sent[d]
    BY <1>1, <1>3
  <2> QED  BY <2>1, <2>3, <2>4
<1> HIDE DEF x
<1>6. PlainTypes'
  <2>1. inbox' \in [Clients -> Seq(Nat)]
    <3>1. \A d \in Clients : inbox'[d] \in Seq(Nat)
      BY <1>3, <1>5
    <3>2. DOMAIN inbox' = Clients /\ inbox' = [d \in Clients |-> inbox'[d]]
      BY <1>1, <1>3
    <3> QED  BY <3>1, <3>2
  <2>2. \A d \in Clients : sent'[d] <= Len(BytePlans[d])
    <3>1. sent[c] \in Nat /\ Len(BytePlans[c]) \in Nat
      BY <1>3, SaidType, LenProperties
    <3>2. sent[c] + 1 <= Len(BytePlans[c])
      BY <1>1, <3>1
    <3> QED  BY <1>3, <1>4, <1>5, <3>2 DEF PlainTypes
  <2> QED  BY <1>3, <2>1, <2>2 DEF PlainTypes
<1>7. PlainLoop'
  BY <1>1 DEF PlainInv, PlainLoop, fd
<1>8. Line(c)' = Line(c) /\ Line(c) \in Seq(Nat) /\ echo[c] \in Seq(Nat) /\ inbox[c] \in Seq(Nat) /\ Said(c) \in Seq(Nat)
  <2>1. Line(c) \in Seq(Nat)
    BY <1>3 DEF Line
  <2>2. Said(c) \in Seq(Nat)
    BY <1>3, SaidType
  <2> QED  BY <1>3, <2>1, <2>2 DEF Line
<1>9. PlainData'
  <2>1. There(c)' => Said(c)' = echo'[c] \o Line(c)' \o inbox'[c]
    <3> SUFFICES ASSUME There(c)' PROVE Said(c)' = echo'[c] \o Line(c)' \o inbox'[c]
      OBVIOUS
    <3>1. Said(c) = echo[c] \o Line(c) \o inbox[c]
      BY <1>1 DEF PlainInv, PlainData, There
    <3>2. echo[c] \o Line(c) \in Seq(Nat)
      BY <1>8, ConcatProperties
    <3>3. ((echo[c] \o Line(c)) \o inbox[c]) \o x = (echo[c] \o Line(c)) \o (inbox[c] \o x)
      <4>1. PICK p \in Seq(Nat) : p = echo[c] \o Line(c)
        BY <3>2
      <4>2. PICK q \in Seq(Nat), r \in Seq(Nat) : q = inbox[c] /\ r = x
        BY <1>4, <1>8
      <4>3. (p \o q) \o r = p \o (q \o r)
        BY Regroup, ZenonT(30)
      <4> QED  BY <4>1, <4>2, <4>3
    <3> QED  BY <1>4, <1>5, <1>8, <3>1, <3>3
  <2>2. \E t \in Seq(Nat) : Said(c)' = echo'[c] \o t
    <3>1. PICK t \in Seq(Nat) : Said(c) = echo[c] \o t
      BY DEF PlainInv, PlainData
    <3>2. (echo[c] \o t) \o x = echo[c] \o (t \o x) /\ t \o x \in Seq(Nat)
      <4>1. PICK p \in Seq(Nat), r \in Seq(Nat) : p = echo[c] /\ r = x
        BY <1>4, <1>8
      <4>2. (p \o t) \o r = p \o (t \o r) /\ t \o r \in Seq(Nat)
        BY Regroup
      <4> QED  BY <4>1, <4>2
    <3> QED  BY <1>4, <3>1, <3>2
  <2>3. ASSUME NEW d \in Clients, d # c
        PROVE  /\ There(d)' => Said(d)' = echo'[d] \o Line(d)' \o inbox'[d]
               /\ \E t \in Seq(Nat) : Said(d)' = echo'[d] \o t
    <3>1. Said(d)' = Said(d) /\ inbox'[d] = inbox[d] /\ Line(d)' = Line(d) /\ (There(d)' <=> There(d)) /\ echo'[d] = echo[d]
      BY <1>1, <1>4, <1>5, <2>3 DEF Line, There
    <3>2. /\ There(d) => Said(d) = echo[d] \o Line(d) \o inbox[d]
          /\ \E t \in Seq(Nat) : Said(d) = echo[d] \o t
      BY DEF PlainInv, PlainData
    <3> QED  BY <3>1, <3>2
  <2> QED  BY <2>1, <2>2, <2>3 DEF PlainData
<1> QED  BY <1>2, <1>6, <1>7, <1>9 DEF PlainInv

\* epoll_wait(): a listening socket that is reported has a connection waiting.
LEMMA PlainWait ==
    ASSUME PlainInv, Sock!Wait
    PROVE  PlainInv'
<1>1. epoll_wait /\ UNCHANGED <<client, sent, backlog, conns, inbox, broken, lost, server, faults, connfd, line, echo>>
  BY SockWait DEF Sock!Wait
<1>2. SocketsInv' /\ \A i \in 1 .. Len(events') : Readable(events'[i].fd)
  BY <1>1, WaitKeeps DEF PlainInv
<1>3. line = <<>>
  BY <1>1 DEF epoll_wait, PlainInv, PlainLoop
<1>4. PlainTypes'
  BY <1>1 DEF PlainInv, PlainTypes
<1>5. PlainLoop'
  BY <1>1, <1>2, <1>3 DEF PlainLoop, Readable
<1>6. PlainData'
  BY <1>1, PlainDataKept DEF PlainInv, Line, There
<1> QED  BY <1>2, <1>4, <1>5, <1>6 DEF PlainInv

\* accept(), and the new connection is registered or not: the other events are not
\* about the listening socket.
LEMMA PlainAccept ==
    ASSUME PlainInv, Sock!Accept \/ Sock!RegisterFails
    PROVE  PlainInv'
<1>1. /\ events # <<>> /\ line = <<>> /\ fd = Listen /\ backlog' = Tail(backlog)
      /\ connfd' = Head(backlog) /\ EventDone /\ UNCHANGED <<client, sent, inbox, broken, lost, faults, line, echo>>
      /\ accept(Head(backlog)) \/ UNCHANGED <<conns, rdlist>>
      /\ server' \in {"up", "exited", "sigpipe"}
  BY SockSame, SockCalls DEF Sock!Accept, Sock!RegisterFails, Sock!AtEvent, PlainInv, SocketsInv, SocketTypes
<1>2. backlog # <<>>
  BY <1>1, EventsLeft DEF PlainInv, PlainLoop
<1>3. SocketsInv' /\ Head(backlog) \in Clients \ conns
  BY <1>1, <1>2, AcceptKeeps DEF PlainInv
<1>4. PlainTypes'
  BY <1>1, <1>3 DEF PlainInv, PlainTypes, Fd
<1>5. PlainLoop'
  <2>1. events' = Tail(events) /\ \A i \in 1 .. Len(events') : events'[i].fd # Listen
    BY <1>1, EventsLeft DEF PlainInv, EventDone
  <2> QED  BY <1>1, <2>1 DEF PlainLoop
<1>6. PlainData'
  BY <1>1, PlainDataKept DEF PlainInv, Line, There
<1> QED  BY <1>3, <1>4, <1>5, <1>6 DEF PlainInv

\* accept() fails.
LEMMA PlainAcceptFails ==
    ASSUME PlainInv, Sock!AcceptFails
    PROVE  PlainInv'
<1>1. server' = "exited" /\ UNCHANGED <<client, sent, backlog, conns, inbox, broken, lost, rdlist, events, faults,
                                       connfd, line, echo>>
  BY DEF Sock!AcceptFails
<1>2. SocketsInv'
  BY <1>1, WriteKeeps DEF PlainInv, SocketsInv, SocketTypes
<1>3. PlainTypes' /\ PlainLoop'
  BY <1>1 DEF PlainInv, PlainTypes, PlainLoop, fd
<1>4. PlainData'
  BY <1>1, PlainDataKept DEF PlainInv, Line, There
<1> QED  BY <1>2, <1>3, <1>4 DEF PlainInv

\* read() gives nothing: close().
LEMMA PlainReadEnd ==
    ASSUME PlainInv, Sock!ReadEnd
    PROVE  PlainInv'
<1>1. /\ events # <<>> /\ line = <<>> /\ fd # Listen /\ connfd' = fd /\ close(fd) /\ EventDone
      /\ UNCHANGED <<client, sent, backlog, inbox, broken, lost, server, faults, line, echo>>
  BY SockSame, SockCalls DEF Sock!ReadEnd, Sock!AtEvent
<1>2. SocketsInv' /\ fd \in conns
  BY <1>1, CloseKeeps DEF PlainInv
<1>3. PlainTypes'
  BY <1>1, <1>2 DEF PlainInv, PlainTypes, SocketsInv, SocketTypes, Fd
<1>4. PlainLoop'
  <2>1. events' = Tail(events) /\ \A i \in 1 .. Len(events') : i + 1 \in 1 .. Len(events) /\ events'[i] = events[i + 1]
    BY <1>1, EventsLeft DEF PlainInv, EventDone
  <2> QED  BY <1>1, <2>1 DEF PlainInv, PlainLoop
<1>5. PlainData'
  BY <1>1, PlainDataKept DEF PlainInv, Line, There
<1> QED  BY <1>2, <1>3, <1>4, <1>5 DEF PlainInv

\* write() takes the line or a part of it, or is refused.
LEMMA PlainWrite ==
    ASSUME PlainInv, Sock!Write
    PROVE  PlainInv'
<1> DEFINE c == connfd
<1>1. /\ line # <<>> /\ line' = <<>> /\ EventDone
      /\ UNCHANGED <<client, sent, backlog, conns, inbox, broken, rdlist, faults, connfd>>
      /\ \/ \E n \in 0 .. Len(line) :
               /\ Taken(c)
               /\ echo' = Echoed(echo, c, SubSeq(line, 1, n))
               /\ lost' = IF n < Len(line) THEN lost \cup {c} ELSE lost
               /\ UNCHANGED server
         \/ Refused(c) /\ UNCHANGED <<echo, lost>>
  BY SockSame, SockCalls DEF Sock!Write
<1>2. events # <<>> /\ c \in conns /\ c \in Clients
  BY <1>1 DEF PlainInv, PlainLoop, SocketsInv, SocketTypes
<1>3. /\ server \in {"up", "exited", "sigpipe"} /\ echo \in [Clients -> Seq(Nat)] /\ inbox \in [Clients -> Seq(Nat)]
      /\ line \in Seq(Nat) /\ lost \subseteq Clients /\ ResetInv
      /\ client \in [Clients -> {"new", "open", "left"}] /\ client[c] # "new"
  BY <1>2 DEF PlainInv, SocketsInv, SocketTypes, BacklogInv, PlainTypes
<1>4. SocketsInv'
  <2>1. lost' \subseteq Clients /\ server' \in {"up", "exited", "sigpipe"}
    BY <1>1, <1>2, <1>3 DEF Refused
  <2> QED  BY <1>1, <1>2, <2>1, WriteKeeps DEF PlainInv
<1>5. PlainLoop'
  <2>1. events' = Tail(events) /\ \A i \in 1 .. Len(events') : i + 1 \in 1 .. Len(events) /\ events'[i] = events[i + 1]
    BY <1>1, <1>2, EventsLeft DEF PlainInv, EventDone
  <2> QED  BY <1>1, <2>1 DEF PlainInv, PlainLoop
<1>6. ASSUME NEW n \in 0 .. Len(line), There(c), echo' = Echoed(echo, c, SubSeq(line, 1, n)),
             lost' = IF n < Len(line) THEN lost \cup {c} ELSE lost
      PROVE  PlainInv'
  <2> DEFINE h == SubSeq(line, 1, n)
             l == SubSeq(line, n + 1, Len(line))
  <2>1. echo' = [echo EXCEPT ![c] = @ \o h]
    BY <1>3, <1>6 DEF There, Echoed
  <2>2. h \in Seq(Nat) /\ l \in Seq(Nat) /\ h \o l = line /\ Len(line) \in Nat /\ n \in Nat
    <3>1. line \in Seq(Nat) /\ Len(line) \in Nat /\ n \in Nat
      BY <1>3, LenProperties
    <3>2. h \in Seq(Nat) /\ l \in Seq(Nat) /\ h \o l = line
      BY <3>1, SplitOff
    <3> QED  BY <3>1, <3>2
  <2>3. n = Len(line) => l = <<>>
    BY <2>2, SubSeqEmpty
  <2> HIDE DEF h, l
  <2>4. echo'[c] = echo[c] \o h /\ echo'[c] \in Seq(Nat)
        /\ \A d \in Clients : d # c => echo'[d] = echo[d]
    <3>1. echo'[c] = echo[c] \o h
      BY <1>2, <1>3, <2>1
    <3>2. echo[c] \in Seq(Nat)
      BY <1>2, <1>3
    <3>3. echo[c] \o h \in Seq(Nat)
      BY <2>2, <3>2, ConcatProperties
    <3>4. \A d \in Clients : d # c => echo'[d] = echo[d]
      BY <1>2, <1>3, <2>1
    <3> QED  BY <3>1, <3>3, <3>4
  <2>5. PlainTypes'
    <3>1. echo' \in [Clients -> Seq(Nat)]
      <4>1. \A d \in Clients : echo'[d] \in Seq(Nat)
        BY <1>3, <2>4
      <4>2. DOMAIN echo' = Clients /\ echo' = [d \in Clients |-> echo'[d]]
        BY <1>3, <2>1
      <4> QED  BY <4>1, <4>2
    <3> QED  BY <1>1, <3>1 DEF PlainInv, PlainTypes
  <2>6. \A d \in Clients : Said(d)' = Said(d)
    BY <1>1 DEF Said
  <2>7. /\ Said(c) = echo'[c] \o (l \o inbox[c]) /\ l \o inbox[c] \in Seq(Nat)
        /\ l = <<>> => Said(c) = (echo'[c] \o <<>>) \o inbox[c]
    <3>1. Said(c) = (echo[c] \o line) \o inbox[c]
      BY <1>2, <1>6 DEF PlainInv, PlainData, Line
    <3>2. PICK x \in Seq(Nat), y \in Seq(Nat), z \in Seq(Nat), w \in Seq(Nat) :
              x = echo[c] /\ y = h /\ z = l /\ w = inbox[c]
      BY <1>2, <1>3, <2>2
    <3>3. (x \o (y \o z)) \o w = (x \o y) \o (z \o w) /\ z \o w \in Seq(Nat) /\ x \o y \in Seq(Nat)
      <4>1. (x \o y) \o z = x \o (y \o z) /\ x \o y \in Seq(Nat)
        BY Regroup, SMTT(30)
      <4>2. PICK v \in Seq(Nat) : v = x \o y
        BY <4>1
      <4>3. (v \o z) \o w = v \o (z \o w) /\ z \o w \in Seq(Nat)
        BY Regroup, ZenonT(30)
      <4> QED  BY <4>1, <4>2, <4>3
    <3>4. (x \o y) \o <<>> = x \o y /\ (z = <<>> => z \o w = w)
      BY <3>3, ConcatEmptySeq
    <3> QED  BY <2>2, <2>4, <3>1, <3>2, <3>3, <3>4
  <2>8. ASSUME NEW d \in Clients
        PROVE  /\ There(d)' => Said(d)' = echo'[d] \o Line(d)' \o inbox'[d]
               /\ \E t \in Seq(Nat) : Said(d)' = echo'[d] \o t
    <3>1. CASE d = c
      <4>1. Line(d)' = <<>>
        BY <1>1 DEF Line
      <4>2. There(d)' => l = <<>>
        BY <1>6, <2>2, <2>3, <3>1 DEF There
      <4> QED  BY <1>1, <2>6, <2>7, <3>1, <4>1, <4>2
    <3>2. CASE d # c
      <4>1. Line(d)' = Line(d) /\ echo'[d] = echo[d] /\ inbox'[d] = inbox[d] /\ (There(d)' => There(d))
        BY <1>1, <1>6, <2>4, <3>2 DEF Line, There
      <4>2. /\ There(d) => Said(d) = echo[d] \o Line(d) \o inbox[d]
            /\ \E t \in Seq(Nat) : Said(d) = echo[d] \o t
        BY DEF PlainInv, PlainData
      <4> QED  BY <2>6, <4>1, <4>2
    <3> QED  BY <3>1, <3>2
  <2>9. PlainData'
    BY <2>8 DEF PlainData
  <2> QED  BY <1>4, <1>5, <2>5, <2>9 DEF PlainInv
<1>7. ASSUME ~There(c), echo' = echo, lost \subseteq lost'
      PROVE  PlainInv'
  <2>1. PlainTypes'
    BY <1>1, <1>7 DEF PlainInv, PlainTypes
  <2>2. PlainData'
    <3>1. \A d \in Clients : There(d)' => There(d) /\ Line(d)' = Line(d)
      BY <1>1, <1>7 DEF There, Line
    <3> QED  BY <1>1, <1>7, <3>1, PlainDataKept DEF PlainInv
  <2> QED  BY <1>4, <1>5, <2>1, <2>2 DEF PlainInv
<1>8. CASE Refused(c) /\ UNCHANGED <<echo, lost>>
  BY <1>3, <1>7, <1>8 DEF Refused, ResetInv, There
<1>9. CASE ~There(c) /\ ~(Refused(c) /\ UNCHANGED <<echo, lost>>)
  <2>1. \A s : Echoed(echo, c, s) = echo
    BY <1>9 DEF Echoed, There
  <2> QED  BY <1>1, <1>7, <1>9, <2>1
<1>10. CASE There(c) /\ ~(Refused(c) /\ UNCHANGED <<echo, lost>>)
  <2>1. PICK n \in 0 .. Len(line) : /\ echo' = Echoed(echo, c, SubSeq(line, 1, n))
                                   /\ lost' = IF n < Len(line) THEN lost \cup {c} ELSE lost
    BY <1>1, <1>10
  <2> QED  BY <1>6, <1>10, <2>1
<1> QED  BY <1>8, <1>9, <1>10

\* read() moves bytes from the socket to the line.
LEMMA PlainRead ==
    ASSUME PlainInv, Sock!Read
    PROVE  PlainInv'
<1> DEFINE n == IF Len(inbox[fd]) < Chunk THEN Len(inbox[fd]) ELSE Chunk
           s == inbox[fd]
<1>1. /\ events # <<>> /\ line = <<>> /\ fd # Listen /\ connfd' = fd /\ n > 0
      /\ line' = SubSeq(s, 1, n) /\ inbox' = [inbox EXCEPT ![fd] = SubSeq(s, n + 1, Len(s))]
      /\ UNCHANGED <<client, sent, backlog, conns, broken, lost, rdlist, events, server, faults, echo>>
  BY SockSame DEF Sock!Read, Sock!AtEvent, Sock!EventFd, Sock!LineLength
<1>2. fd \in conns /\ fd \in Clients
  BY <1>1, EventsLeft DEF PlainInv, SocketsInv, SocketTypes
<1>3. server \in {"up", "exited", "sigpipe"} /\ echo \in [Clients -> Seq(Nat)] /\ inbox \in [Clients -> Seq(Nat)]
      /\ sent \in [Clients -> Nat]
  BY DEF PlainInv, SocketsInv, SocketTypes, PlainTypes
<1>4. s \in Seq(Nat) /\ Len(s) \in Nat /\ echo[fd] \in Seq(Nat)
  BY <1>2, <1>3, LenProperties
<1>5. n \in 0 .. Len(s)
  BY <1>4, SocketAssumption
<1> HIDE DEF s, n
<1>6. /\ SubSeq(s, 1, n) \in Seq(Nat) /\ SubSeq(s, n + 1, Len(s)) \in Seq(Nat)
      /\ Len(SubSeq(s, 1, n)) = n
      /\ SubSeq(s, 1, n) \o SubSeq(s, n + 1, Len(s)) = s
  BY <1>4, <1>5, SplitOff
<1>7. line' \in Seq(Nat) /\ inbox'[fd] \in Seq(Nat) /\ line' \o inbox'[fd] = s
      /\ \A d \in Clients : d # fd => inbox'[d] = inbox[d]
  <2>1. inbox'[fd] = SubSeq(s, n + 1, Len(s)) /\ \A d \in Clients : d # fd => inbox'[d] = inbox[d]
    BY <1>1, <1>2, <1>3
  <2> QED  BY <1>1, <1>6, <2>1
<1>8. SocketsInv'
  BY <1>1, WriteKeeps DEF PlainInv, SocketsInv, SocketTypes
<1>9. PlainTypes'
  <2>1. inbox' \in [Clients -> Seq(Nat)]
    <3>1. \A d \in Clients : inbox'[d] \in Seq(Nat)
      BY <1>3, <1>7
    <3>2. DOMAIN inbox' = Clients /\ inbox' = [d \in Clients |-> inbox'[d]]
      BY <1>1, <1>3
    <3> QED  BY <3>1, <3>2
  <2> QED  BY <1>1, <1>2, <1>7, <2>1 DEF PlainInv, PlainTypes, Fd
<1>10. PlainLoop'
  BY <1>1, <1>2 DEF PlainInv, PlainLoop, fd
<1>11. \A d \in Clients : Said(d)' = Said(d)
  BY <1>1 DEF Said
<1>12. ASSUME NEW d \in Clients
       PROVE  /\ There(d)' => Said(d)' = echo'[d] \o Line(d)' \o inbox'[d]
              /\ \E t \in Seq(Nat) : Said(d)' = echo'[d] \o t
  <2>1. /\ There(d) => Said(d) = (echo[d] \o <<>>) \o inbox[d]
        /\ \E t \in Seq(Nat) : Said(d) = echo[d] \o t
    BY <1>1 DEF PlainInv, PlainData, Line
  <2>4. There(d)' <=> There(d)
    BY <1>1 DEF There
  <2>2. CASE d # fd
    <3>1. Line(d)' = <<>>
      BY <1>1, <2>2 DEF Line
    <3> QED  BY <1>1, <1>7, <1>11, <2>1, <2>2, <2>4, <3>1
  <2>3. CASE d = fd
    <3>1. Line(d)' = line'
      BY <1>1, <2>3 DEF Line
    <3>2. (echo[d] \o line') \o inbox'[d] = echo[d] \o s
      <4>1. PICK p \in Seq(Nat), q \in Seq(Nat), r \in Seq(Nat) : p = echo[d] /\ q = line' /\ r = inbox'[d]
        BY <1>4, <1>7, <2>3
      <4>2. (p \o q) \o r = p \o (q \o r)
        BY Regroup, ZenonT(30)
      <4> QED  BY <1>7, <2>3, <4>1, <4>2
    <3>3. (echo[d] \o <<>>) \o inbox[d] = echo[d] \o s
      <4>1. echo[d] \o <<>> = echo[d]
        BY <1>4, <2>3, ConcatEmptySeq
      <4> QED  BY <2>3, <4>1 DEF s
    <3> QED  BY <1>1, <1>11, <2>1, <2>4, <3>1, <3>2, <3>3
  <2> QED  BY <2>2, <2>3
<1>13. PlainData'
  BY <1>12 DEF PlainData
<1> QED  BY <1>8, <1>9, <1>10, <1>13 DEF PlainInv

\* Nothing of the plain server changes.
LEMMA PlainKept ==
    ASSUME PlainInv, UNCHANGED <<socketVars, connfd, line, echo>>
    PROVE  PlainInv'
<1>1. SocketsInv'
  BY DEF socketVars, PlainInv, SocketsInv, SocketTypes, BacklogInv, RdlistInv, EventsInv, ResetInv, Apart
<1>2. PlainTypes' /\ PlainLoop'
  BY DEF socketVars, PlainInv, PlainTypes, PlainLoop, fd
<1>3. PlainData'
  BY PlainDataKept DEF socketVars, PlainInv, Line, There
<1> QED  BY <1>1, <1>2, <1>3 DEF PlainInv

\* Every step of the plain server.
LEMMA PlainStep ==
    ASSUME PlainInv, Sock!Next
    PROVE  PlainInv'
<1>1. CASE Sock!Network
  <2>1. PICK c \in Clients : Sock!Connect(c) \/ Sock!Send(c) \/ Sock!Leave(c) \/ Sock!Reset(c)
    BY <1>1 DEF Sock!Network
  <2>2. UNCHANGED <<connfd, line, echo>>
    BY <1>1 DEF Sock!Network
  <2> QED  BY <2>1, <2>2, PlainConnect, PlainSend, PlainLeave, PlainReset
<1>2. CASE Sock!Server
  BY <1>2, PlainWait, PlainAccept, PlainAcceptFails, PlainRead, PlainReadEnd, PlainWrite DEF Sock!Server
<1> QED  BY <1>1, <1>2 DEF Sock!Next

\* The start of the plain server.
LEMMA PlainStart ==
    ASSUME Sock!Init
    PROVE  PlainInv
<1>1. /\ client = [c \in Clients |-> "new"] /\ sent = [c \in Clients |-> 0] /\ backlog = <<>> /\ conns = {}
      /\ inbox = [c \in Clients |-> <<>>] /\ broken = {} /\ lost = {} /\ rdlist = <<>> /\ events = <<>> /\ server = "up"
      /\ faults \in SocketFaults
      /\ connfd = Listen /\ line = <<>> /\ echo = [c \in Clients |-> <<>>]
  BY DEF Sock!Init, Sock!SocketInit
<1>2. \A S : <<>> \in Seq(S) /\ Len(<<>>) = 0 /\ <<>> \o <<>> = <<>>
  OBVIOUS
<1>3. SocketsInv
  BY <1>1, <1>2 DEF SocketsInv, SocketTypes, BacklogInv, RdlistInv, EventsInv, ResetInv, Apart
<1>4. PlainTypes
  <2>1. \A c \in Clients : Len(BytePlans[c]) \in Nat /\ sent[c] = 0
    BY <1>1, StreamsAssumption, LenProperties
  <2> QED  BY <1>1, <1>2, <2>1 DEF PlainTypes, Fd
<1>5. PlainLoop
  BY <1>1 DEF PlainLoop
<1>6. PlainData
  <2>1. ASSUME NEW c \in Clients PROVE Said(c) = <<>> /\ echo[c] = <<>> /\ Line(c) = <<>> /\ inbox[c] = <<>>
    <3>1. SubSeq(BytePlans[c], 1, 0) = <<>> /\ sent[c] = 0
      BY <1>1, SubSeqEmpty
    <3>2. FlattenSeq(<<>>) = <<>>
      BY DEF FlattenSeq
    <3> QED  BY <1>1, <3>1, <3>2 DEF Said, Line
  <2> QED  BY <1>2, <2>1 DEF PlainData
<1> QED  BY <1>3, <1>4, <1>5, <1>6 DEF PlainInv

\* A sequence is the beginning of itself with another one behind.
LEMMA Begins ==
    ASSUME NEW S, NEW s \in Seq(S), NEW t \in Seq(S)
    PROVE  Len(s) <= Len(s \o t) /\ SubSeq(s, 1, Len(s)) = SubSeq(s \o t, 1, Len(s))
<1>1. Len(s) \in Nat /\ Len(t) \in Nat /\ s \o t \in Seq(S) /\ Len(s \o t) = Len(s) + Len(t)
  BY LenProperties, ConcatProperties
<1>2. Len(s) <= Len(s \o t)
  BY <1>1
<1>3. SubSeq(s, 1, Len(s)) = SubSeq(s \o t, 1, Len(s))
  <2>1. CASE Len(s) = 0
    BY <1>1, <2>1, SubSeqEmpty
  <2>2. CASE Len(s) # 0
    <3>1. 1 \in 1 .. Len(s) /\ Len(s) \in 1 .. Len(s)
      BY <1>1, <2>2
    <3> QED  BY <3>1, SubSeqOfConcat1
  <2> QED  BY <2>1, <2>2
<1> QED  BY <1>2, <1>3

\* The sockets' part of what the specifications of both servers call TypeOK.
LEMMA SocketsTyped ==
    ASSUME SocketsInv
    PROVE  /\ client \in [Clients -> {"new", "open", "left"}]
           /\ \A i, j \in DOMAIN backlog : backlog[i] = backlog[j] => i = j
           /\ {backlog[i] : i \in DOMAIN backlog} \subseteq Clients \ conns
           /\ conns \cup broken \cup lost \subseteq Clients
           /\ \A i, j \in DOMAIN rdlist : rdlist[i] = rdlist[j] => i = j
           /\ {rdlist[i] : i \in DOMAIN rdlist} \subseteq conns \cup {Listen}
           /\ \A i \in DOMAIN events : events[i].fd \in conns \cup {Listen}
           /\ server \in {"up", "exited", "sigpipe"} /\ faults \in SocketFaults
<1>1. \A i \in 1 .. Len(backlog) : backlog[i] \in Clients
  BY ElementOfSeq DEF SocketsInv, SocketTypes
<1>2. DOMAIN events = 1 .. Len(events) /\ DOMAIN backlog = 1 .. Len(backlog) /\ DOMAIN rdlist = 1 .. Len(rdlist)
  BY SocketFacts
<1>3. /\ client \in [Clients -> {"new", "open", "left"}] /\ conns \cup broken \cup lost \subseteq Clients
      /\ server \in {"up", "exited", "sigpipe"} /\ faults \in SocketFaults
  BY DEF SocketsInv, SocketTypes
<1>4. /\ \A i, j \in DOMAIN backlog : backlog[i] = backlog[j] => i = j
      /\ {backlog[i] : i \in DOMAIN backlog} \subseteq Clients \ conns
  BY <1>1, <1>2 DEF SocketsInv, BacklogInv, Apart
<1>5. /\ \A i, j \in DOMAIN rdlist : rdlist[i] = rdlist[j] => i = j
      /\ {rdlist[i] : i \in DOMAIN rdlist} \subseteq conns \cup {Listen}
  BY <1>2 DEF SocketsInv, RdlistInv, Apart
<1>6. \A i \in DOMAIN events : events[i].fd \in conns \cup {Listen}
  BY <1>2 DEF SocketsInv, EventsInv
<1> QED  BY <1>3, <1>4, <1>5, <1>6

\* The invariant says what the run checks of the plain server.
LEMMA PlainRight ==
    ASSUME PlainInv
    PROVE  Sock!TypeOK /\ Sock!EchoInOrder
<1>1. SocketsInv /\ PlainTypes /\ sent \in [Clients -> Nat] /\ echo \in [Clients -> Seq(Nat)] /\ connfd \in Fd
  BY DEF PlainInv, SocketsInv, SocketTypes, PlainTypes
<1>2. \A c \in Clients : sent[c] \in 0 .. Len(BytePlans[c])
  <2> SUFFICES ASSUME NEW c \in Clients PROVE sent[c] \in 0 .. Len(BytePlans[c])
    OBVIOUS
  <2>1. sent[c] \in Nat /\ Len(BytePlans[c]) \in Nat /\ sent[c] <= Len(BytePlans[c])
    BY <1>1, SaidType, LenProperties DEF PlainTypes
  <2> QED  BY <2>1
<1>3. Sock!TypeOK
  BY <1>1, <1>2, SocketsTyped DEF Sock!TypeOK, Sock!SocketTypeOK, Sock!IsInjective, Sock!ToSet, Fd
<1>4. \A c \in Clients : Sock!SentBytes(c) = Said(c)
  BY SockSame DEF Sock!SentBytes, Said
<1>5. ASSUME NEW c \in Clients PROVE Sock!IsPrefix(echo[c], Sock!SentBytes(c))
  <2>1. PICK t \in Seq(Nat) : Said(c) = echo[c] \o t
    BY DEF PlainInv, PlainData
  <2>2. PICK p \in Seq(Nat) : p = echo[c]
    BY <1>1
  <2>3. Len(p) <= Len(p \o t) /\ SubSeq(p, 1, Len(p)) = SubSeq(p \o t, 1, Len(p))
    BY Begins
  <2> QED  BY <1>4, <2>1, <2>2, <2>3 DEF Sock!IsPrefix
<1>6. \A c \in Clients : client[c] = "open" /\ c \notin lost =>
          Sock!SentBytes(c) = echo[c] \o (IF c = connfd THEN line ELSE <<>>) \o inbox[c]
  BY <1>4 DEF PlainInv, PlainData, Line, There
<1> QED  BY <1>3, <1>5, <1>6 DEF Sock!EchoInOrder

-----------------------------------------------------------------------------
(* The TLS echo server.                                                    *)

\* The TLS server's copies of the sockets' operators are the same.
LEMMA TlsSame ==
    /\ Tls!fd = fd /\ (Tls!EventDone <=> EventDone)
    /\ \A d : Tls!Woken(d) = Woken(d) /\ (Tls!Readable(d) <=> Readable(d))
    /\ \A S, s : Tls!Only(S, s) = Only(S, s)
    /\ \A s : Tls!FlattenSeq(s) = FlattenSeq(s)
BY DEF Tls!fd, fd, Tls!EventDone, EventDone, Tls!Woken, Woken, Tls!Readable, Readable,
       Tls!Only, Only, Tls!FlattenSeq, FlattenSeq, Tls!ToSet, ToSet

\* So are those of the steps and the calls.
LEMMA TlsCalls ==
    /\ \A c : Tls!Connect(c) <=> Connect(c) /\ UNCHANGED inbox
    /\ \A c : Tls!Send(c) <=> Send(c)
    /\ \A c : (Tls!Leave(c) <=> Leave(c)) /\ (Tls!Reset(c) <=> Reset(c))
    /\ \A c : Tls!accept(c) <=> accept(c)
    /\ \A c : Tls!close(c) <=> close(c)
    /\ \A c : Tls!Taken(c) <=> Taken(c)
    /\ \A c, x : Tls!Echoed(echo, c, x) = Echoed(echo, c, x)
<1>1. \A c : Tls!Connect(c) <=> Connect(c) /\ UNCHANGED inbox
  BY TlsSame DEF Tls!Connect, Connect
<1>2. \A c : (Tls!Leave(c) <=> Leave(c)) /\ (Tls!Reset(c) <=> Reset(c))
  BY TlsSame DEF Tls!Leave, Leave, Tls!Reset, Reset
<1>3. \A c : Tls!accept(c) <=> accept(c)
  BY TlsSame DEF Tls!accept, accept
<1>4. \A c : Tls!close(c) <=> close(c)
  BY TlsSame DEF Tls!close, close, Tls!ToSet, ToSet
<1>5. /\ \A c : Tls!Taken(c) <=> Taken(c)
      /\ \A c, x : Tls!Echoed(echo, c, x) = Echoed(echo, c, x)
  BY DEF Tls!Taken, Taken, Tls!Echoed, Echoed
<1>6. \A c : Tls!Send(c) <=> Send(c)
  BY TlsSame DEF Tls!Send, Send
<1> QED  BY <1>1, <1>2, <1>3, <1>4, <1>5, <1>6

\* And epoll_wait().
LEMMA TlsWaitSame == Tls!epoll_wait <=> epoll_wait
<1> DEFINE m == IF Len(rdlist) < MAXEVENTS THEN Len(rdlist) ELSE MAXEVENTS
           listed == SubSeq(rdlist, 1, m)
           S == {d \in ToSet(listed) : Readable(d)}
           R == {d \in Tls!ToSet(listed) : Tls!Readable(d)}
<1>1. R = S
  BY TlsSame DEF Tls!ToSet, ToSet
<1>2. Tls!Only(R, listed) = Only(S, listed)
  <2> HIDE DEF R, S, listed
  <2> QED  BY <1>1, TlsSame
<1> QED  BY <1>2 DEF Tls!epoll_wait, epoll_wait

\* The bytes that a record carries, and those of a sequence of records, one by one.
Carried(u) == IF u.type = "app" THEN u.data ELSE <<>>
\* Those of a sequence of records, one by one.
Parts(r) == [i \in DOMAIN r |-> Carried(r[i])]

\* Bytes() of EchoEpollSsl, by the parts.
LEMMA BytesIs ==
    ASSUME NEW r
    PROVE  Tls!Bytes(r) = FlattenSeq(Parts(r))
<1>1. Tls!Bytes(r) = Tls!FlattenSeq(Parts(r))
  BY DEF Tls!Bytes, Parts, Carried
<1> QED  BY <1>1, TlsSame

\* A record carries a sequence of bytes.
LEMMA CarriedType ==
    ASSUME NEW u \in Unit
    PROVE  Carried(u) \in Seq(Nat) /\ u.data \in Seq(Nat)
BY DEF Carried, Unit

\* So does each of a sequence of records.
LEMMA PartsType ==
    ASSUME NEW r \in Seq(Unit)
    PROVE  /\ Parts(r) \in Seq(Seq(Nat)) /\ Len(Parts(r)) = Len(r)
           /\ \A i \in 1 .. Len(r) : Parts(r)[i] = Carried(r[i])
<1>1. DOMAIN r = 1 .. Len(r) /\ Len(r) \in Nat
  BY LenProperties
<1>2. \A i \in 1 .. Len(r) : Carried(r[i]) \in Seq(Nat)
  <2> SUFFICES ASSUME NEW i \in 1 .. Len(r) PROVE Carried(r[i]) \in Seq(Nat)
    OBVIOUS
  <2>1. r[i] \in Unit
    BY ElementOfSeq
  <2> QED  BY <2>1, CarriedType
<1>3. Parts(r) = [i \in 1 .. Len(r) |-> Carried(r[i])]
  BY <1>1 DEF Parts
<1>4. Parts(r) \in Seq(Seq(Nat)) /\ Len(Parts(r)) = Len(r)
  BY <1>1, <1>2, <1>3, IsASeq
<1> QED  BY <1>3, <1>4

\* And all together.
LEMMA BytesType ==
    ASSUME NEW r \in Seq(Unit)
    PROVE  Tls!Bytes(r) \in Seq(Nat)
<1>1. FlattenSeq(Parts(r)) \in Seq(Nat)
  BY PartsType, FlatType
<1> QED  BY <1>1, BytesIs

\* The bytes of two sequences of records.
LEMMA BytesConcat ==
    ASSUME NEW r \in Seq(Unit), NEW s \in Seq(Unit)
    PROVE  Tls!Bytes(r \o s) = Tls!Bytes(r) \o Tls!Bytes(s)
<1>1. r \o s \in Seq(Unit) /\ Len(r \o s) = Len(r) + Len(s)
      /\ \A i \in 1 .. Len(r) + Len(s) : (r \o s)[i] = IF i <= Len(r) THEN r[i] ELSE s[i - Len(r)]
  BY ConcatProperties
<1> DEFINE p == Parts(r)
           q == Parts(s)
           t == Parts(r \o s)
<1>2. /\ p \in Seq(Seq(Nat)) /\ q \in Seq(Seq(Nat)) /\ t \in Seq(Seq(Nat))
      /\ Len(p) = Len(r) /\ Len(q) = Len(s) /\ Len(t) = Len(r) + Len(s)
      /\ \A i \in 1 .. Len(r) : p[i] = Carried(r[i])
      /\ \A i \in 1 .. Len(s) : q[i] = Carried(s[i])
      /\ \A i \in 1 .. Len(r) + Len(s) : t[i] = Carried((r \o s)[i])
  BY <1>1, PartsType
<1>3. Len(r) \in Nat /\ Len(s) \in Nat
  BY LenProperties
<1> HIDE DEF p, q, t
<1>4. p \o q \in Seq(Seq(Nat)) /\ Len(p \o q) = Len(r) + Len(s)
      /\ \A i \in 1 .. Len(r) + Len(s) : (p \o q)[i] = IF i <= Len(r) THEN p[i] ELSE q[i - Len(r)]
  <2>1. PICK E : E = Seq(Nat)
    OBVIOUS
  <2>2. p \in Seq(E) /\ q \in Seq(E)
    BY <1>2, <2>1
  <2>3. p \o q \in Seq(E) /\ Len(p \o q) = Len(p) + Len(q)
        /\ \A i \in 1 .. Len(p) + Len(q) : (p \o q)[i] = IF i <= Len(p) THEN p[i] ELSE q[i - Len(p)]
    BY <2>2, ConcatProperties
  <2> QED  BY <1>2, <2>1, <2>3
<1>5. ASSUME NEW i \in 1 .. Len(t) PROVE t[i] = (p \o q)[i]
  <2>1. CASE i <= Len(r)
    <3>1. i \in 1 .. Len(r) /\ i \in 1 .. Len(r) + Len(s)
      BY <1>2, <1>3, <2>1
    <3> QED  BY <1>1, <1>2, <1>4, <2>1, <3>1
  <2>2. CASE ~(i <= Len(r))
    <3>1. i - Len(r) \in 1 .. Len(s) /\ i \in 1 .. Len(r) + Len(s)
      BY <1>2, <1>3, <2>2
    <3> QED  BY <1>1, <1>2, <1>4, <2>2, <3>1
  <2> QED  BY <2>1, <2>2
<1>6. t = p \o q
  <2>1. PICK E : E = Seq(Nat)
    OBVIOUS
  <2>2. PICK u \in Seq(E), v \in Seq(E) : u = t /\ v = p \o q
    BY <1>2, <1>4, <2>1
  <2>3. Len(u) = Len(v) /\ \A i \in 1 .. Len(u) : u[i] = v[i]
    BY <1>2, <1>4, <1>5, <2>2
  <2>4. u = v
    BY <2>3, SeqEqual
  <2> QED  BY <2>2, <2>4
<1>7. FlattenSeq(p \o q) = FlattenSeq(p) \o FlattenSeq(q)
  BY <1>2, FlatConcat
<1> QED  BY <1>6, <1>7, BytesIs DEF p, q, t

\* The bytes of no record and of one.
LEMMA BytesFew ==
    /\ Tls!Bytes(<<>>) = <<>>
    /\ \A u \in Unit : Tls!Bytes(<<u>>) = Carried(u)
<1>1. Tls!Bytes(<<>>) = <<>>
  <2>1. Parts(<<>>) = <<>>
    BY DEF Parts
  <2>2. FlattenSeq(<<>>) = <<>>
    BY DEF FlattenSeq
  <2> QED  BY <2>1, <2>2, BytesIs
<1>2. ASSUME NEW u \in Unit PROVE Tls!Bytes(<<u>>) = Carried(u)
  <2>1. Parts(<<u>>) = <<Carried(u)>>
    BY DEF Parts
  <2>2. Carried(u) \in Seq(Nat)
    BY CarriedType
  <2>3. FlattenSeq(<<Carried(u)>>) = Carried(u)
    BY <2>2, FlatOne
  <2> QED  BY <2>1, <2>3, BytesIs
<1> QED  BY <1>1, <1>2

\* The first record and the others.
LEMMA BytesFirst ==
    ASSUME NEW r \in Seq(Unit), r # <<>>
    PROVE  /\ Head(r) \in Unit /\ Tail(r) \in Seq(Unit)
           /\ Tls!Bytes(r) = Carried(Head(r)) \o Tls!Bytes(Tail(r))
<1>1. Head(r) \in Unit /\ Tail(r) \in Seq(Unit)
  BY HeadTailProperties
<1> DEFINE s == <<Head(r)>>
           t == Tail(r)
<1>2. s \in Seq(Unit) /\ t \in Seq(Unit)
  BY <1>1
<1>3. r = s \o t
  <2>1. Len(r) \in Nat /\ Len(r) # 0
    BY LenProperties, EmptySeq
  <2>2. 1 \in 1 .. Len(r) /\ Len(r) \in 1 .. Len(r) /\ r[1] = Head(r)
    BY <2>1
  <2>3. SubSeq(r, 1, Len(r)) = <<r[1]>> \o SubSeq(r, 1 + 1, Len(r))
    BY <2>2, SubSeqRecursiveFirst
  <2>4. Tail(r) = SubSeq(r, 2, Len(r)) /\ SubSeq(r, 1, Len(r)) = r /\ 1 + 1 = 2
    BY TailIsSubSeq, SubSeqFull
  <2> QED  BY <2>2, <2>3, <2>4
<1>4. Tls!Bytes(s) = Carried(Head(r))
  BY <1>1, BytesFew
<1> HIDE DEF s, t
<1>5. Tls!Bytes(s \o t) = Tls!Bytes(s) \o Tls!Bytes(t)
  BY <1>2, BytesConcat
<1> QED  BY <1>1, <1>3, <1>4, <1>5 DEF t

\* The records a client has sent.
Records(c) == FlattenSeq(SubSeq(Plans[c], 1, sent[c]))

\* What a client of the TLS server has sent is a sequence of bytes.
LEMMA SecretType ==
    ASSUME SecureTypes, sent \in [Clients -> Nat], NEW c \in Clients
    PROVE  /\ Plans[c] \in Seq(Seq(Unit)) /\ sent[c] \in Nat /\ Len(Plans[c]) \in Nat
           /\ Records(c) \in Seq(Unit) /\ Secret(c) = Tls!Bytes(Records(c)) /\ Secret(c) \in Seq(Nat)
<1>1. Plans[c] \in Seq(Seq(Unit))
  BY StreamsAssumption DEF Unit
<1>2. sent[c] \in Nat /\ sent[c] <= Len(Plans[c]) /\ Len(Plans[c]) \in Nat
  BY <1>1, LenProperties DEF SecureTypes
<1>3. SubSeq(Plans[c], 1, sent[c]) \in Seq(Seq(Unit))
  <2>1. sent[c] \in 0 .. Len(Plans[c])
    BY <1>2
  <2>2. PICK E : E = Seq(Unit)
    OBVIOUS
  <2>3. Plans[c] \in Seq(E)
    BY <1>1, <2>2
  <2>4. SubSeq(Plans[c], 1, sent[c]) \in Seq(E)
    BY <2>1, <2>3, SplitOff
  <2> QED  BY <2>2, <2>4
<1>4. Records(c) \in Seq(Unit)
  BY <1>3, FlatType DEF Records
<1>5. Secret(c) = Tls!Bytes(Records(c))
  BY DEF Secret, Records
<1> QED  BY <1>1, <1>2, <1>4, <1>5, BytesType

\* One more segment of records.
LEMMA SecretGrows ==
    ASSUME SecureTypes, sent \in [Clients -> Nat], NEW c \in Clients, sent[c] < Len(Plans[c]),
           sent' = [sent EXCEPT ![c] = @ + 1]
    PROVE  /\ Plans[c][sent[c] + 1] \in Seq(Unit) /\ sent'[c] = sent[c] + 1
           /\ Secret(c)' = Secret(c) \o Tls!Bytes(Plans[c][sent[c] + 1])
           /\ \A d \in Clients : d # c => Secret(d)' = Secret(d)
<1> DEFINE n == sent[c]
           p == Plans[c]
<1>1. p \in Seq(Seq(Unit)) /\ n \in Nat /\ Len(p) \in Nat /\ n < Len(p) /\ Records(c) \in Seq(Unit)
      /\ Secret(c) = Tls!Bytes(Records(c))
  BY SecretType
<1>2. sent'[c] = n + 1 /\ \A d \in Clients : d # c => sent'[d] = sent[d]
  OBVIOUS
<1>3. /\ Records(c) = FlattenSeq(SubSeq(p, 1, n)) /\ Secret(c)' = Tls!Bytes(FlattenSeq(SubSeq(p, 1, n + 1)))
      /\ \A d \in Clients : d # c => Secret(d)' = Secret(d)
  BY <1>2 DEF Secret, Records
<1> HIDE DEF n, p
<1>4. SubSeq(p, 1, n + 1) = Append(SubSeq(p, 1, n), p[n + 1]) /\ SubSeq(p, 1, n) \in Seq(Seq(Unit)) /\ p[n + 1] \in Seq(Unit)
  <2>1. PICK E : E = Seq(Unit)
    OBVIOUS
  <2>2. p \in Seq(E) /\ n \in 0 .. Len(p) - 1
    BY <1>1, <2>1
  <2>3. SubSeq(p, 1, n + 1) = Append(SubSeq(p, 1, n), p[n + 1]) /\ SubSeq(p, 1, n) \in Seq(E) /\ p[n + 1] \in E
    BY <2>2, OneMore
  <2> QED  BY <2>1, <2>3
<1>5. FlattenSeq(SubSeq(p, 1, n + 1)) = Records(c) \o p[n + 1]
  <2>1. FlattenSeq(Append(SubSeq(p, 1, n), p[n + 1])) = FlattenSeq(SubSeq(p, 1, n)) \o p[n + 1]
    BY <1>4, FlatGrows
  <2> QED  BY <1>3, <1>4, <2>1
<1>6. Tls!Bytes(Records(c) \o p[n + 1]) = Tls!Bytes(Records(c)) \o Tls!Bytes(p[n + 1])
  BY <1>1, <1>4, BytesConcat
<1> QED  BY <1>1, <1>2, <1>3, <1>4, <1>5, <1>6 DEF n, p

\* Who leaves the data alone keeps it in order.
LEMMA SecureDataKept ==
    ASSUME SecureData, UNCHANGED <<sent, echo, rest, inbox>>,
           \A c \in Clients : There(c)' => There(c) /\ Buf(c)' = Buf(c)
    PROVE  SecureData'
<1>1. \A c \in Clients : Secret(c)' = Secret(c) /\ Tls!Bytes(inbox[c])' = Tls!Bytes(inbox[c])
  BY DEF Secret, Tls!Bytes
<1>2. ASSUME NEW c \in Clients, There(c)'
      PROVE  Secret(c)' = echo'[c] \o Buf(c)' \o rest'[c] \o Tls!Bytes(inbox[c])'
  <2>1. Secret(c) = echo[c] \o Buf(c) \o rest[c] \o Tls!Bytes(inbox[c]) /\ Buf(c)' = Buf(c)
    BY <1>2 DEF SecureData
  <2> QED  BY <1>1, <2>1
<1>3. ASSUME NEW c \in Clients PROVE \E t \in Seq(Nat) : Secret(c)' = echo'[c] \o t
  BY <1>1 DEF SecureData
<1> QED  BY <1>2, <1>3 DEF SecureData

\* A client of the TLS server connects.
LEMMA SecureConnect ==
    ASSUME SecureInv, NEW c \in Clients, Tls!Connect(c), UNCHANGED <<ssl, rest, buf, echo>>
    PROVE  SecureInv'
<1>1. Connect(c) /\ UNCHANGED inbox
  BY TlsCalls
<1>2. SocketsInv'
  BY <1>1, ConnectKeeps DEF SecureInv
<1>3. /\ client[c] = "new" /\ client' = [client EXCEPT ![c] = "open"]
      /\ UNCHANGED <<sent, conns, broken, lost, events, server, faults>>
  BY <1>1 DEF Connect
<1>4. SecureTypes'
  BY <1>1, <1>3 DEF SecureInv, SecureTypes
<1>5. \A d \in Clients : client'[d] = "left" <=> client[d] = "left"
  BY <1>3 DEF SecureInv, SocketsInv, SocketTypes
<1>6. SecureLoop'
  <2>1. \A d \in conns : d \in Clients /\ d # Listen
    BY SocketAssumption DEF SecureInv, SocketsInv, SocketTypes
  <2>2. \A d \in conns : Readable(d) => Readable(d)'
    BY <1>1, <1>3, <1>5, <2>1 DEF Readable
  <2> QED  BY <1>3, <2>2 DEF SecureInv, SecureLoop, fd
<1>7. SecureData'
  BY <1>1, <1>3, <1>5, SecureDataKept DEF SecureInv, Buf, fd, There
<1> QED  BY <1>2, <1>4, <1>6, <1>7 DEF SecureInv

\* It closes its connection: what could be read still can.
LEMMA SecureLeave ==
    ASSUME SecureInv, NEW c \in Clients, Tls!Leave(c), UNCHANGED <<ssl, rest, buf, echo>>
    PROVE  SecureInv'
<1>1. client[c] = "open" /\ client' = [client EXCEPT ![c] = "left"]
      /\ rdlist' = (IF c \in conns THEN Woken(c) ELSE rdlist)
      /\ UNCHANGED <<sent, backlog, conns, inbox, broken, lost, events, server, faults>>
  BY TlsCalls DEF Leave
<1>2. SocketsInv'
  BY <1>1, ClientKeeps DEF SecureInv
<1>3. SecureTypes'
  BY <1>1 DEF SecureInv, SecureTypes
<1>4. \A d \in Clients : client[d] = "left" => client'[d] = "left"
  BY <1>1 DEF SecureInv, SocketsInv, SocketTypes
<1>5. SecureLoop'
  <2>1. \A d \in conns : d \in Clients /\ d # Listen
    BY SocketAssumption DEF SecureInv, SocketsInv, SocketTypes
  <2>2. \A d \in conns : Readable(d) => Readable(d)'
    BY <1>1, <1>4, <2>1 DEF Readable
  <2> QED  BY <1>1, <2>2 DEF SecureInv, SecureLoop, fd
<1>6. SecureData'
  BY <1>1, <1>4, SecureDataKept DEF SecureInv, Buf, fd, There
<1> QED  BY <1>2, <1>3, <1>5, <1>6 DEF SecureInv

\* It resets the connection after it has left.
LEMMA SecureReset ==
    ASSUME SecureInv, NEW c \in Clients, Tls!Reset(c), UNCHANGED <<ssl, rest, buf, echo>>
    PROVE  SecureInv'
<1>1. client[c] = "left" /\ broken' = broken \cup {c}
      /\ rdlist' = (IF c \in conns THEN Woken(c) ELSE rdlist)
      /\ UNCHANGED <<client, sent, backlog, conns, inbox, lost, events, server, faults>>
  BY TlsCalls DEF Reset
<1>2. SocketsInv'
  BY <1>1, ClientKeeps DEF SecureInv
<1>3. SecureTypes'
  BY <1>1 DEF SecureInv, SecureTypes
<1>4. SecureLoop'
  <2>1. \A d \in conns : d # Listen
    BY SocketAssumption DEF SecureInv, SocketsInv, SocketTypes
  <2>2. \A d \in conns : Readable(d) => Readable(d)'
    BY <1>1, <2>1 DEF Readable
  <2> QED  BY <1>1, <2>2 DEF SecureInv, SecureLoop, fd
<1>5. SecureData'
  BY <1>1, SecureDataKept DEF SecureInv, Buf, fd, There
<1> QED  BY <1>2, <1>3, <1>4, <1>5 DEF SecureInv

\* It sends: what was added to the socket is what was sent.
LEMMA SecureSend ==
    ASSUME SecureInv, NEW c \in Clients, Tls!Send(c), UNCHANGED <<ssl, rest, buf, echo>>
    PROVE  SecureInv'
<1> DEFINE x == Plans[c][sent[c] + 1]
<1>1. client[c] = "open" /\ sent[c] < Len(Plans[c]) /\ sent' = [sent EXCEPT ![c] = @ + 1]
      /\ inbox' = [inbox EXCEPT ![c] = @ \o x]
      /\ rdlist' = (IF c \in conns THEN Woken(c) ELSE rdlist)
      /\ UNCHANGED <<client, backlog, conns, broken, lost, events, server, faults>>
  BY TlsCalls DEF Send
<1>2. SocketsInv'
  BY <1>1, ClientKeeps DEF SecureInv
<1>3. /\ SecureTypes /\ sent \in [Clients -> Nat] /\ inbox \in [Clients -> Seq(Unit)] /\ echo \in [Clients -> Seq(Nat)]
      /\ rest \in [Clients -> Seq(Nat)] /\ buf \in Seq(Nat)
  BY DEF SecureInv, SecureTypes, SocketsInv, SocketTypes
<1>4. /\ Secret(c)' = Secret(c) \o Tls!Bytes(x) /\ x \in Seq(Unit) /\ sent'[c] = sent[c] + 1
      /\ \A d \in Clients : d # c => Secret(d)' = Secret(d)
  BY <1>1, <1>3, SecretGrows
<1>5. /\ inbox'[c] = inbox[c] \o x /\ inbox[c] \in Seq(Unit)
      /\ \A d \in Clients : d # c => inbox'[d] = inbox[d] /\ sent'[d] = sent[d]
  BY <1>1, <1>3
<1> HIDE DEF x
<1>6. inbox'[c] \in Seq(Unit) /\ (inbox[c] # <<>> => inbox'[c] # <<>>)
      /\ Tls!Bytes(inbox'[c]) = Tls!Bytes(inbox[c]) \o Tls!Bytes(x)
  <2>1. inbox[c] \o x \in Seq(Unit) /\ Len(inbox[c] \o x) = Len(inbox[c]) + Len(x)
    BY <1>4, <1>5, ConcatProperties
  <2>2. Len(inbox[c]) \in Nat /\ Len(x) \in Nat
    BY <1>4, <1>5, LenProperties
  <2>3. inbox[c] # <<>> => inbox[c] \o x # <<>>
    <3>1. (inbox[c] = <<>> <=> Len(inbox[c]) = 0) /\ (inbox[c] \o x = <<>> <=> Len(inbox[c] \o x) = 0)
      BY <1>5, <2>1, EmptySeq
    <3> QED  BY <2>1, <2>2, <3>1
  <2>4. Tls!Bytes(inbox[c] \o x) = Tls!Bytes(inbox[c]) \o Tls!Bytes(x)
    BY <1>4, <1>5, BytesConcat
  <2> QED  BY <1>5, <2>1, <2>3, <2>4
<1>7. SecureTypes'
  <2>1. inbox' \in [Clients -> Seq(Unit)]
    <3>1. \A d \in Clients : inbox'[d] \in Seq(Unit)
      BY <1>3, <1>5, <1>6
    <3>2. DOMAIN inbox' = Clients /\ inbox' = [d \in Clients |-> inbox'[d]]
      BY <1>1, <1>3
    <3> QED  BY <3>1, <3>2
  <2>2. \A d \in Clients : sent'[d] <= Len(Plans[d])
    <3>1. sent[c] \in Nat /\ Len(Plans[c]) \in Nat
      BY <1>3, SecretType
    <3>2. sent[c] + 1 <= Len(Plans[c])
      BY <1>1, <3>1
    <3> QED  BY <1>3, <1>4, <1>5, <3>2 DEF SecureTypes
  <2> QED  BY <1>3, <2>1, <2>2 DEF SecureTypes
<1>8. SecureLoop'
  <2>1. \A d \in conns : d \in Clients /\ d # Listen
    BY SocketAssumption DEF SecureInv, SocketsInv, SocketTypes
  <2>2. \A d \in Clients : inbox[d] # <<>> => inbox'[d] # <<>>
    BY <1>5, <1>6
  <2>3. \A d \in conns : Readable(d) => Readable(d)'
    BY <1>1, <2>1, <2>2 DEF Readable
  <2> QED  BY <1>1, <2>3 DEF SecureInv, SecureLoop, fd
<1>9. SecureData'
  <2>1. There(c)' => Secret(c)' = echo'[c] \o Buf(c)' \o rest'[c] \o Tls!Bytes(inbox'[c])
    <3> SUFFICES ASSUME There(c)' PROVE Secret(c)' = echo'[c] \o Buf(c)' \o rest'[c] \o Tls!Bytes(inbox'[c])
      OBVIOUS
    <3>1. Secret(c) = echo[c] \o Buf(c) \o rest[c] \o Tls!Bytes(inbox[c])
      BY <1>1 DEF SecureInv, SecureData, There
    <3>2. PICK p \in Seq(Nat) : p = echo[c] \o Buf(c) \o rest[c]
      <4>1. echo[c] \in Seq(Nat) /\ Buf(c) \in Seq(Nat) /\ rest[c] \in Seq(Nat)
        BY <1>3 DEF Buf
      <4>2. echo[c] \o Buf(c) \in Seq(Nat)
        BY <4>1, ConcatProperties
      <4>3. (echo[c] \o Buf(c)) \o rest[c] \in Seq(Nat)
        BY <4>1, <4>2, ConcatProperties
      <4> QED  BY <4>3
    <3>3. PICK q \in Seq(Nat), r \in Seq(Nat) : q = Tls!Bytes(inbox[c]) /\ r = Tls!Bytes(x)
      BY <1>4, <1>5, BytesType
    <3>4. (p \o q) \o r = p \o (q \o r)
      BY Regroup, ZenonT(30)
    <3>5. Buf(c)' = Buf(c)
      BY <1>1 DEF Buf, fd
    <3> QED  BY <1>4, <1>6, <3>1, <3>2, <3>3, <3>4, <3>5
  <2>2. \E t \in Seq(Nat) : Secret(c)' = echo'[c] \o t
    <3>1. PICK t \in Seq(Nat) : Secret(c) = echo[c] \o t
      BY DEF SecureInv, SecureData
    <3>2. PICK p \in Seq(Nat), r \in Seq(Nat) : p = echo[c] /\ r = Tls!Bytes(x)
      BY <1>3, <1>4, BytesType
    <3>3. (p \o t) \o r = p \o (t \o r) /\ t \o r \in Seq(Nat)
      BY Regroup
    <3> QED  BY <1>4, <3>1, <3>2, <3>3
  <2>3. \A d \in Clients : Tls!Bytes(inbox[d])' = Tls!Bytes(inbox'[d])
    BY DEF Tls!Bytes
  <2>4. ASSUME NEW d \in Clients, d # c
        PROVE  /\ There(d)' => Secret(d)' = echo'[d] \o Buf(d)' \o rest'[d] \o Tls!Bytes(inbox'[d])
               /\ \E t \in Seq(Nat) : Secret(d)' = echo'[d] \o t
    <3>1. Secret(d)' = Secret(d) /\ inbox'[d] = inbox[d] /\ Buf(d)' = Buf(d) /\ (There(d)' <=> There(d))
          /\ echo'[d] = echo[d] /\ rest'[d] = rest[d]
      BY <1>1, <1>4, <1>5, <2>4 DEF Buf, fd, There
    <3>2. /\ There(d) => Secret(d) = echo[d] \o Buf(d) \o rest[d] \o Tls!Bytes(inbox[d])
          /\ \E t \in Seq(Nat) : Secret(d) = echo[d] \o t
      BY DEF SecureInv, SecureData
    <3> QED  BY <3>1, <3>2
  <2> QED  BY <2>1, <2>2, <2>3, <2>4 DEF SecureData
<1> QED  BY <1>2, <1>7, <1>8, <1>9 DEF SecureInv

\* epoll_wait(), when the loop has handled all events.
LEMMA SecureWait ==
    ASSUME SecureInv, Tls!Wait
    PROVE  SecureInv'
<1>1. epoll_wait /\ UNCHANGED <<client, sent, backlog, conns, inbox, broken, lost, server, faults, ssl, rest, buf, echo>>
  BY TlsWaitSame DEF Tls!Wait
<1>2. SocketsInv'
  BY <1>1, WaitKeeps DEF SecureInv
<1>3. buf = <<>> /\ server = "up"
  BY <1>1 DEF epoll_wait, SecureInv, SecureLoop
<1>4. SecureTypes'
  BY <1>1 DEF SecureInv, SecureTypes
<1>5. SecureLoop'
  BY <1>1, <1>3 DEF SecureInv, SecureLoop
<1>6. SecureData'
  BY <1>1, <1>3, SecureDataKept DEF SecureInv, Buf, There
<1> QED  BY <1>2, <1>4, <1>5, <1>6 DEF SecureInv

\* EPOLLHUP: what is closed without being freed has been reset.
LEMMA SecureHup ==
    ASSUME SecureInv, Tls!Hup
    PROVE  SecureInv'
<1>1. /\ server = "up" /\ events # <<>> /\ buf = <<>> /\ Head(events).hup /\ close(fd) /\ EventDone
      /\ UNCHANGED <<client, sent, backlog, inbox, broken, lost, server, faults, ssl, rest, buf, echo>>
  BY TlsSame, TlsCalls DEF Tls!Hup, Tls!AtEvent
<1>2. fd \in broken /\ fd # Listen
  <2>1. fd \in broken
    BY <1>1, EventsLeft DEF SecureInv
  <2> QED  BY <2>1, SocketAssumption DEF SecureInv, SocketsInv, SocketTypes
<1>3. SocketsInv' /\ fd \in conns
  BY <1>1, <1>2, CloseKeeps DEF SecureInv
<1>4. SecureTypes'
  BY <1>1 DEF SecureInv, SecureTypes
<1>5. SecureLoop'
  <2>1. conns' = conns \ {fd}
    BY <1>1 DEF close
  <2> QED  BY <1>1, <1>2, <2>1 DEF SecureInv, SecureLoop
<1>6. SecureData'
  BY <1>1, SecureDataKept DEF SecureInv, Buf, There
<1> QED  BY <1>3, <1>4, <1>5, <1>6 DEF SecureInv

\* accept(): the connection gets an SSL object.
LEMMA SecureAccept ==
    ASSUME SecureInv, Tls!Accept
    PROVE  SecureInv'
<1> DEFINE c == Head(backlog)
<1>1. /\ server = "up" /\ events # <<>> /\ buf = <<>> /\ backlog # <<>> /\ accept(c) /\ ssl' = [ssl EXCEPT ![c] = "handshake"]
      /\ backlog' = Tail(backlog)
      /\ UNCHANGED <<client, sent, inbox, broken, lost, events, server, faults, rest, buf, echo>>
  BY TlsSame, TlsCalls DEF Tls!Accept, Tls!AtEvent
<1>2. SocketsInv' /\ c \in Clients \ conns
  BY <1>1, AcceptKeeps DEF SecureInv
<1> HIDE DEF c
<1>3. SecureTypes'
  BY <1>1, <1>2 DEF SecureInv, SecureTypes
<1>4. SecureLoop'
  <2>1. conns' = conns \cup {c}
    BY <1>1 DEF accept
  <2>2. ssl'[c] = "handshake" /\ \A d \in Clients : d # c => ssl'[d] = ssl[d]
    BY <1>1, <1>2 DEF SecureInv, SecureTypes
  <2>3. conns \subseteq Clients
    BY DEF SecureInv, SocketsInv, SocketTypes
  <2> QED  BY <1>1, <1>2, <2>1, <2>2, <2>3 DEF SecureInv, SecureLoop
<1>5. SecureData'
  BY <1>1, SecureDataKept DEF SecureInv, Buf, There
<1> QED  BY <1>2, <1>3, <1>4, <1>5 DEF SecureInv

\* A new connection is not registered: the process ends.
LEMMA SecureRegisterFails ==
    ASSUME SecureInv, Tls!RegisterFails
    PROVE  SecureInv'
<1>1. /\ buf = <<>> /\ "register" \in faults /\ server' = "exited"
      /\ UNCHANGED <<client, sent, backlog, conns, inbox, broken, lost, rdlist, events, faults, ssl, rest, buf, echo>>
  BY DEF Tls!RegisterFails, Tls!AtEvent
<1>2. SocketsInv'
  BY <1>1, WriteKeeps DEF SecureInv, SocketsInv, SocketTypes
<1>3. SecureTypes' /\ SecureLoop'
  BY <1>1 DEF SecureInv, SecureTypes, SecureLoop
<1>4. SecureData'
  BY <1>1, SecureDataKept DEF SecureInv, Buf, There
<1> QED  BY <1>2, <1>3, <1>4 DEF SecureInv

\* An event is done, and nothing else.
LEMMA SecureDone ==
    ASSUME SecureInv, Tls!AcceptEnds \/ Tls!WouldBlock
    PROVE  SecureInv'
<1>1. /\ server = "up" /\ events # <<>> /\ buf = <<>> /\ EventDone
      /\ UNCHANGED <<client, sent, backlog, conns, inbox, broken, lost, rdlist, server, faults, ssl, rest, buf, echo>>
  BY TlsSame DEF Tls!AcceptEnds, Tls!WouldBlock, Tls!AtConn, Tls!AtEvent
<1>2. SocketsInv'
  BY <1>1, WriteKeeps DEF SecureInv, SocketsInv, SocketTypes
<1>3. SecureTypes'
  BY <1>1 DEF SecureInv, SecureTypes
<1>4. SecureLoop'
  BY <1>1 DEF SecureInv, SecureLoop
<1>5. SecureData'
  BY <1>1, SecureDataKept DEF SecureInv, Buf, There
<1> QED  BY <1>2, <1>3, <1>4, <1>5 DEF SecureInv

\* The connection that an event is about.
LEMMA AtConnFacts ==
    ASSUME SecureInv, NEW st, Tls!AtConn(st)
    PROVE  /\ server = "up" /\ events # <<>> /\ buf = <<>> /\ fd # Listen /\ ssl[fd] = st
           /\ fd \in conns /\ fd \in Clients
<1>1. server = "up" /\ events # <<>> /\ buf = <<>> /\ fd # Listen /\ ssl[fd] = st
  BY TlsSame DEF Tls!AtConn, Tls!AtEvent
<1> QED  BY <1>1, EventsLeft DEF SecureInv, SocketsInv, SocketTypes

\* The process ends with a handshake that fails.
LEMMA SecureFails ==
    ASSUME SecureInv, Tls!HandshakeFails
    PROVE  SecureInv'
<1>1. /\ Tls!AtConn("handshake") /\ Readable(fd)
      /\ server' = "exited" \/ (server' = "sigpipe" /\ fd \in broken)
      /\ UNCHANGED <<client, sent, backlog, conns, inbox, broken, lost, rdlist, events, faults, ssl, rest, buf, echo>>
  BY TlsSame DEF Tls!HandshakeFails
<1>2. buf = <<>> /\ fd # Listen /\ ssl[fd] = "handshake" /\ fd \in conns
  BY <1>1, AtConnFacts
<1>3. SocketsInv'
  BY <1>1, WriteKeeps DEF SecureInv, SocketsInv, SocketTypes
<1>4. SecureTypes'
  BY <1>1 DEF SecureInv, SecureTypes
<1>5. SecureLoop'
  <2>1. \E c \in conns' : ssl'[c] = "handshake" /\ Readable(c)'
    <3>1. Readable(fd)' /\ fd \in conns' /\ ssl'[fd] = "handshake"
      BY <1>1, <1>2 DEF Readable, fd
    <3>2. PICK c \in conns' : c = fd
      BY <3>1
    <3>3. Readable(c)'
      BY <1>1, <1>2, <3>2 DEF Readable
    <3> QED  BY <3>1, <3>2, <3>3
  <2>2. server' = "sigpipe" => conns' \cap broken' # {}
    BY <1>1, <1>2
  <2> QED  BY <1>1, <1>2, <2>1, <2>2 DEF SecureInv, SecureLoop
<1>6. SecureData'
  BY <1>1, <1>2, SecureDataKept DEF SecureInv, Buf, There
<1> QED  BY <1>3, <1>4, <1>5, <1>6 DEF SecureInv

\* done: the SSL object is freed and the socket closed.  What was read and could not
\* be written is dropped only with a client that is gone or has lost some already.
LEMMA SecureClosed ==
    ASSUME SecureInv, server = "up", events # <<>>, fd \in conns, Tls!Done, buf' = <<>>, buf # <<>> => ~There(fd),
           UNCHANGED <<client, sent, backlog, inbox, broken, lost, server, faults, rest, echo>>
    PROVE  SecureInv'
<1>1. ssl' = [ssl EXCEPT ![fd] = "freed"] /\ close(fd) /\ EventDone
  BY TlsSame, TlsCalls DEF Tls!Done, Tls!SslFreed
<1>2. fd \in Clients /\ fd # Listen /\ conns \subseteq Clients
  BY SocketAssumption DEF SecureInv, SocketsInv, SocketTypes
<1>3. SocketsInv'
  BY <1>1, <1>2, CloseKeeps DEF SecureInv
<1>4. SecureTypes'
  BY <1>1, <1>2 DEF SecureInv, SecureTypes
<1>5. SecureLoop'
  <2>1. conns' = conns \ {fd}
    BY <1>1 DEF close
  <2>2. ssl'[fd] = "freed" /\ \A d \in Clients : d # fd => ssl'[d] = ssl[d]
    BY <1>1, <1>2 DEF SecureInv, SecureTypes
  <2>3. \A d \in conns' : ssl'[d] \in {"handshake", "finished"}
    BY <1>2, <2>1, <2>2 DEF SecureInv, SecureLoop
  <2>4. \A d \in Clients \ conns' : ssl'[d] \in {"handshake", "finished"} => d \in broken'
    BY <2>1, <2>2 DEF SecureInv, SecureLoop
  <2> QED  BY <2>3, <2>4 DEF SecureLoop
<1>6. SecureData'
  <2>1. \A d \in Clients : There(d)' => There(d) /\ Buf(d)' = Buf(d)
    BY DEF There, Buf
  <2> QED  BY <2>1, SecureDataKept DEF SecureInv
<1> QED  BY <1>3, <1>4, <1>5, <1>6 DEF SecureInv

\* SIGPIPE: nothing more happens.
LEMMA SecureKilled ==
    ASSUME SecureInv, fd \in conns, Tls!Sigpipe, buf' = <<>>, buf # <<>> => ~There(fd),
           UNCHANGED <<client, sent, backlog, inbox, broken, lost, faults, rest, echo>>
    PROVE  SecureInv'
<1>1. fd \in broken /\ server' = "sigpipe" /\ UNCHANGED <<conns, rdlist, events, ssl>>
  BY TlsSame DEF Tls!Sigpipe
<1>2. SocketsInv'
  BY <1>1, WriteKeeps DEF SecureInv, SocketsInv, SocketTypes
<1>3. SecureTypes' /\ SecureLoop'
  BY <1>1 DEF SecureInv, SecureTypes, SecureLoop
<1>4. SecureData'
  <2>1. \A d \in Clients : There(d)' => There(d) /\ Buf(d)' = Buf(d)
    BY DEF There, Buf
  <2> QED  BY <2>1, SecureDataKept DEF SecureInv
<1> QED  BY <1>2, <1>3, <1>4 DEF SecureInv

\* The end of a connection after the handshake.
LEMMA SecureReadEnd ==
    ASSUME SecureInv, Tls!ReadEnd
    PROVE  SecureInv'
<1>1. /\ Tls!AtConn("finished") /\ ((Tls!Done /\ UNCHANGED server) \/ Tls!Sigpipe)
      /\ UNCHANGED <<client, sent, backlog, inbox, broken, lost, faults, rest, buf, echo>>
  BY DEF Tls!ReadEnd
<1>2. server = "up" /\ events # <<>> /\ buf = <<>> /\ fd \in conns
  BY <1>1, AtConnFacts
<1> QED  BY <1>1, <1>2, SecureClosed, SecureKilled

\* A record that carries nothing is taken from the socket.
LEMMA SecureTaken ==
    ASSUME SecureInv, NEW st, Tls!AtConn(st), inbox[fd] # <<>>, Head(inbox[fd]).type # "app",
           inbox' = [inbox EXCEPT ![fd] = Tail(@)],
           UNCHANGED <<client, sent, lost, rest, buf, echo>>
    PROVE  /\ inbox' \in [Clients -> Seq(Unit)]
           /\ SecureData'
<1>1. buf = <<>> /\ fd \in conns /\ fd \in Clients
  BY AtConnFacts
<1>2. inbox \in [Clients -> Seq(Unit)]
  BY DEF SecureInv, SecureTypes
<1>3. /\ Head(inbox[fd]) \in Unit /\ Tail(inbox[fd]) \in Seq(Unit)
      /\ Tls!Bytes(inbox[fd]) = Carried(Head(inbox[fd])) \o Tls!Bytes(Tail(inbox[fd]))
  <2>1. inbox[fd] \in Seq(Unit)
    BY <1>1, <1>2
  <2> QED  BY <2>1, BytesFirst
<1>4. inbox'[fd] = Tail(inbox[fd]) /\ \A d \in Clients : d # fd => inbox'[d] = inbox[d]
  BY <1>1, <1>2
<1>5. inbox' \in [Clients -> Seq(Unit)]
  BY <1>1, <1>2, <1>3
<1>6. Tls!Bytes(inbox'[fd]) = Tls!Bytes(inbox[fd])
  <2>1. Carried(Head(inbox[fd])) = <<>>
    BY DEF Carried
  <2>2. Tls!Bytes(Tail(inbox[fd])) \in Seq(Nat)
    BY <1>3, BytesType
  <2>3. <<>> \o Tls!Bytes(Tail(inbox[fd])) = Tls!Bytes(Tail(inbox[fd]))
    BY <2>2, ConcatEmptySeq
  <2> QED  BY <1>3, <1>4, <2>1, <2>3
<1>7. ASSUME NEW d \in Clients
      PROVE  /\ There(d)' => Secret(d)' = echo'[d] \o Buf(d)' \o rest'[d] \o Tls!Bytes(inbox[d])'
             /\ \E t \in Seq(Nat) : Secret(d)' = echo'[d] \o t
  <2>1. Secret(d)' = Secret(d) /\ Tls!Bytes(inbox[d])' = Tls!Bytes(inbox'[d]) /\ (There(d)' <=> There(d))
    BY DEF Secret, Tls!Bytes, There
  <2>2. Buf(d) = <<>> /\ Buf(d)' = <<>>
    BY <1>1 DEF Buf
  <2>3. Tls!Bytes(inbox'[d]) = Tls!Bytes(inbox[d])
    BY <1>4, <1>6
  <2>4. /\ There(d) => Secret(d) = echo[d] \o Buf(d) \o rest[d] \o Tls!Bytes(inbox[d])
        /\ \E t \in Seq(Nat) : Secret(d) = echo[d] \o t
    BY DEF SecureInv, SecureData
  <2> QED  BY <2>1, <2>2, <2>3, <2>4
<1> QED  BY <1>5, <1>7 DEF SecureData

\* SSL_do_handshake() takes a record without data.
LEMMA SecureHandshake ==
    ASSUME SecureInv, Tls!ssl_handshake
    PROVE  SecureInv'
<1>1. /\ Tls!AtConn("handshake") /\ inbox[fd] # <<>> /\ Head(inbox[fd]).type \in {"hello", "finish", "frag"}
      /\ inbox' = [inbox EXCEPT ![fd] = Tail(@)]
      /\ \/ ssl' = [ssl EXCEPT ![fd] = "finished"] /\ EventDone
         \/ UNCHANGED <<ssl, events>>
      /\ UNCHANGED <<client, sent, backlog, conns, broken, lost, rdlist, server, faults, rest, buf, echo>>
  BY TlsSame DEF Tls!ssl_handshake
<1>2. server = "up" /\ events # <<>> /\ buf = <<>> /\ fd \in conns /\ fd \in Clients
  BY <1>1, AtConnFacts
<1>3. SocketsInv'
  BY <1>1, <1>2, WriteKeeps DEF SecureInv, SocketsInv, SocketTypes
<1>4. inbox' \in [Clients -> Seq(Unit)] /\ SecureData'
  <2>1. Head(inbox[fd]).type # "app"
    BY <1>1
  <2> QED  BY <1>1, <2>1, SecureTaken
<1>5. SecureTypes'
  BY <1>1, <1>2, <1>4 DEF SecureInv, SecureTypes
<1>6. SecureLoop'
  <2>1. ssl'[fd] \in {"handshake", "finished"} /\ \A d \in Clients : d # fd => ssl'[d] = ssl[d]
    BY <1>1, <1>2 DEF SecureInv, SecureTypes, SecureLoop
  <2>2. conns \subseteq Clients
    BY DEF SecureInv, SocketsInv, SocketTypes
  <2> QED  BY <1>1, <1>2, <2>1, <2>2 DEF SecureInv, SecureLoop
<1> QED  BY <1>3, <1>4, <1>5, <1>6 DEF SecureInv

\* What SSL_read() gives and what it keeps are the bytes it had.
LEMMA FirstAfter ==
    ASSUME NEW d \in Seq(Nat)
    PROVE  Tls!First(d) \in Seq(Nat) /\ Tls!After(d) \in Seq(Nat) /\ Tls!First(d) \o Tls!After(d) = d
<1> DEFINE n == IF Len(d) < Chunk THEN Len(d) ELSE Chunk
<1>1. Len(d) \in Nat /\ n \in 0 .. Len(d)
  BY LenProperties, SocketAssumption
<1>2. Tls!First(d) = SubSeq(d, 1, n)
  BY DEF Tls!First
<1> HIDE DEF n
<1>3. /\ SubSeq(d, 1, n) \in Seq(Nat) /\ SubSeq(d, n + 1, Len(d)) \in Seq(Nat)
      /\ Len(SubSeq(d, 1, n)) = n
      /\ SubSeq(d, 1, n) \o SubSeq(d, n + 1, Len(d)) = d
  BY <1>1, SplitOff
<1>4. Tls!After(d) = SubSeq(d, n + 1, Len(d))
  BY <1>2, <1>3 DEF Tls!After
<1> QED  BY <1>2, <1>3, <1>4

\* Concatenation of bytes is associative.
LEMMA BytesAssoc == \A s, t, u \in Seq(Nat) : (s \o t) \o u = s \o (t \o u)
<1> SUFFICES ASSUME NEW s \in Seq(Nat), NEW t \in Seq(Nat), NEW u \in Seq(Nat)
             PROVE  (s \o t) \o u = s \o (t \o u)
  OBVIOUS
<1> QED  BY ConcatAssociative, SMTT(30)

\* The same behind what came back before, and in front of what is still in the socket.
LEMMA FirstAfterIn ==
    ASSUME NEW e \in Seq(Nat), NEW d \in Seq(Nat), NEW t \in Seq(Nat)
    PROVE  /\ e \o d = (e \o Tls!First(d)) \o Tls!After(d)
           /\ e \o (d \o t) = ((e \o Tls!First(d)) \o Tls!After(d)) \o t
<1>1. PICK p \in Seq(Nat), q \in Seq(Nat) : p = Tls!First(d) /\ q = Tls!After(d)
  BY FirstAfter
<1>2. p \o q = d
  BY <1>1, FirstAfter
<1>3. (e \o p) \o q = e \o (p \o q)
  BY BytesAssoc, ZenonT(30)
<1>4. (e \o d) \o t = e \o (d \o t)
  BY BytesAssoc, ZenonT(30)
<1> QED  BY <1>1, <1>2, <1>3, <1>4

\* SSL_read(): from the record it has, from the next one, or a part of a record only.
LEMMA SecureRead ==
    ASSUME SecureInv, Tls!Read
    PROVE  SecureInv'
<1> DEFINE r == inbox[fd]
           h == Head(inbox[fd])
<1>1. /\ Tls!AtConn("finished")
      /\ UNCHANGED <<client, sent, backlog, conns, broken, lost, rdlist, events, server, faults, ssl, echo>>
      /\ \/ rest[fd] # <<>> /\ buf' = Tls!First(rest[fd]) /\ rest' = [rest EXCEPT ![fd] = Tls!After(@)] /\ UNCHANGED inbox
         \/ /\ rest[fd] = <<>> /\ r # <<>> /\ h.type = "app"
            /\ buf' = Tls!First(h.data) /\ rest' = [rest EXCEPT ![fd] = Tls!After(h.data)]
            /\ inbox' = [inbox EXCEPT ![fd] = Tail(@)]
         \/ /\ rest[fd] = <<>> /\ r # <<>> /\ h.type = "frag" /\ inbox' = [inbox EXCEPT ![fd] = Tail(@)]
            /\ UNCHANGED <<rest, buf>>
  BY TlsSame DEF Tls!Read
<1>2. server = "up" /\ events # <<>> /\ buf = <<>> /\ fd \in conns /\ fd \in Clients
  BY <1>1, AtConnFacts
<1>3. /\ inbox \in [Clients -> Seq(Unit)] /\ echo \in [Clients -> Seq(Nat)] /\ rest \in [Clients -> Seq(Nat)] /\ buf \in Seq(Nat)
      /\ \A c \in Clients : sent[c] <= Len(Plans[c])
      /\ ssl \in [Clients -> {"none", "handshake", "finished", "freed"}]
  BY DEF SecureInv, SecureTypes
<1>4. SocketsInv'
  BY <1>1, <1>2, WriteKeeps DEF SecureInv, SocketsInv, SocketTypes
<1>5. fd' = fd
  BY <1>1 DEF fd
<1>6. SecureLoop'
  BY <1>1, <1>2, <1>5 DEF SecureInv, SecureLoop
<1>7. \A d \in Clients : Secret(d)' = Secret(d) /\ Tls!Bytes(inbox[d])' = Tls!Bytes(inbox'[d])
  BY <1>1 DEF Secret, Tls!Bytes
<1>8. \A d \in Clients : d # fd => Buf(d) = <<>> /\ Buf(d)' = <<>>
  BY <1>5 DEF Buf
<1>9. Buf(fd) = <<>> /\ \A d \in Clients : d = fd => Buf(d)' = buf'
  BY <1>1, <1>2, <1>5 DEF Buf
<1>10. \A d \in Clients : There(d)' => Secret(d) = ((echo[d] \o Buf(d)) \o rest[d]) \o Tls!Bytes(inbox[d])
  BY <1>1 DEF SecureInv, SecureData, There
<1>15. \A d \in Clients : \E t \in Seq(Nat) : Secret(d)' = echo'[d] \o t
  BY <1>1, <1>7 DEF SecureInv, SecureData
<1>11. echo[fd] \in Seq(Nat) /\ echo[fd] \o <<>> = echo[fd] /\ r \in Seq(Unit)
  <2>1. echo[fd] \in Seq(Nat) /\ r \in Seq(Unit)
    BY <1>2, <1>3
  <2> QED  BY <2>1, ConcatEmptySeq
<1> HIDE DEF r, h
<1>12. CASE rest[fd] # <<>> /\ buf' = Tls!First(rest[fd]) /\ rest' = [rest EXCEPT ![fd] = Tls!After(@)] /\ UNCHANGED inbox
  <2>1. rest[fd] \in Seq(Nat)
    BY <1>2, <1>3
  <2>2. Tls!First(rest[fd]) \in Seq(Nat) /\ Tls!After(rest[fd]) \in Seq(Nat)
    BY <2>1, FirstAfter
  <2>3. rest'[fd] = Tls!After(rest[fd]) /\ \A d \in Clients : d # fd => rest'[d] = rest[d]
    BY <1>2, <1>3, <1>12
  <2>4. SecureTypes'
    BY <1>1, <1>3, <1>12, <2>2 DEF SecureTypes
  <2>5. echo[fd] \o rest[fd] = (echo[fd] \o Tls!First(rest[fd])) \o Tls!After(rest[fd])
    BY <1>11, <2>1, FirstAfterIn
  <2>6. ASSUME NEW d \in Clients, There(d)'
        PROVE  Secret(d)' = echo'[d] \o Buf(d)' \o rest'[d] \o Tls!Bytes(inbox[d])'
    <3>1. CASE d = fd
      <4>1. Secret(fd) = ((echo[fd] \o <<>>) \o rest[fd]) \o Tls!Bytes(inbox[fd])
        BY <1>1, <1>9, <1>10, <2>6, <3>1
      <4> QED  BY <1>1, <1>7, <1>9, <1>11, <1>12, <2>3, <2>5, <3>1, <4>1
    <3>2. CASE d # fd
      BY <1>1, <1>7, <1>8, <1>10, <1>12, <2>3, <2>6, <3>2
    <3> QED  BY <3>1, <3>2
  <2>7. SecureData'
    BY <1>15, <2>6 DEF SecureData
  <2> QED  BY <1>4, <1>6, <2>4, <2>7 DEF SecureInv
<1>13. CASE /\ rest[fd] = <<>> /\ r # <<>> /\ h.type = "app"
            /\ buf' = Tls!First(h.data) /\ rest' = [rest EXCEPT ![fd] = Tls!After(h.data)]
            /\ inbox' = [inbox EXCEPT ![fd] = Tail(@)]
  <2>1. h \in Unit /\ Tail(r) \in Seq(Unit) /\ Tls!Bytes(r) = Carried(h) \o Tls!Bytes(Tail(r)) /\ Carried(h) = h.data
        /\ h.data \in Seq(Nat)
    <3>1. Head(r) \in Unit /\ Tail(r) \in Seq(Unit) /\ Tls!Bytes(r) = Carried(Head(r)) \o Tls!Bytes(Tail(r))
      BY <1>11, <1>13, BytesFirst
    <3>2. Head(r) = h
      BY DEF r, h
    <3> QED  BY <1>13, <3>1, <3>2, CarriedType DEF Carried
  <2>2. Tls!Bytes(Tail(r)) \in Seq(Nat)
    BY <2>1, BytesType
  <2>3. Tls!First(h.data) \in Seq(Nat) /\ Tls!After(h.data) \in Seq(Nat)
    BY <2>1, FirstAfter
  <2>4. /\ rest'[fd] = Tls!After(h.data) /\ inbox'[fd] = Tail(r)
        /\ \A d \in Clients : d # fd => rest'[d] = rest[d] /\ inbox'[d] = inbox[d]
    BY <1>2, <1>3, <1>13 DEF r
  <2>5. SecureTypes'
    <3>1. inbox' \in [Clients -> Seq(Unit)]
      BY <1>3, <1>13, <2>1 DEF r
    <3>2. rest' \in [Clients -> Seq(Nat)]
      BY <1>3, <1>13, <2>3
    <3> QED  BY <1>1, <1>3, <1>13, <2>3, <3>1, <3>2 DEF SecureTypes
  <2>6. echo[fd] \o (h.data \o Tls!Bytes(Tail(r))) =
            ((echo[fd] \o Tls!First(h.data)) \o Tls!After(h.data)) \o Tls!Bytes(Tail(r))
    <3>1. PICK p \in Seq(Nat), q \in Seq(Nat), t \in Seq(Nat) : p = echo[fd] /\ q = h.data /\ t = Tls!Bytes(Tail(r))
      BY <1>11, <2>1, <2>2
    <3>2. p \o (q \o t) = ((p \o Tls!First(q)) \o Tls!After(q)) \o t
      BY FirstAfterIn, ZenonT(30)
    <3> QED  BY <3>1, <3>2
  <2>7. ASSUME NEW d \in Clients, There(d)'
        PROVE  Secret(d)' = echo'[d] \o Buf(d)' \o rest'[d] \o Tls!Bytes(inbox[d])'
    <3>1. CASE d = fd
      <4>1. Secret(fd) = ((echo[fd] \o <<>>) \o <<>>) \o (h.data \o Tls!Bytes(Tail(r)))
        BY <1>1, <1>9, <1>10, <1>13, <2>1, <2>7, <3>1 DEF r
      <4>2. Buf(d)' = Tls!First(h.data) /\ rest'[d] = Tls!After(h.data)
            /\ Tls!Bytes(inbox[d])' = Tls!Bytes(Tail(r)) /\ echo'[d] = echo[fd] /\ Secret(d)' = Secret(fd)
        BY <1>1, <1>7, <1>9, <1>13, <2>4, <3>1
      <4>3. Secret(fd) = echo[fd] \o (h.data \o Tls!Bytes(Tail(r)))
        BY <1>11, <4>1
      <4> QED  BY <2>6, <4>2, <4>3
    <3>2. CASE d # fd
      BY <1>1, <1>7, <1>8, <1>10, <2>4, <2>7, <3>2
    <3> QED  BY <3>1, <3>2
  <2>8. SecureData'
    BY <1>15, <2>7 DEF SecureData
  <2> QED  BY <1>4, <1>6, <2>5, <2>8 DEF SecureInv
<1>14. CASE /\ rest[fd] = <<>> /\ r # <<>> /\ h.type = "frag" /\ inbox' = [inbox EXCEPT ![fd] = Tail(@)]
            /\ UNCHANGED <<rest, buf>>
  <2>1. inbox[fd] # <<>> /\ Head(inbox[fd]).type # "app"
    BY <1>14 DEF r, h
  <2>2. inbox' \in [Clients -> Seq(Unit)] /\ SecureData'
    BY <1>1, <1>14, <2>1, SecureTaken
  <2>3. SecureTypes'
    BY <1>1, <1>3, <1>14, <2>2 DEF SecureTypes
  <2> QED  BY <1>4, <1>6, <2>2, <2>3 DEF SecureInv
<1> QED  BY <1>1, <1>12, <1>13, <1>14

\* SSL_write() takes what was read, or keeps some.
LEMMA SecureWrite ==
    ASSUME SecureInv, Tls!Write
    PROVE  SecureInv'
<1>1. /\ server = "up" /\ buf # <<>> /\ buf' = <<>> /\ EventDone
      /\ UNCHANGED <<client, sent, backlog, conns, inbox, broken, rdlist, server, faults, ssl, rest>>
      /\ \/ echo' = Echoed(echo, fd, buf) /\ UNCHANGED lost
         \/ lost' = lost \cup {fd} /\ UNCHANGED echo
  BY TlsSame, TlsCalls DEF Tls!Write
<1>2. events # <<>> /\ fd \in conns /\ fd \in Clients
  BY <1>1 DEF SecureInv, SecureLoop, SocketsInv, SocketTypes
<1>3. /\ echo \in [Clients -> Seq(Nat)] /\ inbox \in [Clients -> Seq(Unit)] /\ buf \in Seq(Nat) /\ SecureTypes
      /\ rest \in [Clients -> Seq(Nat)] /\ lost \subseteq Clients
      /\ client \in [Clients -> {"new", "open", "left"}] /\ client[fd] # "new"
  BY <1>2 DEF SecureInv, SecureTypes, SocketsInv, SocketTypes, BacklogInv
<1>4. SocketsInv'
  <2>1. lost' \subseteq Clients
    BY <1>1, <1>2, <1>3
  <2> QED  BY <1>1, <1>2, <2>1, WriteKeeps DEF SecureInv, SocketsInv, SocketTypes
<1>5. SecureLoop'
  BY <1>1 DEF SecureInv, SecureLoop
<1>6. \A d \in Clients : Secret(d)' = Secret(d) /\ Tls!Bytes(inbox[d])' = Tls!Bytes(inbox[d]) /\ Buf(d)' = <<>>
  BY <1>1 DEF Secret, Tls!Bytes, Buf
<1>7. CASE There(fd) /\ echo' = Echoed(echo, fd, buf) /\ UNCHANGED lost
  <2> DEFINE t == rest[fd] \o Tls!Bytes(inbox[fd])
  <2>0. echo' = [echo EXCEPT ![fd] = @ \o buf]
    BY <1>3, <1>7 DEF There, Echoed
  <2>1. echo'[fd] = echo[fd] \o buf /\ echo'[fd] \in Seq(Nat)
        /\ \A d \in Clients : d # fd => echo'[d] = echo[d]
    <3>1. echo'[fd] = echo[fd] \o buf
      BY <1>2, <1>3, <2>0
    <3>2. echo[fd] \in Seq(Nat)
      BY <1>2, <1>3
    <3>3. echo[fd] \o buf \in Seq(Nat)
      BY <1>3, <3>2, ConcatProperties
    <3>4. \A d \in Clients : d # fd => echo'[d] = echo[d]
      BY <1>2, <1>3, <2>0
    <3> QED  BY <3>1, <3>3, <3>4
  <2>2. SecureTypes'
    <3>1. \A d \in Clients : echo'[d] \in Seq(Nat)
      BY <1>3, <2>1
    <3>2. DOMAIN echo' = Clients /\ echo' = [d \in Clients |-> echo'[d]]
      BY <1>3, <2>0
    <3>3. echo' \in [Clients -> Seq(Nat)]
      BY <3>1, <3>2
    <3> QED  BY <1>1, <1>3, <3>3 DEF SecureTypes
  <2>3. echo'[fd] \o <<>> = echo'[fd]
    BY <2>1, ConcatEmptySeq
  <2>4. Secret(fd) = ((echo'[fd] \o <<>>) \o rest[fd]) \o Tls!Bytes(inbox[fd])
        /\ Secret(fd) = echo'[fd] \o t /\ t \in Seq(Nat)
    <3>1. Secret(fd) = ((echo[fd] \o buf) \o rest[fd]) \o Tls!Bytes(inbox[fd])
      <4>1. \A d \in Clients : d = fd => Buf(d) = buf
        BY <1>2 DEF Buf
      <4> QED  BY <1>2, <1>7, <4>1 DEF SecureInv, SecureData
    <3>2. PICK p \in Seq(Nat), q \in Seq(Nat), r \in Seq(Nat) : p = echo'[fd] /\ q = rest[fd] /\ r = Tls!Bytes(inbox[fd])
      <4>1. inbox[fd] \in Seq(Unit) /\ rest[fd] \in Seq(Nat)
        BY <1>2, <1>3
      <4> QED  BY <2>1, <4>1, BytesType
    <3>3. (p \o q) \o r = p \o (q \o r) /\ q \o r \in Seq(Nat)
      BY Regroup, ZenonT(30)
    <3> QED  BY <2>1, <2>3, <3>1, <3>2, <3>3
  <2> HIDE DEF t
  <2>5. ASSUME NEW d \in Clients
        PROVE  /\ There(d)' => Secret(d)' = echo'[d] \o Buf(d)' \o rest'[d] \o Tls!Bytes(inbox[d])'
               /\ \E u \in Seq(Nat) : Secret(d)' = echo'[d] \o u
    <3>1. CASE d = fd
      BY <1>1, <1>6, <2>4, <3>1
    <3>2. CASE d # fd
      <4>1. Buf(d) = <<>> /\ (There(d)' <=> There(d))
        BY <1>1, <1>7, <3>2 DEF Buf, There
      <4>2. /\ There(d) => Secret(d) = echo[d] \o Buf(d) \o rest[d] \o Tls!Bytes(inbox[d])
            /\ \E u \in Seq(Nat) : Secret(d) = echo[d] \o u
        BY DEF SecureInv, SecureData
      <4> QED  BY <1>1, <1>6, <2>1, <3>2, <4>1, <4>2
    <3> QED  BY <3>1, <3>2
  <2>6. SecureData'
    BY <2>5 DEF SecureData
  <2> QED  BY <1>4, <1>5, <2>2, <2>6 DEF SecureInv
<1>8. ASSUME echo' = echo, client[fd] = "left" \/ fd \in lost'
      PROVE  SecureInv'
  <2>1. SecureTypes'
    BY <1>1, <1>3, <1>8 DEF SecureTypes
  <2>2. \A d \in Clients : There(d)' => There(d) /\ Buf(d)' = Buf(d)
    <3>1. lost \subseteq lost'
      BY <1>1
    <3> QED  BY <1>1, <1>8, <3>1 DEF There, Buf
  <2>3. SecureData'
    BY <1>1, <1>8, <2>2, SecureDataKept DEF SecureInv
  <2> QED  BY <1>4, <1>5, <2>1, <2>3 DEF SecureInv
<1> QED  BY <1>1, <1>7, <1>8 DEF There, Echoed

\* SSL_write() fails: what was read is dropped.
LEMMA SecureWriteFails ==
    ASSUME SecureInv, Tls!WriteFails
    PROVE  SecureInv'
<1>1. /\ server = "up" /\ buf # <<>> /\ buf' = <<>>
      /\ UNCHANGED <<client, sent, backlog, inbox, broken, lost, faults, rest, echo>>
      /\ (fd \in broken \cup lost /\ Tls!Done /\ UNCHANGED server) \/ Tls!Sigpipe
  BY TlsSame DEF Tls!WriteFails
<1>2. events # <<>> /\ fd \in conns
  BY <1>1 DEF SecureInv, SecureLoop
<1>3. fd \in broken \cup lost
  BY <1>1, TlsSame DEF Tls!Sigpipe
<1>4. ~There(fd)
  BY <1>3 DEF There, SecureInv, SocketsInv, ResetInv
<1> QED  BY <1>1, <1>2, <1>4, SecureClosed, SecureKilled

\* Nothing of the TLS server changes.
LEMMA SecureKept ==
    ASSUME SecureInv, UNCHANGED <<socketVars, ssl, rest, buf, echo>>
    PROVE  SecureInv'
<1>1. SocketsInv'
  BY DEF socketVars, SecureInv, SocketsInv, SocketTypes, BacklogInv, RdlistInv, EventsInv, ResetInv, Apart
<1>2. SecureTypes'
  BY DEF socketVars, SecureInv, SecureTypes
<1>3. SecureLoop'
  <2>1. \A d : Readable(d) => Readable(d)'
    BY DEF socketVars, Readable
  <2> QED  BY <2>1 DEF socketVars, SecureInv, SecureLoop, fd
<1>4. SecureData'
  BY SecureDataKept DEF socketVars, SecureInv, Buf, fd, There
<1> QED  BY <1>1, <1>2, <1>3, <1>4 DEF SecureInv

\* Every step of the TLS server.
LEMMA SecureStep ==
    ASSUME SecureInv, Tls!Next
    PROVE  SecureInv'
<1>1. CASE Tls!Network
  <2>1. PICK c \in Clients : Tls!Connect(c) \/ Tls!Send(c) \/ Tls!Leave(c) \/ Tls!Reset(c)
    BY <1>1 DEF Tls!Network
  <2>2. UNCHANGED <<ssl, rest, buf, echo>>
    BY <1>1 DEF Tls!Network
  <2> QED  BY <2>1, <2>2, SecureConnect, SecureSend, SecureLeave, SecureReset
<1>2. CASE Tls!Server
  BY <1>2, SecureWait, SecureHup, SecureAccept, SecureRegisterFails, SecureDone, SecureHandshake, SecureFails,
     SecureRead, SecureReadEnd, SecureWrite, SecureWriteFails DEF Tls!Server
<1> QED  BY <1>1, <1>2 DEF Tls!Next

\* The start of the TLS server.
LEMMA SecureStart ==
    ASSUME Tls!Init
    PROVE  SecureInv
<1>1. /\ client = [c \in Clients |-> "new"] /\ sent = [c \in Clients |-> 0] /\ backlog = <<>> /\ conns = {}
      /\ inbox = [c \in Clients |-> <<>>] /\ broken = {} /\ lost = {} /\ rdlist = <<>> /\ events = <<>> /\ server = "up"
      /\ faults \in SocketFaults
      /\ ssl = [c \in Clients |-> "none"] /\ rest = [c \in Clients |-> <<>>] /\ buf = <<>>
      /\ echo = [c \in Clients |-> <<>>]
  BY DEF Tls!Init, Tls!SocketInit
<1>2. \A S : <<>> \in Seq(S) /\ Len(<<>>) = 0 /\ <<>> \o <<>> = <<>>
  OBVIOUS
<1>3. SocketsInv
  BY <1>1, <1>2 DEF SocketsInv, SocketTypes, BacklogInv, RdlistInv, EventsInv, ResetInv, Apart
<1>4. SecureTypes
  <2>1. ASSUME NEW c \in Clients PROVE Len(Plans[c]) \in Nat /\ sent[c] = 0
    <3>1. Plans[c] \in Seq(Seq(Unit))
      BY StreamsAssumption DEF Unit
    <3> QED  BY <1>1, <3>1, LenProperties
  <2>2. \A c \in Clients : sent[c] <= Len(Plans[c])
    BY <2>1
  <2> QED  BY <1>1, <1>2, <2>2 DEF SecureTypes
<1>5. SecureLoop
  BY <1>1 DEF SecureLoop
<1>6. SecureData
  <2>1. ASSUME NEW c \in Clients
        PROVE  Secret(c) = <<>> /\ echo[c] = <<>> /\ Buf(c) = <<>> /\ rest[c] = <<>> /\ Tls!Bytes(inbox[c]) = <<>>
    <3>1. SubSeq(Plans[c], 1, 0) = <<>> /\ sent[c] = 0
      BY <1>1, SubSeqEmpty
    <3>2. FlattenSeq(<<>>) = <<>>
      BY DEF FlattenSeq
    <3> QED  BY <1>1, <3>1, <3>2, BytesFew DEF Secret, Buf
  <2> QED  BY <1>2, <2>1 DEF SecureData
<1> QED  BY <1>3, <1>4, <1>5, <1>6 DEF SecureInv

\* The invariant says what the run checks of the TLS server.
LEMMA SecureRight ==
    ASSUME SecureInv
    PROVE  Tls!TypeOK /\ Tls!EchoInOrder /\ Tls!SslReleased
<1>1. SocketsInv /\ SecureTypes /\ sent \in [Clients -> Nat]
  BY DEF SecureInv, SocketsInv, SocketTypes
<1>2. \A c \in Clients : sent[c] \in 0 .. Len(Plans[c])
  <2> SUFFICES ASSUME NEW c \in Clients PROVE sent[c] \in 0 .. Len(Plans[c])
    OBVIOUS
  <2>1. sent[c] \in Nat /\ Len(Plans[c]) \in Nat /\ sent[c] <= Len(Plans[c])
    BY <1>1, SecretType DEF SecureTypes
  <2> QED  BY <2>1
<1>3. Tls!SocketTypeOK
  BY <1>1, <1>2, SocketsTyped DEF Tls!SocketTypeOK, Tls!IsInjective, Tls!ToSet
<1>4. Tls!TypeOK
  BY <1>1, <1>3 DEF Tls!TypeOK, SecureTypes, SecureInv, SecureLoop
<1>5. Tls!EchoInOrder
  <2>1. ASSUME NEW c \in Clients PROVE Tls!IsPrefix(echo[c], Secret(c))
    <3>1. PICK t \in Seq(Nat) : Secret(c) = echo[c] \o t
      BY DEF SecureInv, SecureData
    <3>2. PICK p \in Seq(Nat) : p = echo[c]
      BY <1>1 DEF SecureTypes
    <3>3. Len(p) <= Len(p \o t) /\ SubSeq(p, 1, Len(p)) = SubSeq(p \o t, 1, Len(p))
      BY Begins
    <3> QED  BY <3>1, <3>2, <3>3 DEF Tls!IsPrefix
  <2>2. \A c \in Clients : client[c] = "open" /\ c \notin lost =>
            Secret(c) = echo[c] \o (IF events # <<>> /\ c = fd THEN buf ELSE <<>>) \o rest[c] \o Tls!Bytes(inbox[c])
    BY DEF SecureInv, SecureData, Buf, There
  <2> QED  BY <2>1, <2>2, TlsSame DEF Tls!EchoInOrder, Secret
<1>6. Tls!SslReleased
  <2>1. \A i \in DOMAIN events : events[i].fd # Listen => ssl[events[i].fd] \in {"handshake", "finished"}
    BY <1>1, SocketFacts DEF SecureInv, SecureLoop, SocketsInv, EventsInv
  <2> QED  BY <2>1, TlsSame DEF Tls!SslReleased, SecureInv, SecureLoop
<1> QED  BY <1>4, <1>5, <1>6

-----------------------------------------------------------------------------
(* Both echo servers.                                                      *)

\* The start of whichever program runs.
LEMMA EchoStart == MCInit => EchoInv
BY PlainStart, SecureStart DEF MCInit, EchoInv

\* Every step of whichever program runs: the servers have no state in common that
\* another one changes.
LEMMA EchoStep == EchoInv /\ [MCNext]_mcVars => EchoInv'
<1> SUFFICES ASSUME EchoInv, [MCNext]_mcVars PROVE EchoInv'
  OBVIOUS
<1>1. CASE Tunnel(Next) \/ UNCHANGED mcVars
  <2>1. UNCHANGED <<echoVars, program>>
    BY <1>1 DEF Tunnel, mcVars
  <2>2. UNCHANGED program /\ UNCHANGED <<socketVars, connfd, line, echo>> /\ UNCHANGED <<socketVars, ssl, rest, buf, echo>>
    BY <2>1 DEF echoVars
  <2> QED  BY <2>2, PlainKept, SecureKept DEF EchoInv
<1>2. CASE Plain(Sock!Next)
  <2>1. program = "sock_epoll" /\ program' = program /\ Sock!Next
    BY <1>2 DEF Plain
  <2> QED  BY <2>1, PlainStep DEF EchoInv
<1>3. CASE Secure(Tls!Next)
  <2>1. program = "echo_epoll_ssl" /\ program' = program /\ Tls!Next
    BY <1>3 DEF Secure
  <2> QED  BY <2>1, SecureStep DEF EchoInv
<1> QED  BY <1>1, <1>2, <1>3 DEF MCNext

\* Whatever the clients send, and whenever they leave: what comes back to a
\* client of either echo server is what it sent, in order and, until write() does not
\* take some, whole.
THEOREM EchoesInOrder == MCSpec => []EchoRight
<1>1. EchoInv => EchoRight
  BY PlainRight, SecureRight DEF EchoInv, EchoRight
<1> QED  BY <1>1, EchoStart, EchoStep, PTL DEF MCSpec

\* The TLS server handles no event with an SSL object that is freed, frees the object
\* of what it closes unless the connection was reset, and ends only by a client in its
\* handshake, by a call that cannot register a new connection, or by SIGPIPE from a
\* connection that was reset.
THEOREM SslObjectsFreed == MCSpec => []TlsReleased
<1>1. EchoInv => TlsReleased
  BY SecureRight DEF EchoInv, TlsReleased
<1> QED  BY <1>1, EchoStart, EchoStep, PTL DEF MCSpec

=============================================================================
