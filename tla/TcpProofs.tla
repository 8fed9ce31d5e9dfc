------------------------------ MODULE TcpProofs -----------------------------
(* One TCP connection (TcpStream) for every number of bytes, of segments   *)
(* and of sequence numbers: first the arithmetic of sequence numbers and   *)
(* runs of bytes, then one lemma per action, then the theorem.             *)
EXTENDS TcpStream, TLAPS

(* Sequence numbers: sums go round once, and two numbers less than a round *)
(* apart are told apart.                                                   *)
LEMMA WrapOnce ==
    ASSUME NEW a \in 0 .. SeqMod - 1
    PROVE  \A x \in 0 .. SeqMod - 1 :
             (a + x) % SeqMod = IF a + x < SeqMod THEN a + x ELSE a + x - SeqMod
BY StreamAssumption

(* wrapping_add yields a machine word.                                     *)
LEMMA WrapRange ==
    ASSUME NEW a \in Nat, NEW x \in Nat
    PROVE  wrapping_add(a, x) \in 0 .. SeqMod - 1
BY StreamAssumption DEF wrapping_add

(* Two additions are one, as long as they go round less than once.         *)
LEMMA WrapAdd ==
    ASSUME NEW a \in 0 .. SeqMod - 1, NEW x \in Nat, NEW y \in Nat, x + y < SeqMod
    PROVE  wrapping_add(wrapping_add(a, x), y) = wrapping_add(a, x + y)
<1>1. /\ x \in 0 .. SeqMod - 1 /\ y \in 0 .. SeqMod - 1 /\ x + y \in 0 .. SeqMod - 1
      /\ SeqMod \in Nat /\ a \in Nat /\ a < SeqMod
  BY StreamAssumption
<1> DEFINE b == (a + x) % SeqMod
<1>2. b = IF a + x < SeqMod THEN a + x ELSE a + x - SeqMod
  BY <1>1, WrapOnce
<1>3. b \in 0 .. SeqMod - 1
  BY <1>1, <1>2
<1> HIDE DEF b
<1>4. (b + y) % SeqMod = IF b + y < SeqMod THEN b + y ELSE b + y - SeqMod
  BY <1>1, <1>3, WrapOnce
<1>5. (a + (x + y)) % SeqMod = IF a + (x + y) < SeqMod THEN a + (x + y) ELSE a + (x + y) - SeqMod
  BY <1>1, WrapOnce, Zenon
<1>6. (b + y) % SeqMod = (a + (x + y)) % SeqMod
  BY <1>1, <1>2, <1>4, <1>5
<1> QED
  BY <1>6 DEF wrapping_add, b

(* Adding nothing changes nothing.                                         *)
LEMMA WrapZero ==
    ASSUME NEW a \in 0 .. SeqMod - 1
    PROVE  wrapping_add(a, 0) = a
<1>1. 0 \in 0 .. SeqMod - 1 /\ a + 0 = a /\ a < SeqMod
  BY StreamAssumption
<1> QED
  BY <1>1, WrapOnce DEF wrapping_add

(* Offsets less than a round apart are told apart.                         *)
LEMMA WrapInjective ==
    ASSUME NEW a \in 0 .. SeqMod - 1, NEW x \in 0 .. SeqMod - 1, NEW y \in 0 .. SeqMod - 1,
           wrapping_add(a, x) = wrapping_add(a, y)
    PROVE  x = y
<1>1. (a + x) % SeqMod = IF a + x < SeqMod THEN a + x ELSE a + x - SeqMod
  BY WrapOnce
<1>2. (a + y) % SeqMod = IF a + y < SeqMod THEN a + y ELSE a + y - SeqMod
  BY WrapOnce
<1> QED
  BY <1>1, <1>2, StreamAssumption DEF wrapping_add

----------------------------------------------------------------------------
(* Runs of numbered bytes.                                                 *)
LEMMA BytesSeq ==
    ASSUME NEW from \in Nat \ {0}, NEW to \in Nat, from <= to + 1
    PROVE  /\ Bytes(from, to) \in Seq(Nat) /\ Len(Bytes(from, to)) = to - from + 1
           /\ \A i \in 1 .. to - from + 1 : Bytes(from, to)[i] = from + i - 1
<1> DEFINE m == to - from + 1
<1>1. m \in Nat /\ \A i \in 1 .. m : from + i - 1 \in Nat
  OBVIOUS
<1>2. Bytes(from, to) = [i \in 1 .. m |-> from + i - 1]
  BY DEF Bytes
<1> HIDE DEF m
<1>3. Bytes(from, to) \in Seq(Nat) /\ Len(Bytes(from, to)) = m
      /\ \A i \in 1 .. m : Bytes(from, to)[i] = from + i - 1
  BY <1>1, <1>2
<1> QED
  BY <1>3 DEF m

(* From a byte to the one before it there is nothing.                      *)
LEMMA BytesNone ==
    ASSUME NEW n \in Nat
    PROVE  Bytes(n + 1, n) = <<>>
<1>1. n + 1 \in Nat \ {0} /\ n + 1 <= n + 1 /\ n - (n + 1) + 1 = 0
  OBVIOUS
<1>2. Bytes(n + 1, n) \in Seq(Nat) /\ Len(Bytes(n + 1, n)) = 0
  BY <1>1, BytesSeq
<1> QED
  BY <1>2

(* Sequences with the same elements are the same.                          *)
LEMMA SameSeq ==
    ASSUME NEW S, NEW s \in Seq(S), NEW t \in Seq(S), Len(s) = Len(t),
           \A i \in 1 .. Len(s) : s[i] = t[i]
    PROVE  s = t
OBVIOUS

(* What a concatenation of byte sequences holds.                           *)
LEMMA Concat ==
    \A s \in Seq(Nat), t \in Seq(Nat) :
        /\ s \o t \in Seq(Nat) /\ Len(s \o t) = Len(s) + Len(t)
        /\ \A i \in 1 .. Len(s) : (s \o t)[i] = s[i]
        /\ \A i \in Len(s) + 1 .. Len(s) + Len(t) : (s \o t)[i] = t[i - Len(s)]
OBVIOUS

(* Appending nothing changes nothing.                                      *)
LEMMA ConcatNone ==
    ASSUME NEW S, NEW s \in Seq(S)
    PROVE  s \o <<>> = s /\ <<>> \in Seq(S) /\ Len(<<>>) = 0
OBVIOUS

(* Concatenation of byte sequences is associative.                         *)
LEMMA ConcatBytes ==
    ASSUME NEW s \in Seq(Nat), NEW t \in Seq(Nat), NEW u \in Seq(Nat)
    PROVE  s \o (t \o u) = (s \o t) \o u
<1>1. PICK a : a = s \o t
  BY Zenon
<1>2. PICK b : b = t \o u
  BY Zenon
<1>3. PICK c : c = s \o b
  BY Zenon
<1>4. PICK d : d = a \o u
  BY Zenon
<1>5. /\ a \in Seq(Nat) /\ Len(a) = Len(s) + Len(t)
      /\ \A i \in 1 .. Len(s) : a[i] = s[i]
      /\ \A i \in Len(s) + 1 .. Len(s) + Len(t) : a[i] = t[i - Len(s)]
  BY <1>1, Concat, Zenon
<1>6. /\ b \in Seq(Nat) /\ Len(b) = Len(t) + Len(u)
      /\ \A i \in 1 .. Len(t) : b[i] = t[i]
      /\ \A i \in Len(t) + 1 .. Len(t) + Len(u) : b[i] = u[i - Len(t)]
  BY <1>2, Concat, Zenon
<1>7. /\ c \in Seq(Nat) /\ Len(c) = Len(s) + Len(b)
      /\ \A i \in 1 .. Len(s) : c[i] = s[i]
      /\ \A i \in Len(s) + 1 .. Len(s) + Len(b) : c[i] = b[i - Len(s)]
  BY <1>3, <1>6, Concat, Zenon
<1>8. /\ d \in Seq(Nat) /\ Len(d) = Len(a) + Len(u)
      /\ \A i \in 1 .. Len(a) : d[i] = a[i]
      /\ \A i \in Len(a) + 1 .. Len(a) + Len(u) : d[i] = u[i - Len(a)]
  BY <1>4, <1>5, Concat, Zenon
<1>9. Len(s) \in Nat /\ Len(t) \in Nat /\ Len(u) \in Nat
  OBVIOUS
<1>10. Len(c) = Len(d) /\ Len(c) = Len(s) + Len(t) + Len(u)
  BY <1>5, <1>6, <1>7, <1>8, <1>9
<1>11. ASSUME NEW i \in 1 .. Len(c) PROVE c[i] = d[i]
  <2>1. CASE i <= Len(s)
    <3>1. i \in 1 .. Len(s) /\ i \in 1 .. Len(a)
      BY <1>5, <1>9, <1>10, <2>1
    <3> QED
      BY <1>5, <1>7, <1>8, <3>1, Zenon
  <2>2. CASE i > Len(s) /\ i <= Len(s) + Len(t)
    <3>1. /\ i \in Len(s) + 1 .. Len(s) + Len(b) /\ i \in Len(s) + 1 .. Len(s) + Len(t)
          /\ i \in 1 .. Len(a) /\ i - Len(s) \in 1 .. Len(t)
      BY <1>5, <1>6, <1>9, <1>10, <2>2
    <3> QED
      BY <1>5, <1>6, <1>7, <1>8, <3>1, Zenon
  <2>3. CASE i > Len(s) + Len(t)
    <3>1. /\ i \in Len(s) + 1 .. Len(s) + Len(b) /\ i \in Len(a) + 1 .. Len(a) + Len(u)
          /\ i - Len(s) \in Len(t) + 1 .. Len(t) + Len(u) /\ (i - Len(s)) - Len(t) = i - Len(a)
      BY <1>5, <1>6, <1>9, <1>10, <2>3
    <3> QED
      BY <1>6, <1>7, <1>8, <3>1, Zenon
  <2>4. i <= Len(s) \/ (i > Len(s) /\ i <= Len(s) + Len(t)) \/ i > Len(s) + Len(t)
    BY <1>9
  <2> QED
    BY <2>1, <2>2, <2>3, <2>4, Zenon
<1>12. c = d
  BY <1>7, <1>8, <1>10, <1>11, SameSeq, Zenon
<1> QED
  BY <1>1, <1>2, <1>3, <1>4, <1>12, Zenon

(* The first n bytes and those after them up to to are the first to bytes. *)
LEMMA BytesJoin ==
    ASSUME NEW n \in Nat, NEW to \in Nat, n <= to
    PROVE  Bytes(1, n) \o Bytes(n + 1, to) = Bytes(1, to)
<1> DEFINE a == Bytes(1, n)
           b == Bytes(n + 1, to)
           c == Bytes(1, to)
<1>1. a \in Seq(Nat) /\ Len(a) = n /\ \A i \in 1 .. n : a[i] = i
  <2>1. 1 \in Nat \ {0} /\ 1 <= n + 1 /\ n - 1 + 1 = n /\ \A i \in 1 .. n : 1 + i - 1 = i
    OBVIOUS
  <2> QED
    BY <2>1, BytesSeq, Zenon
<1>2. c \in Seq(Nat) /\ Len(c) = to /\ \A i \in 1 .. to : c[i] = i
  <2>1. 1 \in Nat \ {0} /\ 1 <= to + 1 /\ to - 1 + 1 = to /\ \A i \in 1 .. to : 1 + i - 1 = i
    OBVIOUS
  <2> QED
    BY <2>1, BytesSeq, Zenon
<1>3. b \in Seq(Nat) /\ Len(b) = to - n /\ \A i \in 1 .. to - n : b[i] = n + i
  <2>1. /\ n + 1 \in Nat \ {0} /\ n + 1 <= to + 1 /\ to - (n + 1) + 1 = to - n
        /\ \A i \in 1 .. to - n : n + 1 + i - 1 = n + i
    OBVIOUS
  <2> QED
    BY <2>1, BytesSeq, Zenon
<1> HIDE DEF a, b, c
<1>4. a \o b \in Seq(Nat) /\ Len(a \o b) = to
  <2>1. a \o b \in Seq(Nat) /\ Len(a \o b) = Len(a) + Len(b)
    BY <1>1, <1>3, Concat, Zenon
  <2>2. n + (to - n) = to
    OBVIOUS
  <2> QED
    BY <1>1, <1>3, <2>1, <2>2
<1>5. ASSUME NEW i \in 1 .. to PROVE (a \o b)[i] = c[i]
  <2>1. CASE i <= n
    <3>1. i \in 1 .. Len(a) /\ i \in 1 .. n
      BY <1>1, <2>1
    <3>2. (a \o b)[i] = a[i]
      BY <1>1, <1>3, <3>1, Concat, Zenon
    <3> QED
      BY <1>1, <1>2, <3>1, <3>2, Zenon
  <2>2. CASE i > n
    <3>1. i \in Len(a) + 1 .. Len(a) + Len(b) /\ i - n \in 1 .. to - n /\ n + (i - n) = i
      BY <1>1, <1>3, <2>2
    <3>2. (a \o b)[i] = b[i - n]
      BY <1>1, <1>3, <3>1, Concat, Zenon
    <3> QED
      BY <1>2, <1>3, <3>1, <3>2, Zenon
  <2>3. i <= n \/ i > n
    OBVIOUS
  <2> QED
    BY <2>1, <2>2, <2>3, Zenon
<1>6. a \o b = c
  BY Zenon, <1>2, <1>4, <1>5, SameSeq
<1> QED
  BY <1>6 DEF a, b, c

(* A step that leaves what was read alone and keeps the buffer sound keeps *)
(* the order of what is read.                                              *)
LEMMA ReadsIncrease ==
    ASSUME StreamExact, read' = read, read \in Seq(Nat), buf \in Seq(Nat), buf' \in Seq(Nat),
           Len(received') \in Nat, BufferSound'
    PROVE  ReadOnce'
<1> DEFINE k == Len(read)
           m == Len(buf')
           n == Len(received')
           s == read \o buf'
<1>1. /\ k \in Nat /\ m \in Nat /\ n \in Nat /\ m <= n /\ DOMAIN read = 1 .. k /\ DOMAIN buf' = 1 .. m
      /\ \A i \in 1 .. m : buf'[i] = n - m + i
      /\ \A i \in 1 .. k : read[i] <= n - m /\ read[i] \in Nat
  BY DEF BufferSound
<1>2. /\ Len(s) = k + m /\ \A i \in 1 .. k : s[i] = read[i]
      /\ \A i \in k + 1 .. k + m : s[i] = buf'[i - k]
  BY Concat
<1>3. \A i \in 2 .. k : read[i - 1] < read[i]
  <2>1. Len(read \o buf) = k + Len(buf) /\ Len(buf) \in Nat /\ \A i \in 1 .. k : (read \o buf)[i] = read[i]
    BY Concat
  <2>2. \A i \in 2 .. Len(read \o buf) : (read \o buf)[i - 1] < (read \o buf)[i]
    BY Zenon DEF StreamExact, ReadOnce
  <2>3. ASSUME NEW i \in 2 .. k PROVE read[i - 1] < read[i]
    <3>1. i \in 1 .. k /\ i - 1 \in 1 .. k /\ i \in 2 .. Len(read \o buf)
      BY <1>1, <2>1
    <3> QED
      BY <2>1, <2>2, <3>1
  <2> QED
    BY <2>3
<1> HIDE DEF k, m, n, s
<1>4. ASSUME NEW i \in 2 .. k + m PROVE s[i - 1] < s[i]
  <2>1. CASE i <= k
    <3>1. i \in 2 .. k /\ i \in 1 .. k /\ i - 1 \in 1 .. k
      BY <1>1, <2>1
    <3> QED
      BY <1>2, <1>3, <3>1
  <2>2. CASE i = k + 1
    <3>1. i - 1 \in 1 .. k /\ i \in k + 1 .. k + m /\ i - k = 1 /\ 1 \in 1 .. m
      BY <1>1, <2>2
    <3>2. s[i - 1] <= n - m /\ s[i - 1] \in Nat /\ s[i] = n - m + 1
      BY <1>1, <1>2, <3>1
    <3> QED
      BY <1>1, <3>2
  <2>3. CASE i > k + 1
    <3>1. /\ i - 1 \in k + 1 .. k + m /\ i \in k + 1 .. k + m
          /\ i - k \in 1 .. m /\ (i - 1) - k \in 1 .. m
      BY <1>1, <2>3
    <3>2. s[i - 1] = n - m + ((i - 1) - k) /\ s[i] = n - m + (i - k)
      BY <1>1, <1>2, <3>1
    <3> QED
      BY <1>1, <3>2
  <2> QED
    BY <1>1, <2>1, <2>2, <2>3
<1> QED
  BY <1>2, <1>4, Zenon DEF ReadOnce, s
----------------------------------------------------------------------------
(* What the steps need of the constants and of the state.                  *)
LEMMA StreamFacts ==
    ASSUME StreamInv
    PROVE  /\ SeqMod \in Nat /\ MaxBytes \in Nat /\ MaxBytes + 2 < SeqMod
           /\ isn \in 0 .. SeqMod - 1 /\ remote_sent \in Nat /\ remote_sent <= MaxBytes
           /\ received \in Seq(Nat) /\ buf \in Seq(Nat) /\ read \in Seq(Nat)
           /\ Len(received) \in Nat /\ Len(received) <= remote_sent
           /\ Len(buf) \in Nat /\ Len(buf) <= Len(received) /\ Len(read) \in Nat
           /\ Len(wire) \in Nat /\ DOMAIN wire = 1 .. Len(wire)
           /\ next_recv_seq \in 0 .. SeqMod - 1 /\ seq_num \in 0 .. SeqMod - 1
           /\ dropped \in Nat /\ delivered \in Nat
BY StreamAssumption DEF StreamInv, StreamExact, StreamTypeOK, ReceivedInOrder, BufferSound

(* The invariant holds before the handshake.                               *)
LEMMA StreamStart == StreamInit => StreamInv
<1> SUFFICES ASSUME StreamInit PROVE StreamInv
  OBVIOUS
<1>1. /\ state \in {"Closed", "Listen"} /\ seq_num = 0 /\ next_recv_seq = 0 /\ buf = <<>>
      /\ pc = "idle" /\ in_order \in BOOLEAN /\ wire = <<>> /\ delivered = 0 /\ out = <<>>
      /\ isn \in 0 .. SeqMod - 1 /\ remote_sent = 0 /\ remote_fin = FALSE
      /\ received = <<>> /\ read = <<>> /\ dropped = 0
  BY StreamAssumption DEF StreamInit
<1>2. StreamTypeOK
  <2>1. <<>> \in Seq(Nat) /\ <<>> \in Seq(Segments) /\ Len(<<>>) = 0 /\ 0 \in 0 .. 0 /\ 0 \in Nat
    OBVIOUS
  <2>2. 0 \in 0 .. SeqMod - 1 /\ 0 \in 0 .. MaxBytes
    BY StreamAssumption
  <2> QED
    BY <1>1, <2>1, <2>2, Zenon DEF StreamTypeOK
<1>3. ReceivedInOrder
  <2>1. Bytes(1, 0) = <<>>
    BY BytesNone
  <2> QED
    BY <1>1, <2>1 DEF ReceivedInOrder
<1>4. ReadOnce /\ ReadIsReceived /\ BufferSound
  <2>1. read \o buf = <<>> /\ Len(<<>>) = 0 /\ DOMAIN <<>> = {}
    BY <1>1
  <2> QED
    BY <1>1, <2>1 DEF ReadOnce, ReadIsReceived, BufferSound
<1>5. SentContiguous /\ CloseWaitComplete /\ HandshakeSound
  BY <1>1 DEF SentContiguous, CloseWaitComplete, HandshakeSound, Opening
<1>6. WireSound /\ OrderKept
  BY <1>1 DEF WireSound, OrderKept
<1> QED
  BY <1>2, <1>3, <1>4, <1>5, <1>6 DEF StreamInv, StreamExact

----------------------------------------------------------------------------
(* A segment from the other side: the rest stays as it is.                 *)
LEMMA PieceStays ==
    ASSUME NEW p, NEW start, NEW n \in Nat, NEW m \in Nat, n <= m, IsPiece(p, start, n)
    PROVE  IsPiece(p, start, m)
<1>1. PICK from \in 1 .. n + 1 : \E to \in from - 1 .. n :
        p.seq = wrapping_add(start, from) /\ p.data = Bytes(from, to)
  BY DEF IsPiece
<1>2. PICK to \in from - 1 .. n : p.seq = wrapping_add(start, from) /\ p.data = Bytes(from, to)
  BY <1>1
<1>3. from \in 1 .. m + 1 /\ to \in from - 1 .. m
  OBVIOUS
<1> QED
  BY <1>2, <1>3 DEF IsPiece

(* What the other side has to keep to, in the way of RFC 793.              *)
Sendable(p) ==
    /\ p \in Segments
    /\ remote_sent' \in remote_sent .. MaxBytes /\ remote_fin' \in BOOLEAN
    /\ \/ IsPiece(p, isn, remote_sent') /\ wire # <<>>
       \/ wire = <<>> /\ p.seq = isn /\ p.data = <<>> /\ UNCHANGED <<remote_sent, remote_fin>>
    /\ state # "Closed" /\ (state = "Listen" => wire = <<>>)
    /\ in_order =>
        /\ ~remote_fin
        /\ wire # <<>> => p.seq = wrapping_add(isn, remote_sent + 1)
        /\ After(p) = wrapping_add(isn, remote_sent' + 1)
        /\ "FIN" \in p.flags => remote_fin'
        /\ state = "SynReceived" /\ Len(wire) = 1 => p.data = <<>>

(* A segment of this kind, put on the wire, keeps the invariant.           *)
LEMMA RemoteSends ==
    ASSUME StreamInv, NEW p, remote_send(p), Sendable(p)
    PROVE  StreamInv'
<1>1. /\ wire' = Append(wire, p) /\ p \in Segments
      /\ state' = state /\ seq_num' = seq_num /\ next_recv_seq' = next_recv_seq /\ buf' = buf
      /\ in_order' = in_order /\ delivered' = delivered /\ out' = out /\ isn' = isn
      /\ received' = received /\ pc' = pc /\ read' = read /\ dropped' = dropped
      /\ remote_sent' \in remote_sent .. MaxBytes /\ remote_fin' \in BOOLEAN
  BY DEF remote_send, Sendable, socket, reading
<1>2. /\ wire \in Seq(Segments) /\ wire' \in Seq(Segments) /\ Len(wire') = Len(wire) + 1
      /\ \A i \in 1 .. Len(wire) : wire'[i] = wire[i]
      /\ wire'[Len(wire) + 1] = p /\ Len(wire) \in Nat
      /\ DOMAIN wire' = 1 .. Len(wire) + 1 /\ DOMAIN wire = 1 .. Len(wire)
  BY <1>1 DEF StreamInv, StreamExact, StreamTypeOK
<1>3. remote_sent \in Nat /\ remote_sent' \in Nat /\ remote_sent <= remote_sent'
  BY <1>1, StreamFacts, StreamAssumption
<1>4. StreamTypeOK'
  <2>1. delivered' \in 0 .. Len(wire')
    BY <1>1, <1>2 DEF StreamInv, StreamExact, StreamTypeOK
  <2>2. remote_sent' \in 0 .. MaxBytes
    BY <1>1, <1>3, StreamAssumption
  <2> QED
    BY <1>1, <1>2, <2>1, <2>2 DEF StreamInv, StreamExact, StreamTypeOK
<1>5. ReceivedInOrder'
  BY <1>1, <1>3, StreamFacts DEF StreamInv, StreamExact, ReceivedInOrder
<1>6. (ReadOnce /\ ReadIsReceived /\ SentContiguous /\ BufferSound)'
  BY <1>1 DEF StreamInv, StreamExact, ReadOnce, ReadIsReceived, SentContiguous, BufferSound
<1>7. HandshakeSound'
  BY <1>1 DEF StreamInv, HandshakeSound, Sendable
<1>8. CloseWaitComplete'
  BY <1>1 DEF StreamInv, StreamExact, CloseWaitComplete, Sendable
<1>9. WireSound'
  <2>1. ASSUME NEW i \in 1 .. Len(wire)
        PROVE  IsPiece(wire'[i], isn, remote_sent')
                 \/ (i = 1 /\ wire'[i].seq = isn /\ wire'[i].data = <<>>)
    BY <1>2, <1>3, PieceStays DEF StreamInv, WireSound
  <2>2. IsPiece(p, isn, remote_sent')
          \/ (Len(wire) + 1 = 1 /\ p.seq = isn /\ p.data = <<>>)
    BY <1>2 DEF Sendable
  <2>3. ASSUME NEW i \in 1 .. Len(wire) + 1
        PROVE  IsPiece(wire'[i], isn, remote_sent')
                 \/ (i = 1 /\ wire'[i].seq = isn /\ wire'[i].data = <<>>)
    <3>1. CASE i = Len(wire) + 1
      BY <1>2, <2>2, <3>1
    <3>2. CASE i # Len(wire) + 1
      BY <1>2, <2>1, <3>2
    <3> QED
      BY <3>1, <3>2
  <2>4. wire' # <<>>
    BY <1>2
  <2> QED
    BY <1>1, <1>2, <2>3, <2>4 DEF WireSound
<1>10. ASSUME in_order PROVE OrderKept'
  <2>1. OrderKept
    BY <1>10 DEF StreamInv
  <2>2. /\ ~remote_fin
        /\ wire # <<>> => p.seq = wrapping_add(isn, remote_sent + 1)
        /\ After(p) = wrapping_add(isn, remote_sent' + 1)
        /\ "FIN" \in p.flags => remote_fin'
        /\ state = "SynReceived" /\ Len(wire) = 1 => p.data = <<>>
    BY <1>10 DEF Sendable
  <2>3. ASSUME NEW i \in 1 .. Len(wire) PROVE wire'[i + 1].seq = After(wire'[i])
    <3>1. CASE i = Len(wire)
      BY <1>2, <2>1, <2>2, <3>1 DEF OrderKept
    <3>2. CASE i # Len(wire)
      <4>1. Len(wire) \in Nat
        BY <1>2
      <4>2. i \in 1 .. Len(wire) - 1 /\ i + 1 \in 1 .. Len(wire)
        BY <3>2, <4>1
      <4> QED
        BY <1>2, <2>1, <4>2 DEF OrderKept
    <3> QED
      BY <3>1, <3>2
  <2>4. After(wire'[Len(wire')]) = wrapping_add(isn, remote_sent' + 1)
    BY <1>2, <2>2
  <2>5. ASSUME NEW i \in 1 .. Len(wire) + 1, "FIN" \in wire'[i].flags
        PROVE  i = Len(wire') /\ remote_fin'
    <3>1. CASE i = Len(wire) + 1
      BY <1>2, <2>2, <2>5, <3>1
    <3>2. CASE i # Len(wire) + 1
      BY <1>2, <2>1, <2>2, <2>5, <3>2 DEF OrderKept
    <3> QED
      BY <3>1, <3>2
  <2>6. state = "Listen" => Len(wire') <= 1 /\ remote_sent' = 0 /\ ~remote_fin'
    BY <1>1, <1>2, <2>1 DEF Sendable, OrderKept
  <2>7. state = "SynReceived" =>
          /\ delivered = 1 /\ Len(wire') # 1
          /\ Len(wire') > 1 => wire'[2].data = <<>>
    <3> SUFFICES ASSUME state = "SynReceived"
                 PROVE  delivered = 1 /\ Len(wire') # 1 /\ wire'[2].data = <<>>
      OBVIOUS
    <3>1. delivered = 1 /\ Len(wire) >= 1
      BY <1>2, <2>1 DEF OrderKept, StreamInv, StreamExact, StreamTypeOK
    <3>2. CASE Len(wire) = 1
      BY <1>2, <2>2, <3>1, <3>2
    <3>3. CASE Len(wire) > 1
      <4>1. 2 \in 1 .. Len(wire)
        BY <1>2, <3>3
      <4> QED
        BY <1>2, <2>1, <3>1, <3>3, <4>1 DEF OrderKept
    <3> QED
      BY <1>2, <3>1, <3>2, <3>3
  <2>8. state \in {"SynReceived", "Established"} =>
          delivered >= 1 /\ next_recv_seq = After(wire'[delivered])
    <3>1. delivered \in 0 .. Len(wire)
      BY DEF StreamInv, StreamExact, StreamTypeOK
    <3> QED
      BY <1>2, <2>1, <3>1 DEF OrderKept
  <2>9. \A i \in 1 .. Len(wire') - 1 : wire'[i + 1].seq = After(wire'[i])
    BY <1>2, <2>3
  <2>10. \A i \in DOMAIN wire' : "FIN" \in wire'[i].flags => i = Len(wire') /\ remote_fin'
    BY <1>2, <2>5
  <2>11. state \in {"Closed", "Listen", "SynSent"} => delivered = 0
    BY <2>1 DEF OrderKept
  <2> QED
    BY <1>1, <2>4, <2>6, <2>7, <2>8, <2>9, <2>10, <2>11, Zenon DEF OrderKept
<1> QED
  BY <1>1, <1>4, <1>5, <1>6, <1>7, <1>8, <1>9, <1>10 DEF StreamInv, StreamExact

(* A piece of data ends where the next byte begins.                        *)
LEMMA PieceAfter ==
    ASSUME NEW a \in 0 .. SeqMod - 1, NEW from \in Nat \ {0}, NEW to \in Nat, from <= to + 1,
           to <= MaxBytes, NEW flags, "SYN" \notin flags
    PROVE  /\ After(Packet(wrapping_add(a, from), flags, Bytes(from, to)))
                = wrapping_add(a, to + 1)
           /\ flags \in SUBSET {"SYN", "ACK", "FIN"} =>
                Packet(wrapping_add(a, from), flags, Bytes(from, to)) \in Segments
<1>1. /\ Bytes(from, to) \in Seq(Nat) /\ Len(Bytes(from, to)) = to - from + 1
      /\ SeqMod \in Nat /\ a \in Nat /\ MaxBytes \in Nat /\ MaxBytes + 2 < SeqMod
  BY BytesSeq, StreamAssumption
<1>2. to - from + 1 \in Nat /\ from + (to - from + 1) = to + 1 /\ to + 1 < SeqMod
      /\ (to - from + 1) + 0 = to - from + 1
  BY <1>1
<1>3. wrapping_add(wrapping_add(a, from), to - from + 1) = wrapping_add(a, to + 1)
  BY <1>2, WrapAdd
<1>4. wrapping_add(a, from) \in 0 .. SeqMod - 1
  BY Zenon, <1>1, WrapRange
<1> QED
  BY Zenon, <1>1, <1>2, <1>3, <1>4 DEF After, Packet, Segments

(* The SYN, the SYN-ACK and the ACK of the other side are of this kind.    *)
LEMMA RemoteHandshake ==
    ASSUME StreamInv, remote_handshake
    PROVE  StreamInv'
<1>1. remote_sent' = remote_sent /\ remote_fin' = remote_fin
  BY DEF remote_handshake
<1>2. CASE wire = <<>> /\ state \in {"Listen", "SynSent"}
           /\ remote_send(Packet(isn, IF state = "Listen" THEN {"SYN"} ELSE {"SYN", "ACK"}, <<>>))
  <2>1. PICK p : p = Packet(isn, IF state = "Listen" THEN {"SYN"} ELSE {"SYN", "ACK"}, <<>>)
    OBVIOUS
  <2>2. /\ p.seq = isn /\ p.data = <<>> /\ "SYN" \in p.flags /\ "FIN" \notin p.flags
        /\ p \in Segments
    BY <2>1, StreamFacts DEF Packet, Segments
  <2>3. After(p) = wrapping_add(isn, 0 + 1)
    BY <2>2 DEF After
  <2>4. remote_sent = 0 /\ ~remote_fin
    BY <1>2 DEF StreamInv, WireSound
  <2>5. remote_sent' \in remote_sent .. MaxBytes /\ remote_fin' \in BOOLEAN
    BY <1>1, StreamFacts DEF StreamInv, StreamExact, StreamTypeOK
  <2>6. Sendable(p)
    BY <1>1, <1>2, <2>2, <2>3, <2>4, <2>5 DEF Sendable
  <2> QED
    BY <1>2, <2>1, <2>6, RemoteSends
<1>3. CASE Len(wire) = 1 /\ state = "SynReceived"
           /\ remote_send(Packet(wrapping_add(isn, 1), {"ACK"}, <<>>))
  <2>1. PICK p : p = Packet(wrapping_add(isn, 1), {"ACK"}, <<>>)
    OBVIOUS
  <2>2. Bytes(1, 0) = <<>>
    BY BytesNone
  <2>3. /\ p.seq = wrapping_add(isn, 1) /\ p.data = <<>> /\ p.flags = {"ACK"}
        /\ After(p) = wrapping_add(isn, 0 + 1) /\ p \in Segments
    <3>1. 1 \in Nat \ {0} /\ 0 \in Nat /\ 1 <= 0 + 1 /\ 0 <= MaxBytes
      BY StreamAssumption
    <3>2. isn \in 0 .. SeqMod - 1 /\ "SYN" \notin {"ACK"} /\ {"ACK"} \in SUBSET {"SYN", "ACK", "FIN"}
      BY StreamFacts
    <3>3. p = Packet(wrapping_add(isn, 1), {"ACK"}, Bytes(1, 0))
      BY <2>1, <2>2
    <3>4. After(p) = wrapping_add(isn, 0 + 1) /\ p \in Segments
      BY <3>1, <3>2, <3>3, PieceAfter
    <3> QED
      BY <2>1, <3>4 DEF Packet
  <2>4. in_order => remote_sent = 0 /\ ~remote_fin
    BY <1>3 DEF StreamInv, OrderKept
  <2>5. IsPiece(p, isn, remote_sent)
    <3>1. 1 \in 1 .. remote_sent + 1 /\ 0 \in 1 - 1 .. remote_sent
      BY StreamFacts
    <3> QED
      BY <2>2, <2>3, <3>1 DEF IsPiece
  <2>6. remote_sent' \in remote_sent .. MaxBytes /\ remote_fin' \in BOOLEAN /\ wire # <<>>
    <3>1. remote_sent \in 0 .. MaxBytes /\ remote_fin \in BOOLEAN
      BY DEF StreamInv, StreamExact, StreamTypeOK
    <3>2. remote_sent \in remote_sent .. MaxBytes
      BY <3>1, StreamAssumption
    <3> QED
      BY <1>1, <1>3, <3>1, <3>2
  <2>7. Sendable(p)
    BY <1>1, <1>3, <2>3, <2>4, <2>5, <2>6 DEF Sendable
  <2> QED
    BY <1>3, <2>1, <2>7, RemoteSends
<1> QED
  BY <1>2, <1>3 DEF remote_handshake

(* Data, with or without a FIN, from a byte that was sent or is next.      *)
LEMMA RemotePiece ==
    ASSUME StreamInv, HandshakeOver, ~remote_fin,
           NEW from \in 1 .. remote_sent + 1, NEW to \in remote_sent .. MaxBytes,
           in_order => from = remote_sent + 1,
           NEW flags \in SUBSET {"ACK", "FIN"},
           remote_send(Packet(wrapping_add(isn, from), flags, Bytes(from, to))),
           remote_sent' = to, remote_fin' \in BOOLEAN, "FIN" \in flags => remote_fin'
    PROVE  StreamInv'
<1>1. PICK p : p = Packet(wrapping_add(isn, from), flags, Bytes(from, to))
  OBVIOUS
<1>2. /\ from \in Nat \ {0} /\ to \in Nat /\ from <= to + 1 /\ to <= MaxBytes
      /\ from \in 1 .. to + 1 /\ to \in from - 1 .. to
      /\ isn \in 0 .. SeqMod - 1 /\ "SYN" \notin flags /\ flags \in SUBSET {"SYN", "ACK", "FIN"}
  <2>1. remote_sent \in Nat /\ MaxBytes \in Nat /\ isn \in 0 .. SeqMod - 1
    BY StreamFacts
  <2>2. "SYN" \notin flags /\ flags \in SUBSET {"SYN", "ACK", "FIN"}
    OBVIOUS
  <2>3. ASSUME NEW n \in Nat, NEW f \in 1 .. n + 1, NEW t \in n .. MaxBytes
        PROVE  /\ f \in Nat \ {0} /\ t \in Nat /\ f <= t + 1 /\ t <= MaxBytes
               /\ f \in 1 .. t + 1 /\ t \in f - 1 .. t
    BY <2>1
  <2> QED
    BY <2>1, <2>2, <2>3, Zenon
<1>3. /\ p.seq = wrapping_add(isn, from) /\ p.flags = flags /\ p.data = Bytes(from, to)
      /\ After(p) = wrapping_add(isn, to + 1) /\ p \in Segments
  <2>1. After(p) = wrapping_add(isn, to + 1) /\ p \in Segments
    BY <1>1, <1>2, PieceAfter, Zenon
  <2> QED
    BY <1>1, <2>1 DEF Packet
<1>4. IsPiece(p, isn, to)
  BY <1>2, <1>3 DEF IsPiece
<1>5. wire # <<>> /\ state # "Listen" /\ (in_order /\ state = "SynReceived" => Len(wire) > 1)
  BY DEF HandshakeOver
<1>6. state # "Closed"
  BY <1>5 DEF StreamInv, HandshakeSound
<1>7. in_order /\ state = "SynReceived" => Len(wire) # 1
  <2>1. Len(wire) \in Nat
    BY StreamFacts
  <2>2. \A l \in Nat : l > 1 => l # 1
    OBVIOUS
  <2> QED
    BY <1>5, <2>1, <2>2, Zenon
<1>8. Sendable(p)
  BY <1>3, <1>4, <1>5, <1>6, <1>7 DEF Sendable
<1> QED
  BY <1>1, <1>8, RemoteSends

(* So are its data, whatever it repeats, and its FIN.                      *)
LEMMA RemoteSide ==
    ASSUME StreamInv, remote_data \/ remote_close
    PROVE  StreamInv'
<1>1. CASE remote_data
  <2>1. PICK from \in 1 .. remote_sent + 1, to \in remote_sent + 1 .. MaxBytes :
          /\ in_order => from = remote_sent + 1
          /\ remote_send(Packet(wrapping_add(isn, from), {"ACK"}, Bytes(from, to)))
          /\ remote_sent' = to
    BY <1>1 DEF remote_data
  <2>2. HandshakeOver /\ ~remote_fin /\ remote_fin' = remote_fin
    BY <1>1 DEF remote_data
  <2>3. to \in remote_sent .. MaxBytes /\ {"ACK"} \in SUBSET {"ACK", "FIN"} /\ "FIN" \notin {"ACK"}
    BY StreamFacts
  <2>4. remote_fin' \in BOOLEAN
    BY <2>2 DEF StreamInv, StreamExact, StreamTypeOK
  <2> QED
    BY <2>1, <2>2, <2>3, <2>4, RemotePiece
<1>2. CASE remote_close
  <2>1. PICK to \in remote_sent .. MaxBytes :
          /\ remote_send(Packet(wrapping_add(isn, remote_sent + 1), {"FIN", "ACK"},
                                Bytes(remote_sent + 1, to)))
          /\ remote_sent' = to
    BY <1>2 DEF remote_close
  <2>2. HandshakeOver /\ ~remote_fin /\ remote_fin' = TRUE
    BY <1>2 DEF remote_close
  <2>3. remote_sent + 1 \in 1 .. remote_sent + 1 /\ {"FIN", "ACK"} \in SUBSET {"ACK", "FIN"}
    BY StreamFacts
  <2>4. remote_fin' \in BOOLEAN /\ ("FIN" \in {"FIN", "ACK"} => remote_fin')
        /\ (in_order => remote_sent + 1 = remote_sent + 1)
    BY <2>2, Zenon
  <2> QED
    BY <2>1, <2>2, <2>3, <2>4, RemotePiece, Zenon
<1> QED
  BY <1>1, <1>2

----------------------------------------------------------------------------
(* Steps of the handshake.                                                 *)
LEMMA Connect ==
    ASSUME StreamInv, connect
    PROVE  StreamInv'
<1>1. /\ state = "Closed" /\ state' = "SynSent" /\ seq_num' = 0 /\ buf' = <<>>
      /\ next_recv_seq' = next_recv_seq /\ in_order' = in_order /\ wire' = wire
      /\ delivered' = delivered /\ out' = out /\ isn' = isn /\ remote_sent' = remote_sent
      /\ remote_fin' = remote_fin /\ received' = received
      /\ pc' = pc /\ read' = read /\ dropped' = dropped
  BY DEF connect, network, remote, reading
<1>2. buf' = buf /\ seq_num' = seq_num
  BY <1>1 DEF StreamInv, HandshakeSound, Opening
<1>3. StreamTypeOK' /\ ReceivedInOrder'
  BY <1>1, <1>2 DEF StreamInv, StreamExact, StreamTypeOK, ReceivedInOrder
<1>4. (ReadOnce /\ ReadIsReceived /\ SentContiguous /\ BufferSound)'
  BY <1>1, <1>2, Zenon DEF StreamInv, StreamExact, ReadOnce, ReadIsReceived, SentContiguous, BufferSound
<1>5. (CloseWaitComplete /\ HandshakeSound /\ WireSound)'
  BY <1>1, <1>2 DEF StreamInv, CloseWaitComplete, HandshakeSound, Opening, WireSound
<1>6. in_order => OrderKept'
  BY <1>1 DEF StreamInv, OrderKept
<1> QED
  BY <1>1, <1>3, <1>4, <1>5, <1>6 DEF StreamInv, StreamExact

(* What every delivered segment leaves alone.                              *)
Delivers(i) ==
    /\ in_order => i = delivered + 1
    /\ delivered' = IF in_order THEN i ELSE delivered
    /\ UNCHANGED <<in_order, wire, out, remote, reading>>

(* A network that keeps order delivers a segment of the wire.              *)
LEMMA DeliveredStays ==
    ASSUME StreamInv, NEW i \in DOMAIN wire, delivered' = IF in_order THEN i ELSE delivered
    PROVE  delivered' \in 0 .. Len(wire)
<1>1. delivered \in 0 .. Len(wire) /\ wire \in Seq(Segments)
  BY DEF StreamInv, StreamExact, StreamTypeOK
<1>2. Len(wire) \in Nat /\ i \in 1 .. Len(wire)
  BY <1>1
<1>3. i \in 0 .. Len(wire)
  BY <1>2
<1> QED
  BY <1>1, <1>3

(* A delivered segment that changes neither the buffer nor what was        *)
(* received.                                                               *)
LEMMA Quiet ==
    ASSUME StreamInv, NEW i \in DOMAIN wire, Delivers(i), UNCHANGED <<buf, received>>,
           state' \in {"SynReceived", "Established", "CloseWait", "Removed"},
           next_recv_seq' \in 0 .. SeqMod - 1, seq_num' \in 0 .. SeqMod - 1,
           state' = "Established" => next_recv_seq' = wrapping_add(isn, Len(received) + 1),
           HandshakeSound', in_order => CloseWaitComplete' /\ OrderKept'
    PROVE  StreamInv'
<1>1. /\ buf' = buf /\ received' = received /\ in_order' = in_order /\ wire' = wire /\ out' = out
      /\ isn' = isn /\ remote_sent' = remote_sent /\ remote_fin' = remote_fin
      /\ pc' = pc /\ read' = read /\ dropped' = dropped
      /\ delivered' = IF in_order THEN i ELSE delivered
  BY DEF Delivers, remote, reading
<1>2. delivered' \in 0 .. Len(wire)
  BY <1>1, DeliveredStays
<1>3. StreamTypeOK' /\ ReceivedInOrder'
  BY <1>1, <1>2 DEF StreamInv, StreamExact, StreamTypeOK, ReceivedInOrder
<1>4. (ReadOnce /\ ReadIsReceived /\ SentContiguous /\ BufferSound)'
  BY Zenon, <1>1 DEF StreamInv, StreamExact, ReadOnce, ReadIsReceived, SentContiguous, BufferSound
<1>5. CloseWaitComplete' /\ WireSound'
  BY <1>1 DEF StreamInv, CloseWaitComplete, WireSound
<1> QED
  BY <1>1, <1>3, <1>4, <1>5 DEF StreamInv, StreamExact

(* The one segment with a SYN.                                             *)
LEMMA SynFirst ==
    ASSUME StreamInv, NEW i \in DOMAIN wire, "SYN" \in wire[i].flags
    PROVE  /\ i = 1 /\ wire[i].seq = isn /\ wire[i].data = <<>>
           /\ After(wire[i]) = wrapping_add(isn, 1)
<1>1. i = 1 /\ wire[i].seq = isn /\ wire[i].data = <<>>
  BY DEF StreamInv, WireSound, IsPiece
<1>2. Len(wire[i].data) + 1 = 1
  BY <1>1
<1> QED
  BY <1>1, <1>2 DEF After

(* A listener takes the SYN and expects the first byte.                    *)
LEMMA ReceiveSyn ==
    ASSUME StreamInv, NEW i \in DOMAIN wire, Delivers(i), receive_syn(wire[i])
    PROVE  StreamInv'
<1>1. /\ state = "Listen" /\ "SYN" \in wire[i].flags /\ state' = "SynReceived"
      /\ next_recv_seq' = wrapping_add(wire[i].seq, 1) /\ seq_num' = wrapping_add(seq_num, 1)
      /\ buf' = buf /\ received' = received
  BY DEF receive_syn
<1>2. /\ in_order' = in_order /\ wire' = wire /\ out' = out /\ isn' = isn
      /\ remote_sent' = remote_sent /\ remote_fin' = remote_fin /\ read' = read
  BY DEF Delivers, remote, reading
<1>3. next_recv_seq' = wrapping_add(isn, 1) /\ i = 1 /\ After(wire[1]) = wrapping_add(isn, 1)
  BY <1>1, SynFirst
<1>4. seq_num = 0 /\ received = <<>> /\ buf = <<>> /\ read = <<>> /\ out = <<>>
  BY <1>1 DEF StreamInv, HandshakeSound, Opening
<1>5. next_recv_seq' \in 0 .. SeqMod - 1 /\ seq_num' \in 0 .. SeqMod - 1
  <2>1. isn \in Nat /\ 1 \in Nat /\ 0 \in Nat
    BY StreamFacts
  <2> QED
    BY <1>1, <1>3, <1>4, <2>1, WrapRange
<1>6. HandshakeSound'
  BY <1>1, <1>2, <1>3, <1>4 DEF HandshakeSound, Opening
<1>7. ASSUME in_order PROVE CloseWaitComplete' /\ OrderKept'
  <2>1. OrderKept /\ delivered' = 1
    BY <1>3, <1>7 DEF StreamInv, Delivers
  <2>2. Len(wire) = 1 /\ remote_sent = 0 /\ ~remote_fin
    BY <1>1, <1>3, <2>1, StreamFacts DEF OrderKept
  <2>3. CloseWaitComplete'
    BY <1>1 DEF CloseWaitComplete
  <2> QED
    BY <1>1, <1>2, <1>3, <2>1, <2>2, <2>3 DEF OrderKept
<1> QED
  BY <1>1, <1>5, <1>6, <1>7, Quiet

(* connect gets its SYN-ACK and expects the first byte.                    *)
LEMMA ReceiveSynAck ==
    ASSUME StreamInv, NEW i \in DOMAIN wire, Delivers(i), receive_syn_ack(wire[i])
    PROVE  StreamInv'
<1>1. /\ state = "SynSent" /\ "SYN" \in wire[i].flags /\ state' = "Established"
      /\ next_recv_seq' = wrapping_add(wire[i].seq, 1) /\ seq_num' = wrapping_add(seq_num, 1)
      /\ buf' = buf /\ received' = received
  BY DEF receive_syn_ack
<1>2. /\ in_order' = in_order /\ wire' = wire /\ out' = out /\ isn' = isn
      /\ remote_sent' = remote_sent /\ remote_fin' = remote_fin /\ read' = read
  BY DEF Delivers, remote, reading
<1>3. next_recv_seq' = wrapping_add(isn, 1) /\ i = 1 /\ After(wire[1]) = wrapping_add(isn, 1)
  BY <1>1, SynFirst
<1>4. seq_num = 0 /\ received = <<>> /\ buf = <<>> /\ read = <<>> /\ out = <<>>
  BY <1>1 DEF StreamInv, HandshakeSound, Opening
<1>5. next_recv_seq' \in 0 .. SeqMod - 1 /\ seq_num' \in 0 .. SeqMod - 1
  <2>1. isn \in Nat /\ 1 \in Nat /\ 0 \in Nat
    BY StreamFacts
  <2> QED
    BY <1>1, <1>3, <1>4, <2>1, WrapRange
<1>6. HandshakeSound'
  BY <1>1, <1>2, <1>3, <1>4 DEF HandshakeSound, Opening
<1>7. ASSUME in_order PROVE CloseWaitComplete' /\ OrderKept'
  <2>1. OrderKept /\ delivered' = 1
    BY <1>3, <1>7 DEF StreamInv, Delivers
  <2>2. CloseWaitComplete'
    BY <1>1 DEF CloseWaitComplete
  <2> QED
    BY <1>1, <1>2, <1>3, <2>1, <2>2 DEF OrderKept
<1>8. next_recv_seq' = wrapping_add(isn, Len(received) + 1)
  <2>1. Len(received) + 1 = 1
    BY <1>4
  <2> QED
    BY <1>3, <2>1
<1> QED
  BY <1>1, <1>5, <1>6, <1>7, <1>8, Quiet

(* The ACK ends a passive handshake; with order kept it carries no data.   *)
LEMMA ReceiveAck ==
    ASSUME StreamInv, NEW i \in DOMAIN wire, Delivers(i), receive_ack(wire[i])
    PROVE  StreamInv'
<1>1. /\ state = "SynReceived" /\ state' = "Established"
      /\ next_recv_seq' = next_recv_seq /\ seq_num' = seq_num
      /\ buf' = buf /\ received' = received
  BY DEF receive_ack
<1>2. /\ in_order' = in_order /\ wire' = wire /\ out' = out /\ isn' = isn
      /\ remote_sent' = remote_sent /\ remote_fin' = remote_fin /\ read' = read
  BY DEF Delivers, remote, reading
<1>3. next_recv_seq = wrapping_add(isn, 1) /\ received = <<>>
  BY <1>1 DEF StreamInv, HandshakeSound, Opening
<1>4. next_recv_seq' = wrapping_add(isn, Len(received) + 1)
  <2>1. Len(received) + 1 = 1
    BY <1>3
  <2> QED
    BY <1>1, <1>3, <2>1
<1>5. HandshakeSound'
  BY <1>1, <1>2 DEF StreamInv, HandshakeSound, Opening
<1>6. ASSUME in_order PROVE CloseWaitComplete' /\ OrderKept'
  <2>1. OrderKept /\ delivered' = i /\ i = 2 /\ delivered = 1
    BY <1>1, <1>6 DEF StreamInv, Delivers, OrderKept
  <2>2. 1 \in 1 .. Len(wire) - 1 /\ Len(wire) > 1
    BY <2>1, StreamFacts
  <2>3. wire[2].seq = next_recv_seq /\ wire[2].data = <<>>
    <3>1. next_recv_seq = After(wire[1])
      BY <1>1, <2>1 DEF OrderKept
    <3>2. wire[1 + 1].seq = After(wire[1])
      BY <2>1, <2>2 DEF OrderKept
    <3> QED
      BY <1>1, <2>1, <2>2, <3>1, <3>2 DEF OrderKept
  <2>4. "SYN" \notin wire[2].flags
    BY <2>1, SynFirst
  <2>5. After(wire[2]) = next_recv_seq
    <3>1. Len(wire[2].data) + 0 = 0
      BY <2>3
    <3>2. After(wire[2]) = wrapping_add(next_recv_seq, 0)
      BY <2>3, <2>4, <3>1 DEF After
    <3> QED
      BY <3>2, StreamFacts, WrapZero
  <2>6. CloseWaitComplete'
    BY <1>1 DEF CloseWaitComplete
  <2> QED
    BY <1>1, <1>2, <2>1, <2>5, <2>6 DEF OrderKept
<1> QED
  BY <1>1, <1>4, <1>5, <1>6, StreamFacts, Quiet

----------------------------------------------------------------------------
(* Data for an established connection: it is accepted if it follows what   *)
(* was received, and nothing of it otherwise.                              *)
LEMMA Accepted ==
    ASSUME StreamInv, state = "Established", NEW i \in DOMAIN wire
    PROVE  \E to \in Len(received) .. remote_sent :
             accepted(wire[i]) = Bytes(Len(received) + 1, to)
<1> DEFINE n == Len(received)
<1>1. n \in Nat /\ n \in n .. remote_sent /\ Bytes(n + 1, n) = <<>>
  BY StreamFacts, BytesNone
<1>2. next_recv_seq = wrapping_add(isn, n + 1)
  BY DEF StreamInv, StreamExact, ReceivedInOrder
<1>3. CASE wire[i].seq # next_recv_seq
  BY <1>1, <1>3 DEF accepted
<1>4. CASE wire[i].seq = next_recv_seq /\ ~IsPiece(wire[i], isn, remote_sent)
  <2>1. wire[i].data = <<>>
    BY <1>4 DEF StreamInv, WireSound
  <2> QED
    BY <1>1, <1>4, <2>1 DEF accepted
<1>5. CASE wire[i].seq = next_recv_seq /\ IsPiece(wire[i], isn, remote_sent)
  <2>1. PICK from \in 1 .. remote_sent + 1 : \E to \in from - 1 .. remote_sent :
          wire[i].seq = wrapping_add(isn, from) /\ wire[i].data = Bytes(from, to)
    BY Zenon, <1>5 DEF IsPiece
  <2>2. PICK to \in from - 1 .. remote_sent :
          wire[i].seq = wrapping_add(isn, from) /\ wire[i].data = Bytes(from, to)
    BY <2>1
  <2>3. from \in 0 .. SeqMod - 1 /\ n + 1 \in 0 .. SeqMod - 1
    <3>1. /\ SeqMod \in Nat /\ MaxBytes \in Nat /\ MaxBytes + 2 < SeqMod
          /\ remote_sent \in Nat /\ remote_sent <= MaxBytes /\ n \in Nat /\ n <= remote_sent
      BY StreamFacts
    <3> QED
      BY <3>1
  <2>4. from = n + 1
    BY Zenon, <1>2, <1>5, <2>2, <2>3, StreamFacts, WrapInjective
  <2>5. to \in n .. remote_sent
    BY <1>1, <2>4, StreamFacts
  <2> QED
    BY <1>5, <2>2, <2>4, <2>5 DEF accepted
<1> QED
  BY <1>3, <1>4, <1>5

(* The bytes that follow go to the end of the buffer.                      *)
LEMMA BufferGrows ==
    ASSUME StreamInv, NEW to \in Len(received) .. remote_sent,
           NEW data, data = Bytes(Len(received) + 1, to),
           received' = received \o data, buf' = buf \o data,
           read' = read, dropped' = dropped
    PROVE  /\ received' \in Seq(Nat) /\ buf' \in Seq(Nat) /\ Len(received') = to
           /\ received' = Bytes(1, to) /\ Len(data) = to - Len(received)
           /\ BufferSound' /\ ReadOnce' /\ ReadIsReceived'
<1> DEFINE n == Len(received)
           m == Len(buf)
           k == Len(read)
<1>1. /\ n \in Nat /\ m \in Nat /\ k \in Nat /\ m <= n /\ to \in Nat /\ n <= to
      /\ received \in Seq(Nat) /\ buf \in Seq(Nat) /\ read \in Seq(Nat)
  BY StreamFacts
<1> HIDE DEF n, m, k
<1>2. data \in Seq(Nat) /\ Len(data) = to - n /\ \A i \in 1 .. to - n : data[i] = n + i
  <2>1. /\ n + 1 \in Nat \ {0} /\ n + 1 <= to + 1 /\ to - (n + 1) + 1 = to - n
        /\ \A i \in 1 .. to - n : n + 1 + i - 1 = n + i
    BY <1>1
  <2>2. data = Bytes(n + 1, to)
    BY DEF n
  <2> QED
    <3>1. /\ Bytes(n + 1, to) \in Seq(Nat) /\ Len(Bytes(n + 1, to)) = to - (n + 1) + 1
          /\ \A i \in 1 .. to - (n + 1) + 1 : Bytes(n + 1, to)[i] = n + 1 + i - 1
      BY <1>1, <2>1, BytesSeq, Zenon
    <3> QED
      BY <2>1, <2>2, <3>1, Zenon
<1>3. received' = Bytes(1, to)
  BY <1>1, BytesJoin, Zenon DEF StreamInv, StreamExact, ReceivedInOrder, n
<1>4. /\ received' \in Seq(Nat) /\ Len(received') = to
      /\ buf' \in Seq(Nat) /\ Len(buf') = m + (to - n)
      /\ \A i \in 1 .. m : buf'[i] = buf[i]
      /\ \A i \in m + 1 .. m + (to - n) : buf'[i] = data[i - m]
      /\ DOMAIN buf = 1 .. m /\ DOMAIN buf' = 1 .. m + (to - n) /\ DOMAIN read = 1 .. k
  <2>1. received' \in Seq(Nat) /\ Len(received') = n + (to - n)
    BY <1>1, <1>2, Concat DEF n
  <2>2. /\ buf' \in Seq(Nat) /\ Len(buf') = m + Len(data)
        /\ \A i \in 1 .. m : buf'[i] = buf[i]
        /\ \A i \in m + 1 .. m + Len(data) : buf'[i] = data[i - m]
    <3>1. buf \in Seq(Nat) /\ data \in Seq(Nat)
      BY <1>1, <1>2
    <3> QED
      BY <3>1, Concat, Zenon DEF m
  <2>3. n + (to - n) = to
    BY <1>1
  <2>4. DOMAIN buf = 1 .. m /\ DOMAIN read = 1 .. k /\ DOMAIN buf' = 1 .. Len(buf')
    BY <1>1, <2>2 DEF m, k
  <2> QED
    BY <1>2, <2>1, <2>2, <2>3, <2>4, Zenon
<1>5. (\A i \in DOMAIN buf : buf[i] = n - m + i) /\ (\A i \in DOMAIN read : read[i] <= n - m)
  BY DEF StreamInv, BufferSound, n, m
<1>6. \A i \in 1 .. m + (to - n) : buf'[i] = to - (m + (to - n)) + i
  <2>1. ASSUME NEW i \in 1 .. m + (to - n) PROVE buf'[i] = to - (m + (to - n)) + i
    <3>1. CASE i <= m
      <4>1. i \in 1 .. m /\ to - (m + (to - n)) + i = n - m + i
        BY <1>1, <3>1
      <4> QED
        BY <1>4, <1>5, <4>1, Zenon
    <3>2. CASE i > m
      <4>1. /\ i \in m + 1 .. m + (to - n) /\ i - m \in 1 .. to - n
            /\ n + (i - m) = to - (m + (to - n)) + i
        BY <1>1, <3>2
      <4> QED
        BY <1>2, <1>4, <4>1, Zenon
    <3>3. i <= m \/ i > m
      BY <1>1
    <3> QED
      BY <3>1, <3>2, <3>3, Zenon
  <2> QED
    BY Zenon, <2>1
<1>7. BufferSound'
  <2>1. Len(buf') <= Len(received') /\ to - (m + (to - n)) = n - m
    BY <1>1, <1>4
  <2>2. \A i \in DOMAIN read' : read'[i] <= Len(received') - Len(buf')
    BY <1>4, <1>5, <2>1
  <2> QED
    BY Zenon, <1>4, <1>6, <2>1, <2>2 DEF BufferSound
<1>8. ReadIsReceived'
  <2>1. read \o (buf \o data) = (read \o buf) \o data
    <3>1. read \in Seq(Nat) /\ buf \in Seq(Nat) /\ data \in Seq(Nat)
      BY <1>1, <1>2
    <3> QED
      BY <3>1, ConcatBytes, Zenon
  <2>2. dropped = 0 => read \o buf = received
    BY DEF StreamInv, StreamExact, ReadIsReceived
  <2>3. dropped = 0 => read \o buf' = received'
    BY <2>1, <2>2, Zenon
  <2> QED
    BY <2>3, Zenon DEF ReadIsReceived
<1>9. ReadOnce'
  BY <1>1, <1>4, <1>7, ReadsIncrease DEF StreamInv
<1> QED
  BY <1>2, <1>3, <1>4, <1>7, <1>8, <1>9, Zenon DEF n

(* receive_data and the FIN: the next number expected moves by what was    *)
(* accepted.                                                               *)
LEMMA ReceiveEstablished ==
    ASSUME StreamInv, NEW i \in DOMAIN wire, Delivers(i), receive_established(wire[i])
    PROVE  StreamInv'
<1> DEFINE p == wire[i]
           n == Len(received)
           fin == IF "FIN" \in p.flags THEN 1 ELSE 0
<1>1. /\ state = "Established" /\ state' = IF "FIN" \in p.flags THEN "CloseWait" ELSE state
      /\ buf' = buf \o accepted(p) /\ received' = received \o accepted(p)
      /\ next_recv_seq' = wrapping_add(next_recv_seq, Len(accepted(p)) + fin)
      /\ seq_num' = seq_num
  BY DEF receive_established
<1>2. /\ in_order' = in_order /\ wire' = wire /\ out' = out /\ isn' = isn
      /\ remote_sent' = remote_sent /\ remote_fin' = remote_fin
      /\ pc' = pc /\ read' = read /\ dropped' = dropped
      /\ delivered' = IF in_order THEN i ELSE delivered
  BY DEF Delivers, remote, reading
<1>3. PICK to \in n .. remote_sent : accepted(p) = Bytes(n + 1, to)
  <2>1. state = "Established"
    BY <1>1
  <2> QED
    BY <2>1, Accepted
<1>4. /\ received' \in Seq(Nat) /\ buf' \in Seq(Nat) /\ Len(received') = to
      /\ received' = Bytes(1, to) /\ Len(accepted(p)) = to - n
      /\ BufferSound' /\ ReadOnce' /\ ReadIsReceived'
  BY <1>1, <1>2, <1>3, BufferGrows, Zenon
<1>5. /\ n \in Nat /\ to \in Nat /\ n <= to /\ to <= remote_sent /\ to + 2 < SeqMod
      /\ isn \in 0 .. SeqMod - 1 /\ next_recv_seq \in Nat /\ fin \in 0 .. 1
      /\ remote_sent \in Nat /\ remote_sent + 1 < SeqMod /\ SeqMod \in Nat
  <2>1. /\ SeqMod \in Nat /\ MaxBytes \in Nat /\ MaxBytes + 2 < SeqMod
        /\ remote_sent \in Nat /\ remote_sent <= MaxBytes /\ n \in Nat /\ n <= remote_sent
        /\ isn \in 0 .. SeqMod - 1 /\ next_recv_seq \in 0 .. SeqMod - 1
    BY StreamFacts
  <2>2. fin \in 0 .. 1
    OBVIOUS
  <2> HIDE DEF n, fin
  <2> QED
    BY <2>1, <2>2
<1>6. next_recv_seq = wrapping_add(isn, n + 1)
  BY <1>1 DEF StreamInv, StreamExact, ReceivedInOrder
<1> HIDE DEF p, n, fin
<1>7. next_recv_seq' = wrapping_add(isn, to + 1 + fin)
  <2>1. /\ n + 1 \in Nat /\ to - n + fin \in Nat /\ (n + 1) + (to - n + fin) = to + 1 + fin
        /\ to + 1 + fin < SeqMod
    BY <1>5
  <2> QED
    BY <1>1, <1>4, <1>5, <1>6, <2>1, WrapAdd
<1>8. next_recv_seq' \in 0 .. SeqMod - 1
  <2>1. isn \in Nat /\ to + 1 + fin \in Nat
    BY <1>5
  <2> QED
    BY <1>7, <2>1, WrapRange
<1>9. StreamTypeOK'
  <2>1. delivered' \in 0 .. Len(wire)
    BY <1>2, DeliveredStays
  <2>2. state' \in {"Established", "CloseWait"}
    BY <1>1
  <2> QED
    BY <1>1, <1>2, <1>4, <1>8, <2>1, <2>2, Zenon DEF StreamInv, StreamExact, StreamTypeOK
<1>10. ReceivedInOrder'
  <2>1. state' = "Established" => to + 1 + fin = to + 1
    BY <1>1, <1>5 DEF fin
  <2>2. received' = Bytes(1, Len(received')) /\ Len(received') <= remote_sent'
    BY <1>2, <1>4, <1>5, Zenon
  <2>3. state' = "Established" => next_recv_seq' = wrapping_add(isn', Len(received') + 1)
    BY <1>2, <1>4, <1>7, <2>1, Zenon
  <2> QED
    BY <2>2, <2>3, Zenon DEF ReceivedInOrder
<1>11. SentContiguous' /\ WireSound'
  BY <1>2, Zenon DEF StreamInv, StreamExact, SentContiguous, WireSound
<1>12. HandshakeSound'
  BY <1>1, <1>2 DEF StreamInv, HandshakeSound, Opening
<1>13. ASSUME in_order PROVE CloseWaitComplete' /\ OrderKept'
  <2>1. OrderKept /\ delivered' = i /\ i = delivered + 1 /\ delivered >= 1
    BY <1>1, <1>2, <1>13 DEF StreamInv, Delivers, OrderKept
  <2>2. i \in 1 .. Len(wire) /\ delivered \in 1 .. Len(wire) - 1 /\ i # 1
    <3>1. Len(wire) \in Nat /\ i \in 1 .. Len(wire) /\ delivered \in Nat
      BY StreamFacts, Zenon
    <3> QED
      BY <2>1, <3>1
  <2>3. p.seq = next_recv_seq
    <3>1. wire[delivered + 1].seq = After(wire[delivered])
      BY <2>1, <2>2 DEF OrderKept
    <3> QED
      BY <1>1, <2>1, <3>1 DEF OrderKept, p
  <2>4. accepted(p) = p.data
    BY <2>3 DEF accepted
  <2>5. "SYN" \notin p.flags
    BY <2>2, SynFirst DEF p
  <2>6. After(p) = wrapping_add(next_recv_seq, Len(accepted(p)))
    <3>1. Len(p.data) + 0 = Len(p.data)
      BY <1>4, <1>5, <2>4
    <3> QED
      BY <2>3, <2>4, <2>5, <3>1 DEF After
  <2>7. After(p) = wrapping_add(isn, to + 1)
    <3>1. n + 1 \in Nat /\ to - n \in Nat /\ (n + 1) + (to - n) = to + 1 /\ to + 1 < SeqMod
      BY <1>5
    <3> QED
      BY <1>4, <1>5, <1>6, <2>6, <3>1, WrapAdd
  <2>8. "FIN" \in p.flags => remote_fin /\ to = remote_sent
    <3> SUFFICES ASSUME "FIN" \in p.flags PROVE remote_fin /\ to = remote_sent
      OBVIOUS
    <3>1. i = Len(wire) /\ remote_fin
      BY <2>1, <2>2 DEF OrderKept, p
    <3>2. wrapping_add(isn, to + 1) = wrapping_add(isn, remote_sent + 1)
      <4>1. wire # <<>>
        BY <2>2
      <4> QED
        BY <2>1, <2>7, <3>1, <4>1 DEF OrderKept, p
    <3>3. to + 1 \in 0 .. SeqMod - 1 /\ remote_sent + 1 \in 0 .. SeqMod - 1
      BY <1>5
    <3>4. to + 1 = remote_sent + 1
      BY <1>5, <3>2, <3>3, WrapInjective
    <3> QED
      BY <1>5, <3>1, <3>4
  <2>9. CloseWaitComplete'
    BY <1>1, <1>2, <1>4, <2>8 DEF CloseWaitComplete
  <2>10. state' = "Established" => next_recv_seq' = After(p)
    <3>1. fin = 0 => to + 1 + fin = to + 1
      BY <1>5
    <3> QED
      BY <1>1, <1>7, <2>7, <3>1 DEF fin
  <2>11. state' \in {"Established", "CloseWait"} /\ i >= 1
    BY <1>1, <2>2
  <2> QED
    BY <1>2, <2>1, <2>9, <2>10, <2>11 DEF OrderKept, p
<1>14. CloseWaitComplete'
  BY <1>2, <1>13 DEF CloseWaitComplete
<1> QED
  BY <1>2, <1>4, <1>9, <1>10, <1>11, <1>12, <1>13, <1>14 DEF StreamInv, StreamExact

(* receive_tcp_packet, in every state of the socket.                       *)
LEMMA ReceiveSegment ==
    ASSUME StreamInv, NEW i \in DOMAIN wire, receive_segment(i)
    PROVE  StreamInv'
<1>1. Delivers(i)
  BY DEF receive_segment, Delivers
<1>2. CASE receive_syn(wire[i])
  BY <1>1, <1>2, ReceiveSyn
<1>3. CASE receive_syn_ack(wire[i])
  BY <1>1, <1>3, ReceiveSynAck
<1>4. CASE receive_ack(wire[i])
  BY <1>1, <1>4, ReceiveAck
<1>5. CASE receive_established(wire[i])
  BY <1>1, <1>5, ReceiveEstablished
<1>6. CASE in_order /\ state \in {"CloseWait", "Removed"} /\ UNCHANGED <<socket, received>>
  <2>1. /\ state' = state /\ seq_num' = seq_num /\ next_recv_seq' = next_recv_seq
        /\ buf' = buf /\ received' = received
    BY <1>6 DEF socket
  <2>2. /\ in_order' = in_order /\ wire' = wire /\ out' = out /\ isn' = isn
        /\ remote_sent' = remote_sent /\ remote_fin' = remote_fin /\ read' = read
    BY <1>1 DEF Delivers, remote, reading
  <2>3. HandshakeSound' /\ CloseWaitComplete'
    BY <2>1, <2>2 DEF StreamInv, StreamExact, HandshakeSound, CloseWaitComplete
  <2>4. in_order => OrderKept'
    BY <1>6, <2>1, <2>2 DEF StreamInv, OrderKept
  <2> QED
    BY <1>1, <1>6, <2>1, <2>3, <2>4, StreamFacts, Quiet
<1> QED
  BY <1>2, <1>3, <1>4, <1>5, <1>6 DEF receive_segment

----------------------------------------------------------------------------
(* The kernel's own segments.                                              *)
LEMMA SegmentsQueued ==
    ASSUME StreamInv, UNCHANGED <<next_recv_seq, buf, network, remote, received, reading>>,
           state \in {"SynSent", "Established", "CloseWait"},
           state' = "Removed" \/ (state = "Established" /\ state' = state),
           NEW queued \in BOOLEAN, queued => state = "Established",
           NEW flags \in SUBSET {"SYN", "ACK", "FIN"}, NEW data \in Seq(Nat), NEW n \in Nat,
           n = Len(data) \/ state' = "Removed",
           out' = IF queued THEN Append(out, Packet(seq_num, flags, data)) ELSE out,
           seq_num' = IF queued THEN wrapping_add(seq_num, n) ELSE seq_num
    PROVE  StreamInv'
<1>1. /\ next_recv_seq' = next_recv_seq /\ buf' = buf /\ in_order' = in_order /\ wire' = wire
      /\ delivered' = delivered /\ isn' = isn /\ remote_sent' = remote_sent
      /\ remote_fin' = remote_fin /\ received' = received /\ pc' = pc /\ read' = read
      /\ dropped' = dropped
  BY DEF network, remote, reading
<1>2. PICK p : p = Packet(seq_num, flags, data)
  OBVIOUS
<1>3. p \in Segments /\ p.seq = seq_num /\ p.data = data
  BY <1>2, StreamFacts DEF Packet, Segments
<1>4. out \in Seq(Segments) /\ Len(out) \in Nat /\ DOMAIN out = 1 .. Len(out)
  BY DEF StreamInv, StreamExact, StreamTypeOK
<1>5. queued => /\ out' \in Seq(Segments) /\ Len(out') = Len(out) + 1 /\ out' # <<>>
                /\ \A i \in 1 .. Len(out) : out'[i] = out[i]
                /\ out'[Len(out) + 1] = p /\ DOMAIN out' = 1 .. Len(out) + 1
  BY <1>2, <1>3, <1>4
<1>6. seq_num' \in 0 .. SeqMod - 1
  <2>1. seq_num \in 0 .. SeqMod - 1 /\ seq_num \in Nat
    BY StreamFacts
  <2>2. wrapping_add(seq_num, n) \in 0 .. SeqMod - 1
    BY Zenon, <2>1, WrapRange
  <2> QED
    BY <2>1, <2>2
<1>7. state' \in {"Established", "Removed"}
  OBVIOUS
<1>8. StreamTypeOK'
  BY <1>1, <1>4, <1>5, <1>6, <1>7 DEF StreamInv, StreamExact, StreamTypeOK
<1>9. (ReceivedInOrder /\ ReadOnce /\ ReadIsReceived /\ BufferSound /\ CloseWaitComplete)'
  BY <1>1, <1>7, Zenon DEF StreamInv, StreamExact, ReceivedInOrder, ReadOnce, ReadIsReceived,
                    BufferSound, CloseWaitComplete
<1>10. WireSound'
  BY <1>1, Zenon DEF StreamInv, WireSound
<1>11. in_order => OrderKept'
  BY <1>1, <1>7 DEF StreamInv, OrderKept
<1>12. SentContiguous'
  <2>1. CASE ~queued
    BY <2>1, Zenon DEF StreamInv, StreamExact, SentContiguous
  <2>2. CASE queued
    <3>1. seq_num = IF out = <<>> THEN wrapping_add(0, 1)
                    ELSE wrapping_add(out[Len(out)].seq, Len(out[Len(out)].data))
      BY <2>2 DEF StreamInv, HandshakeSound
    <3>2. ASSUME NEW i \in 1 .. Len(out) + 1
          PROVE  out'[i].seq = IF i = 1 THEN wrapping_add(0, 1)
                               ELSE wrapping_add(out'[i - 1].seq, Len(out'[i - 1].data))
      <4>1. CASE i = 1 /\ out = <<>>
        BY <1>3, <1>5, <2>2, <3>1, <4>1
      <4>2. CASE i = Len(out) + 1 /\ out # <<>>
        <5>1. i # 1 /\ i - 1 = Len(out) /\ Len(out) \in 1 .. Len(out)
          BY <1>4, <4>2
        <5> QED
          BY <1>3, <1>5, <2>2, <3>1, <4>2, <5>1
      <4>3. CASE i # Len(out) + 1
        <5>1. i \in 1 .. Len(out) /\ (i # 1 => i - 1 \in 1 .. Len(out))
          BY <1>4, <4>3
        <5> QED
          BY <1>4, <1>5, <2>2, <5>1, Zenon DEF StreamInv, StreamExact, SentContiguous
      <4> QED
        BY <1>4, <4>1, <4>2, <4>3
    <3> QED
      BY <1>5, <2>2, <3>2 DEF SentContiguous
  <2> QED
    BY <2>1, <2>2
<1>13. HandshakeSound'
  <2>1. state' = "Established" =>
          seq_num' = IF out' = <<>> THEN wrapping_add(0, 1)
                     ELSE wrapping_add(out'[Len(out')].seq, Len(out'[Len(out')].data))
    <3>1. CASE queued
      BY <1>3, <1>5, <3>1
    <3>2. CASE ~queued
      BY <3>2 DEF StreamInv, HandshakeSound
    <3> QED
      BY <3>1, <3>2
  <2> QED
    BY <1>7, <2>1 DEF HandshakeSound, Opening
<1> QED
  BY <1>1, <1>8, <1>9, <1>10, <1>11, <1>12, <1>13 DEF StreamInv, StreamExact

(* send_tcp_packet and close_socket number their segments without a gap.   *)
LEMMA SendsAndCloses ==
    ASSUME StreamInv,
           \/ \E n \in SendLens, queued \in BOOLEAN : send_tcp_packet(n, queued)
           \/ \E queued \in BOOLEAN : close(queued)
    PROVE  StreamInv'
<1>1. ASSUME NEW n \in SendLens, NEW queued \in BOOLEAN, send_tcp_packet(n, queued)
      PROVE  StreamInv'
  <2>1. n \in Nat /\ Bytes(1, n) \in Seq(Nat) /\ Len(Bytes(1, n)) = n
    <3>1. n \in Nat /\ 1 \in Nat \ {0} /\ 1 <= n + 1 /\ n - 1 + 1 = n
      BY StreamAssumption
    <3> QED
      BY <3>1, BytesSeq
  <2>2. /\ UNCHANGED <<next_recv_seq, buf, network, remote, received, reading>>
        /\ state = "Established" /\ state' = state
        /\ out' = IF queued THEN Append(out, Packet(seq_num, {"ACK"}, Bytes(1, n))) ELSE out
        /\ seq_num' = IF queued THEN wrapping_add(seq_num, n) ELSE seq_num
    BY <1>1 DEF send_tcp_packet
  <2> QED
    BY <2>1, <2>2, SegmentsQueued
<1>2. ASSUME NEW queued \in BOOLEAN, close(queued)
      PROVE  StreamInv'
  <2>1. PICK fin \in BOOLEAN : fin <=> (state = "Established" /\ queued)
    BY Zenon
  <2>2. /\ UNCHANGED <<next_recv_seq, buf, network, remote, received, reading>>
        /\ state \in {"SynSent", "Established", "CloseWait"} /\ state' = "Removed"
        /\ out' = IF fin THEN Append(out, Packet(seq_num, {"FIN", "ACK"}, <<>>)) ELSE out
        /\ seq_num' = IF fin THEN wrapping_add(seq_num, 1) ELSE seq_num
    BY <1>2, <2>1 DEF close
  <2>3. {"FIN", "ACK"} \in SUBSET {"SYN", "ACK", "FIN"} /\ <<>> \in Seq(Nat) /\ 1 \in Nat
    OBVIOUS
  <2> QED
    BY <2>1, <2>2, <2>3, SegmentsQueued, Zenon
<1> QED
  BY <1>1, <1>2

----------------------------------------------------------------------------
(* The reader.                                                             *)
LEMMA ReaderMoves ==
    ASSUME StreamInv, UNCHANGED <<state, seq_num, next_recv_seq, network, out, remote, received>>,
           pc' \in {"idle", "recv", "check"}, buf' \in Seq(Nat), read' \in Seq(Nat),
           dropped' \in Nat, state \in Opening => buf' = <<>> /\ read' = <<>>,
           (ReadOnce /\ ReadIsReceived /\ BufferSound)'
    PROVE  StreamInv'
<1>1. /\ state' = state /\ seq_num' = seq_num /\ next_recv_seq' = next_recv_seq
      /\ in_order' = in_order /\ wire' = wire /\ delivered' = delivered /\ out' = out
      /\ isn' = isn /\ remote_sent' = remote_sent /\ remote_fin' = remote_fin
      /\ received' = received
  BY DEF network, remote
<1>2. StreamTypeOK'
  BY <1>1, Zenon DEF StreamInv, StreamExact, StreamTypeOK
<1>3. (ReceivedInOrder /\ SentContiguous /\ CloseWaitComplete)'
  BY <1>1, Zenon DEF StreamInv, StreamExact, ReceivedInOrder, SentContiguous, CloseWaitComplete
<1>4. HandshakeSound' /\ WireSound'
  BY <1>1, Zenon DEF StreamInv, HandshakeSound, WireSound
<1>5. in_order => OrderKept'
  BY <1>1, Zenon DEF StreamInv, OrderKept
<1> QED
  BY <1>1, <1>2, <1>3, <1>4, <1>5, Zenon DEF StreamInv, StreamExact

(* The steps of sys_recvfrom that only look.                               *)
LEMMA Looks ==
    ASSUME StreamInv, recvfrom_call \/ is_tcp_established
    PROVE  StreamInv'
<1>1. /\ UNCHANGED <<socket, network, out, remote, received, read, dropped>>
      /\ pc' \in {"idle", "recv", "check"}
  BY DEF recvfrom_call, is_tcp_established
<1>2. /\ UNCHANGED <<state, seq_num, next_recv_seq, network, out, remote, received>>
      /\ buf' = buf /\ read' = read /\ dropped' = dropped /\ received' = received
  BY <1>1 DEF socket
<1>3. (ReadOnce /\ ReadIsReceived /\ BufferSound)'
  BY <1>2 DEF StreamInv, StreamExact, ReadOnce, ReadIsReceived, BufferSound
<1>4. state \in Opening => buf' = <<>> /\ read' = <<>>
  BY <1>2 DEF StreamInv, HandshakeSound
<1> QED
  BY <1>1, <1>2, <1>3, <1>4, StreamFacts, ReaderMoves

(* recv_tcp_packet hands over the front of the buffer and drops the rest.  *)
LEMMA RecvTcpPacket ==
    ASSUME StreamInv, NEW n \in ReadLens, recv_tcp_packet(n)
    PROVE  StreamInv'
<1> DEFINE k == taken(n)
           s == SubSeq(buf, 1, k)
           m == Len(buf)
           l == Len(read)
<1>1. /\ UNCHANGED <<state, seq_num, next_recv_seq, network, out, remote, received>>
      /\ read' = read \o s /\ dropped' = dropped + m - k /\ buf' = <<>>
      /\ pc' \in {"idle", "recv", "check"} /\ received' = received
  BY DEF recv_tcp_packet
<1>2. k \in Nat /\ k <= m /\ m \in Nat /\ l \in Nat /\ buf \in Seq(Nat) /\ read \in Seq(Nat)
      /\ Len(received) \in Nat /\ m <= Len(received) /\ received \in Seq(Nat) /\ dropped \in Nat
  BY StreamFacts, StreamAssumption DEF taken
<1> HIDE DEF k
<1>3. s \in Seq(Nat) /\ Len(s) = k /\ \A i \in 1 .. k : s[i] = buf[i]
  BY <1>2
<1> HIDE DEF s
<1>4. /\ read' \in Seq(Nat) /\ Len(read') = l + k
      /\ \A i \in 1 .. l : read'[i] = read[i]
      /\ \A i \in l + 1 .. l + k : read'[i] = s[i - l]
      /\ DOMAIN read' = 1 .. l + k /\ DOMAIN read = 1 .. l /\ DOMAIN buf = 1 .. m
  <2>1. /\ read' \in Seq(Nat) /\ Len(read') = l + Len(s)
        /\ \A i \in 1 .. l : read'[i] = read[i]
        /\ \A i \in l + 1 .. l + Len(s) : read'[i] = s[i - l]
    <3>1. read \in Seq(Nat) /\ s \in Seq(Nat) /\ read' = read \o s
      BY <1>1, <1>2, <1>3
    <3>2. /\ read \o s \in Seq(Nat) /\ Len(read \o s) = Len(read) + Len(s)
          /\ \A i \in 1 .. Len(read) : (read \o s)[i] = read[i]
          /\ \A i \in Len(read) + 1 .. Len(read) + Len(s) : (read \o s)[i] = s[i - Len(read)]
      BY <3>1, Concat, Zenon
    <3> QED
      BY <3>1, <3>2, Zenon
  <2>2. DOMAIN read' = 1 .. Len(read') /\ DOMAIN read = 1 .. l /\ DOMAIN buf = 1 .. m
    BY <1>2, <2>1
  <2> QED
    BY Zenon, <1>3, <2>1, <2>2
<1>5. /\ \A i \in 1 .. m : buf[i] = Len(received) - m + i
      /\ \A i \in 1 .. l : read[i] <= Len(received) - m /\ read[i] \in Nat
  <2>1. /\ \A i \in DOMAIN buf : buf[i] = Len(received) - m + i
        /\ \A i \in DOMAIN read : read[i] <= Len(received) - m
    BY DEF StreamInv, BufferSound
  <2>2. \A i \in 1 .. l : read[i] \in Nat
    BY <1>2
  <2> QED
    BY <1>4, <2>1, <2>2, Zenon
<1> HIDE DEF m, l
<1>6. \A i \in 1 .. l + k : read'[i] <= Len(received)
  <2>1. ASSUME NEW i \in 1 .. l + k PROVE read'[i] <= Len(received)
    <3>1. CASE i <= l
      BY <1>2, <1>4, <1>5, <3>1
    <3>2. CASE i > l
      <4>1. i \in l + 1 .. l + k /\ i - l \in 1 .. k /\ i - l \in 1 .. m
        BY <1>2, <3>2
      <4>2. read'[i] = Len(received) - m + (i - l)
        BY <1>3, <1>4, <1>5, <4>1
      <4> QED
        BY <1>2, <4>1, <4>2
    <3> QED
      BY <1>2, <3>1, <3>2
  <2> QED
    BY <2>1
<1>7. BufferSound'
  <2>1. Len(buf') = 0 /\ DOMAIN buf' = {} /\ Len(received) - 0 = Len(received) /\ 0 <= Len(received)
    BY <1>1, <1>2
  <2>2. \A i \in DOMAIN read' : read'[i] <= Len(received') - Len(buf')
    BY <1>1, <1>4, <1>6, <2>1
  <2>3. Len(buf') <= Len(received')
    BY <1>1, <2>1
  <2> QED
    BY <2>1, <2>2, <2>3, Zenon DEF BufferSound
<1>8. \A i \in 2 .. l + k : read'[i - 1] < read'[i]
  <2>1. \A i \in 1 .. l + k : read'[i] = (read \o buf)[i]
    <3>1. /\ \A i \in 1 .. l : (read \o buf)[i] = read[i]
          /\ \A i \in l + 1 .. l + m : (read \o buf)[i] = buf[i - l]
      BY <1>2, Concat DEF l, m
    <3>2. ASSUME NEW i \in 1 .. l + k PROVE read'[i] = (read \o buf)[i]
      <4>1. CASE i <= l
        BY <1>2, <1>4, <3>1, <4>1
      <4>2. CASE i > l
        <5>1. i \in l + 1 .. l + k /\ i \in l + 1 .. l + m /\ i - l \in 1 .. k
          BY <1>2, <4>2
        <5> QED
          BY <1>3, <1>4, <3>1, <5>1, Zenon
      <4>3. i <= l \/ i > l
        BY <1>2
      <4> QED
        BY <4>1, <4>2, <4>3, Zenon
    <3> QED
      BY <3>2, Zenon
  <2>2. Len(read \o buf) = l + m /\ \A i \in 2 .. Len(read \o buf) : (read \o buf)[i - 1] < (read \o buf)[i]
    BY <1>2, Concat, Zenon DEF StreamInv, StreamExact, ReadOnce, l, m
  <2>3. ASSUME NEW i \in 2 .. l + k PROVE read'[i - 1] < read'[i]
    <3>1. i \in 1 .. l + k /\ i - 1 \in 1 .. l + k /\ i \in 2 .. l + m
      BY <1>2
    <3> QED
      BY <2>1, <2>2, <3>1
  <2> QED
    BY <2>3
<1>9. ReadOnce' /\ read' \o buf' = read'
  <2>1. read' \o buf' = read'
    BY <1>1, <1>4, ConcatNone
  <2> QED
    BY <1>4, <1>8, <2>1 DEF ReadOnce
<1>10. ReadIsReceived'
  <2>1. dropped' = 0 => dropped = 0 /\ k = m
    BY <1>1, <1>2 DEF m
  <2>2. k = m => s = buf
    BY <1>2, <1>3, SameSeq DEF m
  <2> QED
    BY <1>1, <1>9, <2>1, <2>2 DEF StreamInv, StreamExact, ReadIsReceived
<1>11. state \in Opening => buf' = <<>> /\ read' = <<>>
  <2>1. state \in Opening => buf = <<>> /\ read = <<>>
    BY DEF StreamInv, HandshakeSound
  <2>2. buf = <<>> /\ read = <<>> => Len(read') = 0
    BY <1>2, <1>4 DEF m, l
  <2> QED
    BY <1>1, <1>4, <2>1, <2>2
<1>12. dropped' \in Nat /\ buf' \in Seq(Nat)
  BY <1>1, <1>2 DEF m
<1> QED
  BY <1>1, <1>4, <1>7, <1>9, <1>10, <1>11, <1>12, ReaderMoves

----------------------------------------------------------------------------
(* One case per action.                                                    *)
LEMMA StreamStep == StreamInv /\ [StreamNext]_streamVars => StreamInv'
<1> SUFFICES ASSUME StreamInv, [StreamNext]_streamVars PROVE StreamInv'
  OBVIOUS
<1>1. CASE remote_handshake \/ remote_data \/ remote_close
  BY <1>1, RemoteHandshake, RemoteSide
<1>2. CASE connect
  BY <1>2, Connect
<1>3. CASE \E i \in DOMAIN wire : receive_segment(i)
  BY <1>3, ReceiveSegment
<1>4. CASE \/ \E n \in SendLens, queued \in BOOLEAN : send_tcp_packet(n, queued)
           \/ \E queued \in BOOLEAN : close(queued)
  BY <1>4, SendsAndCloses
<1>5. CASE recvfrom_call \/ is_tcp_established
  BY <1>5, Looks
<1>6. CASE \E n \in ReadLens : recv_tcp_packet(n)
  BY <1>6, RecvTcpPacket
<1>7. CASE UNCHANGED streamVars
  <2>1. /\ UNCHANGED <<state, seq_num, next_recv_seq, network, out, remote, received>>
        /\ buf' = buf /\ read' = read /\ dropped' = dropped /\ pc' = pc /\ received' = received
    BY <1>7 DEF streamVars, socket, reading
  <2>2. (ReadOnce /\ ReadIsReceived /\ BufferSound)'
    BY <2>1 DEF StreamInv, StreamExact, ReadOnce, ReadIsReceived, BufferSound
  <2>3. state \in Opening => buf' = <<>> /\ read' = <<>>
    BY <2>1 DEF StreamInv, HandshakeSound
  <2>4. pc' \in {"idle", "recv", "check"}
    BY <2>1 DEF StreamInv, StreamExact, StreamTypeOK
  <2> QED
    BY <2>1, <2>2, <2>3, <2>4, StreamFacts, ReaderMoves
<1> QED
  BY <1>1, <1>2, <1>3, <1>4, <1>5, <1>6, <1>7 DEF StreamNext, reader

(* Every byte stream is exact, for any numbers of bytes, segments and      *)
(* sequence numbers as long as the bytes in question have different ones:  *)
(* what receive_data accepts, what recv returns and what send numbers.     *)
THEOREM StreamsAreExact == StreamSpec => []StreamExact
<1>1. StreamInv => StreamExact
  BY DEF StreamInv
<1> QED
  BY StreamStart, StreamStep, <1>1, PTL DEF StreamSpec
=============================================================================
