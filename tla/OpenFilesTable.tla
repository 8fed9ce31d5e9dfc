-------------------------- MODULE OpenFilesTable ---------------------------
(***************************************************************************)
(* Proofs about the table of OpenFiles and its pipes, for every set of     *)
(* tasks, files and devices, any number of descriptors and pipes of any    *)
(* length: TableOK is inductive by itself.                                 *)
(***************************************************************************)
EXTENDS OpenFiles, TLAPS

(* Close: the table without the closed descriptors.                        *)
LEMMA CloseFds ==
    ASSUME TableOK, NEW S, close_file(S)
    PROVE  /\ DOMAIN fds' = DOMAIN fds \ S
           /\ \A n \in DOMAIN fds' : fds'[n] = fds[n]
           /\ next_fd' = next_fd /\ created' = created
BY DEF close_file

(* Closing descriptors keeps the pipes that still have an end, with their  *)
(* bytes, and closes the write side of those that have no writer.          *)
LEMMA ClosePipes ==
    ASSUME TableOK, NEW S, close_file(S)
    PROVE  /\ DOMAIN pipes' = {p \in DOMAIN pipes : Ends(fds', p) # {}}
           /\ \A p \in DOMAIN pipes' :
                /\ pipes'[p].buf = pipes[p].buf
                /\ pipes'[p].sent = pipes[p].sent /\ pipes'[p].got = pipes[p].got
                /\ pipes'[p] \in [buf : Seq(1 .. MaxBytes), write_closed : BOOLEAN,
                                  sent : 0 .. MaxBytes, got : 0 .. MaxBytes]
                /\ pipes'[p].write_closed <=> WriteEnds(fds', p) = {}
<1> DEFINE closed == [n \in DOMAIN fds \cap S |-> fds[n]]
<1>1. /\ DOMAIN closed = DOMAIN fds \cap S
      /\ \A n \in DOMAIN closed : closed[n] = fds[n]
  OBVIOUS
<1>2. pipes' = [p \in {q \in DOMAIN pipes : Ends(fds', q) # {}} |->
                 [pipes[p] EXCEPT !.write_closed =
                   @ \/ (WriteEnds(closed, p) # {} /\ WriteEnds(fds', p) = {})]]
  BY DEF close_file, release_pipe_end
<1> HIDE DEF closed
<1>3. ASSUME NEW p \in DOMAIN pipes'
      PROVE  /\ pipes'[p].buf = pipes[p].buf
             /\ pipes'[p].sent = pipes[p].sent /\ pipes'[p].got = pipes[p].got
             /\ pipes'[p] \in [buf : Seq(1 .. MaxBytes), write_closed : BOOLEAN,
                               sent : 0 .. MaxBytes, got : 0 .. MaxBytes]
             /\ pipes'[p].write_closed <=> WriteEnds(fds', p) = {}
  <2>1. /\ p \in DOMAIN pipes
        /\ pipes[p] \in [buf : Seq(1 .. MaxBytes), write_closed : BOOLEAN,
                         sent : 0 .. MaxBytes, got : 0 .. MaxBytes]
        /\ pipes[p].write_closed <=> WriteEnds(fds, p) = {}
    BY Zenon, <1>2 DEF TableOK, TableType, PipesExact
  <2>2. pipes'[p] = [pipes[p] EXCEPT !.write_closed =
                       @ \/ (WriteEnds(closed, p) # {} /\ WriteEnds(fds', p) = {})]
    BY <1>2
  <2>3. WriteEnds(fds, p) = WriteEnds(closed, p) \cup WriteEnds(fds', p)
    <3>1. \A n : n \in DOMAIN fds <=> n \in DOMAIN closed \/ n \in DOMAIN fds'
      BY Zenon, <1>1, CloseFds
    <3>2. /\ \A n \in DOMAIN closed : closed[n] = fds[n]
          /\ \A n \in DOMAIN fds' : fds'[n] = fds[n]
      BY Zenon, <1>1, CloseFds
    <3>3. \A T : \A n : n \in WriteEnds(T, p) <=>
                        n \in DOMAIN T /\ T[n].backing = p /\ T[n].pipe_end = "Write"
      BY Zenon DEF WriteEnds, Ends
    <3>4. /\ \A n : n \in WriteEnds(fds, p) <=>
                  n \in DOMAIN fds /\ fds[n].backing = p /\ fds[n].pipe_end = "Write"
          /\ \A n : n \in WriteEnds(closed, p) <=>
                  n \in DOMAIN closed /\ closed[n].backing = p /\ closed[n].pipe_end = "Write"
          /\ \A n : n \in WriteEnds(fds', p) <=>
                  n \in DOMAIN fds' /\ fds'[n].backing = p /\ fds'[n].pipe_end = "Write"
      BY <3>3, Zenon
    <3>5. \A n : n \in WriteEnds(fds, p) <=> n \in WriteEnds(closed, p) \/ n \in WriteEnds(fds', p)
      <4> TAKE n
      <4>1. n \in DOMAIN closed \/ n \in DOMAIN fds' => n \in DOMAIN fds
        BY <3>1, Zenon
      <4>2. CASE n \in DOMAIN closed
        <5>1. closed[n] = fds[n] /\ (n \in DOMAIN fds' => fds'[n] = fds[n])
          BY <3>2, <4>2, Zenon
        <5> QED
          BY <3>4, <4>1, <4>2, <5>1
      <4>3. CASE n \notin DOMAIN closed /\ n \in DOMAIN fds'
        <5>1. fds'[n] = fds[n]
          BY <3>2, <4>3, Zenon
        <5> QED
          BY <3>4, <4>1, <4>3, <5>1
      <4>4. CASE n \notin DOMAIN closed /\ n \notin DOMAIN fds'
        BY <3>1, <3>4, <4>4
      <4> QED
        BY <4>2, <4>3, <4>4
    <3> QED
      BY <3>5, Zenon
  <2>4. pipes[p].write_closed \in BOOLEAN
    BY <2>1
  <2> QED
    BY Zenon, <2>1, <2>2, <2>3, <2>4
<1> QED
  BY Zenon, <1>2, <1>3

(* Closing descriptors keeps the table sound.                              *)
LEMMA CloseTable ==
    ASSUME TableOK, NEW S, close_file(S)
    PROVE  TableOK'
<1>1. TableType'
  BY Zenon, CloseFds, ClosePipes DEF TableOK, TableType
<1>2. ExclusiveOpen'
  BY Zenon, CloseFds DEF TableOK, ExclusiveOpen
<1>3. PipesExact'
  <2>1. \A p \in Fd : Ends(fds', p) # {} => Ends(fds, p) # {}
    BY Zenon, CloseFds DEF Ends
  <2>2. DOMAIN pipes' = {p \in Fd : Ends(fds', p) # {}}
    BY Zenon, <2>1, ClosePipes DEF TableOK, PipesExact, TableType
  <2>3. \A p \in DOMAIN pipes' : p \in DOMAIN pipes
    BY Zenon, ClosePipes
  <2>4. \A p \in DOMAIN pipes' :
          /\ pipes'[p].write_closed <=> WriteEnds(fds', p) = {}
          /\ pipes'[p].buf = [i \in 1 .. pipes'[p].sent - pipes'[p].got |-> pipes'[p].got + i]
    <3> TAKE p \in DOMAIN pipes'
    <3>1. pipes[p].buf = [i \in 1 .. pipes[p].sent - pipes[p].got |-> pipes[p].got + i]
      BY Zenon, <2>3 DEF TableOK, PipesExact
    <3>2. /\ pipes'[p].buf = pipes[p].buf
          /\ pipes'[p].sent = pipes[p].sent /\ pipes'[p].got = pipes[p].got
          /\ pipes'[p].write_closed <=> WriteEnds(fds', p) = {}
      BY Zenon, ClosePipes
    <3> QED
      BY <3>1, <3>2, Zenon
  <2> QED
    BY <2>2, <2>4 DEF PipesExact, Ends, WriteEnds
<1>4. TableInv'
  <2>1. \A n \in DOMAIN fds' : n \in DOMAIN fds /\ fds'[n] = fds[n]
    BY Zenon, CloseFds
  <2>2. \A q \in DOMAIN pipes' : pipes'[q].got <= pipes'[q].sent
    BY Zenon, ClosePipes DEF TableOK, TableInv
  <2>3. next_fd' = next_fd /\ created' = created
    BY Zenon, CloseFds
  <2> QED
    BY <2>1, <2>2, <2>3 DEF TableOK, TableInv
<1> QED
  BY <1>1, <1>2, <1>3, <1>4 DEF TableOK

(* Open: one more descriptor, of a file that is not a pipe.                *)
LEMMA OpenTable ==
    ASSUME TableOK, NEW p \in Path, NEW create, CanOpen(p, create), open_file(p)
    PROVE  /\ TableOK'
           /\ DOMAIN fds' = DOMAIN fds \cup {next_fd} /\ next_fd \notin DOMAIN fds
           /\ next_fd' = next_fd + 1 /\ next_fd \in Fd
<1>1. /\ next_fd < MaxFd /\ next_fd' = next_fd + 1 /\ pipes' = pipes
      /\ created' = created \cup ({p} \cap Fresh)
      /\ DOMAIN fds' = DOMAIN fds \cup {next_fd}
      /\ fds'[next_fd] = [backing |-> p, pipe_end |-> "None"]
      /\ \A n \in DOMAIN fds : n # next_fd => fds'[n] = fds[n]
  BY DEF open_file
<1>2. next_fd \in Nat /\ next_fd >= 3 /\ MaxFd \in Nat /\ next_fd \in Fd
  BY <1>1, NumbersAssumption DEF TableOK, TableType, FirstFd, Fd
<1>3. next_fd \notin DOMAIN fds
  BY <1>2 DEF TableOK, TableInv
<1>4. p \notin Nat /\ p \notin Fd
  BY PathsAssumption, <1>2 DEF Path, Fd, FirstFd
<1>5. TableType'
  <2>1. fds'[next_fd] \in Descriptor
    BY <1>1 DEF Descriptor
  <2>2. created' \subseteq Fresh /\ next_fd' \in FirstFd .. MaxFd + FirstFd
    BY <1>1, <1>2 DEF TableOK, TableType, FirstFd
  <2>3. \A n \in DOMAIN fds' : fds'[n] \in Descriptor
    BY <1>1, <1>3, <2>1 DEF TableOK, TableType
  <2> QED
    BY <1>1, <1>2, <2>2, <2>3 DEF TableOK, TableType
<1>6. \A q \in Fd : Ends(fds', q) = Ends(fds, q) /\ WriteEnds(fds', q) = WriteEnds(fds, q)
  BY <1>1, <1>3, <1>4 DEF Ends, WriteEnds
<1>7. PipesExact'
  BY <1>1, <1>6 DEF TableOK, TableType, PipesExact
<1>8. p \in Devices \cup Fresh => \A n \in DOMAIN fds : fds[n].backing # p
  BY PathsAssumption DEF CanOpen, TableOK, TableInv, Ends
<1>9. ExclusiveOpen'
  BY <1>1, <1>3, <1>8 DEF TableOK, ExclusiveOpen
<1>10. TableInv'
  <2>1. ASSUME NEW n \in DOMAIN fds'
        PROVE  /\ n < next_fd'
               /\ fds'[n].backing \in Fd => fds'[n].backing < next_fd'
               /\ fds'[n].backing \in Fresh => fds'[n].backing \in created'
    <3>1. CASE n = next_fd
      BY <1>1, <1>2, <1>4, <3>1
    <3>2. CASE n # next_fd
      BY <1>1, <1>2, <3>2 DEF TableOK, TableInv, TableType, Fd, FirstFd
    <3> QED
      BY <3>1, <3>2
  <2> QED
    BY <1>1, <2>1 DEF TableOK, TableInv
<1> QED
  BY <1>1, <1>2, <1>3, <1>5, <1>7, <1>9, <1>10 DEF TableOK

(* create_pipe: two ends of a new, empty pipe.                             *)
LEMMA PipeTable ==
    ASSUME TableOK, NEW t \in Tasks, sys_pipe(t)
    PROVE  /\ TableOK'
           /\ DOMAIN fds' = DOMAIN fds \cup {next_fd, next_fd + 1}
           /\ next_fd \notin DOMAIN fds /\ next_fd + 1 \notin DOMAIN fds
           /\ next_fd' = next_fd + 2 /\ next_fd \in Fd /\ next_fd + 1 \in Fd
<1> DEFINE r == next_fd
           w == next_fd + 1
           new == [buf |-> <<>>, write_closed |-> FALSE, sent |-> 0, got |-> 0]
<1>1. /\ next_fd + 1 < MaxFd /\ next_fd' = next_fd + 2 /\ created' = created
      /\ fds' = [n \in DOMAIN fds \cup {r, w} |->
                    IF n = r THEN [backing |-> r, pipe_end |-> "Read"]
                    ELSE IF n = w THEN [backing |-> r, pipe_end |-> "Write"]
                    ELSE fds[n]]
      /\ pipes' = [p \in DOMAIN pipes \cup {r} |-> IF p = r THEN new ELSE pipes[p]]
  BY DEF sys_pipe
<1>2. /\ next_fd \in Nat /\ next_fd >= 3 /\ MaxFd \in Nat
      /\ r \in Fd /\ w \in Fd /\ r # w
  BY <1>1, NumbersAssumption DEF TableOK, TableType, FirstFd, Fd
<1>3. /\ r \notin DOMAIN fds /\ w \notin DOMAIN fds
      /\ \A n \in DOMAIN fds : n < w /\ fds[n].backing # r
  BY <1>2 DEF TableOK, TableInv, TableType, Fd, FirstFd
<1>4. /\ DOMAIN fds' = DOMAIN fds \cup {r, w}
      /\ fds'[r] = [backing |-> r, pipe_end |-> "Read"]
      /\ fds'[w] = [backing |-> r, pipe_end |-> "Write"]
      /\ \A n \in DOMAIN fds : fds'[n] = fds[n]
  BY <1>1, <1>2, <1>3
<1>5. DOMAIN pipes' = DOMAIN pipes \cup {r} /\ pipes'[r] = new
      /\ \A p \in DOMAIN pipes : p # r => pipes'[p] = pipes[p]
  BY <1>1
<1>6. r \notin DOMAIN pipes
  BY <1>3 DEF TableOK, PipesExact, Ends
<1> HIDE DEF r, w
<1>7. TableType'
  <2>1. fds'[r] \in Descriptor /\ fds'[w] \in Descriptor
    BY <1>2, <1>4 DEF Descriptor
  <2>2. next_fd' \in FirstFd .. MaxFd + FirstFd
    BY <1>1, <1>2 DEF FirstFd
  <2>3. \A n \in DOMAIN fds' : fds'[n] \in Descriptor
    BY <1>4, <2>1 DEF TableOK, TableType
  <2>4. pipes'[r] \in [buf : Seq(1 .. MaxBytes), write_closed : BOOLEAN,
                       sent : 0 .. MaxBytes, got : 0 .. MaxBytes]
    BY <1>5, NumbersAssumption
  <2>5. \A p \in DOMAIN pipes' :
          pipes'[p] \in [buf : Seq(1 .. MaxBytes), write_closed : BOOLEAN,
                         sent : 0 .. MaxBytes, got : 0 .. MaxBytes]
    BY Zenon, <1>5, <2>4 DEF TableOK, TableType
  <2> QED
    BY Zenon, <1>1, <1>2, <1>4, <1>5, <2>2, <2>3, <2>5 DEF TableOK, TableType
<1>8. /\ \A q \in Fd : q # r => Ends(fds', q) = Ends(fds, q) /\ WriteEnds(fds', q) = WriteEnds(fds, q)
      /\ r \in Ends(fds', r) /\ w \in WriteEnds(fds', r)
  <2>1. ASSUME NEW q \in Fd, q # r
        PROVE  Ends(fds', q) = Ends(fds, q)
    BY <1>4, <2>1 DEF Ends
  <2>2. ASSUME NEW q \in Fd, q # r
        PROVE  WriteEnds(fds', q) = WriteEnds(fds, q)
    BY <1>4, <2>1, <2>2 DEF WriteEnds, Ends
  <2>3. r \in Ends(fds', r) /\ w \in WriteEnds(fds', r)
    BY <1>4 DEF WriteEnds, Ends
  <2> QED
    BY <2>1, <2>2, <2>3
<1>9. PipesExact'
  <2>1. DOMAIN pipes' = {p \in Fd : Ends(fds', p) # {}}
    BY <1>2, <1>5, <1>8 DEF TableOK, PipesExact
  <2>2. ASSUME NEW p \in DOMAIN pipes'
        PROVE  /\ pipes'[p].write_closed <=> WriteEnds(fds', p) = {}
               /\ pipes'[p].buf = [i \in 1 .. pipes'[p].sent - pipes'[p].got |-> pipes'[p].got + i]
    <3>1. CASE p = r
      <4>1. pipes'[p].buf = <<>> /\ pipes'[p].sent = 0 /\ pipes'[p].got = 0
            /\ pipes'[p].write_closed = FALSE
        BY <1>5, <3>1
      <4>2. <<>> = [i \in 1 .. 0 |-> 0 + i]
        OBVIOUS
      <4> QED
        BY <1>8, <3>1, <4>1, <4>2
    <3>2. CASE p # r
      BY Zenon, <1>5, <1>8, <3>2 DEF TableOK, TableType, PipesExact
    <3> QED
      BY <3>1, <3>2
  <2> QED
    BY <2>1, <2>2 DEF PipesExact, Ends, WriteEnds
<1>10. ExclusiveOpen'
  <2>1. fds'[r].backing = r /\ fds'[w].backing = r /\ r \notin Devices \cup Fresh
    BY <1>2, <1>4, PathsAssumption DEF Fd, FirstFd
  <2> QED
    BY <1>4, <2>1 DEF TableOK, ExclusiveOpen
<1>11. TableInv'
  <2>1. ASSUME NEW n \in DOMAIN fds'
        PROVE  /\ n < next_fd'
               /\ fds'[n].backing \in Fd => fds'[n].backing < next_fd'
               /\ fds'[n].backing \in Fresh => fds'[n].backing \in created'
    <3>1. CASE n \in {r, w}
      <4>1. n < next_fd' /\ r < next_fd' /\ r \notin Fresh
        BY <1>1, <1>2, <3>1, PathsAssumption DEF r, w
      <4> QED
        BY <1>4, <3>1, <4>1
    <3>2. CASE n \notin {r, w}
      BY <1>1, <1>2, <1>4, <3>2 DEF TableOK, TableInv, TableType, Fd, FirstFd
    <3> QED
      BY <3>1, <3>2
  <2>2. \A p \in DOMAIN pipes' : pipes'[p].got <= pipes'[p].sent
    BY <1>5 DEF TableOK, TableInv
  <2> QED
    BY <2>1, <2>2 DEF TableInv
<1> QED
  BY <1>1, <1>2, <1>3, <1>4, <1>7, <1>9, <1>10, <1>11 DEF TableOK, r, w

(* The bytes got + 1, ..., sent of a pipe.                                 *)
Count(g, s) == [i \in 1 .. s - g |-> g + i]

PipeState == [buf : Seq(1 .. MaxBytes), write_closed : BOOLEAN,
              sent : 0 .. MaxBytes, got : 0 .. MaxBytes]

(* A change of the bytes of one pipe.                                      *)
LEMMA PipeChanged ==
    ASSUME TableOK, NEW p \in DOMAIN pipes, UNCHANGED <<fds, created, next_fd>>,
           DOMAIN pipes' = DOMAIN pipes,
           \A q \in DOMAIN pipes : q # p => pipes'[q] = pipes[q],
           NEW sent \in 0 .. MaxBytes, NEW got \in 0 .. MaxBytes, got <= sent,
           pipes'[p] \in PipeState,
           pipes'[p].sent = sent, pipes'[p].got = got,
           pipes'[p].buf = Count(got, sent),
           pipes'[p].write_closed = pipes[p].write_closed
    PROVE  TableOK'
<1>5. TableType'
  BY Zenon DEF TableOK, TableType, PipeState
<1>6. ExclusiveOpen'
  BY DEF TableOK, ExclusiveOpen
<1>8. PipesExact'
  <2>1. \A q \in DOMAIN pipes' : pipes'[q].write_closed <=> WriteEnds(fds, q) = {}
    BY Zenon DEF TableOK, PipesExact
  <2>2. ASSUME NEW q \in DOMAIN pipes'
        PROVE  pipes'[q].buf = [i \in 1 .. pipes'[q].sent - pipes'[q].got |-> pipes'[q].got + i]
    <3>1. CASE q = p
      BY Zenon, <3>1 DEF Count
    <3>2. CASE q # p
      BY <3>2 DEF TableOK, PipesExact
    <3> QED
      BY <3>1, <3>2
  <2> QED
    BY <2>1, <2>2 DEF TableOK, PipesExact, Ends, WriteEnds
<1>9. TableInv'
  BY DEF TableOK, TableInv
<1> QED
  BY <1>5, <1>6, <1>8, <1>9 DEF TableOK

(* The bytes from g + 1 to s, as a sequence.                               *)
LEMMA CountSeq ==
    ASSUME NEW g \in Nat, NEW s \in Nat, g <= s
    PROVE  /\ Count(g, s) \in Seq(Nat) /\ Len(Count(g, s)) = s - g
           /\ \A i \in 1 .. s - g : Count(g, s)[i] = g + i
<1>1. s - g \in Nat /\ \A i \in 1 .. s - g : g + i \in Nat
  OBVIOUS
<1> DEFINE m == s - g
<1>2. m \in Nat /\ Count(g, s) = [i \in 1 .. m |-> g + i] /\ \A i \in 1 .. m : g + i \in Nat
  BY <1>1 DEF Count
<1> HIDE DEF m
<1>3. Count(g, s) \in Seq(Nat) /\ Len(Count(g, s)) = m /\ \A i \in 1 .. m : Count(g, s)[i] = g + i
  BY <1>2
<1> QED
  BY <1>3 DEF m

(* Two buffers with the same bytes are the same.                           *)
LEMMA SameBytes ==
    \A a \in Seq(Nat), b \in Seq(Nat) :
        Len(a) = Len(b) /\ (\A i \in 1 .. Len(b) : a[i] = b[i]) => a = b
OBVIOUS

(* Writing the next byte lengthens the run by one.                         *)
LEMMA CountAppend ==
    ASSUME NEW g \in Nat, NEW s \in Nat, g <= s
    PROVE  Append(Count(g, s), s + 1) = Count(g, s + 1)
<1> DEFINE c == Count(g, s)
           d == Count(g, s + 1)
<1>1. /\ c \in Seq(Nat) /\ Len(c) = s - g /\ \A i \in 1 .. s - g : c[i] = g + i
      /\ d \in Seq(Nat) /\ Len(d) = (s + 1) - g /\ \A i \in 1 .. (s + 1) - g : d[i] = g + i
  <2>1. s + 1 \in Nat /\ g <= s + 1
    OBVIOUS
  <2> QED
    BY Zenon, <2>1, CountSeq
<1>2. s - g \in Nat /\ (s + 1) - g = (s - g) + 1 /\ g + ((s + 1) - g) = s + 1 /\ s + 1 \in Nat
  OBVIOUS
<1> HIDE DEF c, d
<1>3. /\ Append(c, s + 1) \in Seq(Nat)
      /\ Len(Append(c, s + 1)) = Len(c) + 1
      /\ \A i \in 1 .. Len(c) : Append(c, s + 1)[i] = c[i]
      /\ Append(c, s + 1)[Len(c) + 1] = s + 1
  BY <1>1, <1>2
<1>4. \A i \in 1 .. Len(d) : Append(c, s + 1)[i] = d[i]
  <2>1. ASSUME NEW i \in 1 .. Len(d) PROVE Append(c, s + 1)[i] = d[i]
    <3>1. CASE i = Len(c) + 1
      BY <1>1, <1>2, <1>3, <3>1
    <3>2. CASE i # Len(c) + 1
      BY <1>1, <1>2, <1>3, <3>2
    <3> QED
      BY Zenon, <3>1, <3>2
  <2> QED
    BY Zenon, <2>1
<1>5. Append(c, s + 1) = d
  <2>1. Len(Append(c, s + 1)) = Len(d)
    BY <1>1, <1>2, <1>3
  <2> QED
    BY <1>1, <1>3, <1>4, <2>1, SameBytes, Zenon
<1> QED
  BY <1>5 DEF c, d

(* Reading takes bytes from the front of the run.                          *)
LEMMA CountDrain ==
    ASSUME NEW g \in Nat, NEW s \in Nat, g <= s, NEW len \in Nat
    PROVE  \E k \in 0 .. s - g : drain(Count(g, s), len) = Count(g + k, s)
<1> DEFINE c == Count(g, s)
           k == IF len < Len(c) THEN len ELSE Len(c)
           d == Count(g + k, s)
<1>1. c \in Seq(Nat) /\ Len(c) = s - g /\ \A i \in 1 .. s - g : c[i] = g + i
  BY CountSeq
<1>2. k \in 0 .. s - g /\ k \in Nat /\ s - g \in Nat
  BY <1>1
<1>3. g + k \in Nat /\ g + k <= s /\ s - (g + k) = (s - g) - k
  BY <1>2
<1> HIDE DEF k
<1>4. d \in Seq(Nat) /\ Len(d) = s - (g + k) /\ \A i \in 1 .. s - (g + k) : d[i] = (g + k) + i
  BY Zenon, <1>3, CountSeq
<1>5. drain(c, len) = SubSeq(c, k + 1, Len(c))
  BY DEF drain, k
<1> HIDE DEF c, d
<1>6. /\ SubSeq(c, k + 1, Len(c)) \in Seq(Nat)
      /\ Len(SubSeq(c, k + 1, Len(c))) = Len(c) - k
      /\ \A i \in 1 .. Len(c) - k : SubSeq(c, k + 1, Len(c))[i] = c[k + i]
  <2>1. k + 1 \in 1 .. Len(c) + 1 /\ Len(c) \in Nat
    BY <1>1, <1>2
  <2>2. \A i \in 1 .. Len(c) - k : k + i = (k + 1) + i - 1 /\ (k + 1) + i - 1 \in 1 .. Len(c)
    BY <1>1, <1>2
  <2> QED
    BY <1>1, <1>2, <2>1, <2>2
<1>7. \A i \in 1 .. Len(c) - k : c[k + i] = d[i]
  BY <1>1, <1>2, <1>3, <1>4
<1>8. SubSeq(c, k + 1, Len(c)) = d
  <2>1. Len(SubSeq(c, k + 1, Len(c))) = Len(d)
    BY <1>1, <1>3, <1>4, <1>6
  <2>2. \A i \in 1 .. Len(d) : SubSeq(c, k + 1, Len(c))[i] = d[i]
    BY Zenon, <1>1, <1>3, <1>4, <1>6, <1>7
  <2> DEFINE e == SubSeq(c, k + 1, Len(c))
  <2>3. e \in Seq(Nat) /\ d \in Seq(Nat) /\ Len(e) = Len(d) /\ \A i \in 1 .. Len(d) : e[i] = d[i]
    BY <1>4, <1>6, <2>1, <2>2
  <2> HIDE DEF e
  <2>4. e = d
    BY <2>3, SameBytes, Zenon
  <2> QED
    BY <2>4 DEF e
<1> QED
  BY Zenon, <1>2, <1>5, <1>8 DEF c, d

(* A run of bytes is a buffer.                                             *)
LEMMA CountBytes ==
    ASSUME NEW g \in 0 .. MaxBytes, NEW s \in 0 .. MaxBytes, g <= s
    PROVE  Count(g, s) \in Seq(1 .. MaxBytes)
<1> DEFINE m == s - g
<1>1. m \in Nat /\ Count(g, s) = [i \in 1 .. m |-> g + i] /\ \A i \in 1 .. m : g + i \in 1 .. MaxBytes
  BY NumbersAssumption DEF Count
<1> HIDE DEF m
<1> QED
  BY <1>1

(* What a pipe holds is the run from what was got to what was sent.        *)
LEMMA PipeBytes ==
    ASSUME TableOK, NEW p \in DOMAIN pipes
    PROVE  /\ pipes[p] \in PipeState
           /\ pipes[p].buf = Count(pipes[p].got, pipes[p].sent)
           /\ pipes[p].sent \in 0 .. MaxBytes /\ pipes[p].got \in 0 .. MaxBytes
           /\ pipes[p].got <= pipes[p].sent /\ MaxBytes \in Nat
BY Zenon, NumbersAssumption DEF TableOK, TableType, TableInv, PipesExact, Count, PipeState

(* A read of a pipe keeps the table sound.                                 *)
LEMMA ReadPipe ==
    ASSUME TableOK, NEW p \in DOMAIN pipes, NEW len \in ReadLens, read_pipe(p, len),
           UNCHANGED <<fds, created, next_fd>>
    PROVE  TableOK'
<1> DEFINE s == pipes[p].sent
           g == pipes[p].got
<1>1. /\ pipes[p] \in PipeState /\ pipes[p].buf = Count(g, s)
      /\ s \in 0 .. MaxBytes /\ g \in 0 .. MaxBytes /\ g <= s /\ MaxBytes \in Nat
      /\ s \in Nat /\ g \in Nat
  BY PipeBytes
<1>2. len \in Nat
  BY NumbersAssumption
<1>3. PICK k \in 0 .. s - g : drain(Count(g, s), len) = Count(g + k, s)
  BY Zenon, <1>1, <1>2, CountDrain
<1>4. g + k \in 0 .. MaxBytes /\ g + k <= s /\ g + k \in Nat /\ g + (s - g) - (s - (g + k)) = g + k
  BY <1>1
<1>5. Len(Count(g, s)) = s - g /\ Len(Count(g + k, s)) = s - (g + k)
  BY Zenon, <1>1, <1>4, CountSeq
<1>6. pipes' = [pipes EXCEPT ![p].buf = drain(@, len),
                             ![p].got = @ + Len(pipes[p].buf) - Len(drain(pipes[p].buf, len))]
  BY DEF read_pipe
<1>7. /\ DOMAIN pipes' = DOMAIN pipes
      /\ \A q \in DOMAIN pipes : q # p => pipes'[q] = pipes[q]
  BY <1>6
<1>8. pipes'[p] = [[pipes[p] EXCEPT !.buf = drain(pipes[p].buf, len)]
                     EXCEPT !.got = g + Len(pipes[p].buf) - Len(drain(pipes[p].buf, len))]
  BY <1>6
<1> HIDE DEF s, g
<1>10. g + Len(pipes[p].buf) - Len(drain(pipes[p].buf, len)) = g + k
  BY <1>1, <1>3, <1>4, <1>5
<1>11. pipes'[p] = [[pipes[p] EXCEPT !.buf = Count(g + k, s)] EXCEPT !.got = g + k]
  BY Zenon, <1>1, <1>3, <1>8, <1>10
<1>12. Count(g + k, s) \in Seq(1 .. MaxBytes)
  BY <1>1, <1>4, CountBytes
<1>13. /\ pipes'[p] \in PipeState /\ pipes'[p].sent = s /\ pipes'[p].got = g + k
       /\ pipes'[p].buf = Count(g + k, s) /\ pipes'[p].write_closed = pipes[p].write_closed
  <2> DEFINE c == Count(g + k, s)
             n == g + k
             r == pipes[p]
             q == pipes'[p]
  <2>1. /\ r \in PipeState /\ c \in Seq(1 .. MaxBytes) /\ n \in 0 .. MaxBytes
        /\ q = [[r EXCEPT !.buf = c] EXCEPT !.got = n]
    BY <1>1, <1>4, <1>11, <1>12
  <2> HIDE DEF c, n, r, q
  <2>2. /\ q \in PipeState /\ q.got = n /\ q.sent = r.sent /\ q.buf = c
        /\ q.write_closed = r.write_closed
    BY Zenon, <2>1 DEF PipeState
  <2> QED
    BY <2>2 DEF c, n, r, q, s
<1> QED
  BY <1>1, <1>4, <1>7, <1>13, PipeChanged, Zenon

(* A write to a pipe keeps the table sound.                                *)
LEMMA WritePipe ==
    ASSUME TableOK, NEW p \in DOMAIN pipes, pipes[p].sent < MaxBytes,
           pipes' = [pipes EXCEPT ![p].buf = Append(@, pipes[p].sent + 1), ![p].sent = @ + 1],
           UNCHANGED <<fds, created, next_fd>>
    PROVE  TableOK'
<1> DEFINE s == pipes[p].sent
           g == pipes[p].got
<1>1. /\ pipes[p] \in PipeState /\ pipes[p].buf = Count(g, s)
      /\ s \in 0 .. MaxBytes /\ g \in 0 .. MaxBytes /\ g <= s /\ MaxBytes \in Nat
      /\ s \in Nat /\ g \in Nat /\ s < MaxBytes
  BY PipeBytes
<1>2. Append(Count(g, s), s + 1) = Count(g, s + 1)
  BY <1>1, CountAppend
<1>3. /\ DOMAIN pipes' = DOMAIN pipes
      /\ \A q \in DOMAIN pipes : q # p => pipes'[q] = pipes[q]
      /\ pipes'[p] = [[pipes[p] EXCEPT !.buf = Append(pipes[p].buf, s + 1)] EXCEPT !.sent = s + 1]
  OBVIOUS
<1> HIDE DEF s, g
<1>4. s + 1 \in 0 .. MaxBytes /\ g <= s + 1
  BY <1>1
<1>5. pipes'[p] = [[pipes[p] EXCEPT !.buf = Count(g, s + 1)] EXCEPT !.sent = s + 1]
  BY Zenon, <1>1, <1>2, <1>3
<1>6. Count(g, s + 1) \in Seq(1 .. MaxBytes)
  BY <1>1, <1>4, CountBytes
<1>7. /\ pipes'[p] \in PipeState /\ pipes'[p].sent = s + 1 /\ pipes'[p].got = g
      /\ pipes'[p].buf = Count(g, s + 1) /\ pipes'[p].write_closed = pipes[p].write_closed
  <2> DEFINE c == Count(g, s + 1)
             n == s + 1
             r == pipes[p]
             q == pipes'[p]
  <2>1. /\ r \in PipeState /\ c \in Seq(1 .. MaxBytes) /\ n \in 0 .. MaxBytes
        /\ q = [[r EXCEPT !.buf = c] EXCEPT !.sent = n]
    BY <1>1, <1>4, <1>5, <1>6
  <2> HIDE DEF c, n, r, q
  <2>2. /\ q \in PipeState /\ q.sent = n /\ q.got = r.got /\ q.buf = c
        /\ q.write_closed = r.write_closed
    BY Zenon, <2>1 DEF PipeState
  <2> QED
    BY <2>2 DEF c, n, r, q, g
<1> QED
  BY <1>1, <1>3, <1>4, <1>7, PipeChanged, Zenon

(* A step that leaves the table alone keeps it sound.                      *)
LEMMA TableSame ==
    ASSUME TableOK, UNCHANGED <<fds, pipes, created, next_fd>>
    PROVE  TableOK'
<1>1. TableType' /\ ExclusiveOpen' /\ TableInv'
  BY DEF TableOK, TableType, ExclusiveOpen, TableInv
<1>2. PipesExact'
  BY DEF TableOK, PipesExact, Ends, WriteEnds
<1> QED
  BY <1>1, <1>2 DEF TableOK

----------------------------------------------------------------------------
(* The table is sound when it is empty.                                    *)
LEMMA InitTable ==
    ASSUME Init
    PROVE  TableOK
<1>1. /\ fds = [n \in {} |-> 0] /\ pipes = [n \in {} |-> 0] /\ created = {}
      /\ next_fd = FirstFd
  BY DEF Init
<1>2. DOMAIN fds = {} /\ DOMAIN pipes = {}
  BY <1>1
<1>3. next_fd \in FirstFd .. MaxFd + FirstFd
  BY <1>1, NumbersAssumption DEF FirstFd
<1>4. TableType /\ ExclusiveOpen /\ TableInv
  BY <1>1, <1>2, <1>3 DEF TableType, ExclusiveOpen, TableInv
<1>5. PipesExact
  BY <1>2 DEF PipesExact, Ends
<1> QED
  BY <1>4, <1>5 DEF TableOK

(* The table by itself, whatever a task passes to sys_close.               *)
LEMMA NextTable ==
    ASSUME TableOK, [Next]_vars
    PROVE  TableOK'
<1>1. CASE UNCHANGED tableVars
  BY <1>1, TableSame DEF tableVars
<1>2. CASE \E S : close_file(S)
  BY <1>2, CloseTable
<1>3. CASE \E p \in Path, create \in BOOLEAN : CanOpen(p, create) /\ open_file(p)
  BY <1>3, OpenTable
<1>4. CASE \E t \in Tasks : sys_pipe(t)
  BY <1>4, PipeTable
<1>5. CASE \E p \in DOMAIN pipes, len \in ReadLens :
             read_pipe(p, len) /\ UNCHANGED <<fds, created, next_fd>>
  BY <1>5, ReadPipe
<1>6. CASE \E t \in Tasks : \E n : sys_write(t, n)
  <2>1. PICK t \in Tasks : \E n : sys_write(t, n)
    BY <1>6
  <2>2. PICK n : sys_write(t, n)
    BY <2>1
  <2> DEFINE p == fds[n].backing
  <2>3. /\ p \in DOMAIN pipes /\ pipes[p].sent < MaxBytes
        /\ pipes' = [pipes EXCEPT ![p].buf = Append(@, pipes[p].sent + 1), ![p].sent = @ + 1]
        /\ UNCHANGED <<fds, created, next_fd>>
    BY <2>2 DEF sys_write, IsPipe
  <2> HIDE DEF p
  <2> QED
    BY Zenon, <2>3, WritePipe
<1>7. CASE Next
  <2>1. PICK t \in Tasks :
        \/ \E p \in Path, create \in BOOLEAN : sys_open(t, p, create)
        \/ device_open(t)
        \/ current_add_fd(t)
        \/ sys_pipe(t)
        \/ sys_socket(t)
        \/ \E n \in handles[t] : sys_close_fd(t, n)
        \/ \E n \in sock_handles[t] : sys_close_socket(t, n)
        \/ current_remove_fd(t)
        \/ \E n \in handles[t], len \in ReadLens : sys_read(t, n, len)
        \/ sys_read_stdin(t)
        \/ \E len \in ReadLens : read_stdin(t, len)
        \/ \E n \in handles[t] \cup {pipe_fd[t][2]} : sys_write(t, n)
        \/ \E p \in Path, in, out \in handles[t] \cup {NoFd} : sys_exec(t, p, in, out)
        \/ exec_read(t)
        \/ exec_close(t)
        \/ \E c \in Tasks : spawn_user_task(t, c)
        \/ spawn_error(t)
        \/ exit_current(t)
        \/ drop(t)
    BY <1>7, Zenon DEF Next
  <2>2. CASE \E p \in Path, create \in BOOLEAN : sys_open(t, p, create)
    BY <1>3, <2>2 DEF sys_open
  <2>3. CASE device_open(t)
    BY <1>1, <1>2, <2>3 DEF device_open
  <2>4. CASE sys_pipe(t)
    BY <1>4, <2>4
  <2>5. CASE \E n : sys_close_fd(t, n)
    BY <1>1, <1>2, <2>5 DEF sys_close_fd, close_number
  <2>6. CASE \E n : sys_close_socket(t, n)
    BY <1>1, <1>2, <2>6 DEF sys_close_socket, close_number
  <2>7. CASE \E n \in handles[t], len \in ReadLens : sys_read(t, n, len)
    BY <1>5, <2>7 DEF sys_read, IsPipe
  <2>8. CASE \E len \in ReadLens : read_stdin(t, len)
    <3>1. PICK len \in ReadLens : read_stdin(t, len)
      BY <2>8
    <3>2. \/ \E p \in DOMAIN pipes : read_pipe(p, len) /\ UNCHANGED <<fds, created, next_fd>>
          \/ UNCHANGED tableVars
      BY <3>1 DEF read_stdin, IsPipe, tableVars
    <3> QED
      BY <1>1, <1>5, <3>2
  <2>9. CASE \E n : sys_write(t, n)
    BY <1>6, <2>9
  <2>10. CASE \E p \in Path, in, out \in handles[t] \cup {NoFd} : sys_exec(t, p, in, out)
    BY Zenon, <1>3, <2>10 DEF sys_exec
  <2>11. CASE exec_close(t)
    BY <1>1, <1>2, <2>11 DEF exec_close
  <2>12. CASE drop(t)
    BY <1>1, <1>2, <2>12 DEF drop
  <2>13. CASE \/ current_add_fd(t) \/ sys_socket(t) \/ current_remove_fd(t)
              \/ sys_read_stdin(t) \/ exec_read(t) \/ spawn_error(t) \/ exit_current(t)
              \/ \E c \in Tasks : spawn_user_task(t, c)
    BY <1>1, <2>13 DEF current_add_fd, sys_socket, current_remove_fd, sys_read_stdin,
                      exec_read, spawn_error, exit_current, spawn_user_task
  <2> QED
    BY <2>1, <2>2, <2>3, <2>4, <2>5, <2>6, <2>7, <2>8, <2>9, <2>10, <2>11, <2>12, <2>13, Zenon
<1> QED
  BY <1>1, <1>7 DEF vars

(* release_pipe_end, read_file and write_file on pipes: a pipe exists      *)
(* while an end of it is open, its end of file shows exactly when no write *)
(* end is left, and its bytes come out once each and in order.             *)
THEOREM PipesAreExact == Spec => []PipesExact
<1>1. Init => TableOK
  BY InitTable
<1>2. TableOK /\ [Next]_vars => TableOK'
  BY NextTable
<1>3. TableOK => PipesExact
  BY DEF TableOK
<1> QED
  BY <1>1, <1>2, <1>3, PTL DEF Spec
=============================================================================
