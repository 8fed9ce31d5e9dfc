-------------------------- MODULE OpenFilesProofs --------------------------
(***************************************************************************)
(* Every descriptor has one owner, for every set of tasks, files and       *)
(* devices, while descriptor numbers stay below the socket ids: closing,   *)
(* reading, writing and dropping keep the inductive invariant IInv, and    *)
(* with the steps of OpenFilesSteps every step does.                       *)
(***************************************************************************)
EXTENDS OpenFilesSteps

(* A call closes the descriptor it has in hand: device_open when the       *)
(* driver's open fails, and exec_elf after it has read the file.           *)
LEMMA ClosesInHand ==
    ASSUME IInv, NEW t \in Tasks, status[t] = "live", pc[t] \in {"dev_open", "exec_close"},
           close_file({hand[t][1]}), UNCHANGED <<socketVars, resourceVars, handles, panicked>>,
           NEW where \in {"user", "spawn"},
           NEW held \in Seq(Fd \cup {NoFd}), Len(held) \in HandLens(where),
           goto(t, where, held)
    PROVE  IInv'
<1>1. /\ sockets' = sockets /\ next_socket' = next_socket /\ sock_handles' = sock_handles
      /\ status' = status /\ fd_nums' = fd_nums /\ pipe_fd' = pipe_fd
      /\ handles' = handles /\ panicked' = panicked
  BY DEF socketVars, resourceVars
<1>2. TableOK'
  BY CloseTable DEF IInv
<1>3. DOMAIN fds' = DOMAIN fds \ {hand[t][1]} /\ next_fd' = next_fd
  BY Zenon, CloseFds DEF IInv
<1>4. where \in Places
  BY DEF Places
<1>5. /\ pc' \in [Tasks -> Places] /\ hand' \in [Tasks -> Seq(Fd \cup {NoFd})]
      /\ pc'[t] = where /\ hand'[t] = held
      /\ \A u \in Tasks \ {t} : pc'[u] = pc[u] /\ hand'[u] = hand[u]
  BY <1>4, Facts, Goto
<1>6. CallType' /\ SocketInv' /\ DropNeverPanics'
  BY <1>1, <1>5 DEF IInv, CallType, SocketInv, DropNeverPanics
<1>7. InFlight(t)' = {} /\ InFlight(t) = {hand[t][1]}
  BY <1>5 DEF InFlight
<1>8. next_fd' \in Nat /\ next_fd' >= next_fd
  BY <1>3, NumbersNat
<1>9. TaskInv(t)'
  <2>1. TaskInv(t)
    BY Facts
  <2>2. \A n \in fd_nums[t] : n \in DOMAIN fds' /\ n < next_fd'
    BY <1>3, <1>7, <2>1 DEF TaskInv
  <2>3. InFlight(t)' \subseteq DOMAIN fds' \ fd_nums'[t]
    BY <1>7
  <2> QED
    BY <1>1, <1>5, <2>1, <2>2, <2>3 DEF TaskInv
<1>10. /\ \A n \in Holds(t)' : n \in Holds(t) \/ n >= next_fd
       /\ \A n \in DOMAIN fds : n \in DOMAIN fds' \/ n \in Holds(t)
       /\ \A n \in DOMAIN fds' : n \in DOMAIN fds \/ n >= next_fd
  BY <1>1, <1>3, <1>7 DEF Holds
<1> QED
  BY <1>1, <1>2, <1>5, <1>6, <1>8, <1>9, <1>10, OwnStep

(* device_open fails and closes the file, or goes on.                      *)
LEMMA DeviceOpen ==
    ASSUME IInv, NEW t \in Tasks, device_open(t)
    PROVE  IInv'
<1>1. /\ pc[t] = "dev_open" /\ status[t] = "live"
      /\ UNCHANGED <<socketVars, resourceVars, handles, panicked>>
  BY DEF device_open, At
<1>2. CASE close_file({hand[t][1]}) /\ goto(t, "user", <<>>)
  <2>1. <<>> \in Seq(Fd \cup {NoFd}) /\ Len(<<>>) \in HandLens("user")
    BY HandLensOf
  <2> QED
    BY Zenon, <1>1, <1>2, <2>1, ClosesInHand
<1>3. CASE /\ UNCHANGED tableVars
           /\ goto(t, IF Len(hand[t]) = 1 THEN "add_fd" ELSE "exec_read", hand[t])
  BY <1>3, DeviceOpenGoesOn
<1>4. \/ close_file({hand[t][1]}) /\ goto(t, "user", <<>>)
      \/ /\ UNCHANGED tableVars
         /\ goto(t, IF Len(hand[t]) = 1 THEN "add_fd" ELSE "exec_read", hand[t])
  BY Zenon DEF device_open
<1> QED
  BY <1>2, <1>3, <1>4

(* sys_exec closes the program file once it is read.                       *)
LEMMA ExecClose ==
    ASSUME IInv, NEW t \in Tasks, exec_close(t)
    PROVE  IInv'
<1>1. /\ pc[t] = "exec_close" /\ status[t] = "live"
      /\ UNCHANGED <<socketVars, resourceVars, handles, panicked>>
  BY DEF exec_close, At
<1>2. CASE close_file({hand[t][1]}) /\ goto(t, "spawn", Tail(hand[t]))
  <2> DEFINE h == hand[t]
             S == Fd \cup {NoFd}
  <2>1. h \in Seq(S) /\ Len(h) = 3
    BY Zenon, <1>1, Facts, HandLensOf DEF TaskInv
  <2> HIDE DEF h, S
  <2>2. Tail(h) \in Seq(S) /\ Len(Tail(h)) = 2
    BY <2>1
  <2>3. Tail(hand[t]) \in Seq(Fd \cup {NoFd}) /\ Len(Tail(hand[t])) \in HandLens("spawn")
    BY Zenon, <2>2, HandLensOf DEF h, S
  <2> QED
    BY Zenon, <1>1, <1>2, <2>3, ClosesInHand
<1>3. CASE UNCHANGED tableVars /\ goto(t, "user", <<>>)
  BY <1>1, <1>3, ReturnsError
<1>4. \/ close_file({hand[t][1]}) /\ goto(t, "spawn", Tail(hand[t]))
      \/ UNCHANGED tableVars /\ goto(t, "user", <<>>)
  BY Zenon DEF exec_close
<1> QED
  BY <1>2, <1>3, <1>4

(* sys_close of a descriptor: what the program passes is open, and stays   *)
(* on the list of the task until current_remove_fd.                        *)
LEMMA SysCloseFd ==
    ASSUME IInv, NEW t \in Tasks, NEW n \in handles[t], sys_close_fd(t, n)
    PROVE  IInv'
<1>1. /\ pc[t] = "user" /\ status[t] = "live"
      /\ next_socket' = next_socket /\ sock_handles' = sock_handles
      /\ status' = status /\ fd_nums' = fd_nums /\ pipe_fd' = pipe_fd
      /\ handles' = [handles EXCEPT ![t] = @ \ {n}] /\ panicked' = panicked
      /\ close_number(t, n)
  BY DEF sys_close_fd, At, resourceVars
<1>2. TaskInv(t)
  BY Facts
<1>3. n \in fd_nums[t] /\ n \in DOMAIN fds
  BY <1>1, <1>2 DEF TaskInv
<1>4. close_file({n}) /\ goto(t, "remove_fd", <<n>>) /\ sockets' = sockets
  BY <1>1, <1>3 DEF close_number
<1>5. TableOK'
  BY <1>4, CloseTable DEF IInv
<1>6. DOMAIN fds' = DOMAIN fds \ {n} /\ next_fd' = next_fd
  BY Zenon, <1>4, CloseFds DEF IInv
<1>7. "remove_fd" \in Places /\ n \in Fd
  BY <1>3 DEF Places, IInv, CallType
<1>8. <<n>> \in Seq(Fd \cup {NoFd}) /\ Len(<<n>>) = 1 /\ <<n>>[1] = n
  BY <1>7
<1>9. /\ pc' \in [Tasks -> Places] /\ hand' \in [Tasks -> Seq(Fd \cup {NoFd})]
      /\ pc'[t] = "remove_fd" /\ hand'[t] = <<n>>
      /\ \A u \in Tasks \ {t} : pc'[u] = pc[u] /\ hand'[u] = hand[u]
  BY Zenon, <1>4, <1>7, <1>8, Facts, Goto
<1>10. /\ handles' \in [Tasks -> SUBSET Fd] /\ handles'[t] = handles[t] \ {n}
       /\ \A u \in Tasks \ {t} : handles'[u] = handles[u]
  BY <1>1 DEF IInv, CallType
<1>11. CallType' /\ SocketInv' /\ DropNeverPanics'
  BY <1>1, <1>4, <1>9, <1>10 DEF IInv, CallType, SocketInv, DropNeverPanics
<1>12. InFlight(t)' = {}
  BY <1>9 DEF InFlight
<1>13. next_fd' \in Nat /\ next_fd' >= next_fd
  BY <1>6, NumbersNat
<1>14. TaskInv(t)'
  <2>1. /\ \A m \in fd_nums[t] : m < next_fd'
        /\ \A m \in fd_nums[t] : m \in DOMAIN fds' \/ m = n
    BY <1>1, <1>2, <1>6 DEF TaskInv
  <2>2. /\ Len(hand'[t]) \in HandLens(pc'[t]) /\ hand'[t][1] = n
        /\ n \in fd_nums'[t] \ (handles'[t] \cup DOMAIN fds')
    BY <1>1, <1>3, <1>6, <1>8, <1>9, <1>10, HandLensOf
  <2>3. handles'[t] \subseteq fd_nums'[t]
    BY <1>1, <1>2, <1>10 DEF TaskInv
  <2> QED
    BY <1>1, <1>9, <1>12, <2>1, <2>2, <2>3 DEF TaskInv
<1>15. /\ \A m \in Holds(t)' : m \in Holds(t) \/ m >= next_fd
       /\ \A m \in DOMAIN fds : m \in DOMAIN fds' \/ m \in Holds(t)
       /\ \A m \in DOMAIN fds' : m \in DOMAIN fds \/ m >= next_fd
  BY <1>1, <1>3, <1>6, <1>12 DEF Holds
<1> QED
  BY Zenon, <1>1, <1>5, <1>9, <1>10, <1>11, <1>13, <1>14, <1>15, OwnStep

(* sys_close of a socket, while no descriptor has such a number.           *)
LEMMA SysCloseSocket ==
    ASSUME IInv, MaxFd <= FirstSocket, NEW t \in Tasks, NEW n \in sock_handles[t],
           sys_close_socket(t, n)
    PROVE  IInv'
<1>1. /\ pc[t] = "user" /\ status[t] = "live"
      /\ next_socket' = next_socket /\ sock_handles' = [sock_handles EXCEPT ![t] = @ \ {n}]
      /\ status' = status /\ fd_nums' = fd_nums /\ pipe_fd' = pipe_fd
      /\ handles' = handles /\ panicked' = panicked /\ close_number(t, n)
  BY DEF sys_close_socket, At, resourceVars
<1>2. n \notin DOMAIN fds
  <2>1. n >= FirstSocket /\ n \in Nat
    BY DEF IInv, SocketInv, CallType
  <2>2. n \notin Fd
    BY <2>1, NumbersAssumption DEF Fd, FirstFd
  <2> QED
    BY <2>2 DEF IInv, TableOK, TableType
<1>3. sockets' = sockets \ {n} /\ UNCHANGED <<tableVars, fd_nums>> /\ pc' = pc /\ hand' = hand
  BY <1>1, <1>2 DEF close_number
<1>4. /\ sock_handles' \in [Tasks -> SUBSET Nat]
      /\ \A u \in Tasks : sock_handles'[u] \subseteq sock_handles[u]
  BY <1>1 DEF IInv, CallType
<1>5. CallType' /\ SocketInv' /\ DropNeverPanics'
  BY <1>1, <1>3, <1>4 DEF IInv, CallType, SocketInv, DropNeverPanics
<1>6. /\ Len(hand'[t]) \in HandLens(pc'[t])
      /\ InFlight(t)' = InFlight(t)
  BY <1>1, <1>3, Facts DEF TaskInv, InFlight
<1> QED
  BY <1>1, <1>3, <1>5, <1>6, Quiet

(* current_remove_fd: the number that sys_close took out of the table.     *)
LEMMA CurrentRemoveFd ==
    ASSUME IInv, NEW t \in Tasks, current_remove_fd(t)
    PROVE  IInv'
<1>1. /\ pc[t] = "remove_fd" /\ status[t] = "live" /\ goto(t, "user", <<>>)
      /\ fd_nums' = [fd_nums EXCEPT ![t] = @ \ {hand[t][1]}]
      /\ fds' = fds /\ pipes' = pipes /\ created' = created /\ next_fd' = next_fd
      /\ sockets' = sockets /\ next_socket' = next_socket /\ sock_handles' = sock_handles
      /\ status' = status /\ pipe_fd' = pipe_fd /\ handles' = handles /\ panicked' = panicked
  BY DEF current_remove_fd, At, tableVars, socketVars
<1>2. /\ pc' \in [Tasks -> Places] /\ hand' \in [Tasks -> Seq(Fd \cup {NoFd})]
      /\ pc'[t] = "user" /\ hand'[t] = <<>>
      /\ \A u \in Tasks \ {t} : pc'[u] = pc[u] /\ hand'[u] = hand[u]
      /\ Len(hand'[t]) \in HandLens(pc'[t])
      /\ InFlight(t)' = {}
  BY <1>1, HandEmpty
<1>3. /\ fd_nums' \in [Tasks -> SUBSET Fd] /\ fd_nums'[t] = fd_nums[t] \ {hand[t][1]}
      /\ \A u \in Tasks \ {t} : fd_nums'[u] = fd_nums[u]
  BY <1>1 DEF IInv, CallType
<1>4. CallType' /\ SocketInv' /\ DropNeverPanics'
  BY <1>1, <1>2, <1>3 DEF IInv, CallType, SocketInv, DropNeverPanics
<1>5. TableOK'
  BY <1>1, TableSame DEF IInv
<1>6. TaskInv(t)'
  <2>1. TaskInv(t)
    BY Facts
  <2>2. /\ \A n \in fd_nums'[t] : n < next_fd /\ n \in DOMAIN fds
        /\ handles[t] \subseteq fd_nums'[t]
    BY <1>1, <1>3, <2>1 DEF TaskInv
  <2> QED
    BY <1>1, <1>2, <2>2 DEF TaskInv
<1>7. next_fd' \in Nat /\ next_fd' >= next_fd
  BY <1>1, NumbersNat
<1>8. Holds(t)' \subseteq Holds(t)
  BY <1>2, <1>3 DEF Holds
<1> QED
  BY <1>1, <1>2, <1>3, <1>4, <1>5, <1>6, <1>7, <1>8, OwnStep

(* What is left in hand after the first descriptor is handed over.         *)
LEMMA HandTail ==
    ASSUME NEW S, NEW h \in Seq(S), Len(h) \in {1, 2}
    PROVE  /\ Tail(h) \in Seq(S) /\ Len(Tail(h)) = Len(h) - 1
           /\ DOMAIN h = 1 .. Len(h) /\ DOMAIN Tail(h) = 1 .. Len(h) - 1
           /\ Len(h) = 2 => Tail(h)[1] = h[2]
<1>1. Tail(h) \in Seq(S) /\ Len(Tail(h)) = Len(h) - 1
  <2>1. CASE Len(h) = 1
    BY <2>1
  <2>2. CASE Len(h) = 2
    BY <2>2
  <2> QED
    BY <2>1, <2>2
<1>2. DOMAIN h = 1 .. Len(h) /\ DOMAIN Tail(h) = 1 .. Len(Tail(h))
  BY <1>1
<1>3. ASSUME Len(h) = 2 PROVE Tail(h)[1] = h[2]
  <2>1. \A i \in 1 .. Len(Tail(h)) : Tail(h)[i] = h[i + 1]
    OBVIOUS
  <2>2. 1 \in 1 .. Len(Tail(h))
    <3>1. Len(Tail(h)) = 1
      BY <1>1, <1>3
    <3> QED
      BY <3>1
  <2> QED
    BY <2>1, <2>2
<1> QED
  BY <1>1, <1>2, <1>3

(* current_add_fd: the first descriptor in hand is now on the list.        *)
LEMMA CurrentAddFd ==
    ASSUME IInv, NEW t \in Tasks, current_add_fd(t)
    PROVE  IInv'
<1> DEFINE where == IF Len(hand[t]) = 1 THEN "user" ELSE "add_fd"
           n == hand[t][1]
<1>1. /\ pc[t] = "add_fd" /\ status[t] = "live" /\ goto(t, where, Tail(hand[t]))
      /\ fd_nums' = [fd_nums EXCEPT ![t] = @ \cup {n}]
      /\ handles' = [handles EXCEPT ![t] = @ \cup {n}]
      /\ fds' = fds /\ pipes' = pipes /\ created' = created /\ next_fd' = next_fd
      /\ sockets' = sockets /\ next_socket' = next_socket /\ sock_handles' = sock_handles
      /\ status' = status /\ pipe_fd' = pipe_fd /\ panicked' = panicked
  BY DEF current_add_fd, At, tableVars, socketVars
<1>2. hand[t] \in Seq(Fd \cup {NoFd}) /\ Len(hand[t]) \in {1, 2}
  BY Zenon, <1>1, Facts, HandLensOf DEF TaskInv
<1>3. /\ Tail(hand[t]) \in Seq(Fd \cup {NoFd}) /\ Len(Tail(hand[t])) = Len(hand[t]) - 1
      /\ DOMAIN hand[t] = 1 .. Len(hand[t]) /\ DOMAIN Tail(hand[t]) = 1 .. Len(hand[t]) - 1
      /\ Len(hand[t]) = 2 => Tail(hand[t])[1] = hand[t][2]
  BY <1>2, HandTail
<1>4. where \in Places /\ where \in {"user", "add_fd"}
      /\ (Len(hand[t]) = 1 <=> where = "user")
  BY DEF Places
<1>5. InFlight(t) = {hand[t][i] : i \in 1 .. Len(hand[t])} /\ n \in InFlight(t)
  <2>1. InFlight(t) = {hand[t][i] : i \in DOMAIN hand[t]}
    BY <1>1 DEF InFlight
  <2>2. 1 \in DOMAIN hand[t]
    BY <1>2, <1>3
  <2> QED
    BY <1>3, <2>1, <2>2
<1>6. /\ n \in DOMAIN fds /\ n \notin fd_nums[t] /\ n \in Fd
  BY <1>5, Facts DEF TaskInv, TableOK, TableType
<1> HIDE DEF where, n
<1>7. /\ pc' \in [Tasks -> Places] /\ hand' \in [Tasks -> Seq(Fd \cup {NoFd})]
      /\ pc'[t] = where /\ hand'[t] = Tail(hand[t])
      /\ \A u \in Tasks \ {t} : pc'[u] = pc[u] /\ hand'[u] = hand[u]
  BY Zenon, <1>1, <1>3, <1>4, Facts, Goto
<1>8. /\ fd_nums' \in [Tasks -> SUBSET Fd] /\ fd_nums'[t] = fd_nums[t] \cup {n}
      /\ handles' \in [Tasks -> SUBSET Fd] /\ handles'[t] = handles[t] \cup {n}
      /\ \A u \in Tasks \ {t} : fd_nums'[u] = fd_nums[u] /\ handles'[u] = handles[u]
  BY <1>1, <1>6 DEF IInv, CallType
<1>9. CallType' /\ SocketInv' /\ DropNeverPanics'
  BY <1>1, <1>7, <1>8 DEF IInv, CallType, SocketInv, DropNeverPanics
<1>10. TableOK'
  BY <1>1, TableSame DEF IInv
<1>11. InFlight(t)' \subseteq InFlight(t) \ {n}
  <2>1. CASE Len(hand[t]) = 1
    <3>1. pc'[t] = "user"
      BY <1>4, <1>7, <2>1
    <3> QED
      BY <3>1 DEF InFlight
  <2>2. CASE Len(hand[t]) = 2
    <3>1. pc'[t] = "add_fd" /\ hand'[t] = Tail(hand[t]) /\ DOMAIN Tail(hand[t]) = {1}
      BY <1>3, <1>4, <1>7, <2>2
    <3>2. InFlight(t)' = {Tail(hand[t])[1]}
      BY Zenon, <3>1 DEF InFlight
    <3>3. hand[t][1] # hand[t][2] /\ hand[t][2] \in InFlight(t)
      BY <1>1, <1>5, <2>2, Facts DEF TaskInv
    <3> QED
      <4>1. Tail(hand[t])[1] = hand[t][2]
        BY <1>3, <2>2
      <4>2. n = hand[t][1]
        BY DEF n
      <4> QED
        BY <3>2, <3>3, <4>1, <4>2, Zenon
  <2> QED
    BY <1>2, <2>1, <2>2
<1>12. /\ Len(hand'[t]) \in HandLens(pc'[t]) /\ Len(hand'[t]) # 2
       /\ pc'[t] # "remove_fd"
  <2>1. CASE Len(hand[t]) = 1
    <3>1. Len(hand'[t]) = 0 /\ pc'[t] = "user"
      BY <1>3, <1>4, <1>7, <2>1
    <3> QED
      BY <3>1, HandLensOf
  <2>2. CASE Len(hand[t]) = 2
    <3>1. Len(hand'[t]) = 1 /\ pc'[t] = "add_fd"
      BY <1>3, <1>4, <1>7, <2>2
    <3> QED
      BY <3>1, HandLensOf
  <2> QED
    BY <1>2, <2>1, <2>2
<1>13. TaskInv(t)'
  <2>1. TaskInv(t)
    BY Facts
  <2>2. /\ \A m \in fd_nums'[t] : m < next_fd /\ m \in DOMAIN fds
        /\ handles'[t] \subseteq fd_nums'[t]
    BY <1>1, <1>6, <1>8, <2>1, Facts DEF TaskInv, TableOK, TableInv
  <2>3. InFlight(t)' \subseteq DOMAIN fds \ fd_nums'[t]
    BY <1>8, <1>11, <2>1 DEF TaskInv
  <2> QED
    BY <1>1, <1>7, <1>12, <2>2, <2>3 DEF TaskInv
<1>14. next_fd' \in Nat /\ next_fd' >= next_fd
  BY <1>1, NumbersNat
<1>15. Holds(t)' \subseteq Holds(t)
  BY <1>5, <1>8, <1>11 DEF Holds
<1> QED
  BY <1>1, <1>7, <1>8, <1>9, <1>10, <1>13, <1>14, <1>15, OwnStep

----------------------------------------------------------------------------
(* Reads and writes change what is in a pipe and nothing else.             *)
LEMMA PipeStep ==
    ASSUME IInv, NEW t \in Tasks, status[t] = "live", pc[t] \in {"user", "stdin"},
           TableOK', UNCHANGED <<fds, next_fd>>,
           UNCHANGED <<socketVars, resourceVars, handles, panicked>>,
           (UNCHANGED callVars /\ pc[t] = "user") \/ goto(t, "user", <<>>)
    PROVE  IInv'
<1>1. /\ sockets' = sockets /\ next_socket' = next_socket /\ sock_handles' = sock_handles
      /\ status' = status /\ fd_nums' = fd_nums /\ pipe_fd' = pipe_fd
      /\ handles' = handles /\ panicked' = panicked /\ fds' = fds /\ next_fd' = next_fd
  BY DEF socketVars, resourceVars
<1>2. /\ pc' \in [Tasks -> Places] /\ hand' \in [Tasks -> Seq(Fd \cup {NoFd})]
      /\ pc'[t] = "user" /\ Len(hand'[t]) \in HandLens(pc'[t])
      /\ \A u \in Tasks \ {t} : pc'[u] = pc[u] /\ hand'[u] = hand[u]
  <2>1. CASE UNCHANGED callVars /\ pc[t] = "user"
    <3>1. pc' = pc /\ hand' = hand
      BY <2>1 DEF callVars
    <3> QED
      BY <2>1, <3>1, Facts DEF CallType, TaskInv
  <2>2. CASE goto(t, "user", <<>>)
    BY <2>2, HandEmpty
  <2> QED
    BY <2>1, <2>2
<1>3. CallType' /\ SocketInv' /\ DropNeverPanics'
  BY <1>1, <1>2 DEF IInv, CallType, SocketInv, DropNeverPanics
<1>4. InFlight(t)' = {}
  BY <1>2 DEF InFlight
<1>5. TaskInv(t)'
  <2>1. TaskInv(t)
    BY Facts
  <2>2. /\ \A n \in fd_nums[t] : n < next_fd /\ n \in DOMAIN fds
        /\ handles[t] \subseteq fd_nums[t]
    BY <2>1 DEF TaskInv
  <2> QED
    BY <1>1, <1>2, <1>4, <2>2 DEF TaskInv
<1>6. next_fd' \in Nat /\ next_fd' >= next_fd
  BY <1>1, NumbersNat
<1>7. Holds(t)' \subseteq Holds(t)
  BY <1>1, <1>4 DEF Holds
<1> QED
  BY <1>1, <1>2, <1>3, <1>5, <1>6, <1>7, OwnStep

(* sys_read of a file, of a pipe or of a number nobody owns.               *)
LEMMA SysRead ==
    ASSUME IInv, NEW t \in Tasks, NEW n, NEW len \in ReadLens, sys_read(t, n, len)
    PROVE  IInv'
<1> DEFINE p == fds[n].backing
<1>1. /\ pc[t] = "user" /\ status[t] = "live" /\ p \in DOMAIN pipes /\ read_pipe(p, len)
      /\ UNCHANGED <<fds, created, next_fd>> /\ UNCHANGED callVars
      /\ UNCHANGED <<socketVars, resourceVars, handles, panicked>>
  BY DEF sys_read, At, IsPipe
<1> HIDE DEF p
<1>2. TableOK'
  BY <1>1, Facts, ReadPipe
<1> QED
  BY <1>1, <1>2, PipeStep

(* The turn of that loop that returns.                                     *)
LEMMA ReadStdin ==
    ASSUME IInv, NEW t \in Tasks, NEW len \in ReadLens, read_stdin(t, len)
    PROVE  IInv'
<1> DEFINE p == fds[pipe_fd[t][1]].backing
<1>1. /\ pc[t] = "stdin" /\ status[t] = "live" /\ goto(t, "user", <<>>)
      /\ UNCHANGED <<fds, created, next_fd>>
      /\ UNCHANGED <<socketVars, resourceVars, handles, panicked>>
      /\ (p \in DOMAIN pipes /\ read_pipe(p, len)) \/ UNCHANGED pipes
  BY DEF read_stdin, At, IsPipe
<1> HIDE DEF p
<1>2. TableOK'
  <2>1. CASE p \in DOMAIN pipes /\ read_pipe(p, len)
    BY <1>1, <2>1, Facts, ReadPipe
  <2>2. CASE UNCHANGED pipes
    BY <1>1, <2>2, Facts, TableSame
  <2> QED
    BY <1>1, <2>1, <2>2
<1> QED
  BY <1>1, <1>2, PipeStep

(* sys_write to a file, a pipe or a number nobody owns.                    *)
LEMMA SysWrite ==
    ASSUME IInv, NEW t \in Tasks, NEW n, sys_write(t, n)
    PROVE  IInv'
<1> DEFINE p == fds[n].backing
<1>1. /\ pc[t] = "user" /\ status[t] = "live" /\ p \in DOMAIN pipes /\ pipes[p].sent < MaxBytes
      /\ pipes' = [pipes EXCEPT ![p].buf = Append(@, pipes[p].sent + 1), ![p].sent = @ + 1]
      /\ UNCHANGED <<fds, created, next_fd>> /\ UNCHANGED callVars
      /\ UNCHANGED <<socketVars, resourceVars, handles, panicked>>
  BY DEF sys_write, At, IsPipe
<1> HIDE DEF p
<1>2. TableOK'
  BY Zenon, <1>1, Facts, WritePipe
<1> QED
  BY <1>1, <1>2, PipeStep

----------------------------------------------------------------------------
(* TaskResource::drop: what an exited task lists is open, and its own.     *)
LEMMA Drop ==
    ASSUME IInv, NEW t \in Tasks, drop(t)
    PROVE  IInv'
<1>1. TaskInv(t) /\ status[t] = "exited"
  BY Facts DEF drop
<1>2. pc[t] = "user" /\ fd_nums[t] \subseteq DOMAIN fds
  BY <1>1 DEF TaskInv
<1>3. /\ close_file(fd_nums[t])
      /\ status' = [status EXCEPT ![t] = "dropped"]
      /\ fd_nums' = [fd_nums EXCEPT ![t] = {}]
      /\ pipe_fd' = [pipe_fd EXCEPT ![t] = <<NoFd, NoFd>>]
      /\ panicked' = panicked
      /\ sockets' = sockets /\ next_socket' = next_socket /\ sock_handles' = sock_handles
      /\ pc' = pc /\ hand' = hand /\ handles' = handles
  BY <1>2 DEF drop, socketVars, callVars
<1>4. TableOK'
  BY <1>3, CloseTable DEF IInv
<1>5. DOMAIN fds' = DOMAIN fds \ fd_nums[t] /\ next_fd' = next_fd
  BY Zenon, <1>3, CloseFds DEF IInv
<1>6. /\ status' \in [Tasks -> {"none", "live", "exited", "dropped"}]
      /\ \A u \in Tasks \ {t} : status'[u] = status[u]
      /\ fd_nums' \in [Tasks -> SUBSET Fd] /\ fd_nums'[t] = {}
      /\ \A u \in Tasks \ {t} : fd_nums'[u] = fd_nums[u]
  BY <1>3 DEF IInv, CallType
<1>7. pipe_fd' \in [Tasks -> (Fd \cup {NoFd}) \X (Fd \cup {NoFd})]
  BY <1>3 DEF IInv, CallType
<1>8. CallType' /\ SocketInv' /\ DropNeverPanics'
  BY <1>3, <1>6, <1>7 DEF IInv, CallType, SocketInv, DropNeverPanics
<1>9. InFlight(t)' = {}
  BY <1>2, <1>3 DEF InFlight
<1>10. TaskInv(t)'
  <2>1. handles[t] = {} /\ Len(hand[t]) \in HandLens(pc[t])
    BY <1>1 DEF TaskInv
  <2>2. handles'[t] \subseteq fd_nums'[t]
    BY <1>3, <1>6, <2>1
  <2> QED
    BY <1>2, <1>3, <1>6, <1>9, <2>1, <2>2 DEF TaskInv
<1>11. next_fd' \in Nat /\ next_fd' >= next_fd
  BY <1>5, NumbersNat
<1>12. /\ Holds(t)' = {}
       /\ \A n \in DOMAIN fds : n \in DOMAIN fds' \/ n \in Holds(t)
       /\ \A n \in DOMAIN fds' : n \in DOMAIN fds
  BY <1>5, <1>6, <1>9 DEF Holds
<1> QED
  BY <1>3, <1>4, <1>6, <1>8, <1>10, <1>11, <1>12, OwnStep

----------------------------------------------------------------------------
(* The invariant holds when no task has opened anything.                   *)
LEMMA InitIInv ==
    ASSUME Init
    PROVE  IInv
<1>1. /\ next_socket = FirstSocket /\ sockets = {}
      /\ fd_nums = [t \in Tasks |-> {}] /\ pipe_fd = [t \in Tasks |-> <<NoFd, NoFd>>]
      /\ pc = [t \in Tasks |-> "user"] /\ hand = [t \in Tasks |-> <<>>]
      /\ handles = [t \in Tasks |-> {}] /\ sock_handles = [t \in Tasks |-> {}]
      /\ panicked = FALSE
      /\ status \in [Tasks -> {"none", "live", "exited", "dropped"}]
  BY DEF Init
<1>3. TableOK
  BY InitTable
<1>4. CallType
  <2>1. pc \in [Tasks -> Places] /\ fd_nums \in [Tasks -> SUBSET Fd]
    BY <1>1 DEF Places
  <2>2. pipe_fd \in [Tasks -> (Fd \cup {NoFd}) \X (Fd \cup {NoFd})]
    BY <1>1
  <2>3. hand \in [Tasks -> Seq(Fd \cup {NoFd})]
    BY <1>1
  <2>4. handles \in [Tasks -> SUBSET Fd] /\ sock_handles \in [Tasks -> SUBSET Nat]
    BY <1>1
  <2>5. next_socket \in Nat /\ sockets \subseteq Nat /\ panicked \in BOOLEAN
    BY Zenon, <1>1, NumbersAssumption
  <2> QED
    BY <1>1, <2>1, <2>2, <2>3, <2>4, <2>5 DEF CallType
<1>5. SocketInv /\ DropNeverPanics
  BY <1>1, NumbersAssumption DEF SocketInv, DropNeverPanics
<1>6. ASSUME NEW t \in Tasks PROVE InFlight(t) = {} /\ fd_nums[t] = {} /\ TaskInv(t)
  <2>1. pc[t] = "user" /\ hand[t] = <<>> /\ handles[t] = {} /\ fd_nums[t] = {}
    BY <1>1
  <2>2. InFlight(t) = {}
    BY <2>1 DEF InFlight
  <2>3. Len(hand[t]) \in HandLens(pc[t])
    <3>1. Len(hand[t]) = 0
      BY <2>1
    <3> QED
      BY <2>1, <3>1, HandLensOf
  <2> QED
    BY <2>1, <2>2, <2>3 DEF TaskInv
<1> QED
  BY <1>3, <1>4, <1>5, <1>6 DEF IInv, Holds

(* A step of the rest of the system changes nothing.                       *)
LEMMA Stutter ==
    ASSUME IInv, UNCHANGED vars
    PROVE  IInv'
<1>1. /\ fds' = fds /\ pipes' = pipes /\ created' = created /\ next_fd' = next_fd
      /\ sockets' = sockets /\ next_socket' = next_socket /\ sock_handles' = sock_handles
      /\ status' = status /\ fd_nums' = fd_nums /\ pipe_fd' = pipe_fd
      /\ pc' = pc /\ hand' = hand /\ handles' = handles /\ panicked' = panicked
  BY DEF vars, tableVars, socketVars, resourceVars, callVars
<1>2. TableOK'
  BY <1>1, TableSame DEF IInv
<1>3. CallType' /\ SocketInv' /\ DropNeverPanics'
  BY <1>1 DEF IInv, CallType, SocketInv, DropNeverPanics
<1>4. \A t \in Tasks : InFlight(t)' = InFlight(t)
  <2>1. pc' = pc /\ hand' = hand
    BY <1>1
  <2> QED
    BY <2>1, Zenon DEF InFlight
<1>5. \A t \in Tasks : Holds(t)' = Holds(t) /\ TaskInv(t)'
  <2> TAKE t \in Tasks
  <2>1. TaskInv(t) /\ InFlight(t)' = InFlight(t)
    BY <1>4 DEF IInv
  <2>2. Holds(t)' = Holds(t)
    BY <1>1, <2>1, Zenon DEF Holds
  <2>3. TaskInv(t)'
    BY <1>1, <2>1, Zenon DEF TaskInv
  <2> QED
    BY <2>2, <2>3
<1> QED
  BY <1>2, <1>3, <1>5 DEF IInv

(* One step of any task.  The only place where the numbers of descriptors  *)
(* and of sockets have to differ is sys_close of a socket.                 *)
LEMMA NextIInv ==
    ASSUME MaxFd <= FirstSocket, IInv, [Next]_vars
    PROVE  IInv'
<1>1. CASE UNCHANGED vars
  BY <1>1, Stutter
<1>2. CASE Next
  <2>1. PICK t \in Tasks :
        \/ \E p \in Path, create \in BOOLEAN : sys_open(t, p, create)
        \/ device_open(t)
        \/ current_add_fd(t)
        \/ sys_pipe(t)
        \/ sys_socket(t)
        \/ \E n \in handles[t] : sys_close_fd(t, n)
        \/ \E n \in sock_handles[t] : sys_close_socket(t, n)
        \/ current_remove_fd(t)
        \/ \E n \in handles[t], len \in ReadLens : sys_read(t, n, len)
        \/ sys_read_stdin(t)
        \/ \E len \in ReadLens : read_stdin(t, len)
        \/ \E n \in handles[t] \cup {pipe_fd[t][2]} : sys_write(t, n)
        \/ \E p \in Path, in, out \in handles[t] \cup {NoFd} : sys_exec(t, p, in, out)
        \/ exec_read(t)
        \/ exec_close(t)
        \/ \E c \in Tasks : spawn_user_task(t, c)
        \/ spawn_error(t)
        \/ exit_current(t)
        \/ drop(t)
    BY <1>2, Zenon DEF Next
  <2>2. CASE \E p \in Path, create \in BOOLEAN : sys_open(t, p, create)
    BY <2>2, SysOpen
  <2>3. CASE device_open(t)
    BY <2>3, DeviceOpen
  <2>4. CASE current_add_fd(t)
    BY <2>4, CurrentAddFd
  <2>5. CASE sys_pipe(t)
    BY <2>5, SysPipe
  <2>6. CASE sys_socket(t)
    BY <2>6, SysSocket
  <2>7. CASE \E n \in handles[t] : sys_close_fd(t, n)
    BY <2>7, SysCloseFd
  <2>8. CASE \E n \in sock_handles[t] : sys_close_socket(t, n)
    BY <2>8, SysCloseSocket
  <2>9. CASE current_remove_fd(t)
    BY <2>9, CurrentRemoveFd
  <2>10. CASE \E n \in handles[t], len \in ReadLens : sys_read(t, n, len)
    BY <2>10, SysRead
  <2>11. CASE sys_read_stdin(t)
    BY <2>11, SysReadStdin
  <2>12. CASE \E len \in ReadLens : read_stdin(t, len)
    BY <2>12, ReadStdin
  <2>13. CASE \E n \in handles[t] \cup {pipe_fd[t][2]} : sys_write(t, n)
    BY <2>13, SysWrite
  <2>14. CASE \E p \in Path, in, out \in handles[t] \cup {NoFd} : sys_exec(t, p, in, out)
    BY <2>14, SysExec
  <2>15. CASE exec_read(t)
    BY <2>15, ExecRead
  <2>16. CASE exec_close(t)
    BY <2>16, ExecClose
  <2>17. CASE \E c \in Tasks : spawn_user_task(t, c)
    BY <2>17, SpawnUserTask
  <2>18. CASE spawn_error(t)
    <3>1. pc[t] = "spawn" /\ goto(t, "user", <<>>)
          /\ UNCHANGED <<tableVars, socketVars, resourceVars, handles, panicked>>
      BY <2>18 DEF spawn_error, At
    <3> QED
      BY <3>1, ReturnsError
  <2>19. CASE exit_current(t)
    BY <2>19, ExitCurrent
  <2>20. CASE drop(t)
    BY <2>20, Drop
  <2> QED
    BY <2>1, <2>2, <2>3, <2>4, <2>5, <2>6, <2>7, <2>8, <2>9, <2>10, <2>11, <2>12, <2>13,
       <2>14, <2>15, <2>16, <2>17, <2>18, <2>19, <2>20, Zenon
<1> QED
  BY <1>1, <1>2

(* What the invariant says of descriptors, in the words of the run.        *)
LEMMA IInvOwned ==
    ASSUME IInv
    PROVE  FilesOwned
<1>1. TypeOK /\ ExclusiveOpen
  BY DEF IInv, TableOK, TypeOK
<1>2. ASSUME NEW t \in Tasks, NEW u \in Tasks
      PROVE  /\ t # u => (fd_nums[t] \cup InFlight(t)) \cap (fd_nums[u] \cup InFlight(u)) = {}
             /\ InFlight(t) \cap fd_nums[t] = {}
             /\ pc[t] = "remove_fd" => hand[t][1] \notin DOMAIN fds \cup fd_nums[u] \/ u = t
  <2>1. t # u => (fd_nums[t] \cup InFlight(t)) \cap (fd_nums[u] \cup InFlight(u)) = {}
    BY DEF IInv, Holds
  <2>2. TaskInv(t)
    BY DEF IInv
  <2>3. InFlight(t) \cap fd_nums[t] = {}
    BY <2>2 DEF TaskInv
  <2>4. pc[t] = "remove_fd" => hand[t][1] \in fd_nums[t] \ DOMAIN fds
    BY <2>2 DEF TaskInv
  <2> QED
    BY <2>1, <2>3, <2>4
<1>3. OneOwner
  BY <1>2 DEF OneOwner
<1> QED
  BY <1>1, <1>3 DEF FilesOwned

(* While descriptor numbers stay below the first socket id, the unwrap of  *)
(* TaskResource::drop never fails, whatever the tasks open, close, start   *)
(* and leave open when they exit.                                          *)
THEOREM DropIsSafe ==
    ASSUME MaxFd <= FirstSocket
    PROVE  Spec => []DropNeverPanics
<1>1. Init => IInv
  BY InitIInv
<1>2. IInv /\ [Next]_vars => IInv'
  BY NextIInv
<1>3. IInv => DropNeverPanics
  BY DEF IInv
<1> QED
  BY <1>1, <1>2, <1>3, PTL DEF Spec

(* Every open descriptor has at most one task, or one system call on its   *)
(* way, that will close it, and devices and created files are open once:   *)
(* close_file never meets a number that another task has closed.           *)
THEOREM DescriptorsHaveOneOwner ==
    ASSUME MaxFd <= FirstSocket
    PROVE  Spec => []FilesOwned
<1>1. Init => IInv
  BY InitIInv
<1>2. IInv /\ [Next]_vars => IInv'
  BY NextIInv
<1>3. IInv => FilesOwned
  BY IInvOwned
<1> QED
  BY <1>1, <1>2, <1>3, PTL DEF Spec
=============================================================================
