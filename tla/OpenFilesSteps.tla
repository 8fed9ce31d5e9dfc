-------------------------- MODULE OpenFilesSteps ---------------------------
(***************************************************************************)
(* Opening, starting programs, exiting and the calls that only move on     *)
(* keep the inductive invariant IInv of OpenFiles.  The other steps are in *)
(* OpenFilesProofs.                                                        *)
(***************************************************************************)
EXTENDS OpenFilesTable

(* Who holds what.                                                         *)

(* A step of task t that opens new descriptors and closes only its own     *)
(* disturbs no other task.                                                 *)
LEMMA OwnStep ==
    ASSUME IInv, NEW t \in Tasks,
           \A u \in Tasks \ {t} :
             /\ fd_nums'[u] = fd_nums[u] /\ handles'[u] = handles[u]
             /\ pc'[u] = pc[u] /\ hand'[u] = hand[u]
             /\ status'[u] # "live" => status[u] # "live",
           next_fd' \in Nat, next_fd' >= next_fd,
           \A n \in DOMAIN fds : n \in DOMAIN fds' \/ n \in Holds(t),
           \A n \in DOMAIN fds' : n \in DOMAIN fds \/ n >= next_fd,
           \A n \in Holds(t)' : n \in Holds(t) \/ n >= next_fd,
           TaskInv(t)', TableOK', CallType', SocketInv', DropNeverPanics'
    PROVE  IInv'
<1>1. ASSUME NEW u \in Tasks \ {t} PROVE InFlight(u)' = InFlight(u) /\ Holds(u)' = Holds(u)
  <2>1. pc'[u] = pc[u] /\ hand'[u] = hand[u] /\ fd_nums'[u] = fd_nums[u]
    OBVIOUS
  <2>2. InFlight(u)' = InFlight(u)
    BY <2>1, Zenon DEF InFlight
  <2> QED
    BY <2>1, <2>2 DEF Holds
<1>2. next_fd \in Nat /\ \A u \in Tasks : \A n \in Holds(u) : n \in Nat /\ n < next_fd
  <2>1. next_fd \in Nat /\ \A n \in DOMAIN fds : n \in Nat /\ n < next_fd
    BY NumbersAssumption DEF IInv, TableOK, TableType, TableInv, Fd, FirstFd
  <2>2. ASSUME NEW u \in Tasks, NEW n \in fd_nums[u] PROVE n \in Nat /\ n < next_fd
    BY NumbersAssumption DEF IInv, CallType, TaskInv, Fd, FirstFd
  <2>3. \A u \in Tasks : InFlight(u) \subseteq DOMAIN fds
    BY DEF IInv, TaskInv
  <2> QED
    BY <2>1, <2>2, <2>3 DEF Holds
<1>3. \A u \in Tasks \ {t} : Holds(t) \cap Holds(u) = {}
  BY DEF IInv
<1>4. ASSUME NEW u \in Tasks \ {t} PROVE TaskInv(u)'
  <2>1. TaskInv(u)
    BY DEF IInv
  <2>2. /\ fd_nums'[u] = fd_nums[u] /\ handles'[u] = handles[u]
        /\ pc'[u] = pc[u] /\ hand'[u] = hand[u]
        /\ status'[u] # "live" => status[u] # "live"
    OBVIOUS
  <2>3. \A n \in fd_nums[u] \cup InFlight(u) : n \in DOMAIN fds <=> n \in DOMAIN fds'
    BY <1>2, <1>3 DEF Holds
  <2>4. \A n \in fd_nums[u] : n < next_fd'
    BY <1>2 DEF Holds
  <2>5. InFlight(u)' \subseteq DOMAIN fds' \ fd_nums'[u]
    BY <1>1, <2>1, <2>2, <2>3 DEF TaskInv
  <2> QED
    BY <2>1, <2>2, <2>3, <2>4, <2>5 DEF TaskInv
<1>5. \A u \in Tasks \ {t} : Holds(t)' \cap Holds(u)' = {}
  BY <1>1, <1>2, <1>3
<1>6. \A u, v \in Tasks : u # v => Holds(u)' \cap Holds(v)' = {}
  BY <1>1, <1>5 DEF IInv
<1> QED
  BY <1>4, <1>6 DEF IInv

(* A call of one task that moves on leaves the calls of the others alone.  *)
LEMMA Goto ==
    ASSUME CallType, NEW t \in Tasks, NEW where \in Places, NEW held \in Seq(Fd \cup {NoFd}),
           goto(t, where, held)
    PROVE  /\ pc' \in [Tasks -> Places] /\ hand' \in [Tasks -> Seq(Fd \cup {NoFd})]
           /\ pc'[t] = where /\ hand'[t] = held
           /\ \A u \in Tasks \ {t} : pc'[u] = pc[u] /\ hand'[u] = hand[u]
BY DEF CallType, goto

(* How many descriptors a call holds at each of its steps.                 *)
LEMMA HandLensOf ==
    /\ HandLens("user") = {0} /\ HandLens("stdin") = {0} /\ HandLens("dev_open") = {1, 3}
    /\ HandLens("add_fd") = {1, 2} /\ HandLens("remove_fd") = {1}
    /\ HandLens("exec_read") = {3} /\ HandLens("exec_close") = {3} /\ HandLens("spawn") = {2}
BY DEF HandLens

(* A step that leaves the table and the lists of descriptors alone.        *)
LEMMA Quiet ==
    ASSUME IInv, NEW t \in Tasks, UNCHANGED <<tableVars, fd_nums>>,
           CallType', SocketInv', DropNeverPanics',
           \A u \in Tasks \ {t} :
             /\ handles'[u] = handles[u] /\ pc'[u] = pc[u] /\ hand'[u] = hand[u]
             /\ status'[u] # "live" => status[u] # "live",
           pc[t] # "remove_fd", pc'[t] # "remove_fd",
           handles'[t] \subseteq handles[t],
           status'[t] # "live" => pc'[t] = "user" /\ handles'[t] = {},
           Len(hand'[t]) \in HandLens(pc'[t]),
           pc'[t] = "add_fd" => Len(hand'[t]) = 1,
           InFlight(t)' \subseteq InFlight(t)
    PROVE  IInv'
<1>1. fds' = fds /\ pipes' = pipes /\ created' = created /\ next_fd' = next_fd /\ fd_nums' = fd_nums
  BY DEF tableVars
<1>2. TableOK'
  BY <1>1, TableSame DEF IInv
<1>3. TaskInv(t)'
  <2>1. TaskInv(t)
    BY DEF IInv
  <2>2. handles'[t] \subseteq fd_nums[t] /\ InFlight(t)' \subseteq DOMAIN fds \ fd_nums[t]
    BY <2>1 DEF TaskInv
  <2>3. /\ \A n \in fd_nums[t] : n < next_fd
        /\ \A n \in fd_nums[t] : n \in DOMAIN fds
    BY <2>1 DEF TaskInv
  <2> QED
    BY <1>1, <2>2, <2>3 DEF TaskInv
<1>4. next_fd' \in Nat /\ next_fd' >= next_fd
  BY <1>1, NumbersAssumption DEF IInv, TableOK, TableType, FirstFd
<1>5. Holds(t)' \subseteq Holds(t)
  BY <1>1 DEF Holds
<1> QED
  BY <1>1, <1>2, <1>3, <1>4, <1>5, OwnStep

(* What the steps need of the invariant, for one task.                     *)
LEMMA Facts ==
    ASSUME IInv, NEW t \in Tasks
    PROVE  /\ CallType /\ TableOK /\ TaskInv(t) /\ SocketInv
           /\ hand[t] \in Seq(Fd \cup {NoFd}) /\ pc[t] \in Places
           /\ <<>> \in Seq(Fd \cup {NoFd})
BY DEF IInv, CallType

(* device_open of an ordinary file changes nothing and goes on.            *)
LEMMA DeviceOpenGoesOn ==
    ASSUME IInv, NEW t \in Tasks, device_open(t), UNCHANGED tableVars,
           goto(t, IF Len(hand[t]) = 1 THEN "add_fd" ELSE "exec_read", hand[t])
    PROVE  IInv'
<1>1. /\ pc[t] = "dev_open" /\ status[t] = "live"
      /\ sockets' = sockets /\ next_socket' = next_socket /\ sock_handles' = sock_handles
      /\ status' = status /\ fd_nums' = fd_nums /\ pipe_fd' = pipe_fd
      /\ handles' = handles /\ panicked' = panicked
  BY DEF device_open, At, socketVars, resourceVars
<1> DEFINE where == IF Len(hand[t]) = 1 THEN "add_fd" ELSE "exec_read"
<1>2. where \in Places /\ goto(t, where, hand[t])
  BY DEF Places
<1> HIDE DEF where
<1>3. /\ pc' \in [Tasks -> Places] /\ hand' \in [Tasks -> Seq(Fd \cup {NoFd})]
      /\ pc'[t] = where /\ hand'[t] = hand[t]
      /\ \A u \in Tasks \ {t} : pc'[u] = pc[u] /\ hand'[u] = hand[u]
  BY <1>2, Facts, Goto
<1>4. CallType' /\ SocketInv' /\ DropNeverPanics'
  BY <1>1, <1>3 DEF IInv, CallType, SocketInv, DropNeverPanics
<1>5. Len(hand[t]) \in {1, 3}
  BY Zenon, <1>1, Facts, HandLensOf DEF TaskInv
<1>6. /\ Len(hand'[t]) \in HandLens(pc'[t])
      /\ pc'[t] = "add_fd" => Len(hand'[t]) = 1
      /\ pc'[t] \in {"add_fd", "exec_read"}
  BY Zenon, <1>3, <1>5, HandLensOf DEF where
<1>7. InFlight(t) = {hand[t][1]}
  BY <1>1 DEF InFlight
<1>8. InFlight(t)' \subseteq InFlight(t)
  <2>1. CASE pc'[t] = "add_fd"
    <3>1. Len(hand'[t]) = 1 /\ hand'[t] \in Seq(Fd \cup {NoFd})
      BY <1>3, <1>6, <2>1, Facts
    <3>2. DOMAIN hand'[t] = {1}
      BY <3>1
    <3> QED
      BY <1>3, <1>7, <2>1, <3>2 DEF InFlight
  <2>2. CASE pc'[t] = "exec_read"
    BY Zenon, <1>3, <1>7, <2>2 DEF InFlight
  <2> QED
    BY <1>6, <2>1, <2>2
<1> QED
  BY <1>1, <1>3, <1>4, <1>6, <1>8, Quiet

(* A call that ends, or waits, with nothing in hand.                       *)
LEMMA HandEmpty ==
    ASSUME IInv, NEW t \in Tasks, NEW where \in {"user", "stdin"}, goto(t, where, <<>>)
    PROVE  /\ pc' \in [Tasks -> Places] /\ hand' \in [Tasks -> Seq(Fd \cup {NoFd})]
           /\ pc'[t] = where /\ hand'[t] = <<>>
           /\ \A u \in Tasks \ {t} : pc'[u] = pc[u] /\ hand'[u] = hand[u]
           /\ Len(hand'[t]) \in HandLens(pc'[t])
           /\ InFlight(t)' = {}
<1>1. where \in Places
  BY DEF Places
<1>2. /\ pc' \in [Tasks -> Places] /\ hand' \in [Tasks -> Seq(Fd \cup {NoFd})]
      /\ pc'[t] = where /\ hand'[t] = <<>>
      /\ \A u \in Tasks \ {t} : pc'[u] = pc[u] /\ hand'[u] = hand[u]
  BY Zenon, <1>1, Facts, Goto
<1>3. Len(hand'[t]) \in HandLens(pc'[t])
  <2>1. Len(hand'[t]) = 0
    BY <1>2
  <2> QED
    BY <1>2, <2>1, HandLensOf
<1>4. InFlight(t)' = {}
  BY <1>2 DEF InFlight
<1> QED
  BY <1>2, <1>3, <1>4

(* A call that ends, or waits for input, without opening or closing        *)
(* anything.                                                               *)
LEMMA QuietEnd ==
    ASSUME IInv, NEW t \in Tasks, NEW where \in {"user", "stdin"}, goto(t, where, <<>>),
           pc[t] # "remove_fd", where = "stdin" => status'[t] = "live",
           status'[t] # "live" => handles'[t] = {},
           UNCHANGED <<tableVars, fd_nums, sockets, next_socket, panicked>>,
           status' \in [Tasks -> {"none", "live", "exited", "dropped"}],
           \A u \in Tasks \ {t} : status'[u] # "live" => status[u] # "live",
           pipe_fd' \in [Tasks -> (Fd \cup {NoFd}) \X (Fd \cup {NoFd})],
           handles' = handles \/ handles' = [handles EXCEPT ![t] = {}],
           sock_handles' = sock_handles \/ sock_handles' = [sock_handles EXCEPT ![t] = {}]
    PROVE  IInv'
<1>1. /\ pc' \in [Tasks -> Places] /\ hand' \in [Tasks -> Seq(Fd \cup {NoFd})]
      /\ pc'[t] = where /\ hand'[t] = <<>>
      /\ \A u \in Tasks \ {t} : pc'[u] = pc[u] /\ hand'[u] = hand[u]
      /\ Len(hand'[t]) \in HandLens(pc'[t])
      /\ InFlight(t)' = {}
  BY HandEmpty
<1>2. /\ handles' \in [Tasks -> SUBSET Fd]
      /\ handles'[t] \subseteq handles[t]
      /\ \A u \in Tasks \ {t} : handles'[u] = handles[u]
  BY Zenon DEF IInv, CallType
<1>3. /\ sock_handles' \in [Tasks -> SUBSET Nat]
      /\ \A u \in Tasks : sock_handles'[u] \subseteq sock_handles[u]
  BY Zenon DEF IInv, CallType
<1>4. CallType' /\ SocketInv' /\ DropNeverPanics'
  BY <1>1, <1>2, <1>3 DEF IInv, CallType, SocketInv, DropNeverPanics
<1> QED
  BY Zenon, <1>1, <1>2, <1>4, Quiet

(* sys_read of a standard input that is a pipe enters its loop.            *)
LEMMA SysReadStdin ==
    ASSUME IInv, NEW t \in Tasks, sys_read_stdin(t)
    PROVE  IInv'
<1>1. /\ goto(t, "stdin", <<>>) /\ pc[t] = "user" /\ status[t] = "live"
      /\ UNCHANGED <<tableVars, fd_nums, sockets, next_socket, panicked>>
      /\ status' = status /\ pipe_fd' = pipe_fd /\ handles' = handles /\ sock_handles' = sock_handles
  BY DEF sys_read_stdin, At, socketVars, resourceVars
<1>2. status \in [Tasks -> {"none", "live", "exited", "dropped"}]
      /\ pipe_fd \in [Tasks -> (Fd \cup {NoFd}) \X (Fd \cup {NoFd})]
  BY DEF IInv, CallType
<1> QED
  BY <1>1, <1>2, QuietEnd

(* exec_elf returns with an error and has closed nothing, or has nothing   *)
(* to close; Task::new fails.                                              *)
LEMMA ReturnsError ==
    ASSUME IInv, NEW t \in Tasks, pc[t] # "remove_fd", goto(t, "user", <<>>),
           UNCHANGED <<tableVars, socketVars, resourceVars, handles, panicked>>
    PROVE  IInv'
<1>1. /\ UNCHANGED <<tableVars, fd_nums, sockets, next_socket, panicked>>
      /\ status' = status /\ pipe_fd' = pipe_fd /\ handles' = handles /\ sock_handles' = sock_handles
  BY DEF socketVars, resourceVars
<1>2. status \in [Tasks -> {"none", "live", "exited", "dropped"}]
      /\ pipe_fd \in [Tasks -> (Fd \cup {NoFd}) \X (Fd \cup {NoFd})]
  BY DEF IInv, CallType
<1>3. status[t] # "live" => handles[t] = {}
  BY Facts DEF TaskInv
<1> QED
  BY <1>1, <1>2, <1>3, QuietEnd

(* sys_exec has read the program, or returns with an error.                *)
LEMMA ExecRead ==
    ASSUME IInv, NEW t \in Tasks, exec_read(t)
    PROVE  IInv'
<1>1. /\ pc[t] = "exec_read" /\ status[t] = "live"
      /\ UNCHANGED <<tableVars, socketVars, resourceVars, handles, panicked>>
      /\ goto(t, "exec_close", hand[t]) \/ goto(t, "user", <<>>)
  BY DEF exec_read, At
<1>2. CASE goto(t, "user", <<>>)
  BY <1>1, <1>2, ReturnsError
<1>3. CASE goto(t, "exec_close", hand[t])
  <2>1. "exec_close" \in Places
    BY DEF Places
  <2>2. /\ pc' \in [Tasks -> Places] /\ hand' \in [Tasks -> Seq(Fd \cup {NoFd})]
        /\ pc'[t] = "exec_close" /\ hand'[t] = hand[t]
        /\ \A u \in Tasks \ {t} : pc'[u] = pc[u] /\ hand'[u] = hand[u]
    BY <1>3, <2>1, Facts, Goto
  <2>3. /\ sockets' = sockets /\ next_socket' = next_socket /\ sock_handles' = sock_handles
        /\ status' = status /\ fd_nums' = fd_nums /\ pipe_fd' = pipe_fd
        /\ handles' = handles /\ panicked' = panicked /\ UNCHANGED <<tableVars, fd_nums>>
    BY <1>1 DEF socketVars, resourceVars
  <2>4. CallType' /\ SocketInv' /\ DropNeverPanics'
    BY <2>2, <2>3 DEF IInv, CallType, SocketInv, DropNeverPanics
  <2>5. Len(hand'[t]) \in HandLens(pc'[t])
    BY <1>1, <2>2, Facts, HandLensOf DEF TaskInv
  <2>6. InFlight(t)' \subseteq InFlight(t)
    BY <1>1, <2>2 DEF InFlight
  <2> QED
    BY <1>1, <2>2, <2>3, <2>4, <2>5, <2>6, Quiet
<1> QED
  BY <1>1, <1>2, <1>3

(* Two descriptors in hand are a pair of them.                             *)
LEMMA Pair ==
    ASSUME NEW S, NEW h \in Seq(S), Len(h) = 2
    PROVE  h \in S \X S
<1>1. h \in [1 .. 2 -> S]
  OBVIOUS
<1>2. h[1] \in S /\ h[2] \in S
  BY <1>1
<1>3. h = <<h[1], h[2]>>
  OBVIOUS
<1> QED
  BY <1>2, <1>3

(* The new task is given two ends to use and owns none of them.            *)
LEMMA SpawnUserTask ==
    ASSUME IInv, NEW t \in Tasks, NEW c \in Tasks, spawn_user_task(t, c)
    PROVE  IInv'
<1>1. /\ pc[t] = "spawn" /\ status[t] = "live" /\ goto(t, "user", <<>>)
      /\ status' = [status EXCEPT ![c] = "live"]
      /\ pipe_fd' = [pipe_fd EXCEPT ![c] = hand[t]]
      /\ UNCHANGED <<tableVars, fd_nums, sockets, next_socket, panicked>>
      /\ handles' = handles /\ sock_handles' = sock_handles
  BY DEF spawn_user_task, At, socketVars
<1>2. /\ status' \in [Tasks -> {"none", "live", "exited", "dropped"}]
      /\ \A u \in Tasks : status'[u] # "live" => status[u] # "live"
  BY <1>1 DEF IInv, CallType
<1>3. hand[t] \in (Fd \cup {NoFd}) \X (Fd \cup {NoFd})
  <2>1. hand[t] \in Seq(Fd \cup {NoFd}) /\ Len(hand[t]) = 2
    BY Zenon, <1>1, Facts, HandLensOf DEF TaskInv
  <2> QED
    BY <2>1, Pair
<1>4. pipe_fd' \in [Tasks -> (Fd \cup {NoFd}) \X (Fd \cup {NoFd})]
  BY <1>1, <1>3 DEF IInv, CallType
<1> QED
  BY <1>1, <1>2, <1>4, QuietEnd

(* A task that exits keeps its descriptors until it is dropped.            *)
LEMMA ExitCurrent ==
    ASSUME IInv, NEW t \in Tasks, exit_current(t)
    PROVE  IInv'
<1>1. /\ pc[t] \in {"user", "stdin"} /\ goto(t, "user", <<>>)
      /\ status' = [status EXCEPT ![t] = "exited"]
      /\ UNCHANGED <<tableVars, fd_nums, sockets, next_socket, panicked>>
      /\ pipe_fd' = pipe_fd
      /\ handles' = [handles EXCEPT ![t] = {}] /\ sock_handles' = [sock_handles EXCEPT ![t] = {}]
  BY DEF exit_current, At
<1>2. /\ status' \in [Tasks -> {"none", "live", "exited", "dropped"}]
      /\ \A u \in Tasks \ {t} : status'[u] # "live" => status[u] # "live"
      /\ pipe_fd' \in [Tasks -> (Fd \cup {NoFd}) \X (Fd \cup {NoFd})]
  BY <1>1 DEF IInv, CallType
<1>3. handles'[t] = {}
  BY <1>1 DEF IInv, CallType
<1> QED
  BY Zenon, <1>1, <1>2, <1>3, QuietEnd

(* sys_socket takes a number that no descriptor has.                       *)
LEMMA SysSocket ==
    ASSUME IInv, NEW t \in Tasks, sys_socket(t)
    PROVE  IInv'
<1>1. /\ pc[t] = "user" /\ status[t] = "live"
      /\ next_socket' = next_socket + 1 /\ sockets' = sockets \cup {next_socket}
      /\ sock_handles' = [sock_handles EXCEPT ![t] = @ \cup {next_socket}]
      /\ UNCHANGED <<tableVars, fd_nums>>
      /\ status' = status /\ pipe_fd' = pipe_fd /\ fd_nums' = fd_nums
      /\ handles' = handles /\ pc' = pc /\ hand' = hand /\ panicked' = panicked
  BY DEF sys_socket, At, resourceVars, callVars
<1>2. /\ next_socket \in Nat /\ next_socket' \in Nat /\ FirstSocket \in Nat
      /\ next_socket' >= FirstSocket /\ next_socket >= FirstSocket
  BY <1>1, NumbersAssumption DEF IInv, CallType, SocketInv
<1>3. /\ sock_handles' \in [Tasks -> SUBSET Nat]
      /\ \A u \in Tasks : \A n \in sock_handles'[u] : n \in sock_handles[u] \/ n = next_socket
  BY <1>1, <1>2 DEF IInv, CallType
<1>4. CallType'
  BY <1>1, <1>2, <1>3 DEF IInv, CallType
<1>5. SocketInv' /\ DropNeverPanics'
  BY <1>1, <1>2, <1>3 DEF IInv, SocketInv, DropNeverPanics
<1>6. /\ Len(hand'[t]) \in HandLens(pc'[t])
      /\ InFlight(t)' = InFlight(t)
  BY <1>1, Facts DEF TaskInv, InFlight
<1> QED
  BY <1>1, <1>4, <1>5, <1>6, Quiet

----------------------------------------------------------------------------
(* Steps that change the table.                                            *)

(* The numbers in use lie below the next one to be given.                  *)
LEMMA NumbersNat ==
    ASSUME IInv
    PROVE  /\ next_fd \in Nat /\ next_fd + 1 \in Nat /\ next_fd + 2 \in Nat
           /\ \A n \in DOMAIN fds : n \in Nat /\ n < next_fd
           /\ \A u \in Tasks : \A n \in fd_nums[u] : n \in Nat /\ n < next_fd
<1>1. next_fd \in Nat /\ next_fd + 1 \in Nat /\ next_fd + 2 \in Nat
  BY NumbersAssumption DEF IInv, TableOK, TableType, FirstFd
<1>2. \A n \in DOMAIN fds : n \in Nat /\ n < next_fd
  BY NumbersAssumption DEF IInv, TableOK, TableType, TableInv, Fd, FirstFd
<1>3. \A u \in Tasks : \A n \in fd_nums[u] : n \in Nat /\ n < next_fd
  <2>1. \A u \in Tasks : \A n \in fd_nums[u] : n \in Fd /\ n < next_fd
    BY DEF IInv, CallType, TaskInv
  <2> QED
    BY <2>1, NumbersAssumption DEF Fd, FirstFd
<1> QED
  BY <1>1, <1>2, <1>3

(* sys_open and sys_exec: a new descriptor, in the hands of the call.      *)
LEMMA Opens ==
    ASSUME IInv, NEW t \in Tasks, NEW p \in Path, NEW create, At(t, "user"),
           CanOpen(p, create), open_file(p),
           UNCHANGED <<socketVars, resourceVars, handles, panicked>>,
           NEW where \in {"dev_open", "add_fd", "exec_read"},
           NEW held \in Seq(Fd \cup {NoFd}), held[1] = next_fd,
           Len(held) \in HandLens(where), where = "add_fd" => Len(held) = 1,
           goto(t, where, held)
    PROVE  IInv'
<1>1. /\ pc[t] = "user" /\ status[t] = "live"
      /\ sockets' = sockets /\ next_socket' = next_socket /\ sock_handles' = sock_handles
      /\ status' = status /\ fd_nums' = fd_nums /\ pipe_fd' = pipe_fd
      /\ handles' = handles /\ panicked' = panicked
  BY DEF At, socketVars, resourceVars
<1>2. /\ TableOK'
      /\ DOMAIN fds' = DOMAIN fds \cup {next_fd} /\ next_fd \notin DOMAIN fds
      /\ next_fd' = next_fd + 1 /\ next_fd \in Fd
  BY Zenon, OpenTable DEF IInv
<1>3. where \in Places
  BY DEF Places
<1>4. /\ pc' \in [Tasks -> Places] /\ hand' \in [Tasks -> Seq(Fd \cup {NoFd})]
      /\ pc'[t] = where /\ hand'[t] = held
      /\ \A u \in Tasks \ {t} : pc'[u] = pc[u] /\ hand'[u] = hand[u]
  BY <1>3, Facts, Goto
<1>5. CallType' /\ SocketInv' /\ DropNeverPanics'
  BY <1>1, <1>4 DEF IInv, CallType, SocketInv, DropNeverPanics
<1>6. InFlight(t)' = {next_fd}
  <2>1. CASE where = "add_fd"
    <3>1. DOMAIN held = {1}
      BY <2>1
    <3> QED
      BY <1>4, <2>1, <3>1 DEF InFlight
  <2>2. CASE where # "add_fd"
    BY <1>4, <2>2 DEF InFlight
  <2> QED
    BY <2>1, <2>2
<1>7. next_fd' \in Nat /\ next_fd' >= next_fd /\ next_fd < next_fd' /\ next_fd >= next_fd
  BY <1>2, NumbersNat
<1>8. TaskInv(t)'
  <2>1. TaskInv(t)
    BY Facts
  <2>2. \A n \in fd_nums[t] : n \in DOMAIN fds' /\ n < next_fd' /\ n # next_fd
    <3>1. \A n \in fd_nums[t] : n \in DOMAIN fds
      BY <1>1, <2>1 DEF TaskInv
    <3>2. next_fd \in Nat /\ \A n \in fd_nums[t] : n \in Nat /\ n < next_fd
      BY NumbersNat
    <3> QED
      BY <1>2, <3>1, <3>2
  <2>3. InFlight(t)' \subseteq DOMAIN fds' \ fd_nums'[t]
    BY <1>1, <1>2, <1>6, <2>2
  <2> QED
    BY <1>1, <1>4, <2>1, <2>2, <2>3 DEF TaskInv
<1>9. \A n \in Holds(t)' : n \in Holds(t) \/ n >= next_fd
  BY <1>1, <1>6, <1>7 DEF Holds
<1>10. /\ \A n \in DOMAIN fds : n \in DOMAIN fds' \/ n \in Holds(t)
       /\ \A n \in DOMAIN fds' : n \in DOMAIN fds \/ n >= next_fd
  BY <1>2, <1>7
<1> QED
  BY <1>1, <1>2, <1>4, <1>5, <1>7, <1>8, <1>9, <1>10, OwnStep

(* sys_open holds the new descriptor until add_fd enters it.               *)
LEMMA SysOpen ==
    ASSUME IInv, NEW t \in Tasks, NEW p \in Path, NEW create, sys_open(t, p, create)
    PROVE  IInv'
<1> DEFINE where == IF p \in Devices THEN "dev_open" ELSE "add_fd"
<1>1. /\ At(t, "user") /\ CanOpen(p, create) /\ open_file(p)
      /\ UNCHANGED <<socketVars, resourceVars, handles, panicked>>
      /\ goto(t, where, <<next_fd>>)
  BY DEF sys_open
<1>2. next_fd \in Fd
  BY <1>1, OpenTable DEF IInv
<1>3. /\ <<next_fd>> \in Seq(Fd \cup {NoFd}) /\ <<next_fd>>[1] = next_fd /\ Len(<<next_fd>>) = 1
      /\ where \in {"dev_open", "add_fd"}
  BY <1>2
<1>4. Len(<<next_fd>>) \in HandLens(where)
  BY <1>3, HandLensOf
<1> HIDE DEF where
<1> QED
  BY Zenon, <1>1, <1>3, <1>4, Opens

(* sys_exec holds the program file and the two ends it passes on.          *)
LEMMA SysExec ==
    ASSUME IInv, NEW t \in Tasks, NEW p \in Path, NEW in, NEW out, sys_exec(t, p, in, out)
    PROVE  IInv'
<1> DEFINE where == IF p \in Devices THEN "dev_open" ELSE "exec_read"
           held == <<next_fd, in, out>>
<1>1. /\ At(t, "user") /\ CanOpen(p, FALSE) /\ open_file(p)
      /\ UNCHANGED <<socketVars, resourceVars, handles, panicked>>
      /\ goto(t, where, held)
      /\ {in, out} \subseteq handles[t] \cup {NoFd}
  BY Zenon DEF sys_exec
<1>2. next_fd \in Fd
  BY Zenon, <1>1, OpenTable DEF IInv
<1>3. in \in Fd \cup {NoFd} /\ out \in Fd \cup {NoFd}
  BY <1>1 DEF IInv, CallType
<1>4. /\ held \in Seq(Fd \cup {NoFd}) /\ held[1] = next_fd /\ Len(held) = 3
      /\ where \in {"dev_open", "exec_read"}
  BY <1>2, <1>3
<1>5. Len(held) \in HandLens(where)
  BY <1>4, HandLensOf
<1> HIDE DEF where, held
<1> QED
  BY Zenon, <1>1, <1>4, <1>5, Opens

(* sys_pipe holds both ends until add_fd enters them.                      *)
LEMMA SysPipe ==
    ASSUME IInv, NEW t \in Tasks, sys_pipe(t)
    PROVE  IInv'
<1> DEFINE r == next_fd
           w == next_fd + 1
           held == <<r, w>>
<1>1. /\ pc[t] = "user" /\ status[t] = "live"
      /\ sockets' = sockets /\ next_socket' = next_socket /\ sock_handles' = sock_handles
      /\ status' = status /\ fd_nums' = fd_nums /\ pipe_fd' = pipe_fd
      /\ handles' = handles /\ panicked' = panicked
      /\ goto(t, "add_fd", held)
  BY DEF sys_pipe, At, socketVars, resourceVars
<1>2. /\ TableOK'
      /\ DOMAIN fds' = DOMAIN fds \cup {r, w} /\ r \notin DOMAIN fds /\ w \notin DOMAIN fds
      /\ next_fd' = next_fd + 2 /\ r \in Fd /\ w \in Fd
  BY PipeTable DEF IInv
<1>3. /\ held \in Seq(Fd \cup {NoFd}) /\ Len(held) = 2 /\ held[1] = r /\ held[2] = w
      /\ "add_fd" \in Places /\ DOMAIN held = {1, 2}
  BY <1>2 DEF Places
<1> HIDE DEF held
<1>4. /\ pc' \in [Tasks -> Places] /\ hand' \in [Tasks -> Seq(Fd \cup {NoFd})]
      /\ pc'[t] = "add_fd" /\ hand'[t] = held
      /\ \A u \in Tasks \ {t} : pc'[u] = pc[u] /\ hand'[u] = hand[u]
  BY <1>1, <1>3, Facts, Goto
<1>5. CallType' /\ SocketInv' /\ DropNeverPanics'
  BY <1>1, <1>4 DEF IInv, CallType, SocketInv, DropNeverPanics
<1>6. InFlight(t)' = {r, w}
  BY <1>3, <1>4 DEF InFlight
<1>7. /\ next_fd' \in Nat /\ next_fd' >= next_fd
      /\ r < next_fd' /\ w < next_fd' /\ r >= next_fd /\ w >= next_fd /\ r # w
  BY <1>2, NumbersNat
<1> HIDE DEF r, w
<1>8. TaskInv(t)'
  <2>1. TaskInv(t)
    BY Facts
  <2>2. \A n \in fd_nums[t] : n \in DOMAIN fds /\ n \in DOMAIN fds' /\ n < next_fd'
    <3>1. \A n \in fd_nums[t] : n < next_fd /\ n \in DOMAIN fds
      BY <1>1, <2>1, Zenon DEF TaskInv
    <3>2. \A n \in fd_nums[t] : n \in DOMAIN fds'
      BY <1>2, <3>1, Zenon
    <3>3. \A n \in fd_nums[t] : n \in Nat
      BY <1>2, <3>1, NumbersNat DEF IInv, TableOK, TableType
    <3> QED
      BY <1>7, <3>1, <3>2, <3>3, NumbersNat
  <2>3. InFlight(t)' \subseteq DOMAIN fds' \ fd_nums'[t]
    BY <1>1, <1>2, <1>6, <2>2
  <2>4. Len(hand'[t]) \in HandLens(pc'[t]) /\ hand'[t][1] # hand'[t][2]
    BY Zenon, <1>3, <1>4, <1>7, HandLensOf
  <2> QED
    BY <1>1, <1>4, <2>1, <2>2, <2>3, <2>4 DEF TaskInv
<1>9. \A n \in Holds(t)' : n \in Holds(t) \/ n >= next_fd
  BY <1>1, <1>6, <1>7 DEF Holds
<1>10. /\ \A n \in DOMAIN fds : n \in DOMAIN fds' \/ n \in Holds(t)
       /\ \A n \in DOMAIN fds' : n \in DOMAIN fds \/ n >= next_fd
  BY <1>2, <1>7
<1> QED
  BY Zenon, <1>1, <1>2, <1>4, <1>5, <1>7, <1>8, <1>9, <1>10, OwnStep
=============================================================================
