----------------------------- MODULE OpenFiles -----------------------------
(***************************************************************************)
(* The table of open files of the VFS (kernel/src/fs/vfs.rs), its pipes,   *)
(* and who is responsible for closing what: the file descriptors a task    *)
(* holds (TaskResource, kernel/src/task/mod.rs), the one exec_elf opens    *)
(* (kernel/src/task/exec.rs) and the system calls that use them            *)
(* (kernel/src/task/syscall.rs).                                           *)
(*                                                                         *)
(* There is one table for the whole system: descriptor numbers are global  *)
(* and never reused.  Every access to it is one critical section of VFS,   *)
(* every access to a TaskResource one of TASK_SCHED, and a system call can *)
(* be preempted between two of them; `pc' says where it resumes.  A task   *)
(* exits by itself, between two system calls or in a blocking read.        *)
(*                                                                         *)
(* Programs are the ones that close what they were given, once: they pass  *)
(* to sys_close a number that sys_open, sys_pipe or sys_socket returned.   *)
(* What a file holds and the descriptors' offsets are in FileIo.           *)
(***************************************************************************)
EXTENDS Integers, Sequences

CONSTANTS
    Tasks, Shell,   \* the tasks, and the one that exists from the start
    Devices,        \* device files
    OpenErr,        \* the devices whose driver's open() fails
    Mounted,        \* files of a mounted file system
    Programs,       \* those of them that are ELF executables
    Fresh,          \* paths that name nothing until a file is created there
    FirstSocket,    \* where SocketId::new starts (4096 in the code)
    MaxFd,          \* bound: descriptor numbers are below MaxFd
    MaxSocket,      \* bound: socket ids are below MaxSocket
    MaxBytes,       \* bound: bytes written to one pipe
    ReadLens        \* the buffer lengths of reads

ASSUME PathsAssumption ==
    /\ Shell \in Tasks
    /\ OpenErr \subseteq Devices
    /\ Programs \subseteq Mounted
    /\ Devices \cap Mounted = {} /\ Devices \cap Fresh = {} /\ Mounted \cap Fresh = {}
    /\ (Devices \cup Mounted \cup Fresh) \cap Nat = {}
ASSUME NumbersAssumption ==
    /\ MaxFd \in Nat /\ FirstSocket \in Nat /\ MaxSocket \in Nat /\ MaxBytes \in Nat
    /\ ReadLens \subseteq Nat \ {0}

FirstFd == 3
NoFd == 0       \* Option::None for a descriptor; 0 is never allocated
Fd == FirstFd .. MaxFd - 1
Path == Devices \cup Mounted \cup Fresh

VARIABLES
    \* VirtualFileSystem: fds, by number; the pipes among files, each named
    \* by the number of its read end; the VirtualFiles created among Fresh;
    \* the counters of FileDescriptorNumber::new and SocketId::new
    fds, pipes, created, next_fd, next_socket,
    \* the sockets of the socket table
    sockets,
    \* of every task: whether it exists, its TaskResource's fd_nums and the
    \* stdin and stdout of pipe_fd
    status, fd_nums, pipe_fd,
    \* the system call a task is in and the descriptors that call has in
    \* hand; those of sys_exec end with the pipe_fd of the new task
    pc, hand,
    \* the numbers the program was given and has not closed, as descriptors
    \* and as sockets
    handles, sock_handles,
    \* the unwrap of TaskResource::drop failed
    panicked

tableVars == <<fds, pipes, created, next_fd>>
socketVars == <<sockets, next_socket, sock_handles>>
resourceVars == <<status, fd_nums, pipe_fd>>
callVars == <<pc, hand>>
vars == <<tableVars, socketVars, resourceVars, callVars, handles, panicked>>

Init ==
    /\ fds = [n \in {} |-> 0] /\ pipes = [n \in {} |-> 0]
    /\ created = {}
    /\ next_fd = FirstFd /\ next_socket = FirstSocket
    /\ sockets = {}
    /\ status = [t \in Tasks |-> IF t = Shell THEN "live" ELSE "none"]
    /\ fd_nums = [t \in Tasks |-> {}]
    /\ pipe_fd = [t \in Tasks |-> <<NoFd, NoFd>>]
    /\ pc = [t \in Tasks |-> "user"]
    /\ hand = [t \in Tasks |-> <<>>]
    /\ handles = [t \in Tasks |-> {}] /\ sock_handles = [t \in Tasks |-> {}]
    /\ panicked = FALSE

----------------------------------------------------------------------------
(* Definitions named after another one with a suffix (CanOpen_Shared, ...) *)
(* are faulty variants of it, kept to show that the properties notice the  *)
(* fault.  Nothing else uses them.                                         *)

At(t, where) == ~panicked /\ status[t] = "live" /\ pc[t] = where

goto(t, where, held) ==
    /\ pc' = [pc EXCEPT ![t] = where]
    /\ hand' = [hand EXCEPT ![t] = held]

Descriptor == [backing : Path \cup Fd, pipe_end : {"None", "Read", "Write"}]

IsPipe(n) == fds[n].backing \in DOMAIN pipes

(* The descriptors of file f among those in table.                         *)
Ends(table, f) == {n \in DOMAIN table : table[n].backing = f}
WriteEnds(table, f) == {n \in Ends(table, f) : table[n].pipe_end = "Write"}

(* release_pipe_end for the closed descriptors, when rest stay open.       *)
release_pipe_end_KeepsOpen(closed, rest) ==
    [p \in {q \in DOMAIN pipes : Ends(rest, q) # {}} |-> pipes[p]]

release_pipe_end(closed, rest) ==
    [p \in {q \in DOMAIN pipes : Ends(rest, q) # {}} |->
        [pipes[p] EXCEPT !.write_closed =
            @ \/ (WriteEnds(closed, p) # {} /\ WriteEnds(rest, p) = {})]]

(* close_file of every descriptor in closing, all of which are open.       *)
close_file(closing) ==
    LET rest == [n \in DOMAIN fds \ closing |-> fds[n]]
        closed == [n \in DOMAIN fds \cap closing |-> fds[n]] IN
    /\ fds' = rest
    /\ pipes' = release_pipe_end(closed, rest)
    /\ UNCHANGED <<created, next_fd>>

(* The error paths of find_file_by_path and of open_file's match.          *)
CanOpen(p, create) ==
    \/ p \in Mounted
    \/ p \in Devices \cup created /\ Ends(fds, p) = {}
    \/ p \in Fresh \ created /\ create

open_file(p) ==
    /\ next_fd < MaxFd
    /\ fds' = [n \in DOMAIN fds \cup {next_fd} |->
                IF n = next_fd THEN [backing |-> p, pipe_end |-> "None"] ELSE fds[n]]
    /\ next_fd' = next_fd + 1
    /\ created' = created \cup ({p} \cap Fresh)
    /\ UNCHANGED pipes

----------------------------------------------------------------------------
(* sys_open: open_file, the driver's open() outside the lock, and then     *)
(* current_add_fd.  sys_exec opens its file in the same way.               *)
sys_open(t, p, create) ==
    /\ At(t, "user")
    /\ CanOpen(p, create)
    /\ open_file(p)
    /\ goto(t, IF p \in Devices THEN "dev_open" ELSE "add_fd", <<next_fd>>)
    /\ UNCHANGED <<socketVars, resourceVars, handles, panicked>>

device_open(t) ==
    /\ At(t, "dev_open")
    /\ LET n == hand[t][1] IN
       IF n \in DOMAIN fds /\ fds[n].backing \in OpenErr
       THEN close_file({n}) /\ goto(t, "user", <<>>)
       ELSE /\ UNCHANGED tableVars
            /\ goto(t, IF Len(hand[t]) = 1 THEN "add_fd" ELSE "exec_read", hand[t])
    /\ UNCHANGED <<socketVars, resourceVars, handles, panicked>>

(* current_add_fd; sys_pipe does it for both ends, one after the other.    *)
current_add_fd(t) ==
    /\ At(t, "add_fd")
    /\ fd_nums' = [fd_nums EXCEPT ![t] = @ \cup {hand[t][1]}]
    /\ handles' = [handles EXCEPT ![t] = @ \cup {hand[t][1]}]
    /\ goto(t, IF Len(hand[t]) = 1 THEN "user" ELSE "add_fd", Tail(hand[t]))
    /\ UNCHANGED <<tableVars, socketVars, status, pipe_fd, panicked>>

(* sys_pipe: create_pipe, then both ends go to the task.                   *)
sys_pipe(t) ==
    /\ At(t, "user")
    /\ next_fd + 1 < MaxFd
    /\ LET r == next_fd
           w == next_fd + 1 IN
       /\ fds' = [n \in DOMAIN fds \cup {r, w} |->
                    IF n = r THEN [backing |-> r, pipe_end |-> "Read"]
                    ELSE IF n = w THEN [backing |-> r, pipe_end |-> "Write"]
                    ELSE fds[n]]
       /\ pipes' = [p \in DOMAIN pipes \cup {r} |->
                    IF p = r THEN [buf |-> <<>>, write_closed |-> FALSE, sent |-> 0, got |-> 0]
                    ELSE pipes[p]]
       /\ goto(t, "add_fd", <<r, w>>)
    /\ next_fd' = next_fd + 2
    /\ UNCHANGED <<created, socketVars, resourceVars, handles, panicked>>

sys_socket(t) ==
    /\ At(t, "user")
    /\ next_socket < MaxSocket
    /\ sockets' = sockets \cup {next_socket}
    /\ next_socket' = next_socket + 1
    /\ sock_handles' = [sock_handles EXCEPT ![t] = @ \cup {next_socket}]
    /\ UNCHANGED <<tableVars, resourceVars, callVars, handles, panicked>>

(* sys_close of a number: first as a descriptor, then as a socket.         *)
close_number(t, n) ==
    \/ /\ n \in DOMAIN fds
       /\ close_file({n})
       /\ goto(t, "remove_fd", <<n>>)
       /\ UNCHANGED sockets
    \/ /\ n \notin DOMAIN fds
       /\ sockets' = sockets \ {n}
       /\ UNCHANGED <<tableVars, pc, hand>>

sys_close_fd(t, n) ==
    /\ At(t, "user") /\ n \in handles[t]
    /\ handles' = [handles EXCEPT ![t] = @ \ {n}]
    /\ close_number(t, n)
    /\ UNCHANGED <<resourceVars, next_socket, sock_handles, panicked>>

sys_close_socket(t, n) ==
    /\ At(t, "user") /\ n \in sock_handles[t]
    /\ sock_handles' = [sock_handles EXCEPT ![t] = @ \ {n}]
    /\ close_number(t, n)
    /\ UNCHANGED <<resourceVars, next_socket, handles, panicked>>

current_remove_fd_Keeps(t) ==
    /\ At(t, "remove_fd")
    /\ goto(t, "user", <<>>)
    /\ UNCHANGED <<tableVars, socketVars, resourceVars, handles, panicked>>

current_remove_fd(t) ==
    /\ At(t, "remove_fd")
    /\ fd_nums' = [fd_nums EXCEPT ![t] = @ \ {hand[t][1]}]
    /\ goto(t, "user", <<>>)
    /\ UNCHANGED <<tableVars, socketVars, status, pipe_fd, handles, panicked>>

----------------------------------------------------------------------------
(* read_file from a pipe: nothing and not at the end of the file yet.      *)
IsBlocked(p) == pipes[p].buf = <<>> /\ ~pipes[p].write_closed

(* What pipe.buf.drain(..len) leaves.                                      *)
drain(buf, len) == SubSeq(buf, (IF len < Len(buf) THEN len ELSE Len(buf)) + 1, Len(buf))

(* The pipe part of read_file; `got' counts the bytes handed out.          *)
read_pipe(p, len) ==
    pipes' = [pipes EXCEPT
        ![p].buf = drain(@, len),
        ![p].got = @ + Len(pipes[p].buf) - Len(drain(pipes[p].buf, len))]

(* sys_read of a descriptor: an empty pipe reads as no data.               *)
sys_read(t, n, len) ==
    /\ At(t, "user") /\ n \in handles[t] \cap DOMAIN fds
    /\ IsPipe(n) /\ ~IsBlocked(fds[n].backing)
    /\ read_pipe(fds[n].backing, len)
    /\ UNCHANGED <<fds, created, next_fd, socketVars, resourceVars, callVars, handles, panicked>>

(* sys_read of stdin by a task whose stdin is a descriptor of its parent.  *)
sys_read_stdin(t) ==
    /\ At(t, "user") /\ pipe_fd[t][1] # NoFd
    /\ goto(t, "stdin", <<>>)
    /\ UNCHANGED <<tableVars, socketVars, resourceVars, handles, panicked>>

(* One turn of its loop that returns: an error when the descriptor was     *)
(* closed, end of file, or data.  A turn that blocks yields the CPU.       *)
read_stdin(t, len) ==
    /\ At(t, "stdin")
    /\ goto(t, "user", <<>>)
    /\ LET n == pipe_fd[t][1] IN
       IF n \in DOMAIN fds /\ IsPipe(n)
       THEN ~IsBlocked(fds[n].backing) /\ read_pipe(fds[n].backing, len)
       ELSE UNCHANGED pipes
    /\ UNCHANGED <<fds, created, next_fd, socketVars, resourceVars, handles, panicked>>

(* sys_write of one byte to a descriptor or to a piped stdout; the n-th    *)
(* byte ever written to a pipe is n.                                       *)
sys_write(t, n) ==
    /\ At(t, "user") /\ n \in handles[t] \cup {pipe_fd[t][2]}
    /\ n \in DOMAIN fds /\ IsPipe(n)
    /\ LET p == fds[n].backing IN
       /\ pipes[p].sent < MaxBytes
       /\ pipes' = [pipes EXCEPT ![p].buf = Append(@, pipes[p].sent + 1), ![p].sent = @ + 1]
    /\ UNCHANGED <<fds, created, next_fd, socketVars, resourceVars, callVars, handles, panicked>>

----------------------------------------------------------------------------
(* sys_exec: open the file, read and parse it, close it, make the task.    *)
(* The new task's stdin and stdout are descriptors of the caller, or none. *)
sys_exec(t, p, in, out) ==
    /\ At(t, "user")
    /\ \E c \in Tasks : status[c] = "none"
    /\ {in, out} \subseteq handles[t] \cup {NoFd}
    /\ CanOpen(p, FALSE)
    /\ open_file(p)
    /\ goto(t, IF p \in Devices THEN "dev_open" ELSE "exec_read", <<next_fd, in, out>>)
    /\ UNCHANGED <<socketVars, resourceVars, handles, panicked>>

(* read_file and Elf64::new; either error returns without closing.         *)
exec_read(t) ==
    /\ At(t, "exec_read")
    /\ LET n == hand[t][1] IN
       IF n \in DOMAIN fds /\ fds[n].backing \in Programs
       THEN goto(t, "exec_close", hand[t])
       ELSE goto(t, "user", <<>>)
    /\ UNCHANGED <<tableVars, socketVars, resourceVars, handles, panicked>>

exec_close(t) ==
    /\ At(t, "exec_close")
    /\ LET n == hand[t][1] IN
       IF n \in DOMAIN fds
       THEN close_file({n}) /\ goto(t, "spawn", Tail(hand[t]))
       ELSE UNCHANGED tableVars /\ goto(t, "user", <<>>)
    /\ UNCHANGED <<socketVars, resourceVars, handles, panicked>>

spawn_user_task_Inherits(t, c) ==
    /\ At(t, "spawn") /\ status[c] = "none"
    /\ status' = [status EXCEPT ![c] = "live"]
    /\ fd_nums' = [fd_nums EXCEPT ![c] = {hand[t][1], hand[t][2]} \ {NoFd}]
    /\ pipe_fd' = [pipe_fd EXCEPT ![c] = hand[t]]
    /\ goto(t, "user", <<>>)
    /\ UNCHANGED <<tableVars, socketVars, handles, panicked>>

spawn_user_task(t, c) ==
    /\ At(t, "spawn") /\ status[c] = "none"
    /\ status' = [status EXCEPT ![c] = "live"]
    /\ pipe_fd' = [pipe_fd EXCEPT ![c] = hand[t]]
    /\ goto(t, "user", <<>>)
    /\ UNCHANGED <<tableVars, socketVars, fd_nums, handles, panicked>>

(* Task::new fails, for want of memory or because the ELF file is not one  *)
(* for this machine.                                                       *)
spawn_error(t) ==
    /\ At(t, "spawn")
    /\ goto(t, "user", <<>>)
    /\ UNCHANGED <<tableVars, socketVars, resourceVars, handles, panicked>>

----------------------------------------------------------------------------
(* exit_current, called between two system calls, on a fault, or by        *)
(* check_sigint in the loop of a blocking read.                            *)
exit_current(t) ==
    /\ At(t, "user") \/ At(t, "stdin")
    /\ status' = [status EXCEPT ![t] = "exited"]
    /\ goto(t, "user", <<>>)
    /\ handles' = [handles EXCEPT ![t] = {}]
    /\ sock_handles' = [sock_handles EXCEPT ![t] = {}]
    /\ UNCHANGED <<tableVars, sockets, next_socket, fd_nums, pipe_fd, panicked>>

drop_KeepsFiles(t) ==
    /\ status[t] = "exited" /\ ~panicked
    /\ status' = [status EXCEPT ![t] = "dropped"]
    /\ UNCHANGED <<tableVars, socketVars, fd_nums, pipe_fd, callVars, handles, panicked>>

(* TaskResource::drop, with interrupts off: closes every descriptor in     *)
(* fd_nums, and panics when one of them is not open.                       *)
drop(t) ==
    /\ status[t] = "exited" /\ ~panicked
    /\ IF fd_nums[t] \subseteq DOMAIN fds
       THEN /\ close_file(fd_nums[t])
            /\ status' = [status EXCEPT ![t] = "dropped"]
            /\ fd_nums' = [fd_nums EXCEPT ![t] = {}]
            /\ pipe_fd' = [pipe_fd EXCEPT ![t] = <<NoFd, NoFd>>]
            /\ UNCHANGED panicked
       ELSE /\ panicked' = TRUE
            /\ UNCHANGED <<tableVars, resourceVars>>
    /\ UNCHANGED <<socketVars, callVars, handles>>

Next ==
    \E t \in Tasks :
        \/ \E p \in Path, create \in BOOLEAN : sys_open(t, p, create)
        \/ device_open(t)
        \/ current_add_fd(t)
        \/ sys_pipe(t)
        \/ sys_socket(t)
        \/ \E n \in handles[t] : sys_close_fd(t, n)
        \/ \E n \in sock_handles[t] : sys_close_socket(t, n)
        \/ current_remove_fd(t)
        \/ \E n \in handles[t], len \in ReadLens : sys_read(t, n, len)
        \/ sys_read_stdin(t)
        \/ \E len \in ReadLens : read_stdin(t, len)
        \/ \E n \in handles[t] \cup {pipe_fd[t][2]} : sys_write(t, n)
        \/ \E p \in Path, in, out \in handles[t] \cup {NoFd} : sys_exec(t, p, in, out)
        \/ exec_read(t)
        \/ exec_close(t)
        \/ \E c \in Tasks : spawn_user_task(t, c)
        \/ spawn_error(t)
        \/ exit_current(t)
        \/ drop(t)

Spec == Init /\ [][Next]_vars

(* A read that waits is tried again, since every ready task runs           *)
(* (ReadyRuns of Scheduler), and a task that has exited is dropped         *)
(* (ExitedDropped).                                                        *)
goes_on(t) == (\E len \in ReadLens : read_stdin(t, len)) \/ drop(t)

----------------------------------------------------------------------------
(* The state is well typed.                                                *)
TableType ==
    /\ DOMAIN fds \subseteq Fd /\ DOMAIN pipes \subseteq Fd
    /\ \A n \in DOMAIN fds : fds[n] \in Descriptor
    /\ \A p \in DOMAIN pipes :
        pipes[p] \in [buf : Seq(1 .. MaxBytes), write_closed : BOOLEAN,
                      sent : 0 .. MaxBytes, got : 0 .. MaxBytes]
    /\ created \subseteq Fresh
    /\ next_fd \in FirstFd .. MaxFd + FirstFd

Places == {"user", "dev_open", "add_fd", "remove_fd", "exec_read", "exec_close", "spawn", "stdin"}

CallType ==
    /\ next_socket \in Nat /\ sockets \subseteq Nat
    /\ status \in [Tasks -> {"none", "live", "exited", "dropped"}]
    /\ fd_nums \in [Tasks -> SUBSET Fd]
    /\ pipe_fd \in [Tasks -> (Fd \cup {NoFd}) \X (Fd \cup {NoFd})]
    /\ pc \in [Tasks -> Places]
    /\ hand \in [Tasks -> Seq(Fd \cup {NoFd})]
    /\ handles \in [Tasks -> SUBSET Fd] /\ sock_handles \in [Tasks -> SUBSET Nat]
    /\ panicked \in BOOLEAN

TypeOK == TableType /\ CallType

(* The unwrap in TaskResource::drop never fails: the descriptors a task    *)
(* still lists when it is dropped are open.                                *)
DropNeverPanics == ~panicked

(* The descriptors a system call has yet to hand over or to close.         *)
InFlight(t) ==
    IF pc[t] = "add_fd" THEN {hand[t][i] : i \in DOMAIN hand[t]}
    ELSE IF pc[t] \in {"dev_open", "exec_read", "exec_close"} THEN {hand[t][1]}
    ELSE {}

(* A descriptor has one owner: no two tasks list it, no task lists one     *)
(* that a system call of its own or of another task has still in hand, and *)
(* one that sys_close took out of the table never comes back, so that      *)
(* every descriptor is closed at most once.                                *)
OneOwner ==
    \A t, u \in Tasks :
        /\ t # u => (fd_nums[t] \cup InFlight(t)) \cap (fd_nums[u] \cup InFlight(u)) = {}
        /\ InFlight(t) \cap fd_nums[t] = {}
        /\ pc[t] = "remove_fd" => hand[t][1] \notin DOMAIN fds \cup fd_nums[u] \/ u = t

(* open_file's BlockingFileResource: a device file or a created file is    *)
(* open at most once, whatever the order of opens, failed driver opens and *)
(* exits.                                                                  *)
ExclusiveOpen ==
    \A m, n \in DOMAIN fds :
        fds[m].backing = fds[n].backing /\ fds[m].backing \in Devices \cup Fresh => m = n

(* Each descriptor has one owner who closes it, once, and what is opened   *)
(* for one is open once.                                                   *)
FilesOwned == TypeOK /\ OneOwner /\ ExclusiveOpen

(* A pipe lives as long as one of its ends: no descriptor refers to a pipe *)
(* that release_pipe_end removed, and none without ends stays.  Readers    *)
(* see the end of the file exactly when the last write end is closed,      *)
(* however many tasks held one, and the bytes come out in the order they   *)
(* went in, none lost and none twice.                                      *)
PipesExact ==
    /\ DOMAIN pipes = {p \in Fd : Ends(fds, p) # {}}
    /\ \A p \in DOMAIN pipes :
        /\ pipes[p].write_closed <=> WriteEnds(fds, p) = {}
        /\ pipes[p].buf = [i \in 1 .. pipes[p].sent - pipes[p].got |-> pipes[p].got + i]

(* The inductive invariant behind the properties above, for programs whose *)
(* descriptor numbers stay below the socket ids.  The table by itself: no  *)
(* descriptor and no pipe has a number that was not given out yet, and a   *)
(* file that is open exists.  Each task: a call it is in has in hand what  *)
(* that call needs, what it has in hand or lists is open except the one    *)
(* that sys_close has closed and not yet taken off the list, and what the  *)
(* program may pass to sys_close is listed.                                *)
TableInv ==
    /\ \A n \in DOMAIN fds :
        /\ n < next_fd
        /\ fds[n].backing \in Fd => fds[n].backing < next_fd
        /\ fds[n].backing \in Fresh => fds[n].backing \in created
    /\ \A p \in DOMAIN pipes : pipes[p].got <= pipes[p].sent

TableOK == TableType /\ ExclusiveOpen /\ PipesExact /\ TableInv

HandLens(where) ==
    CASE where \in {"user", "stdin"} -> {0}
      [] where = "dev_open" -> {1, 3}
      [] where = "add_fd" -> {1, 2}
      [] where = "remove_fd" -> {1}
      [] where \in {"exec_read", "exec_close"} -> {3}
      [] where = "spawn" -> {2}

TaskInv(t) ==
    /\ status[t] # "live" => pc[t] = "user" /\ handles[t] = {}
    /\ Len(hand[t]) \in HandLens(pc[t])
    /\ pc[t] = "add_fd" /\ Len(hand[t]) = 2 => hand[t][1] # hand[t][2]
    /\ pc[t] = "remove_fd" => hand[t][1] \in fd_nums[t] \ (handles[t] \cup DOMAIN fds)
    /\ handles[t] \subseteq fd_nums[t]
    /\ \A n \in fd_nums[t] : n < next_fd
    /\ \A n \in fd_nums[t] : n \in DOMAIN fds \/ (pc[t] = "remove_fd" /\ n = hand[t][1])
    /\ InFlight(t) \subseteq DOMAIN fds \ fd_nums[t]

SocketInv ==
    /\ next_socket >= FirstSocket
    /\ \A t \in Tasks : \A n \in sock_handles[t] : n >= FirstSocket

Holds(t) == fd_nums[t] \cup InFlight(t)

IInv ==
    /\ TableOK /\ CallType /\ SocketInv /\ DropNeverPanics
    /\ \A t \in Tasks : TaskInv(t)
    /\ \A t, u \in Tasks : t # u => Holds(t) \cap Holds(u) = {}

(* TaskResource::drop's "close all opened files": when every task is gone, *)
(* no descriptor is open.                                                  *)
AllFilesClosed ==
    (\A t \in Tasks : status[t] \in {"none", "dropped"}) => DOMAIN fds = {}
=============================================================================
