---------------------------- MODULE MCOpenFiles ----------------------------
(* OpenFiles for TLC: a shell and the tasks it starts.  The run of the     *)
(* passing properties explores two parts of one instance: a second task    *)
(* that opens files, devices, sockets and pipes, and two more tasks that   *)
(* only have pipes.                                                        *)
EXTENDS OpenFiles

CONSTANTS sh, a, b, dev, broken, prog, text, new

VARIABLE part

MCInit == Init /\ part \in {"files", "pipes"}

(* Only the shell and a, one descriptor less, and one byte in a pipe.      *)
FilesPart ==
    /\ status[b] = "none"
    /\ next_fd < MaxFd
    /\ \A p \in DOMAIN pipes : pipes[p].sent < MaxBytes

(* Three tasks, no sockets, and no files but programs to run.              *)
PipesPart ==
    /\ next_socket = FirstSocket
    /\ \A n \in DOMAIN fds : fds[n].backing \in Fd \cup Programs

MCNext ==
    /\ Next
    /\ part = "files" => FilesPart'
    /\ part = "pipes" => PipesPart'
    /\ UNCHANGED part

MCVars == <<vars, part>>

MCFairness == \A t \in Tasks : WF_MCVars(part = "pipes" /\ goes_on(t) /\ UNCHANGED part)

MCSpec == MCInit /\ [][MCNext]_MCVars /\ MCFairness

(* All of it, for smaller instances.                                       *)
AllSpec == Init /\ part = "all" /\ [][Next /\ UNCHANGED part]_MCVars

(* A read of a piped stdin ends once all other tasks have exited: the end  *)
(* of the file reaches a reader whose writers closed nothing themselves.   *)
PipeReadsEnd ==
    \A t \in Tasks \ {Shell} :
        (/\ part = "pipes" /\ pc[t] = "stdin"
         /\ \A u \in Tasks \ {t} : status[u] \in {"none", "exited", "dropped"})
        ~> (pc[t] # "stdin")
=============================================================================
