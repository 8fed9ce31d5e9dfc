------------------------------ MODULE FileIo ------------------------------
(***************************************************************************)
(* Reading, writing and seeking through an open descriptor of the VFS      *)
(* (kernel/src/fs/vfs.rs): files kept in memory, files of a mounted file   *)
(* system whose content changes under the reader (/proc), and device files.*)
(* OpenFiles has opening, closing and pipes.                               *)
(*                                                                         *)
(* A descriptor can be used by two tasks: sys_exec may give one to a child *)
(* as its stdin or stdout.  Each operation is one critical section of VFS, *)
(* except that a device's driver is called outside of it.                  *)
(*                                                                         *)
(* Offsets count from 0; the byte at offset i of a sequence s is s[i+1].   *)
(***************************************************************************)
EXTENDS Integers, Sequences

CONSTANTS
    Tasks,
    VirtualFds,   \* descriptors of VirtualFiles, each of its own file
    FsFds,        \* descriptors of one file of a mounted file system
    DevFds,       \* descriptors of device files
    Contents,     \* what the mounted file may contain, one after the other
    DeviceLen,    \* the length of what a device has to read
    Data,         \* what is written in one call
    Lens,         \* the buffer lengths of reads
    MaxOffset,    \* bound: no offset grows past it
    NoCache

FdsAssumption ==
    /\ VirtualFds \cap FsFds = {} /\ VirtualFds \cap DevFds = {} /\ FsFds \cap DevFds = {}
    /\ MaxOffset \in Nat /\ DeviceLen \in Nat /\ Lens \subseteq Nat
    /\ NoCache \notin Contents

Fds == VirtualFds \cup FsFds \cup DevFds

VARIABLES
    buf,               \* FileInfo::buf of the file of a descriptor
    offset,            \* FileDescriptor::offset
    fs_content_cache,  \* FileDescriptor::fs_content_cache
    fs_content,        \* what the mounted file contains now
    call,              \* the device read each task is in: Idle, or its
                       \* descriptor and the offset it read from the table
    (* History: the reference of a VirtualFile, the bytes each descriptor  *)
    (* of a mounted file has returned, what that file contained so far,    *)
    (* the offsets a descriptor has transferred or skipped by a seek.      *)
    written, seen, fs_past, covered

vars == <<buf, offset, fs_content_cache, fs_content, call, written, seen, fs_past, covered>>

Idle == <<>>
least(a, b) == IF a < b THEN a ELSE b
greatest(a, b) == IF a < b THEN b ELSE a

Init ==
    /\ buf = [f \in VirtualFds |-> <<>>]
    /\ offset = [f \in Fds |-> 0]
    /\ fs_content_cache = [f \in FsFds |-> NoCache]
    /\ fs_content \in Contents
    /\ call = [t \in Tasks |-> Idle]
    /\ written = [f \in VirtualFds |-> [bytes |-> [i \in {} |-> 0], end |-> 0]]
    /\ seen = [f \in FsFds |-> {}]
    /\ fs_past = {fs_content}
    /\ covered = [f \in Fds |-> {}]

(* Definitions named after another one with a suffix are faulty variants   *)
(* of it, kept to show that the properties notice the fault.               *)

----------------------------------------------------------------------------
(* The bytes from start up to end have gone through descriptor f.          *)
covers(f, start, end) == covered' = [covered EXCEPT ![f] = @ \cup (start .. end - 1)]

(* The range [start, end) that a read of at most len bytes of s returns.   *)
read_start(f, s) == least(offset[f], Len(s))
read_end(f, s, len) == least(read_start(f, s) + len, Len(s))

(* read_file of a VirtualFile.                                             *)
read_virtual(f, len) ==
    LET end == read_end(f, buf[f], len) IN
    /\ offset' = [offset EXCEPT ![f] = end]
    /\ covers(f, read_start(f, buf[f]), least(end, Len(buf[f])))
    /\ UNCHANGED <<buf, fs_content_cache, fs_content, call, written, seen, fs_past>>

snapshot_Always(f) == fs_content

(* The content a read of a mounted file uses.                              *)
snapshot(f) == IF fs_content_cache[f] = NoCache THEN fs_content ELSE fs_content_cache[f]

(* read_file of a file of a mounted file system: the first read keeps the  *)
(* whole file.                                                             *)
read_fs(f, len) ==
    LET content == snapshot(f)
        start == read_start(f, content)
        end == read_end(f, content, len) IN
    /\ fs_content_cache' = [fs_content_cache EXCEPT ![f] = content]
    /\ offset' = [offset EXCEPT ![f] = end]
    /\ seen' = [seen EXCEPT ![f] = @ \cup {<<i, content[i + 1]>> : i \in start .. end - 1}]
    /\ covers(f, start, end)
    /\ UNCHANGED <<buf, fs_content, call, written, fs_past>>

(* The mounted file changes: time passes, a task changes its state.        *)
fs_changes(c) ==
    /\ fs_content' = c
    /\ fs_past' = fs_past \cup {c}
    /\ UNCHANGED <<buf, offset, fs_content_cache, call, written, seen, covered>>

resize_Truncates(s, end) ==
    IF end > Len(s) THEN s \o [i \in 1 .. end - Len(s) |-> 0] ELSE SubSeq(s, 1, end)

(* if end > buf.len() { buf.resize(end, 0) }                               *)
resize(s, end) ==
    IF end > Len(s) THEN s \o [i \in 1 .. end - Len(s) |-> 0] ELSE s

(* write_file of a VirtualFile.                                            *)
write_virtual(f, data) ==
    LET start == offset[f]
        end == start + Len(data)
        grown == resize(buf[f], end) IN
    /\ end <= MaxOffset
    /\ buf' = [buf EXCEPT ![f] = [i \in 1 .. Len(grown) |->
                 IF i \in start + 1 .. end THEN data[i - start] ELSE grown[i]]]
    /\ offset' = [offset EXCEPT ![f] = end]
    /\ written' = [written EXCEPT
            ![f].bytes = [i \in DOMAIN @ \cup (start .. end - 1) |->
                            IF i \in start .. end - 1 THEN data[i - start + 1] ELSE written[f].bytes[i]],
            ![f].end = greatest(@, end)]
    /\ covers(f, start, end)
    /\ UNCHANGED <<fs_content_cache, fs_content, call, seen, fs_past>>

(* file_size.  A device has size 0 and so has every file of /proc.         *)
file_size(f) == IF f \in VirtualFds THEN Len(buf[f]) ELSE 0

seek_target(f, whence, d) ==
    d + (IF whence = "Start" THEN 0 ELSE IF whence = "Current" THEN offset[f] ELSE file_size(f))

(* seek: a negative target is an error and changes nothing.                *)
seek(f, whence, d) ==
    LET target == seek_target(f, whence, d) IN
    /\ target \in 0 .. MaxOffset
    /\ offset' = [offset EXCEPT ![f] = target]
    /\ covers(f, 0, target)
    /\ UNCHANGED <<buf, fs_content_cache, fs_content, call, written, seen, fs_past>>

(* read_file of a device file: the offset is read under the lock, ...      *)
read_device(t, f, len) ==
    /\ call[t] = Idle
    /\ call' = [call EXCEPT ![t] = <<f, offset[f], len>>]
    /\ UNCHANGED <<buf, offset, fs_content_cache, fs_content, written, seen, fs_past, covered>>

advance_FullLen(off, len) == off + len

(* The offset after the driver returned what it has from off on; a driver  *)
(* with nothing there returns no bytes.                                    *)
advance(off, len) == greatest(off, least(off + len, DeviceLen))

(* ... the driver reads without the lock, and the offset of the descriptor *)
(* is set from the one that was read before.                               *)
read_device_done(t) ==
    /\ call[t] # Idle
    /\ LET f == call[t][1]
           off == call[t][2]
           end == advance(off, call[t][3]) IN
       /\ offset' = [offset EXCEPT ![f] = end]
       /\ covers(f, off, least(end, DeviceLen))
    /\ call' = [call EXCEPT ![t] = Idle]
    /\ UNCHANGED <<buf, fs_content_cache, fs_content, written, seen, fs_past>>

Next ==
    \/ \E f \in VirtualFds, len \in Lens : read_virtual(f, len)
    \/ \E f \in VirtualFds, data \in Data : write_virtual(f, data)
    \/ \E f \in FsFds, len \in Lens : read_fs(f, len)
    \/ \E c \in Contents : fs_changes(c)
    \/ \E f \in Fds, w \in {"Start", "Current", "End"}, d \in -1 .. MaxOffset : seek(f, w, d)
    \/ \E t \in Tasks, f \in DevFds, len \in Lens : read_device(t, f, len)
    \/ \E t \in Tasks : read_device_done(t)

Spec == Init /\ [][Next]_vars

----------------------------------------------------------------------------
(* The state is well typed.                                                *)
TypeOK ==
    /\ DOMAIN buf = VirtualFds /\ \A f \in VirtualFds : Len(buf[f]) <= MaxOffset
    /\ offset \in [Fds -> 0 .. greatest(MaxOffset, DeviceLen)]
    /\ fs_content_cache \in [FsFds -> Contents \cup {NoCache}]
    /\ fs_content \in Contents
    /\ \A t \in Tasks : call[t] = Idle \/ (call[t][1] \in DevFds /\ call[t][3] \in Lens)

(* A file in memory holds at every offset the byte last written there, 0   *)
(* in the holes that writes after a seek leave, and ends where the         *)
(* furthest write ended, even an empty one.                                *)
HoldsWhatWasWritten ==
    \A f \in VirtualFds :
        /\ Len(buf[f]) = written[f].end
        /\ \A i \in 0 .. Len(buf[f]) - 1 :
            buf[f][i + 1] = IF i \in DOMAIN written[f].bytes THEN written[f].bytes[i] ELSE 0

(* All that one descriptor of a mounted file returns, in any pieces and    *)
(* order, is from one version of the file, one that it really had: a /proc *)
(* file that changes between two reads is never seen half old, half new.   *)
NoTornRead ==
    \A f \in FsFds : \E c \in fs_past :
        \A e \in seen[f] : e[1] < Len(c) /\ c[e[1] + 1] = e[2]

(* No byte is passed over: every offset before the descriptor's was        *)
(* transferred or skipped by a seek.  Two tasks that share the descriptor  *)
(* of a device may read the same bytes, because the offset is stale when   *)
(* it is written back, but they leave no gap.                              *)
NoGap ==
    \A f \in Fds : 0 .. offset[f] - 1 \subseteq covered[f]
=============================================================================
