------------------------------ MODULE VfsTree ------------------------------
(***************************************************************************)
(* The tree of files of the VFS (kernel/src/fs/vfs.rs): looking up a path, *)
(* crossing into a mounted file system, adding files and changing the one  *)
(* current directory all tasks share.  The mounted file systems are the    *)
(* initramfs, which does not change, and /proc (kernel/src/fs/procfs.rs),  *)
(* whose directories come and go with the tasks.  Paths themselves are     *)
(* kernel/src/fs/path.rs.                                                  *)
(*                                                                         *)
(* The initial state is the one fs::init leaves.  Files are never removed  *)
(* from the tree; pipes are not in it (see OpenFiles).                     *)
(***************************************************************************)
EXTENDS Integers, FiniteSets, SequencesExt

CONSTANTS
    InitramfsDirs, InitramfsFiles,  \* the paths in the initramfs, from its root
    TaskNames,                      \* the ids of tasks, as names
    Devices,                        \* the names of device files
    Paths,                          \* the paths programs use
    MaxFiles                        \* bound: ids are below MaxFiles

ASSUME FilesAssumption == MaxFiles \in Nat

VARIABLES
    files,     \* VirtualFileSystem::files: by id, type, name, parent and children
    cwd_path,
    tasks      \* the tasks that exist, as names

vars == <<files, cwd_path, tasks>>

----------------------------------------------------------------------------
(* Paths (fs/path.rs).  A path is a string; every operation splits it at   *)
(* '/' and drops the empty pieces, so the model keeps whether it starts    *)
(* with '/' and the sequence of its names, "." and ".." among them.  The   *)
(* empty string is the relative path without names.                        *)
CURRENT_DIR == "."
PARENT_DIR == ".."
ROOT == "/"

root == [abs |-> TRUE, names |-> <<>>]
EmptyPath == [abs |-> FALSE, names |-> <<>>]

fold_part_Escapes(abs, acc, part) ==
    IF part # PARENT_DIR THEN Append(acc, part)
    ELSE IF acc # <<>> THEN Front(acc) ELSE acc

(* The closure of normalize's fold.                                        *)
fold_part(abs, acc, part) ==
    IF part # PARENT_DIR THEN Append(acc, part)
    ELSE IF acc # <<>> /\ Last(acc) # PARENT_DIR THEN Front(acc)
    ELSE IF abs THEN acc
    ELSE Append(acc, part)

normalize(p) ==
    [p EXCEPT !.names =
        FoldLeft(LAMBDA acc, part : fold_part(p.abs, acc, part), <<>>,
                 SelectSeq(p.names, LAMBDA s : s # CURRENT_DIR))]

(* join puts a '/' after self unless there is one, so that joining to the  *)
(* empty path gives an absolute one.                                       *)
join(p, names) ==
    normalize([abs |-> p.abs \/ p = EmptyPath, names |-> p.names \o names])

(* parent: the normalised path without its last name; "." when nothing is  *)
(* left of a relative path.                                                *)
parent(p) ==
    LET n == normalize(p)
        parts == IF n.names = <<>> THEN <<>> ELSE Front(n.names) IN
    [abs |-> p.abs, names |-> IF parts = <<>> /\ ~p.abs THEN <<CURRENT_DIR>> ELSE parts]

name(p) == IF p.names = <<>> THEN ROOT ELSE Last(p.names)

(* VirtualFileSystem::absolutize with a current directory.                 *)
absolutize(cwd, p) == IF p.abs THEN normalize(p) ELSE join(cwd, p.names)

(* Reference: the place a path leads to, walked one name at a time from    *)
(* the place `from'.  Places are sequences of directory names; the root is *)
(* its own parent.                                                         *)
step(at, n) ==
    IF n = CURRENT_DIR THEN at
    ELSE IF n # PARENT_DIR THEN Append(at, n)
    ELSE IF at = <<>> THEN at ELSE Front(at)

walk(from, p) == FoldLeft(step, IF p.abs THEN <<>> ELSE from, p.names)

----------------------------------------------------------------------------
root_id == 0
mnt == 1
initramfs == 2
dev == 3
proc == 4

Directory(n, up, down, fs) ==
    [ty |-> "Directory", name |-> n, parent |-> up, children |-> down, fs |-> fs]

(* VirtualFileSystem::init and fs::init.                                   *)
Init ==
    /\ files = [id \in 0 .. 4 |->
                 CASE id = root_id   -> Directory(ROOT, root_id, <<mnt, dev, proc>>, "None")
                   [] id = mnt       -> Directory("mnt", root_id, <<initramfs>>, "None")
                   [] id = initramfs -> Directory("initramfs", mnt, <<>>, "Fat")
                   [] id = dev       -> Directory("dev", root_id, <<>>, "None")
                   [] id = proc      -> Directory("proc", root_id, <<>>, "ProcFs")]
    /\ cwd_path = [abs |-> TRUE, names |-> <<"mnt", "initramfs">>]
    /\ tasks = {}

----------------------------------------------------------------------------
(* Definitions named after another one with a suffix are faulty variants   *)
(* of it, kept to show that the properties notice the fault.               *)

(* FileSystem::metadata of a path below the mount point: "None" when it    *)
(* does not exist.  /proc resolves "self" to the calling task.             *)
path_to_node(rel) ==
    CASE rel = <<>> -> "Directory"
      [] rel = <<"uptime">> -> "VirtualFile"
      [] Len(rel) = 1 /\ rel[1] \in tasks \cup {"self"} -> "Directory"
      [] Len(rel) = 2 /\ rel[1] \in tasks \cup {"self"} /\ rel[2] = "status" -> "VirtualFile"
      [] OTHER -> "None"

fat_metadata(rel) ==
    CASE rel \in InitramfsDirs -> "Directory"
      [] rel \in InitramfsFiles -> "VirtualFile"
      [] OTHER -> "None"

(* resolve_mount: the type of what is found; the root always exists.       *)
resolve_mount(fs, rel) ==
    IF rel = <<>> THEN "Directory"
    ELSE IF fs = "ProcFs" THEN path_to_node(rel) ELSE fat_metadata(rel)

None == [ty |-> "None", id |-> root_id, rel |-> <<>>]

(* One turn of find_file_by_path's loop, at the file of `at': the rest of  *)
(* a path behind a mount point belongs to the mounted file system.         *)
descend(at, n) ==
    LET below == {c \in ToSet(files[at.id].children) : files[c].name = n} IN
    IF ~at.found THEN at
    ELSE IF files[at.id].fs # "None" THEN [at EXCEPT !.rel = Append(@, n)]
    ELSE IF below = {} THEN [at EXCEPT !.found = FALSE]
    ELSE [at EXCEPT !.id = CHOOSE c \in below : TRUE]

(* find_file_by_path: the file's type, the id of the file or of the mount  *)
(* point, and the path behind the mount point.                             *)
find_file_by_path(p) ==
    LET at == FoldLeft(descend, [found |-> TRUE, id |-> root_id, rel |-> <<>>],
                       absolutize(cwd_path, p).names)
        f == files[at.id] IN
    IF ~at.found THEN None
    ELSE [ty |-> IF f.fs = "None" THEN f.ty ELSE resolve_mount(f.fs, at.rel),
          id |-> at.id, rel |-> at.rel]

(* find_file_by_path_mut finds nothing in a mounted file system.           *)
IsOwn(found) == found.ty # "None" /\ files[found.id].fs = "None"

(* FileInfo::check_integrity of a file that is not a directory.            *)
check_integrity_NotParent(n) == n # CURRENT_DIR
check_integrity(n) == n \notin {CURRENT_DIR, PARENT_DIR}

NameTaken(dir, n) == \E i \in DOMAIN files[dir].children : files[files[dir].children[i]].name = n

(* add_file, for a VirtualFile or a device file; an error changes nothing. *)
add_file(p, ty) ==
    LET up == find_file_by_path(parent(p))
        id == Cardinality(DOMAIN files)
        n == name(p) IN
    /\ IsOwn(up) /\ up.ty = "Directory"
    /\ ~NameTaken(up.id, n)
    /\ check_integrity(n)
    /\ id < MaxFiles
    /\ files' = [f \in DOMAIN files \cup {id} |->
                  IF f = id THEN [ty |-> ty, name |-> n, parent |-> up.id,
                                  children |-> <<>>, fs |-> "None"]
                  ELSE IF f = up.id THEN [files[f] EXCEPT !.children = Append(@, id)]
                  ELSE files[f]]

(* open_file of a path that leads nowhere, with the flag to create it.     *)
open_file_create(p) ==
    /\ find_file_by_path(p).ty = "None"
    /\ add_file(p, "VirtualFile")
    /\ UNCHANGED <<cwd_path, tasks>>

add_dev_file(n) ==
    /\ add_file([abs |-> TRUE, names |-> <<"dev", n>>], "DeviceFile")
    /\ UNCHANGED <<cwd_path, tasks>>

chdir_Unchecked(p) ==
    /\ find_file_by_path(p).ty # "None"
    /\ cwd_path' = absolutize(cwd_path, p)
    /\ UNCHANGED <<files, tasks>>

chdir(p) ==
    /\ find_file_by_path(p).ty = "Directory"
    /\ cwd_path' = absolutize(cwd_path, p)
    /\ UNCHANGED <<files, tasks>>

(* Tasks start and end, and with them their directories in /proc.          *)
task_starts(t) ==
    /\ tasks' = tasks \cup {t}
    /\ UNCHANGED <<files, cwd_path>>

task_ends(t) ==
    /\ t \in tasks
    /\ tasks' = tasks \ {t}
    /\ UNCHANGED <<files, cwd_path>>

Next ==
    \/ \E p \in Paths : open_file_create(p) \/ chdir(p)
    \/ \E n \in Devices : add_dev_file(n)
    \/ \E t \in TaskNames : task_starts(t) \/ task_ends(t)

Spec == Init /\ [][Next]_vars

----------------------------------------------------------------------------
(* The state is well typed.                                                *)
TypeOK ==
    /\ DOMAIN files \subseteq 0 .. MaxFiles - 1
    /\ \A f \in DOMAIN files :
        /\ files[f].ty \in {"Directory", "VirtualFile", "DeviceFile"}
        /\ files[f].parent \in DOMAIN files
        /\ ToSet(files[f].children) \subseteq DOMAIN files
    /\ cwd_path.abs

(* abs_path_by_file: the names from the root down to a file.               *)
abs_path_by_file(f) ==
    LET names_of[g \in DOMAIN files] ==
            IF files[g].parent = root_id THEN <<files[g].name>>
            ELSE Append(names_of[files[g].parent], files[g].name) IN
    [abs |-> TRUE, names |-> names_of[f]]

(* The files form a tree: each one but the root is once among the children *)
(* of its parent, which is a directory, and siblings have different names, *)
(* whatever paths the files were created with.                             *)
TreeWellFormed ==
    /\ \A f \in DOMAIN files \ {root_id} :
        /\ Cardinality({<<g, i>> \in (DOMAIN files) \X (1 .. MaxFiles) :
                i \in DOMAIN files[g].children /\ files[g].children[i] = f}) = 1
        /\ f \in ToSet(files[files[f].parent].children)
        /\ files[files[f].parent].ty = "Directory"
    /\ \A f, g \in DOMAIN files \ {root_id} :
        f # g /\ files[f].parent = files[g].parent => files[f].name # files[g].name

(* Every file is found under the path abs_path_by_file gives it, from any  *)
(* current directory: nothing can be created that no path leads to.        *)
FoundByItsPath ==
    \A f \in DOMAIN files \ {root_id} :
        LET found == find_file_by_path(abs_path_by_file(f)) IN
        found.id = f /\ found.ty = files[f].ty /\ found.rel = <<>>

(* The VFS adds no file of its own below a mount point, where it would     *)
(* hide behind the mounted file system.                                    *)
MountsStayEmpty ==
    \A f \in DOMAIN files : files[f].fs # "None" => files[f].children = <<>>

(* The current directory leads to a directory for as long as it is not the *)
(* /proc directory of a task that has ended.                               *)
CwdResolves ==
    LET n == cwd_path.names IN
    \/ Len(n) > 1 /\ n[1] = "proc" /\ n[2] \in TaskNames \ tasks
    \/ find_file_by_path(cwd_path).ty = "Directory"
=============================================================================
