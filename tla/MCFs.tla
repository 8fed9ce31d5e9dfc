-------------------------------- MODULE MCFs --------------------------------
(* The tree of files (VfsTree), paths (Path) and open descriptors (FileIo) *)
(* for TLC.  A run explores one part at a time, while the other variables  *)
(* rest: the tree, all paths up to a length, a file in memory, two         *)
(* descriptors of a /proc file, a device two tasks share, and the volume   *)
(* of the initramfs (Fat).                                                 *)
EXTENDS VfsTree

CONSTANTS
    MaxNames,    \* names in a path, of the tree
    MaxSteps,    \* names in a path, of the paths
    t1, t2, NoCache, DeviceLen, Lens, MaxOffset

VARIABLES
    p, cwd,      \* a path, and a current directory to follow it from
    buf, offset, fs_content_cache, fs_content, call, written, seen, fs_past, covered,
    tree, volume, fat_call, left, cluster, entries, file, pc, result,
    part

treeVars == <<files, cwd_path, tasks>>
pathVars == <<p, cwd>>
ioVars == <<buf, offset, fs_content_cache, fs_content, call, written, seen, fs_past, covered>>

fatVars == <<tree, volume, fat_call, left, cluster, entries, file, pc, result>>

(* The paths of the tree, with some that reach into the mounted file       *)
(* systems.                                                                *)
SomePaths ==
    [abs : BOOLEAN,
     names : UNION {[1 .. n -> {"proc", "x", ".", ".."}] : n \in 0 .. MaxNames}]
        \cup {[abs |-> FALSE, names |-> <<"7">>], [abs |-> TRUE, names |-> <<"proc", "7">>],
              [abs |-> FALSE, names |-> <<"7", "status">>],
              [abs |-> TRUE, names |-> <<"mnt", "x">>],
              [abs |-> TRUE, names |-> <<"mnt", "initramfs", "x", "x">>]}
XDir == {<<"x">>}
XFile == {<<"x", "x">>}

(* Three versions of a /proc file, of different lengths.                   *)
ProcContents == {<<1, 1, 1>>, <<2, 2>>, <<>>}
WriteData == {<<1>>, <<2, 1>>, <<>>}

Memory == INSTANCE FileIo WITH
    Tasks <- {t1, t2}, VirtualFds <- {3}, FsFds <- {}, DevFds <- {},
    Contents <- ProcContents, Data <- WriteData
Proc == INSTANCE FileIo WITH
    Tasks <- {t1, t2}, VirtualFds <- {}, FsFds <- {4, 6}, DevFds <- {},
    Contents <- ProcContents, Data <- WriteData, MaxOffset <- MaxOffset - 1
Device == INSTANCE FileIo WITH
    Tasks <- {t1, t2}, VirtualFds <- {}, FsFds <- {}, DevFds <- {5},
    Contents <- ProcContents, Data <- WriteData

(* Six clusters of four entries; the numbers end where clusters_cnt does.  *)
Layouts == {<<3, 4, 5, 6, 7>>, <<7, 6, 5, 4, 3>>, <<5, 7, 6, 3, 4>>, <<4, 3, 7, 5, 6>>}

F == INSTANCE Fat WITH
    call <- fat_call, bytes_per_sector <- 2, sectors_per_cluster <- 4, reserved_sectors <- 1,
    num_fats <- 2, fat_size <- 4, total_sectors <- 33, FAT12_MAX <- 2, FAT16_MAX <- 5,
    FileSizes <- {0, 3, 8, 11}, Ranges <- {<<0, 20>>, <<3, 4>>, <<9, 20>>}

ASSUME F!FatAssumption
ASSUME Memory!FdsAssumption /\ Proc!FdsAssumption /\ Device!FdsAssumption

Names == {"a", "b"}

InitPath ==
    /\ p \in {root, EmptyPath}
    /\ cwd \in UNION {[1 .. n -> Names] : n \in 0 .. 2}

(* TLC builds each path by appending names to a shorter one.               *)
NextPath ==
    /\ Len(p.names) < MaxSteps
    /\ \E n \in Names \cup {CURRENT_DIR, PARENT_DIR} : p' = [p EXCEPT !.names = Append(@, n)]
    /\ UNCHANGED cwd

MCInit ==
    /\ part \in {"tree", "paths", "memory", "proc", "device", "volume"}
    /\ Init
    /\ InitPath /\ (part # "paths" => p = root /\ cwd = <<>>)
    /\ \/ part = "proc" /\ Proc!Init
       \/ part = "device" /\ Device!Init
       \/ part \notin {"proc", "device"} /\ Memory!Init
    /\ part \in {"tree", "paths", "volume"} => fs_content = <<>>
    /\ F!Init
    /\ part # "volume" => tree.f + tree.g = 0 /\ tree.short /\ volume = F!mkfs(<<3, 4, 5, 6, 7>>, tree)

MCNext ==
    \/ part = "tree" /\ Next /\ UNCHANGED <<pathVars, ioVars, fatVars, part>>
    \/ part = "paths" /\ NextPath /\ UNCHANGED <<treeVars, ioVars, fatVars, part>>
    \/ part = "memory" /\ Memory!Next /\ UNCHANGED <<treeVars, pathVars, fatVars, part>>
    \/ part = "proc" /\ Proc!Next /\ UNCHANGED <<treeVars, pathVars, fatVars, part>>
    \/ part = "device" /\ Device!Next /\ UNCHANGED <<treeVars, pathVars, fatVars, part>>
    \/ part = "volume" /\ F!Next /\ UNCHANGED <<treeVars, pathVars, ioVars, part>>

MCSpec == MCInit /\ [][MCNext]_<<treeVars, pathVars, ioVars, fatVars, part>>

----------------------------------------------------------------------------
Cwd == [abs |-> TRUE, names |-> cwd]

(* A normalised path consists of names after the leading ".." of a         *)
(* relative path, and normalising again changes nothing.                   *)
NormalForm ==
    LET n == normalize(p) IN
    /\ normalize(n) = n /\ n.abs = p.abs
    /\ \A i \in DOMAIN n.names :
        /\ n.names[i] # CURRENT_DIR
        /\ n.names[i] = PARENT_DIR => ~p.abs /\ \A j \in 1 .. i : n.names[j] = PARENT_DIR

(* normalize, join and absolutize do not change where a path leads, however*)
(* "." and ".." are mixed and also above the root; parent leads to the     *)
(* directory above, when the normalised path ends in a name, which         *)
(* add_file relies on.                                                     *)
PathsExact ==
    LET n == normalize(p) IN
    /\ NormalForm
    /\ walk(cwd, n) = walk(cwd, p)
    /\ absolutize(Cwd, p) = [abs |-> TRUE, names |-> walk(cwd, p)]
    /\ absolutize(Cwd, n) = absolutize(Cwd, p)
    /\ n.names # <<>> /\ Last(n.names) # PARENT_DIR =>
            walk(cwd, parent(p)) = Front(walk(cwd, p))

(* The files form a tree, every file is found under its path, and nothing  *)
(* is added behind a mount point, whatever paths files are created with;   *)
(* the current directory, which all tasks share, stays a directory; and    *)
(* rewriting a path never changes where it leads.                          *)
PathsLeadThere ==
    /\ part = "tree" => TypeOK /\ TreeWellFormed /\ FoundByItsPath /\ MountsStayEmpty /\ CwdResolves
    /\ part = "paths" => PathsExact

(* A file in memory holds at every offset the byte last written there,     *)
(* what one descriptor of a /proc file returns is of one version of it,    *)
(* and no byte is passed over, also where two tasks share a device.        *)
ReadsExact ==
    /\ part = "memory" => Memory!TypeOK /\ Memory!HoldsWhatWasWritten /\ Memory!NoGap
    /\ part = "proc" => Proc!TypeOK /\ Proc!NoTornRead /\ Proc!NoGap
    /\ part = "device" => Device!TypeOK /\ Device!NoGap

=============================================================================
