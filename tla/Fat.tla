-------------------------------- MODULE Fat --------------------------------
(* The FAT32 volume of the initramfs (kernel/src/fs/fat/): where things    *)
(* are by the boot sector, the chains of clusters, the entries of a        *)
(* directory with their long names, and the calls of the VFS.              *)
(*                                                                         *)
(* A volume is a function from offsets; a word of the FAT takes one unit   *)
(* and an entry ENTRY of them (4 and 32 bytes in the code).  The contents  *)
(* of a file are seen as entries, too: ENTRY bytes each.  A long name has  *)
(* LFN characters in an entry (13 in the code).  The volume is made by     *)
(* task.py: nothing was ever removed from it.                              *)
EXTENDS Integers, FiniteSetsExt, SequencesExt, Functions

CONSTANTS
    bytes_per_sector, sectors_per_cluster, reserved_sectors, num_fats, fat_size, total_sectors,
    FAT12_MAX, FAT16_MAX,     \* 4085 and 65525 in the code
    Layouts,                  \* five clusters, in the order they are used
    FileSizes,
    Ranges                    \* [offset, max_len] of a read

ENTRY == 2
LFN == 2

VARIABLES
    tree,          \* what the volume was made from: [f, g, short]
    volume,
    call,          \* [op, path, offset, max_len]
    left,          \* the names of the path that are still to be followed
    cluster,       \* current_cluster_num
    entries,       \* those read so far of the chain
    file,          \* the entry whose contents are read
    pc, result

vars == <<tree, volume, call, left, cluster, entries, file, pc, result>>

----------------------------------------------------------------------------
(* boot_sector.rs.  On a FAT32 volume fat_size16 and root_entry_count are  *)
(* 0, so that the sectors of the FATs count as data here.                  *)
data_start_sector16 == reserved_sectors
data_sectors16 == total_sectors - data_start_sector16
data_clusters == data_sectors16 \div sectors_per_cluster

fat_type ==
    IF data_clusters <= FAT12_MAX THEN "Fat12"
    ELSE IF data_clusters <= FAT16_MAX THEN "Fat16" ELSE "Fat32"

fat_sectors32 == fat_size * num_fats
data_start_sector32 == reserved_sectors + fat_sectors32

dir_entries_per_cluster == (bytes_per_sector * sectors_per_cluster) \div ENTRY

root_cluster_num == 2

(* The clusters there are, by the format.                                  *)
Clusters == 2 .. 1 + (total_sectors - data_start_sector32) \div sectors_per_cluster

FatAssumption ==
    /\ Cardinality(Clusters) > FAT16_MAX
    /\ Cardinality(Clusters) + 2 <= fat_size * bytes_per_sector
    /\ fat_sectors32 >= 2 * sectors_per_cluster
    /\ \A l \in Layouts : IsInjective(l) /\ Len(l) = 5 /\ ToSet(l) \subseteq Clusters \ {root_cluster_num}

----------------------------------------------------------------------------
(* volume.rs.  clusters_cnt counts the FATs' sectors, too: enough for the  *)
(* numbers, which begin at 2, where these take two clusters or more.       *)
clusters_cnt == data_clusters

entry_offset(c, i) ==
    data_start_sector32 * bytes_per_sector + bytes_per_sector * sectors_per_cluster * (c - 2) + ENTRY * i

dir_entries(c) ==
    IF c < 2 \/ c >= clusters_cnt THEN << >>
    ELSE [k \in 1 .. dir_entries_per_cluster |-> volume[entry_offset(c, k - 1)]]

next_cluster_num(c) ==
    LET value == volume[reserved_sectors * bytes_per_sector + c] IN
    CASE value >= \hFFFFFF8 -> [ty |-> "EndOfChain", num |-> 0]
      [] value = \hFFFFFF7 -> [ty |-> "Bad", num |-> 0]
      [] value \in \hFFFFFF0 .. \hFFFFFF6 \/ value = 1 -> [ty |-> "Reserved", num |-> 0]
      [] value \in 2 .. \hFFFFFEF -> [ty |-> "Data", num |-> value]
      [] value = 0 -> [ty |-> "Free", num |-> 0]

----------------------------------------------------------------------------
(* dir_entry.rs: an entry is [first, attr, text, cluster, size]; first is  *)
(* its first byte, text its name, padded to its width.                     *)
Attribute == [VolumeLabel |-> 8, LongFileName |-> 15, Directory |-> 16, Archive |-> 32]
Blank == " "
Nul == "0"

is_lf_name_entry(e) == e.attr = Attribute.LongFileName
IsLast(e) == e.first = 0 /\ e.attr \notin Range(Attribute)

(* The short name is kept with its blanks.                                 *)
sf_name(e) == e.text

(* The characters before the first NUL.                                    *)
lf_name(e) ==
    LET ends == {i \in DOMAIN e.text : e.text[i] = Nul} IN
    IF ends = {} THEN e.text ELSE SubSeq(e.text, 1, Min(ends) - 1)

trim(s) ==
    LET is == {i \in DOMAIN s : s[i] # Blank} IN
    IF is = {} THEN << >> ELSE SubSeq(s, Min(is), Max(is))


scan_entry(acc, e) ==
    IF acc.over \/ IsLast(e) THEN [acc EXCEPT !.over = TRUE]
    ELSE IF is_lf_name_entry(e) /\ e.first >= 1 THEN [acc EXCEPT !.lf_name_buf = lf_name(e) \o @]
    ELSE IF e.attr \in {Attribute.Archive, Attribute.Directory}
    THEN [acc EXCEPT !.lf_name_buf = << >>,
                     !.files = Append(@, [name |-> trim(IF acc.lf_name_buf # << >> THEN acc.lf_name_buf ELSE sf_name(e)),
                                          attr |-> e.attr, size |-> e.size, cluster |-> e.cluster])]
    ELSE acc

scan_dir(es) == FoldLeft(scan_entry, [files |-> << >>, lf_name_buf |-> << >>, over |-> FALSE], es).files

Named(es, name, attrs) ==
    LET files == scan_dir(es) IN
    SelectSeq(files, LAMBDA f : f.attr \in attrs /\ f.name = name)

----------------------------------------------------------------------------
(* mkfs and cp, which make the volume: a label, a directory d and a file   *)
(* abc in the root, a file in d; long names in pieces, the last one first. *)
d == <<"d">>
abc == <<"a", "b", "c">>
GName(short) == IF short THEN <<"X">> ELSE <<"a", "b">>

Short(text, attr, c, size) ==
    [first |-> 65, attr |-> attr, text |-> [i \in 1 .. 3 |-> IF i <= Len(text) THEN text[i] ELSE Blank],
     cluster |-> c, size |-> size]
Null == [first |-> 0, attr |-> 0, text |-> << >>, cluster |-> 0, size |-> 0]

Pieces(name) == (Len(name) + LFN - 1) \div LFN
Long(name) ==
    [k \in 1 .. Pieces(name) |->
        LET n == Pieces(name) - k + 1 IN
        [first |-> n, attr |-> Attribute.LongFileName, cluster |-> 0, size |-> 0,
         text |-> [i \in 1 .. LFN |-> IF (n - 1) * LFN + i <= Len(name) THEN name[(n - 1) * LFN + i] ELSE Nul]]]

Bytes(id, size) == [i \in 1 .. size |-> 10 * id + i]
Chunk(bytes, k) == [i \in 1 .. ENTRY |-> IF ENTRY * k + i <= Len(bytes) THEN bytes[ENTRY * k + i] ELSE 99]

PerCluster == dir_entries_per_cluster * ENTRY
Needed(size) == (size + PerCluster - 1) \div PerCluster
First(chain) == IF chain = << >> THEN 0 ELSE chain[1]

Chains(l, t) ==
    [root |-> <<root_cluster_num, l[1]>>, d |-> <<l[2]>>,
     f |-> SubSeq(l, 3, 2 + Needed(t.f)), g |-> SubSeq(l, 5, 4 + Needed(t.g))]

Slots(l, t) ==
    LET ch == Chains(l, t)
        rootDir == <<Short(<<"V">>, Attribute.VolumeLabel, 0, 0)>>
                       \o Long(d) \o <<Short(<<"D">>, Attribute.Directory, First(ch.d), 0)>>
                       \o Long(abc) \o <<Short(<<"A">>, Attribute.Archive, First(ch.f), t.f)>>
        dDir == <<Short(<<".">>, Attribute.Directory, First(ch.d), 0), Short(<<".", ".">>, Attribute.Directory, 0, 0)>>
                    \o (IF t.short THEN << >> ELSE Long(GName(FALSE)))
                    \o <<Short(IF t.short THEN GName(TRUE) ELSE <<"G">>, Attribute.Archive, First(ch.g), t.g)>>
    IN  [root |-> rootDir, d |-> dDir,
         f |-> [k \in 1 .. Needed(t.f) * dir_entries_per_cluster |-> Chunk(Bytes(1, t.f), k - 1)],
         g |-> [k \in 1 .. Needed(t.g) * dir_entries_per_cluster |-> Chunk(Bytes(2, t.g), k - 1)]]

mkfs(l, t) ==
    LET ch == Chains(l, t)
        slots == Slots(l, t)
        fat(c) == IF c < 2 THEN \hFFFFFF8
                  ELSE LET in == {x \in DOMAIN ch : c \in ToSet(ch[x])} IN
                       IF in = {} THEN 0
                       ELSE LET x == CHOOSE y \in in : TRUE
                                i == CHOOSE j \in DOMAIN ch[x] : ch[x][j] = c
                            IN  IF i = Len(ch[x]) THEN \hFFFFFFF ELSE ch[x][i + 1]
        slot(c, i) == LET in == {x \in DOMAIN ch : c \in ToSet(ch[x])} IN
                      IF in = {} THEN Null
                      ELSE LET x == CHOOSE y \in in : TRUE
                               k == (CHOOSE j \in DOMAIN ch[x] : ch[x][j] = c) - 1
                               n == k * dir_entries_per_cluster + i + 1
                           IN  IF n <= Len(slots[x]) THEN slots[x][n] ELSE Null
        fatAt == reserved_sectors * bytes_per_sector
        dataAt == (reserved_sectors + fat_size * num_fats) * bytes_per_sector
        size == total_sectors * bytes_per_sector
    IN  [o \in 0 .. size - 1 |->
            IF o - fatAt \in Clusters \cup {0, 1} THEN fat(o - fatAt)
            ELSE IF o >= dataAt /\ (o - dataAt) % ENTRY = 0 /\ 2 + (o - dataAt) \div PerCluster \in Clusters
            THEN slot(2 + (o - dataAt) \div PerCluster, ((o - dataAt) % PerCluster) \div ENTRY)
            ELSE Null]

(* Error::NotFound                                                        *)
Error == [dir |-> FALSE, size |-> -1]

Idle == [op |-> "none", path |-> << >>, offset |-> 0, max_len |-> 0]
NoFile == [name |-> << >>, attr |-> 0, size |-> 0, cluster |-> 0]

(* Fat::new: only FAT32 is implemented.                                    *)
Init ==
    /\ tree \in [f : FileSizes, g : FileSizes, short : BOOLEAN]
    /\ Needed(tree.g) <= 1
    /\ volume \in {mkfs(l, tree) : l \in Layouts}
    /\ call = Idle /\ left = << >> /\ cluster = 0 /\ entries = << >> /\ file = NoFile /\ result = << >>
    /\ pc = IF fat_type = "Fat32" THEN "idle" ELSE "panic"

----------------------------------------------------------------------------
Begin(c) == cluster' = c /\ entries' = << >>

(* read_entry_names follows all names of the path, the other calls those   *)
(* of its parent.                                                          *)
enter(c) ==
    /\ pc = "idle"
    /\ call' = c /\ left' = c.path
    /\ Begin(root_cluster_num)
    /\ pc' = "chain"
    /\ UNCHANGED <<tree, volume, file, result>>

(* One turn of read_chained_dir_entries.                                   *)
read_chained_dir_entries ==
    /\ pc \in {"chain", "contents"}
    /\ entries' = entries \o dir_entries(cluster)
    /\ IF next_cluster_num(cluster).ty = "Data"
       THEN cluster' = next_cluster_num(cluster).num /\ UNCHANGED pc
       ELSE pc' = (IF pc = "chain" THEN "scan" ELSE "cut") /\ UNCHANGED cluster
    /\ UNCHANGED <<tree, volume, call, left, file, result>>

Answer(r) ==
    /\ result' = r /\ pc' = "done"
    /\ UNCHANGED <<tree, volume, call, left, cluster, entries, file>>

(* cluster_num: the next directory on the way.                             *)
cluster_num ==
    LET dirs == Named(entries, Head(left), {Attribute.Directory}) IN
    /\ pc = "scan"
    /\ IF call.op = "names" THEN left # << >> ELSE Len(left) > 1
    /\ IF dirs = << >> THEN Answer(Error)
       ELSE /\ Begin(dirs[1].cluster)
            /\ left' = Tail(left) /\ pc' = "chain"
            /\ UNCHANGED <<tree, volume, call, file, result>>

read_entry_names ==
    /\ pc = "scan" /\ call.op = "names" /\ left = << >>
    /\ Answer([i \in DOMAIN scan_dir(entries) |-> scan_dir(entries)[i].name])

(* entry_in_dir, for metadata and for file; the name of the root is "/".   *)
entry_in_dir ==
    LET attrs == {Attribute.Archive} \cup IF call.op = "metadata" THEN {Attribute.Directory} ELSE {}
        fs == IF left = << >> THEN << >> ELSE Named(entries, left[1], attrs)
    IN
    /\ pc = "scan" /\ call.op # "names" /\ Len(left) <= 1
    /\ IF fs = << >> THEN Answer(Error)
       ELSE IF call.op = "metadata"
       THEN Answer([dir |-> fs[1].attr = Attribute.Directory, size |-> fs[1].size])
       ELSE /\ file' = fs[1] /\ Begin(fs[1].cluster)
            /\ pc' = "contents"
            /\ UNCHANGED <<tree, volume, call, left, result>>

(* file resizes what the chain holds, read_file cuts out what was asked.   *)
read_file ==
    LET raw == FlattenSeq(entries)
        bytes == [i \in 1 .. file.size |-> IF i <= Len(raw) THEN raw[i] ELSE 0]
        start == Min({call.offset, Len(bytes)})
        end == Min({start + call.max_len, Len(bytes)})
    IN  pc = "cut" /\ Answer(SubSeq(bytes, start + 1, end))

Lookups == {<< >>, <<d>>, <<abc>>, <<d, <<"X">>>>, <<d, <<"a", "b">>>>, <<abc, d>>, <<<<"A">>>>}

Next ==
    \/ \E p \in Lookups : \/ \E op \in {"names", "metadata"} : enter([op |-> op, path |-> p, offset |-> 0, max_len |-> 0])
                        \/ \E r \in Ranges : enter([op |-> "read", path |-> p, offset |-> r[1], max_len |-> r[2]])
    \/ read_chained_dir_entries \/ cluster_num \/ read_entry_names \/ entry_in_dir \/ read_file

----------------------------------------------------------------------------
(* What the tree the volume was made from answers.                         *)
FileBytes(p) == IF p = <<abc>> THEN Bytes(1, tree.f) ELSE Bytes(2, tree.g)
IsFile(p) == p \in {<<abc>>, <<d, GName(tree.short)>>}

Expected ==
    CASE call.op = "names" /\ call.path = << >> -> <<d, abc>>
      [] call.op = "names" /\ call.path = <<d>> -> <<<<".">>, <<".", ".">>, GName(tree.short)>>
      [] call.op = "metadata" /\ call.path = <<d>> -> [dir |-> TRUE, size |-> 0]
      [] call.op = "metadata" /\ IsFile(call.path) -> [dir |-> FALSE, size |-> Len(FileBytes(call.path))]
      [] call.op = "read" /\ IsFile(call.path) ->
            LET bytes == FileBytes(call.path) IN
            SubSeq(bytes, call.offset + 1, Min({call.offset + call.max_len, Len(bytes)}))
      [] OTHER -> Error

=============================================================================
