---------------------------- MODULE FrameBitmap ----------------------------
(***************************************************************************)
(* The allocator of physical memory frames (kernel/src/mem/bitmap.rs): one *)
(* bit for every frame of PAGE_SIZE bytes, kept in a memory area it        *)
(* reserves for itself, and the MemoryFrames it has handed out.            *)
(*                                                                         *)
(* Frames are numbered by address / PAGE_SIZE.  BMM is a lock, so that     *)
(* each operation is one step.  The initial states are those bitmap::init  *)
(* leaves for a memory map of the firmware.                                *)
(***************************************************************************)
EXTENDS Integers, Sequences, FiniteSets

CONSTANTS
    BITMAP_SIZE,   \* bits in one Bitmap (8 in the code)
    PAGE_SIZE,     \* bytes in a frame (4096 in the code)
    MemMaps,       \* memory maps: sequences of descriptors
    Lens           \* the lengths that are asked for, in frames

Descriptors == [start : Nat, cnt : Nat, available : BOOLEAN]

ASSUME SizesAssumption ==
    /\ BITMAP_SIZE \in Nat \ {0}
    /\ PAGE_SIZE \in Nat \ {0}
    /\ Lens \subseteq Nat
ASSUME MapsAssumption ==
    \A m \in MemMaps :
        /\ m # <<>>
        /\ \A i \in DOMAIN m :
            /\ m[i] \in Descriptors
            /\ \A j \in DOMAIN m : i # j => m[i].start + m[i].cnt <= m[j].start
                                          \/ m[j].start + m[j].cnt <= m[i].start

VARIABLES
    mem_map,
    allocated,         \* the frames whose bit is set
    free_frame_len, allocated_frame_len, allocated_frame_len_in_available_mem,
    frames             \* the MemoryFrames handed out: first frame, and length

counters == <<free_frame_len, allocated_frame_len, allocated_frame_len_in_available_mem>>
bitmapVars == <<mem_map, allocated, counters, frames>>

----------------------------------------------------------------------------
(* Definitions named after another one with a suffix are faulty variants   *)
(* of it, kept to show that the properties notice the fault.               *)

is_valid_mem_desc(d) == d.available /\ d.start # 0

DescFrames(d) == d.start .. d.start + d.cnt - 1

Available(m) == UNION {DescFrames(m[i]) : i \in {j \in DOMAIN m : is_valid_mem_desc(m[j])}}

(* One frame more than the highest address of the map needs.               *)
total_frame_len(m) ==
    1 + (CHOOSE e \in {m[i].start + m[i].cnt : i \in DOMAIN m} :
            \A i \in DOMAIN m : m[i].start + m[i].cnt <= e)

bitmap_len(m) == (total_frame_len(m) + BITMAP_SIZE - 1) \div BITMAP_SIZE

AllBits(m) == 0 .. bitmap_len(m) * BITMAP_SIZE - 1

HoldsBitmap(m, d) ==
    is_valid_mem_desc(d) /\ d.cnt * PAGE_SIZE >= total_frame_len(m) \div BITMAP_SIZE

(* The descriptor the bitmap is put in: the first that is large enough.    *)
BitmapDescs(m) == {i \in DOMAIN m : HoldsBitmap(m, m[i])}
bitmap_desc(m) ==
    m[CHOOSE i \in BitmapDescs(m) : \A j \in BitmapDescs(m) : i <= j]

(* The frames init2 reserves for the bitmap, the last one included.        *)
BitmapFrames(m) ==
    bitmap_desc(m).start .. bitmap_desc(m).start + bitmap_len(m) \div PAGE_SIZE

(* BitmapMemoryManager::init and init2.                                    *)
BitmapInit ==
    /\ mem_map \in {m \in MemMaps : BitmapDescs(m) # {}}
    /\ allocated = AllBits(mem_map) \ (Available(mem_map) \ BitmapFrames(mem_map))
    /\ free_frame_len = Cardinality(Available(mem_map) \ BitmapFrames(mem_map))
    /\ allocated_frame_len = total_frame_len(mem_map) - free_frame_len
    /\ allocated_frame_len_in_available_mem =
            Cardinality(Available(mem_map) \cap BitmapFrames(mem_map))
    /\ frames = {}

----------------------------------------------------------------------------
FramesOf(f) == f[1] .. f[1] + f[2] - 1

IsFree_BelowLast(s, len) == s # 0 /\ (s .. s + len - 2) \subseteq AllBits(mem_map) \ allocated

(* Frame 0 is never handed out.                                            *)
IsFree(s, len) == s # 0 /\ (s .. s + len - 1) \subseteq AllBits(mem_map) \ allocated

FreeRuns(len) == {s \in AllBits(mem_map) : IsFree(s, len)}

(* The search of alloc_multi_mem_frame ends with the run at s: the first   *)
(* one, unless a whole free Bitmap is asked for and met on the way.        *)
start_frame_index(s, len) ==
    /\ s \in FreeRuns(len)
    /\ IF len = BITMAP_SIZE /\ len # 1 /\ s % BITMAP_SIZE = 0
       THEN \A r \in FreeRuns(len) : r > s - BITMAP_SIZE
       ELSE /\ \A r \in FreeRuns(len) : s <= r
            /\ len = BITMAP_SIZE /\ len # 1 =>
                    (s \div BITMAP_SIZE + 1) * BITMAP_SIZE \notin FreeRuns(len)

(* alloc_frame for each frame of f.                                        *)
alloc_frame(f) ==
    /\ allocated' = allocated \cup FramesOf(f)
    /\ allocated_frame_len' = allocated_frame_len + f[2]
    /\ free_frame_len' = free_frame_len - f[2]
    /\ allocated_frame_len_in_available_mem' = allocated_frame_len_in_available_mem + f[2]

(* alloc_mem_frame: alloc_multi_mem_frame, or alloc_single_mem_frame for   *)
(* one frame.  Length 0, and no run of that length, are errors that change *)
(* nothing.                                                                *)
alloc_mem_frame(len) ==
    /\ len # 0
    /\ len <= free_frame_len
    /\ \E s \in FreeRuns(len) :
        /\ start_frame_index(s, len)
        /\ alloc_frame(<<s, len>>)
        /\ frames' = frames \cup {<<s, len>>}
    /\ UNCHANGED mem_map

dealloc_frame_First(f) ==
    /\ allocated' = allocated \ {f[1]}
    /\ allocated_frame_len' = allocated_frame_len - f[2]
    /\ free_frame_len' = free_frame_len + f[2]
    /\ allocated_frame_len_in_available_mem' = allocated_frame_len_in_available_mem - f[2]

(* dealloc_frame for each frame of f.                                      *)
dealloc_frame(f) ==
    /\ allocated' = allocated \ FramesOf(f)
    /\ allocated_frame_len' = allocated_frame_len - f[2]
    /\ free_frame_len' = free_frame_len + f[2]
    /\ allocated_frame_len_in_available_mem' = allocated_frame_len_in_available_mem - f[2]

(* dealloc_mem_frame consumes the MemoryFrame.  A bit that is not set is   *)
(* an error, on which dropping the MemoryFrame panics: see NoDoubleFree.   *)
dealloc_mem_frame(f) ==
    /\ FramesOf(f) \subseteq allocated
    /\ dealloc_frame(f)
    /\ frames' = frames \ {f}
    /\ UNCHANGED mem_map

BitmapNext ==
    \/ \E len \in Lens : alloc_mem_frame(len)
    \/ \E f \in frames : dealloc_mem_frame(f)

BitmapSpec == BitmapInit /\ [][BitmapNext]_bitmapVars

----------------------------------------------------------------------------
(* The frames nobody may be given: not available, or of the bitmap itself. *)
Reserved(m) == AllBits(m) \ (Available(m) \ BitmapFrames(m))

(* No frame is handed out twice, and none that is not available, is frame  *)
(* 0 or holds the bitmap.                                                  *)
FramesDisjoint ==
    \A f \in frames :
        /\ FramesOf(f) \subseteq AllBits(mem_map) \ (Reserved(mem_map) \cup {0})
        /\ \A g \in frames : f # g => FramesOf(f) \cap FramesOf(g) = {}

(* Every set bit is accounted for by a reserved frame or a MemoryFrame     *)
(* somebody holds: none is lost, however lengths are mixed.                *)
NothingLost ==
    allocated = Reserved(mem_map) \cup UNION {FramesOf(f) : f \in frames}

(* dealloc_frame never finds a bit that is already clear, so that no drop  *)
(* of a MemoryFrame panics.                                                *)
NoDoubleFree == \A f \in frames : FramesOf(f) \subseteq allocated

(* The counters agree with the bits and, as alloc_frame asserts, add up to *)
(* total_frame_len.                                                        *)
CountersExact ==
    /\ free_frame_len = Cardinality(AllBits(mem_map) \ allocated)
    /\ allocated_frame_len + free_frame_len = total_frame_len(mem_map)
    /\ allocated_frame_len_in_available_mem = Cardinality(allocated \cap Available(mem_map))
=============================================================================
