-------------------------------- MODULE Elf --------------------------------
(* Loading a program (task/exec.rs, Task::new of task/mod.rs) from an ELF  *)
(* file (common/src/elf.rs): the header's checks, the segments copied into *)
(* fresh pages one after the other, the entry point, and the arguments'    *)
(* pointers and strings in a page of their own.                            *)
EXTENDS Integers, SequencesExt

CONSTANTS
    PAGE_SIZE,
    Segments,      \* program headers: [ty, offset, virt, file, mem]
    Files,         \* lengths of the file
    Entries,       \* entry points
    Arguments      \* sequences of arguments, which are sequences of bytes

VARIABLES
    pc,
    elf,           \* [magic, type, machine, entry, phs, len]
    args,
    loaded,        \* the segments behind us
    memory,        \* virtual address -> byte, in the pages that are mapped
    rip,
    args_frame     \* [pointers, bytes, size]

vars == <<pc, elf, args, loaded, memory, rip, args_frame>>

Type == [Relocatable |-> 1, Executable |-> 2, Shared |-> 3, Core |-> 4]
Machine == [None |-> 0, X86 |-> 3, Arm |-> 40, X8664 |-> 62, Aarch64 |-> 183, RiscV |-> 243]
SegmentType == [Null |-> 0, Load |-> 1, Dynamic |-> 2, Interpreter |-> 3, Note |-> 4]

(* A program that can be run, and those that cannot.                       *)
Headers ==
    {<<TRUE, Type.Executable, Machine.X8664>>, <<FALSE, Type.Executable, Machine.X8664>>,
     <<TRUE, Type.Shared, Machine.X8664>>, <<TRUE, Type.Executable, Machine.Aarch64>>}

(* The bytes of the file, each another one.                                *)
Byte(i) == 100 + i

NoFrame == [pointers |-> << >>, bytes |-> << >>, size |-> 0]
NoFile == [magic |-> TRUE, type |-> 0, machine |-> 0, entry |-> 0, phs |-> << >>, len |-> 0]

Init ==
    /\ pc = "idle" /\ elf = NoFile /\ args = << >>
    /\ loaded = 0 /\ memory = << >> /\ rip = 0 /\ args_frame = NoFrame

(* exec_elf: a file that does not begin as an ELF file is refused.         *)
exec_elf(file, arguments) ==
    /\ pc = "idle"
    /\ elf' = file /\ args' = arguments
    /\ pc' = IF file.magic THEN "header" ELSE "refused"
    /\ UNCHANGED <<loaded, memory, rip, args_frame>>

(* Task::new refuses all but programs for this machine.                    *)
header ==
    /\ pc = "header"
    /\ pc' = IF elf.type = Type.Executable /\ elf.machine = Machine.X8664 THEN "segments" ELSE "refused"
    /\ UNCHANGED <<elf, args, loaded, memory, rip, args_frame>>

(* The pages without the place of the segment in its first page.           *)
pages_needed_Aligned(ph) == (ph.mem + PAGE_SIZE - 1) \div PAGE_SIZE

pages_needed(ph) == ((ph.virt % PAGE_SIZE) + ph.mem + PAGE_SIZE - 1) \div PAGE_SIZE

first_page(ph) == ph.virt \div PAGE_SIZE

(* data_by_program_header: nothing when the file is too short, too.        *)
data_by_program_header(ph) ==
    IF ph.ty # SegmentType.Load \/ ph.file = 0 \/ ph.mem = 0 \/ elf.len < ph.offset + ph.file
    THEN << >>
    ELSE [i \in 1 .. ph.file |-> Byte(ph.offset + i)]

(* The new pages, cleared and then filled from the file.                   *)
frame(ph) ==
    LET start == first_page(ph) * PAGE_SIZE
        data == data_by_program_header(ph)
    IN  [a \in start .. start + pages_needed(ph) * PAGE_SIZE - 1 |->
            IF a >= ph.virt /\ a - ph.virt < Len(data) THEN data[a - ph.virt + 1] ELSE 0]

(* One turn of the loop: a page that was mapped before is mapped anew.     *)
load ==
    LET ph == elf.phs[loaded + 1]
        new == frame(ph)
    IN
    /\ pc = "segments" /\ loaded < Len(elf.phs)
    /\ loaded' = loaded + 1
    /\ IF ph.ty = SegmentType.Load
       THEN /\ memory' = [a \in DOMAIN memory \cup DOMAIN new |->
                             IF a \in DOMAIN new THEN new[a] ELSE memory[a]]
            /\ rip' = IF elf.entry >= ph.virt /\ elf.entry < ph.virt + ph.mem THEN elf.entry ELSE rip
       ELSE UNCHANGED <<memory, rip>>
    /\ UNCHANGED <<pc, elf, args, args_frame>>

(* The strings behind one another, each with its end.                      *)
c_args(as) == FlattenSeq([i \in DOMAIN as |-> as[i] \o <<0>>])

(* The table of pointers begins the frame, with room for two more.         *)
c_args_offset(as) == (Len(as) + 2) * 8

(* The end of a string is not counted.                                     *)
pointer_NoEnd(as, i) ==
    c_args_offset(as) + Len(FlattenSeq([j \in 1 .. i - 1 |-> as[j]]))

pointer(as, i) ==
    c_args_offset(as) + Len(FlattenSeq([j \in 1 .. i - 1 |-> as[j] \o <<0>>]))

arguments ==
    LET total == Len(c_args(args)) + c_args_offset(args)
        pages == IF total \div PAGE_SIZE = 0 THEN 1 ELSE total \div PAGE_SIZE
    IN
    /\ pc = "segments" /\ loaded = Len(elf.phs)
    /\ pc' = "ready"
    /\ args_frame' = [pointers |-> [i \in DOMAIN args |-> pointer(args, i)],
                      bytes |-> c_args(args), size |-> pages * PAGE_SIZE]
    /\ UNCHANGED <<elf, args, loaded, memory, rip>>

Next ==
    \/ \E h \in Headers, entry \in Entries, a \in Segments, b \in Segments, len \in Files, as \in Arguments :
          exec_elf([magic |-> h[1], type |-> h[2], machine |-> h[3], entry |-> entry,
                    phs |-> <<a, b>>, len |-> len], as)
    \/ header \/ load \/ arguments

----------------------------------------------------------------------------
Loads == {i \in DOMAIN elf.phs : elf.phs[i].ty = SegmentType.Load}
PagesOf(ph) == first_page(ph) .. (ph.virt + ph.mem - 1) \div PAGE_SIZE
Apart == \A i, j \in Loads : i # j => PagesOf(elf.phs[i]) \cap PagesOf(elf.phs[j]) = {}
Holds(i) == elf.phs[i].offset + elf.phs[i].file <= elf.len

(* In a program whose segments share no page and lie in the file, every    *)
(* byte of every segment is at its address when the task is ready: the     *)
(* file's, and behind them zeros; and execution begins at the entry point  *)
(* when that is in a segment.  Only such programs are run.                 *)
LoadedAsLinked ==
    pc = "ready" =>
        /\ elf.magic /\ elf.type = Type.Executable /\ elf.machine = Machine.X8664
        /\ Apart => \A i \in Loads : \A k \in 0 .. elf.phs[i].mem - 1 :
              LET ph == elf.phs[i] IN
              Holds(i) => /\ ph.virt + k \in DOMAIN memory
                          /\ memory[ph.virt + k] = IF k < ph.file THEN Byte(ph.offset + k + 1) ELSE 0
        /\ rip = IF \E i \in Loads : elf.entry - elf.phs[i].virt \in 0 .. elf.phs[i].mem - 1
                 THEN elf.entry ELSE 0

(* Each pointer leads to its argument and the argument's end, behind the   *)
(* table of pointers, and all of it is in the frame when it needs a page   *)
(* at most.                                                                *)
ArgumentsInPlace ==
    pc = "ready" =>
        LET at(p) == args_frame.bytes[p - c_args_offset(args) + 1] IN
        /\ \A i \in DOMAIN args :
              LET p == args_frame.pointers[i] IN
              /\ p >= 8 * Len(args)
              /\ \A k \in 1 .. Len(args[i]) : at(p + k - 1) = args[i][k]
              /\ at(p + Len(args[i])) = 0
        /\ Len(args_frame.bytes) + c_args_offset(args) <= PAGE_SIZE =>
              Len(args_frame.bytes) + c_args_offset(args) <= args_frame.size
=============================================================================
