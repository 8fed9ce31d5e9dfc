# Verification of myos-x86_64

TLA+ models of the kernel in `src/kernel` and of two parts of its user space
(`src/apps`), TLC runs that check them on small
instances and TLAPS proofs for instances of any size. `PROJECT.json` lists the
components, the runs, the faulty variants each property catches, the source
lines of every definition (`map`), the findings, the hazards and the theorems.

## 1. The system

myos-x86_64 is a hobby operating system in Rust for one CPU. User tasks are
preempted by the local APIC timer. The kernel's own work (drivers, graphics,
the network card) is done by futures that one cooperative executor polls.
Global state is behind `Mutex`, which keeps interrupts off while it is held
(`sync/mutex.rs`): **a critical section is one step, and anything may happen
between two of them**. `Mutex` models this and `TaskProofs` proves it; the
other modules take it from there. System calls run with interrupts on, so a
call that enters two critical sections can be preempted between them. This is
where most of the interesting behaviour comes from, and every module keeps the
critical sections of its code apart.

| part | state | what is hard about it | module |
|---|---|---|---|
| scheduler (`task/scheduler.rs`, `task/mod.rs`) | ready queue, current, sleeping and exited tasks, exit codes, process tree | lost wakeups; running on the stack of an exited task; separate updates of container and state | `Scheduler`, `VecDeque` |
| context switch (`arch/x86_64/context.rs`, `local_apic_timer.rs`) | registers, saved contexts | two ways out of a task and two ways back, in any mix | `Context` |
| locks (`sync/mutex.rs`) | lock flags, interrupt flag, guards | interrupts between the instructions of lock and drop; nesting | `Mutex` |
| open files and pipes (`fs/vfs.rs`, `task/syscall.rs`, `task/exec.rs`) | descriptor table, pipes, `fd_nums` of each task | two critical sections per call; a driver that fails; exact end of file | `OpenFiles` |
| file contents (`fs/vfs.rs`) | buffers, offsets, snapshots of /proc files | a stale offset of a device; a file that changes between two reads | `FileIo` |
| paths, tree, mounts (`fs/path.rs`, `fs/vfs.rs`, `fs/procfs.rs`) | files by id, current directory | `..` above the root, unnormalised names, mount points, directories of ended tasks | `VfsTree` |
| FAT (`fs/fat/`) | the volume, the loops over chains and entries | chains in any order, chunks that end in mid-cluster, long names across clusters | `Fat` |
| frames (`mem/bitmap.rs`) | bitmap, counters | runs across bytes, counters that drift | `FrameBitmap` |
| heap (`mem/allocator.rs`) | list of holes | alignment remainders, merging | `Heap` |
| paging (`arch/x86_64/paging.rs`, `task/mod.rs`) | tables of the kernel and of tasks | tables shared until they are changed; the kernel runs in the tables of the task | `Paging` |
| programs (`common/src/elf.rs`, `task/exec.rs`) | segments, entry point, arguments | segments that share a page, memory beyond the file | `Elf` |
| byte ring (`util/fifo.rs`) | array and two pointers | full against empty, wrap | `Fifo`, `BoundedQueue` |
| terminal (`device/tty.rs`, libc `fread`) | input ring, ready flag, ^C flag | a full ring; flags changed between the steps of a reader | `Tty` |
| console (`frame_buf_console.rs`, `util/ansi.rs`) | cells, cursor, pending scroll, parser | deferred scrolling mixed with moves and erasures; sequences cut short | `Console` |
| executor (`task/async_task.rs`) | three queues, poll counter | starvation, a future lost or polled after its end | `AsyncExecutor` |
| layers (`graphics/multi_layer.rs`, `frame_buf.rs`) | layers, shadow buffer, card memory | only what changed is drawn again | `Layers`, `MultiLayer` |
| windows (`graphics/window_manager/`) | windows, their layers, the drag | programs that remove what the mouse holds; order | `WindowManager` |
| keyboards (`ps2_keyboard.rs`, `usb/hid_keyboard.rs`, `util/keyboard/`) | code bytes, modifiers, last report | codes of one to six bytes; bytes lost in a full ring; reports compared | `Keyboards` |
| mouse and tablet (`ps2_mouse.rs`, `usb/hid_tablet.rs`) | phase of a packet, layout of a report | bytes that look alike; fields at any bit | `Pointers` |
| USB (`usb/xhc/`, `usb_bus.rs`) | command, transfer and event rings, slots | cycle bits at the wrap; answers among other events | `Xhci` |
| network card (`device/rtl8139.rs`) | receive ring, descriptors, queue | the wrap of the ring; frames that arrive between two register accesses | `Rtl8139` |
| ARP (`net/arp.rs`, `net/mod.rs`) | table, waiting calls | lost and late replies; lookups repeated after the wait | `Arp` |
| packets (`net/*.rs`) | none | lengths, options, padding, odd checksums | `Packets` |
| sockets (`net/socket.rs`, `net/mod.rs`, `net/udp.rs`) | socket table, two port maps | repeated and early packets; sockets with a port they do not own | `Sockets` |
| TCP (`net/tcp.rs`, `net/mod.rs`) | state, sequence numbers, buffer | loss, repetition, reordering, wrap-around | `TcpStream` |
| C library allocator (`apps/libc/stdlib.c`) | free list over memory from sbrk, headers | splitting and headers against what programs stored | `Malloc` |
| browser (`apps/web/src/renderer/`) | two tokenizers, open elements, tree, rules, boxes | text that is not well-formed; positions and line breaks | `Html`, `Page`, `Layout` |

How the parts interact. `OpenFiles` takes from the scheduler that a task is
dropped some time after it exits. `Tty`, `OpenFiles`, `Arp` and `TcpStream`
take from it that a task which polls runs again and again (`TasksGoOn`), and
`Xhci` takes the same from the executor (`TasksInTurn`). `FileIo`, `VfsTree`
and `Fat` describe what the descriptors of `OpenFiles` lead to. `Keyboards` and
`Pointers` hold two rings of `Fifo` and end at the terminal and at the windows.
`Rtl8139` delivers frames to `Packets`, which decides what a frame says,
`Sockets`, which socket it is for, and `TcpStream`, what one connection does
with it. `Malloc` takes its memory from the `sys_sbrk` of `Paging`; the browser
is a program like any other.

## 2. Modules

Definitions carry the names of the code's functions and fields. A definition
named after another one with a suffix (`retire_Keeps`) is a faulty variant of
it; nothing uses it except the check that the properties notice the fault.

**Scheduler, VecDeque.** `schedVars` are the fields of `TaskScheduler`,
`taskVars` those of every `Task`. A scheduling function is two steps: one
changes `TASK_SCHED` under its lock and sets `switching`; `DropAndSwitch` drops
the exited tasks it took out and switches stacks. Between them `cpu`, the task
whose stack is in use, differs from `current_task`. `pc` records the place of a
task inside `sys_exec` (the id is taken before the task is pushed) and
`sys_wait` (the exit code is taken after the sleep).

**Context.** Registers hold the latest value their task gave them; a task leaves
the CPU by `switch_context` or by the timer's frame and returns the same way or
the other. `interrupted` is the frame on the stack of the interrupted task.

**Mutex.** A context is a task or the handler that runs on top of it. Each of
`try_lock`, `spin_lock` and the drop of a guard is two steps, in the order of
the code, and an interrupt may come between any two while the flag is on.
Handlers lock, too, and may leave another task running.

**OpenFiles.** One action per critical section of `sys_open`, `sys_close`,
`sys_pipe`, `sys_exec`, the piped `sys_read` and `sys_write`, `sys_socket`, and
the exit and drop of a task. `pc` and `hand` hold what a preempted call has in
hand. Programs close only what they were given, once.

**FileIo, VfsTree, Fat.** `FileIo` describes files in memory, mounted
files read through a snapshot, and devices whose driver is called outside the
lock, in two steps. `VfsTree` has the path functions on sequences of names,
`walk`, the reference, and the tree as `fs::init` leaves it. `Fat`
has the arithmetic of the boot sector, the chains and the entries on a volume
that is a function from offsets; `mkfs` lays out a tree in any order of
clusters, and the calls are compared with that tree.

**FrameBitmap, Heap, Paging, Elf.** `FrameBitmap` has the set of frames whose
bit is set and the counters; its initial states are those `bitmap::init` leaves
for a memory map. Allocation is defined by the run it returns; `MCMemory`
defines the code's scan, turn by turn, and `ScanFindsRun` shows that the two
agree. `Heap` is the list of holes in units of the alignment of a hole.
`Paging` has the tables as functions and walks them as the code does, with the
tables that are copied before a change, `sys_sbrk`, `sys_free`, exec, switch
and drop. `Elf` checks the header and loads segment after segment.

**Malloc, Html, Page, Layout.** `Malloc` has the memory cell by cell: headers,
what a program stored, and `Junk` for what a free block held before. `Html` and
the style sheets of `Page` are tokenizers that take one character a step;
`Layout` has styles, sizes and positions as functions of the tree. The models
keep what the code does to unusual pages: a text replaces all siblings but the
first, siblings after the first do not inherit a style, a tag that is not
finished stops the browser, and a style sheet without a block makes its loop go
on for ever.

**Fifo, BoundedQueue.** `Fifo` is used in two ways: as operators on a ring, by
`Keyboards` and `Pointers`, and as a specification that implements the abstract
queue `BoundedQueue`, its answers included.

**Tty, Console, AsyncExecutor.** Keystrokes are numbered so that properties can
tell them apart. A reader's steps are those of `sys_read` and of the C
library's `fread`. `Console` takes written strings through the parser of escape
sequences; `want` is the screen of a console that scrolls at once. The executor
is locked during `poll`, whose loops are followed task by task: `queue` is where
the outer loop is, `left` what the inner one still has to do. How a future
answers is free. `age` counts the calls of `poll` a task has waited through.

**Layers, MultiLayer, WindowManager.** `Layers` has rectangles and the stack.
`MultiLayer` draws changed parts into the shadow buffer and copies them to the
card. `WindowManager` has windows as groups of layers, the requests of programs
(two critical sections each where the code has two) and the mouse.

**Keyboards, Pointers, Xhci.** `Keyboards` has both key maps row by row. A
key goes from the wire through the interrupt and the ring to an event, or into
a USB report that is compared with the last one. `Pointers` has the packets of
the mouse and the items of a report descriptor. `Xhci` models driver and
controller, which share rings and see nothing else of each other.

**Rtl8139, Arp, Packets, Sockets, TcpStream.** The card runs between any two
register accesses of the driver. `Packets` turns records into bytes and back.
In `Sockets` a packet is its port, sender and flags, in any order and number.
`TcpStream` numbers the bytes of one connection; the other side (`remote_*`) is
not kernel code and sends what a TCP may send. `in_order`, chosen at the start,
is a network that keeps order; otherwise segments are lost, repeated and
reordered. `received` and `dropped` are histories: the bytes accepted, and how
many of them a `recv` with too small a buffer threw away.

**MC modules.** `Scheduler` is run as it is. `MCOpenFiles` splits one instance
into two parts, one with files, devices and sockets and one with more tasks and
only pipes. `MCFs`, `MCMemory`, `MCDevices`, `MCInput` and `MCNetwork` hold the components
of one subsystem that share no state: the variable `part` selects the component
a behaviour explores while the variables of the others keep their initial
values. A component that is proved about is extended, so that its properties
are those of the theorems; the properties of the others are collected in one
per subject, with the type invariant of the component as one conjunct.

## 3. Runs

| run | checks | distinct states |
|---|---|---|
| `scheduler_safety` | containers and states agree, no panic, process tree, no use after free | 1.4 million |
| `scheduler_wait` | no lost wakeup, `sys_wait` finds the code; ready tasks run, exited ones are released, waits return | 8 800 |
| `open_files` | one owner per descriptor, exclusive devices, no panic in `drop`; lifetime of a pipe, exact end of file, order of bytes, piped reads end | 200 000 |
| `file_system` | the tree, all paths of five names, contents and offsets of three kinds of files, the calls on a FAT volume | 114 000 |
| `memory_programs` | frames disjoint and accounted for, the three allocators find what there is; address spaces apart, all frames come back; programs as linked; pages parsed and laid out as written | 145 000 |
| `devices` | locks, registers, terminal, executor, layers, windows, console | 198 000 |
| `input` | the ring is a queue; keys typed once and in order; pointers follow; USB rings exact, devices polled for ever | 200 000 |
| `network` | port maps, one socket per SYN, exact streams, calls return; ARP; the card's rings; packets readable and handed to the right socket | 280 000 |

Four runs show where the code departs from what a document or a comment of the
repository says; each is a finding in `PROJECT.json`:

- `scheduler_any_wait`: `sys_wait` for a task whose code was taken, or by a
  second waiter, never returns.
- `open_files_numbers`: descriptors and socket ids share one `sys_close`; once
  descriptor numbers reach 4096, closing a socket closes a file of another
  task, whose drop then panics.
- `open_files_leak`: `exec_elf` leaves the file open when it is not a program.
- `sockets_listener`: closing an accepted connection removes its listener from
  the port map.

Two more disagreements were met that no run is spent on. The area chosen for
the frame bitmap is compared with a size rounded down, while the bitmap's size
is rounded up (`mem/bitmap.rs:201`, `:249`); one of the memory maps of
`memory_programs` has such an area, and the frames handed out still stay clear of the bitmap. A
UDP socket keeps one buffer of bytes, so one `recvfrom` returns several
datagrams as one (`net/udp.rs:30`), where the C library's documentation speaks
of a message.

### Bounds

- *Scheduler*: the kernel task and four user tasks. The interesting cases need
  a parent, its child, a grandchild to reparent, and one more task to compete.
  Ids are never reused, so the bound is on spawns. `scheduler_wait` restricts
  `sys_wait` to a task's own uncollected children, as the shell does; this is
  also the condition under which waiting is correct.
- *Locks and registers*: two tasks and a handler, two mutexes, sections nested
  three deep; the proof covers any number.
- *OpenFiles*: descriptors from 3, sockets from 8 (in the place of 4096). One
  part has two tasks, four descriptors, a device, one whose driver fails, a
  created file and an executable; the other has three tasks, five descriptors
  and pipes of two bytes, enough for a pipe and its copies in two children.
- *Files*: offsets to 4 with files of three bytes and reads of one and two, so
  that reads before, across and behind the end occur. Up to three files are
  added to the tree, along all paths of three names. The FAT volume has six
  clusters of four entries, chains in four orders, and names that take one and
  several entries, so that an entry's parts lie in two clusters.
- *Memory*: bytes of three bits and pages of three bytes over four maps of up
  to 13 frames, so that runs lie inside a byte, across bytes and cover a whole
  byte; a heap of 15 units with three sizes and three alignments; tables of
  three entries in three levels over 18 frames, two tasks, and programs that
  need tables the kernel does not have.
- *Malloc and the browser*: pages of a few cells with three lengths, so that
  blocks are split, fit exactly and do not fit; pages of few elements in all
  their nestings, every short text over the characters the tokenizers tell
  apart, and windows narrow enough to break lines.
- *Devices*: a terminal ring of three with five keystrokes (the ring wraps and
  overwrites while full); five driver tasks of the three priorities and a
  counter of 8 values in the place of 2^64 (both are multiples of 4, which is
  all `poll` uses); two layers that overlap on four pixels, two windows with
  their buttons and an image; a console of 2 by 3 cells.
- *Input*: a ring of five, five strokes of three keys on each keyboard, among
  them a modifier and a key of two bytes; movements whose every byte may look
  like a first one; rings of six blocks, so that the set-up of two devices goes
  round them, and one port event that comes late.
- *Network*: one well-known and one ephemeral port, two remote ends, four
  sockets, three datagrams; sequence numbers modulo 8 with initial numbers
  next to the wrap, three bytes from the other side in at most four segments
  (lossy) or as many as they take (in order); two senders, two hosts and one
  address behind the gateway; a receive ring of 32 bytes with frames that do
  not divide it, two transmit slots and a queue of one; data of up to three
  bytes and of 19, with and without options.

A run with `CHECK_DEADLOCK FALSE` is one in which everybody may stop (all tasks
gone, all keys typed, a bound reached).

### Fairness

- `scheduler_wait`: weak fairness of `preempt_sched` (the timer is periodic) and
  of `DropAndSwitch` (straight-line kernel code with interrupts off); strong
  fairness of `take_exit_code`, because a task that is preempted again and
  again still completes the few instructions of its second half. User code owes
  nothing.
- `open_files`, in the part with pipes: the reader's loop and the release of
  exited tasks, by `TasksGoOn` of the scheduler. Writers owe nothing: a read is
  promised to end once all other tasks have exited.
- `devices`: the steps of the single reader, by `TasksGoOn`. Nobody has to type.
- `input`: the driver task, which the executor polls for ever, and the
  controller, which executes the blocks it was told of.
- `network`: the reader's and the senders' steps, by `TasksGoOn`; the delivery
  of what is on an ordered wire, since the main loop polls the card for ever;
  the clock. For ARP, strong fairness of a reply that gets through: requests
  and replies may be lost any number of times, but the code asks again every
  second, and a network that loses all of them owes no answer. TCP has no
  timers in the code and sends nothing again, so that nothing is promised for
  it on a network that loses.

## 4. Proofs

For instances of any size. The assumptions on constants are named in the module
that declares them; where a theorem needs more, it says so.

**Scheduler** (`SchedulerProofs`, on `SchedulerSteps`), for every `MaxTaskId`,
every set of exit codes, and any use of `sys_wait`. From the two assumptions
that `MaxTaskId` is a natural number and `NoCode` is not an exit code:
`TypeCorrect`, `TasksHaveOneHome`, `SchedulerNeverPanics`,
`LiveTasksFormATree`, `RunningTaskIsNotFreed`, `ExitedTasksBounded`.

They follow from one inductive invariant, `IInv`. None of the six is inductive
by itself. What `IInv` adds is: the kernel task is always running or ready
(`KernelRunnable`), hence a user task that gives up the CPU leaves somebody in
the queue; an id that `TaskId::new` gave out belongs to no task until the one
spawn that holds it pushes it, and only live tasks have children (`FreshIds`);
outside a scheduling function the CPU is on the current task and nothing waits
to be dropped (`SwitchOK`). There is one lemma per action. `exit_current`, the
largest, is split into reparenting (`Reparent`), waking the waiter and choosing
the next task (`ExitRunsNext`). Lemmas on `VecDeque` state what pushing, popping
and removing do to the members of a queue and to the absence of duplicates.

`WaitersAreWoken` is about `ParentWaitsSpec`, in which tasks wait for their own
children, as the shell does: `[]WaitSound`, no wakeup is lost. `WaitSound` needs
`IInv` and `WaitInv`: a sleeping task is inside `sys_wait` and sleeps for the
task it waits for; that task is a child of its own whose code nobody has taken;
exactly the dead have left a code. With these, the one step that could lose a
wakeup, `exit_current` between the two critical sections of a `sys_wait`, is the
case of `WaitExit`: the parent that sleeps is the first and only waiter
(`ExitWakes`). Without the restriction `scheduler_any_wait` shows it false.

**Mutex** (`TaskProofs`): `LockHolderRuns`, for any tasks, mutexes and depth,
from the assumption that the handler is no task and `NoMutex` no mutex. That
the holder of a locked mutex is the context on the CPU is not inductive: an
interrupt could find a holder with the flag on. `IInv` adds that every section
but a context's first has saved a cleared flag (`FlagsNest`), that no context
has two guards of one mutex (`Distinct`), and that a task under a handler, or
one whose saved flag is on, is in no section (`Suspended`). A step changes the
guards of one context only; `OwnStep` reduces the invariant to that context,
and `Switches` treats the steps that change which context runs.

**AsyncExecutor** (`TaskProofs`): `TasksTakeTurns` (`TasksInTurn`), for any
finite set of futures, any priorities, and any number of values of `poll_count`
that is a multiple of four, as 2^64 is: without that, a wrap of the counter
would skip the turn of a queue. How long a task has waited is bounded only
through its place in its queue, which every step of the inner loop moves.
`ExecInv` says how: of the `n` tasks of a priority that is served every `s`-th
call, the one at place `i` of the queue has waited at most `s * (n - i)` calls
and those since the queue was last served (`WaitBounded`); in the queue of high
priority only those the call under way has not come to have waited, for this
call (`HighPolled`). `QueuesHold` says that each queue is a
duplicate-free list of its waiting tasks, so that it is never longer than its
priority has tasks (`QueueFits`). One lemma per action; `TurnArithmetic` and
`NextCount` hold the arithmetic of the turns. TLC checked `ExecInv` on the
instance of `devices` before the proof.

**OpenFiles** (`OpenFilesTable`, `OpenFilesSteps`, `OpenFilesProofs`), for any
tasks, files, devices and numbers of descriptors.

- `PipesAreExact` concerns the table alone, which no call of another task can
  spoil: its invariant `TableOK` is the type of the table, `ExclusiveOpen`,
  `PipesExact`, and `TableInv`, that numbers not given out yet are not used and
  a pipe has not returned more than was written. Closing any set of descriptors
  keeps it (`CloseTable`), which covers `sys_close`, a failed device, exec and
  the drop of a task at once.
- `DescriptorsHaveOneOwner` (`FilesOwned`) and `DropIsSafe` (`DropNeverPanics`)
  hold if `MaxFd <= FirstSocket`: the first socket id is 4096, and with more
  descriptors than that they are false, as `open_files_numbers` shows. The
  invariant `IInv` accounts for every descriptor at every place of every call
  (`TaskInv`): what a preempted call has in hand (`InFlight`) is open and on
  nobody's list; what a task lists is open, but for the one number that
  `sys_close` has closed and not yet taken off; and no two tasks hold the same.
  `OwnStep` reduces a step to the task that takes it.

**Sockets** (`KernelProofs`), for any numbers of sockets, ports and peers:
`PortsLeadToTheirSockets` (`PortMapsSound`) and, as an action property,
`RepeatedSynIsHarmless` (`OneSocketPerSyn`). The port maps are sound only
together with `StatesSound`: a datagram socket has no state of TCP, and a socket
with a peer is neither closed nor listening. Without the latter, a connection
could be mistaken for a listener and a SYN be answered twice.

**TcpStream** (`TcpProofs`): `StreamsAreExact` (`StreamExact`), for any numbers
of bytes, segments and sends, any initial sequence numbers and both kinds of
network. It assumes `MaxBytes + 2 < SeqMod`: all the bytes of the connection, its
SYN and its FIN have different numbers. For the code this means less than 4 GiB
from the other side; beyond that a very late duplicate could be taken for new
data, and the code has nothing against it. `StreamExact` only says what was
accepted, returned and sent; that the next segment keeps it needs to know what
is under way. `StreamInv` adds `WireSound` (every segment on the wire is the SYN
or a run of the bytes sent, under the number of its first byte), `HandshakeSound`
(what each state of the handshake has set, and where the last segment sent
ended), `BufferSound` (the buffer is the end of what was received, and what was
read lies before it) and, where order is kept, `OrderKept` (the segments follow
each other, and the next one to be delivered is the one expected). TLC checked
`StreamInv` on the instance of `network` before the proof. The heart of the
argument is in two lemmas: `WrapInjective`, that equal numbers are equal positions also
across the wrap, and `Accepted`, that what passes the comparison with
`next_recv_seq` is a run that starts at the first byte not yet received.

**Context** (`KernelProofs`): `TasksKeepTheirRegisters` (`RegistersKept`), for
any set of tasks. The invariant is inductive as it stands: it describes, for a
task that is not on the CPU, the place each register was saved to, and for a
handler the frame it interrupted.

**Fifo** (`KernelProofs`): `RingIsAQueue`, the refinement of `BoundedQueue` for
every size and set of values. Each operation on the ring is shown to be the
queue's operation on `Contents(fifo)`; the arithmetic of the pointers modulo
`SIZE` is in `Around` and `Length`.

**FrameBitmap** (`KernelProofs`), for every byte width, page size, set of
lengths, and every set of memory maps whose areas do not overlap:
`FramesNeverShared`, `FramesNeverLost`, `FramesNeverFreedTwice`. The inductive
invariant says that the set bits are the reserved frames and those handed out,
and that these are disjoint.

**Only model-checked**: all liveness properties, which the prover does not
treat; what recursion computes over data of any size (paths and the tree, FAT
chains, the loader, the pages of the browser, layouts and checksums of packets,
the exactness of the counters of `FrameBitmap` and the agreement of its scan
with its definition), which would take an induction the prover does not do; and
the invariants of `FileIo`, `Heap`, `Malloc`, `Paging`, `Tty`, `Console`,
`MultiLayer`, `WindowManager`, `Keyboards`, `Pointers`, `Xhci`, `Rtl8139` and
`Arp`.

## 5. Reading the results

Every property of a passing run has at least one faulty variant of the code
that TLC shows to violate it (`mutants`), for instance a descriptor that stays
in `fd_nums` after `sys_close`, a guard that restores the interrupt flag before
it releases the lock, or a FIN whose data is ignored. Properties are stated as
narrowly as they hold:

- `LineReturns` is for one reader.
- `CloseWaitComplete` (in `StreamExact`) and `RecvReturns` (in `CallsReturn`) are for a network
  that keeps order, because the code accepts a FIN whatever its sequence number.
- That every accepted byte is returned (`ReadIsReceived`, in `StreamExact`) is for
  buffers that hold what is there, because `recv` drops the rest; in order and at
  most once (`ReadOnce`) is for all.
- Keys of the PS/2 keyboard are typed in the order of the presses as long as
  none is released and the ring has not overflowed (`PressesTyped`).

## 6. Running

In this directory, `tlc -config MCFs.cfg MCFs` (and likewise for the other
runs, see `PROJECT.json`), and `tlapm SchedulerProofs.tla`,
`tlapm TcpProofs.tla` and so on for the proofs.

## 7. Not modelled, and why

- *Fixed tables and registers*: descriptor tables, control registers, ACPI and
  PCI configuration space, the initialisation sequences of devices, the layouts
  of USB contexts. They are written once at boot; what is wrong with them is
  wrong at the first step, and there is no state over time to explore.
- *Pictures*: fonts, shapes, colours, pixel formats, the contents of window
  components, the panic screen. Where pixels go and which are drawn again is in
  `MultiLayer`; what they look like is not a property.
- *Serial port, speaker, random numbers*: input and output without state.
- *Debug information* (`debug/dwarf.rs`), the logger, the panic handler:
  sequential readers and writers off the paths the kernel depends on.
- *The bootloader*: sequential code on firmware services. `FrameBitmap` starts
  from the memory map it hands over.
- *User programs*: sequential clients of the kernel; the calls the shell and
  the C library make shape `OpenFiles` and `Tty`. Of the browser, the URL, DNS
  and HTTP clients and the drawing of what was laid out are left out; they are
  computations on strings without interaction.
- *Within modelled parts*: USB transfers that end with an error (the request
  returns it and the device stays as it is) and devices that never answer (the
  driver waits for ever, as the code has no timeout); mounting after boot; the
  text of /proc files; FAT12 and FAT16 volumes, which no build makes.

Where proofs would go next: the partition of `Heap`, the table of `Arp`, and the
rings of `Xhci` along the argument of `RingIsAQueue`.
