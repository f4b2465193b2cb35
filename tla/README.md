# A TLA+ verification of mikOS

mikOS is a small operating system for 32-bit RISC-V machines without an MMU. It
runs unmodified Linux binaries (BusyBox, Dropbear) in one flat address space.
This directory holds TLA+ models of its stateful parts, the TLC runs that check
them on small instances, and TLAPS proofs of the central invariants for all
instances. Paths below are relative to `src/`. `PROJECT.json` is the index: for
every definition the lines it models, for every run its properties, for every
property a mutation of the model that breaks it.

To check a run, `tlc -config <file>.cfg <MC module>`; to check the proofs,
`tlapm <module>_proofs.tla` for SnapshotArena, PipeTable, ProcessTable,
SocketTable, PtyTable, TcpStack, TcpConnection and ForkSignals.

## The system

| Part | State | Operations | What is hard about it |
| --- | --- | --- | --- |
| Fork snapshot arena (`include/mikos/process/snapshot_arena.hpp`) | free extents, bytes handed out | allocate, release | rounding and wrap of sizes, coalescing on both sides, a bounded extent table; a refused release stops the machine |
| Fork adapter (`kernel/syscall.cpp:60-1315`) | the active process, a suspended parent, a stack of ancestors, one background service, one interactive child, the zombie table | clone, exit, wait4, park and resume on a socket or a terminal | one memory image at a time: every fork, exit and blocked read moves images, descriptors and frames between records |
| Pipes (`include/mikos/process/pipe.hpp`, `include/mikos/io/ring_buffer.hpp`) | ring, reader and writer counts, generation | create, retain, release, read, write | slot reuse under stale handles, EOF and EPIPE exactly at the last close, atomic small writes |
| Process table (`include/mikos/process/model.hpp`) | records with state, parent, group, session, vfork links | fork, vfork, exec, exit, wait, setpgid, setsid, stop, resume, dispatch | lost wakeups, orphans, ids that run out, starvation |
| Pseudo terminals (`include/mikos/process/pty.hpp`) | two rings, modes, session, foreground group, end counts | open, read, write, ioctls | echo and newline expansion against full rings, flushes, who gets a signal |
| TCP connections (`network/stack.cpp`, `include/mikos/net/socket.hpp`) | sequence numbers, windows, reassembly and retransmission stores, close flags, time stamps | segments, read, write, shutdown, close, timers | loss, duplication, reordering, wrap of numbers, a busy driver, timeouts racing answers, slot reuse |
| Socket table (same files and the socket calls of `kernel/syscall.cpp`) | slots, descriptors, ports, listeners, backlog | socket, bind, listen, accept4, dup, close, handshake, reset, expiry | children of closed listeners, endpoints in TIME-WAIT, thirteen slots for everybody |
| Signals (`include/mikos/process/signal.hpp`, `kernel/syscall.cpp`) | actions, mask, pending set, one active frame | sigaction, sigprocmask, group signals, delivery, sigreturn | five places hold the signal state of a process, and every fork, park and exit moves it; group signals must find them all |
| ext4 root filesystem (`drivers/fs/ext4/ext4.hpp`, `drivers/fs/root.cpp`) | bitmaps, three copies of the free counts, inodes with extents, directory blocks, the inode copy of each descriptor | create, open, write, truncate, mkdir, rename, unlink, concatenate, mount | no journal: only the order of writes and flushes protects the volume when the power fails; running out of space half way |
| FAT32 (`drivers/fs/fat32/fat32.hpp`, not linked into the kernel) | cluster chains in mirrored tables, free count and hint, directory slots with long names and aliases | the same | a chain and the entry that shows it are in different sectors; names span slots and clusters |
| Drivers (`drivers/net`, `drivers/storage`) | rings and DMA buffers shared with a device | submit, complete | ownership of buffers, wrap of ring indices |
| Memory arena (`include/mikos/memory`) | block list, reservation ticket | allocate, release | splitting and coalescing |
| Descriptors, paths, pseudo files, loader, boot, console | tables and parsers | system calls | mostly sequential; see the end |

The parts interact through system calls: the adapter decides which process runs
and saves its descriptors, each of which is a reference to a pipe end, a
terminal end or a socket. Blocking calls poll the network stack, and a service
that blocks on a socket or terminal may be parked, which runs its parent.

The kernel has one hart and handles a trap to its end, so an action of a model
is a system call, a poll of the stack, or one turn of the wait loop of a
blocking call. Interleaving comes from the order in which programs make calls,
packets arrive and timers run.

## The modules

Every component is one module; an `MC...` module extends it and gives constants
that a cfg cannot write. Definitions keep the names of the code. Operators
marked *Mutant* in a comment are variants of the next definition with a
plausible mistake; they are not part of any specification.

**SnapshotArena** models the first-fit allocator statement by statement with
u32 arithmetic (`WordMax` is `~u32{0}`), and the two kernel wrappers:
`allocate_snapshot`, and `release_snapshot` which stops the machine when the
arena refuses. `live` is the set of images some context holds.

**ForkAdapter** has one variable per kernel record (`process`, `parent`,
`nested_ancestors`, `background`, `interactive_child`, `interactive_parent`,
`waitable_children`) and one action per call that moves a process. An image is
the name of the process whose memory it is; descriptors are names of four
objects with reference counts. Running out of arena memory is an alternative of
every action that allocates. It is the `MIKOS_TRIBE_INTERACTIVE` build.

**ForkSignals** extends ForkAdapter: each of its context records is joined by
the signal state of its process (actions, mask, pending set, active frame,
group, session), and every action of ForkAdapter is conjoined with what the code
does to those. The calls that send, block, install and return are actions of
their own; every call ends with the delivery of at most one signal
(`deliver_pending_signal`). `background_signals` is the copy the code takes when
it reinstates an ancestor and does not refresh.

**PipeTable** models slots, generations, counts and the ring's arithmetic;
`held` counts the descriptors the kernel has. **PipeStream** is the abstract
specification: a bounded stream of bytes per slot. `ImplementsStreams` in
PipeTable is the refinement, with the ring's contents read from head to size.

**ProcessTable** models every operation of the class. `current` is the process
`next_runnable` last chose, and makes the calls a process makes for itself;
signals stop or resume anyone at any time. Ids are counted modulo `PidModulus`.

**PtyTable** models both directions of the line discipline, the controlling
terminal and the foreground group. The rings are bounded sequences, since
PipeTable has the ring itself. `log` records what each side was told it wrote
and what the other side read.

**TcpConnection** models one slot from `accept` until it is free. A peer and a
network without memory may deliver at any poll any segment the peer could have
sent, which includes every loss, duplication, delay and reordering. The driver
may refuse any frame (`io.busy`). A time stamp is its age in ticks, saturated
at `Interval`; all intervals of the code that matter here are 120 s. Sequence
numbers are taken modulo `SequenceSpace` and compared as the code does.

**SocketTable** models the array of slots and the descriptors of all processes.
The synchronized states of TcpConnection are drawn together into three, and a
set of connections whose timers run out is chosen at each poll; the age of a
half-open connection is counted, since `HalfOpenEnds` is about it.

**Ext4** models the volume as places (bitmaps, group descriptor, superblock,
inodes, blocks) and every operation of the driver as the sequence of device
commands it gives. Bytes are values, a block is a few of them or a set of
directory records, and unused blocks hold `Junk`.

**Fat32** models the tables, FSInfo and directory slots in the same way: chains
are followed through the active table as the code does, a name takes one slot
per long part and one for its alias, directories grow by a cluster, and the
counters of the mounted volume are kept apart from what FSInfo says.

**Device** is what both rest on. `platter` is what survives a power cut and
`unflushed` the writes since the last flush. The kernel waits for each command
and runs one operation at a time, so an operation is one step; within it a
record `s` is threaded through the code (`Then` goes on when there was no error,
`Undo` is a rollback, `Ignored` a `(void)` call). A fault strikes at any one
command: a `"cut"` ends the operation, mounts what the platter holds and closes
all files; an `"io"` error is returned to the code. A command is written whole or
not at all, also where a block covers several sectors.

**FileTree** is the abstract specification of both: a map from paths to files
and directories on which an operation happens or does not, interrupted or not.
`shown` is the tree that lookups and reads show, and `ImplementsTree` the
refinement. The history variable `partial` of the drivers says that the last cut
left neither the tree before the operation nor the one that the same operation
makes without a cut, or that a restart changed the tree. The documented promise
is that this does not happen. Neither driver keeps it, and `Tolerated` names
exactly what each leaves: `"torn"` (an overwrite with some bytes old, some new),
`"leftover"` (bytes of an interrupted write behind the end, shown by a later
extension), `"zeroes"` (the new size, and zeroes for bytes not yet stored),
`"unfilled"` (a new file without some of its bytes), `"alias"` (a removed file
still there under its short alias) and `"undone"` (a create that failed shows as
an empty file after a restart). With one of the names left out of its cfg,
`ImplementsTree` is violated; the table of disagreements has a row for each.

## The runs

| Run | Instance | What it shows |
| --- | --- | --- |
| `snapshot_arena` | eight granules with unaligned bounds, four holders, requests on both sides of every rounding and wrap boundary | images are apart (`LiveDisjoint`), a second release is refused, the kernel never halts; `IInv` is the invariant of the proof, with types, tiling, coalescing and the exact counter in it |
| `fork_ssh` | console shell, listener, session, login shell, command; a stack of three ancestors and two zombie slots | each process is in one place with its own image (`EveryProcessKept`), reference counts are exact, ancestry is ordered, a park answers a fork once; also when the tables are full and allocations fail |
| `pipe_table` | one slot used again over generations 1 and 2, a ring of three bytes, writes up to four, atomic up to two | the ring implements PipeStream (`ImplementsStreams`); ends are counted, no slot is reused under a handle and none leaks (`PipeInv`); every open descriptor resolves |
| `process_table` | three records, four ids, fork and vfork, all wait selectors, stop and resume of processes 2 and 3, fair dispatch | the code's `invariant()`, ownership of exit statuses, live parents, suspensions with somebody to end them; no runnable process starves |
| `pty_table` | rings of two bytes, newlines and interrupts, three sets of modes, a session leader, generations 1 and 2 | each side reads what the other was told it wrote (`StreamsFaithful`); ends are counted (`EndsCounted`); there is a foreground group exactly while a session owns the terminal, and a new one starts clean (`TerminalOwned`) |
| `tcp_receive` | four bytes through a buffer of three, two reassembly entries, numbers that wrap | each byte once and in order, from stored pieces that fit (`StreamInOrder`); acknowledgements are owed until told |
| `tcp_send` | three bytes out, windows that close, slot reuse | the retransmission store is exactly the flight; FIN after data; state matches FINs |
| `tcp_reclaim` | one byte out, fair polls and clock | a closed connection frees its slot |
| `socket_table` | three slots, two descriptors, two peers, backlog one, fair polls and clock | references are exact, waiting connections have a listener, endpoints and ports are exclusive, half-open connections end |
| `ext4_volume` | two free data blocks of two bytes, two free inodes, a root with room for two names, a subdirectory, files up to three bytes, two extents, one descriptor, one power cut at any command of any operation but rename | after a cut the tree is the one before or after, but for a torn overwrite and leftover bytes behind the end (`ImplementsTree`), no block has two owners or is marked free under a file, no name leads to a dead inode; without a cut the bitmaps mark exactly what the tree uses and all counts agree (`BooksBalance`) |
| `fat32_volume` | four clusters of two bytes or five slots, two mirrored tables, a root and a directory that both have to grow, a name of two long slots, restarts, one power cut at any command but those of a move and of cutting a chain | chains are whole and disjoint and names unique, also on the media a restart would find (`ChainsSound`); a directory takes its contents along when it moves; after a cut the tree is the one before or after, or one of those `Tolerated` names, in which no other file is touched and nothing shows that was not written (`ImplementsTree`); without a cut no cluster or long slot leaks and the tables agree (`BooksBalance`) |
| `fork_signals` | terminal server, shell, command; interrupt, kill and child signals, one handler that blocks another signal, two masks, three calls that touch signals | each process's signal state follows it through forks, parks, relays and exits (`SignalsKept`), the uncatchable stay so (`Uncatchable`), a group's signal reaches its members and nobody else (`GroupReached`), and the stale copy in the background record takes a signal only for a process that has left the group (`StaleCopySpared`). `GroupReached` is about the processes that do not run; what the active one is sent is delivered in the same step |

The type invariants of ProcessTable, PtyTable, TcpConnection and SocketTable are
conjuncts of `TableInvariant`, `EndsCounted`, `StreamInOrder` and
`DescriptorsCounted`; those of ForkAdapter, PipeTable, Ext4 and Fat32 of
`EveryProcessKept`, `PipeInv`, `BlocksExclusive` and `ChainsSound`.

The bounds are the smallest at which the cases the code distinguishes happen:
a ring wraps, is full, and takes part of a call; generations and sequence
numbers wrap within the run; tables overflow; slots and ids are used again; five
processes are the deepest nesting of the SSH profile. One pipe slot and one
terminal slot are enough because slots share nothing but the choice of a free
one, and for pipes the proofs cover tables of every size. In
`ext4_volume` blocks, inodes, directory room and the free counts all run out,
and a block is used again after every kind of file. Five restrictions of that run
are there because the code fails without them; the table below says how: a call
extends a file by at most one block (`Reach`), no directory is renamed to a name
below itself (`Cycles`), a file is open once and not changed by path meanwhile
(`Shared`), the device keeps the order of writes (`Reorders`; true of the Tribe SD
controller, whose flush is a fence), and the power is not cut inside rename
(`Faulty`). A write begins inside the file or at its end, a new file has no bytes
or the most, and a concatenation takes one block. In `fat32_volume` the volume
fills up, both directories grow and aliases are used again. A file moves between
any two names and a directory to every name (`Moves`), not below itself
(`Cycles`); a move and the cutting of a chain are never interrupted, for the same
reason; and after a cut that left an operation done in part the run only restarts.
The free count of FAT32 is bounded from below only, since FSInfo may be out of
date. Three calls
that touch signals are enough for one to be blocked, sent and unblocked, or
caught, sent and returned from, around any number of forks, parks and exits. The
runs of ForkAdapter and ForkSignals turn off the deadlock check because the machine really stops: the
exit of the last process shuts it down.

**Fairness.** `process_table` assumes that the dispatcher is entered again and
again (every trap ends in it). `tcp_reclaim` and `socket_table` assume that
`poll` is called again and again, as every wait loop of the kernel does, and
that the clock runs. Nothing is assumed of programs, peers or the driver.
`SlotReclaimed` excepts a peer that restarts TIME-WAIT for ever by repeating its
FIN, which RFC 9293 asks the stack to honour.

**Disagreements.** At some places the code does not do what the repository's
documents, comments or tests say. They have no run; each is a definition of the
module, or a run with the constant shown, and TLC prints a short trace when it
is added to a cfg as an invariant or property:

| Definition | What the code does | What is written |
| --- | --- | --- |
| `SessionExitRestoresListener` (ForkAdapter) | a session that exits while its shell is parked on the terminal stops the machine (`kernel/syscall.cpp:4261`) | `tests/tribe/README.md:194` |
| `ForkReturnsOnce` (ForkAdapter) | a service that parked, resumed for input and exits makes its parent's blocked call return the child's id (`kernel/syscall.cpp:4284`) | `kernel/syscall.cpp:1222` |
| `ForkRefusedOnlyWhenFull` | fork is refused with empty tables while a service is parked (`:1096`) | `tests/tribe/README.md:192` |
| `ImagesOwned` with `Services = {2, 3}` | two services nested: a parked image loses its owner (`:1132`) | `tests/tribe/README.md:190` |
| `ForkFailsAtomically` | a fork that fails reinstates an ancestor it never stacked (`:468`) | `doc/process-ipc-tty-plan.md:110` |
| `NoOrphanZombie` | zombies of an exited process keep their slots for good (`:4284`); a chain of forks longer than the zombie table loses exit statuses (`:219`) | `doc/process-ipc-tty-plan.md:104` |
| `GroupReached` (ForkSignals) without its exception | the shell behind a relayed program is in none of the places a group signal visits, and misses an interrupt for its group | `doc/process-ipc-tty-plan.md:179` |
| `CopyTakesNone` (ForkSignals) | a process that changed its group after its copy was made is passed over by the search for the pids already reached, which compares only members of the group: the stale copy takes the signal (`kernel/syscall.cpp:611`) | `kernel/syscall.cpp:633`: "PID de-duplication cannot queue a terminal signal into the stale copy" |
| `resume_interactive_child_if_ready(TRUE)` (ForkAdapter) | a blocked call returns EINTR for a pending signal that is ignored, although no handler runs | `doc/process-ipc-tty-plan.md:158`: "as selected by the installed action" |
| `GroupsWithinSession` (ProcessTable) | setsid by a process whose old group lives on splits the group over two sessions (`model.hpp:249`) | `doc/process-ipc-tty-plan.md:172` |
| `NoLostWakeup`, four records | init sleeps in wait beside a zombie it inherited (`model.hpp:407`) | `doc/process-ipc-tty-plan.md:43` |
| `VforkParentSuspended` | a stop and a resume end a vfork suspension early (`model.hpp:271`) | `doc/process-ipc-tty-plan.md:113` |
| `SignalsToForeground` (PtyTable, `SshProcesses`) | SIGWINCH goes to the caller, not to the foreground group (`kernel/syscall.cpp:3931`) | `doc/process-ipc-tty-plan.md:200` |
| `ForegroundInSession` | a group of another session becomes the foreground group (`pty.hpp:332`) | `doc/process-ipc-tty-plan.md:178` |
| `OneTerminalPerSession`, two terminals | a session acquires two controlling terminals (`pty.hpp:301`) | `doc/process-ipc-tty-plan.md:175` |
| `WritableMeansProgress` | a terminal polls writable and refuses a newline (`pty.hpp:404`) | `doc/process-ipc-tty-plan.md:136` |
| `PeerWasSilent` (TcpConnection, `Clock = TRUE`) | closing a connection that was idle for 120 s resets it at once: the FIN does not restart `progress_at` (`network/stack.cpp:438`) | `tests/network/README.md:102` |
| `ClosedWindowQueried` (TcpConnection) | a FIN behind a closed window sends no window query (`network/stack.cpp:433`) | `tests/network/README.md:101` |
| `ImplementsTree` (Ext4, `Faulty = {"move"}`) | a cut inside rename leaves two names for an inode with one link; removing one frees it under the other (`ext4.hpp:1038`) | `doc/fs-write-regression.md:14` |
| `BooksBalance` (Ext4) with `Reach = 3` | a call that needs two blocks and gets one fails and leaves that block marked, owned by no inode (`ext4.hpp:1273`) | `doc/fs-write-regression.md:122` |
| `NamesLive` with `Reorders = TRUE` | an empty file's name, or a new directory's, can reach a device with a write cache before its inode, and the directory becomes unreadable (`ext4.hpp:879`) | `doc/fs-write-regression.md:113` |
| `NamesLive` with `FaultKinds = {"io"}` | when the flush behind a new name fails, create frees the inode and leaves the name (`ext4.hpp:888`) | `doc/fs-write-regression.md:14` |
| `BooksBalance`, `BlocksExclusive` with `Shared = TRUE` | descriptors keep copies of the inode: a change by path, a second descriptor or an unlink makes them stale, and later writes go to blocks the file does not own (`kernel/syscall.cpp:1563`) | `doc/fs-write-regression.md:44` |
| `BooksBalance` (Ext4) with `Cycles = TRUE` | `rename a a/b` succeeds: the directory is unlinked from the tree, with its inode, its block and everything below it still marked (`ext4.hpp:1012`) | `doc/fs-write-regression.md:154`: "descendant rejection" |
| `ParentsNamed` (Ext4) | a directory that moves to another keeps the `..` of its old parent, and the link counts of both (`ext4.hpp:1038`) | `doc/fs-write-regression.md:154`: "`..` update" |
| `ImplementsTree` (Ext4) without `"torn"` in `Tolerated` | a cut inside an overwrite of more than one block leaves some bytes old and some new (`ext4.hpp:774`) | `doc/fs-write-regression.md:14`: "a valid old or new state" |
| `ImplementsTree` (Ext4) without `"leftover"` | after a cut in a growing write, a later extension shows the bytes that write had stored behind the end (`ext4.hpp:819`) | `doc/fs-write-regression.md:139` |
| `ImplementsTree` (Ext4) with `BlockCount = 5` | a cut inside a concatenation of several blocks leaves the first of them appended (`ext4.hpp:1050`) | `doc/fs-write-regression.md:14` |
| `ImplementsTree` (Fat32) without `"torn"` | a cut inside an overwrite of several clusters leaves some bytes old and some new (`fat32.hpp:740`) | `doc/fs-write-regression.md:14` |
| `ImplementsTree` (Fat32) without `"zeroes"` | a growing write makes the new size durable before its data (`fat32.hpp:729`) | `doc/fs-write-regression.md:77`: "data is durable before the directory size/chain becomes visible" |
| `ImplementsTree` (Fat32) without `"unfilled"` | a create that is interrupted leaves the name with none or some of its bytes (`fat32.hpp:795`) | `doc/fs-write-regression.md:14` |
| `ImplementsTree` (Fat32) without `"undone"` | a create that fails for want of room erases its entry without a flush; a restart shows it, empty (`fat32.hpp:802`) | `doc/fs-write-regression.md:14` |
| `ImplementsTree` (Fat32) without `"alias"` | a removal erases the long slots first: a cut leaves the file under its alias (`fat32.hpp:1339`) | `doc/fs-write-regression.md:93` |
| `BooksBalance` (Fat32) with `Cycles = TRUE` | a directory moves below itself and its chain, with everything below it, is lost; nor is `..` rewritten when one moves elsewhere (`fat32.hpp:866`) | `doc/fs-write-regression.md:92` |
| `ChainsSound` (Fat32, `Faulty = {"shrink"}`) | a cut while a chain is cut short leaves an entry whose size its chain does not cover | `doc/fs-write-regression.md:14` |
| `ImplementsTree` (Fat32, `Faulty = {"move"}`) | a cut inside a move leaves the file under both names, with one chain | `doc/fs-write-regression.md:93` |

## The proofs

**SnapshotArena_proofs** proves, for every arena, every set of requests and
every extent table larger than the number of holders, `Spec => []IInv`, and from
it `TypeOK`, `LiveDisjoint` with `Tiling` (`MemorySafety`), `NeverHalts`
(`ReleaseNeverRefused`), `DoubleReleaseRefused` (`NoDoubleRelease`) and
`ExtentBound` (`ExtentTableSuffices`). That a release
is never refused is not inductive: one needs that the released bytes are not
free (`Tiling`), that extents are sorted and apart (`Coalesced`), that everything
lies inside the arena on 16-byte boundaries (`Inside`) and that the counter is
the sum of the held sizes (`Accounting`). That the table suffices is a counting
argument: between two free extents that do not touch lies a held allocation
that begins at the end of the first, and different extents give different
allocations, so there are at most as many as holders, plus one. The lemmas about
`insert`, `erase` and intervals carry the sequence reasoning. The assumption
`MaxLive < ExtentCapacity` is the relation of the code's constants: 64 extents,
and far fewer contexts than that.

**PipeTable_proofs** proves, for every table and buffer size and every range of
generations, that ends are counted exactly, that a slot is used exactly while a
descriptor is open (`PipeTableKept`) and that every open descriptor resolves
(`PipeHandlesResolve`). The invariant adds the types of the ring, which the
index arithmetic needs, and that a used slot has a generation that is not zero.
All actions change one slot and one handle's count, so one lemma about such a
change serves them all. On top of it `PipesAreStreams` proves the refinement:
`WriteIndex` and `ReadIndex` follow an index through the wrap of the ring, from
which `WriteContents` and `ReadContents` say that a write appends to the mapped
stream and a read removes its front, and one lemma per call shows the step of
PipeStream it makes.

**ProcessTable_proofs** proves the four safety invariants of `process_table`
for every capacity, range of ids and workload. None is inductive alone, and
they are proved together (`IInv`): a zombie is found by its id only when ids are
unique, a fork cannot overwrite one because its id is above all others, and a
sleeping parent has a live child because no process is its own parent. `Ground`
is what has to be added: ids not handed out are in no history, nobody is their
own parent, init has none, and a zombie keeps the status it exited with. Calls
that neither fork, exit nor collect are one lemma (`QuietStep`).

**SocketTable_proofs** proves the three safety invariants of `socket_table` for
every number of slots, descriptors, ports and peers. The properties are stated
again as predicates of a slot table and a descriptor table (`All(t, ds)`), so
that a call is a chain of changes to the tables, each with a lemma that says it
keeps them, and the sweeps of `release` and `flush_timers`, which change many
slots in one call, are one such change (`Sweep`, `Narrowed`). The strengthening
is `Formed`, what holds of a slot by itself (a free one is empty, only
connections have a peer or a listener, only an accepted one is detached), and
that a descriptor names a live slot with the peer it was made for. References
equal cardinalities of sets of descriptors, by the library's theorems on finite
sets.

**TcpStack_proofs** and **TcpConnection_proofs** prove the five safety
invariants of `tcp_receive` and `tcp_send` for every size of buffers, stores and
windows, every sequence space and every pair of streams (`ConnectionInvariant`,
then `StreamStaysInOrder`, `AcknowledgementStaysOwed`, `FlightStaysRetained`,
`FinWaitsForData`, `StateFollowsFins`). The invariant is a predicate of the
stack's record, `Sound(k, d)`, because the code changes that record several
times within one segment: `Receives` (what was read and the buffer are the
beginning of the peer's stream; every stored piece is a piece of that stream,
begins behind a gap and ends inside the window), `Sends` (the retransmission
store tiles the flight, piece beside piece; once the FIN is out nothing else is
unacknowledged) and `Closes` (the state is the one the FINs name). TcpStack_proofs
has a lemma for each step of segment handling on such a record,
TcpConnection_proofs chains them into the actions. Sequence numbers are compared
by the code modulo the space; `2 * InboundLength + 4 < SequenceSpace`, and the same
of what we send, makes the comparison that of places in the stream.

**PtyTable_proofs** proves the three invariants of `pty_table` for every number
of terminals, ring size, set of programs and of terminal settings
(`TerminalInvariant`, then `EndsStayCounted`, `TerminalStaysOwned`,
`StreamsStayFaithful`). To the counts and the owner it adds that a free slot is
fresh, and that on each side what was read, followed by the ring, is what was
written. The loops of the line discipline are recursive functions of the number
of bytes done; a fact about one is proved for the least number at which it
would fail, which does not exist.

**ForkSignals_proofs** is about ForkAdapter and ForkSignals together. Its first
part proves the four invariants of `fork_ssh` for every number of processes,
depth of the stack, zombie table and choice of who opens what
(`ForkInvariant`, then `ProcessesStayKept`, `ReferencesStayExact`,
`AncestryStaysOrdered`, `ForkAnsweredOnce`). The invariant `IInv` counts: a
live process that is not active is in exactly one place, and an object's count is
the number of tables that hold it, sums over a stack that grows and shrinks by
one. Neither survives a step alone. A resumption is safe only because the
process it resumes is the one its record says (`Chained`: each suspension waits
for the one above it), a relay because the parked program is the child of the
shell set aside with it (`Relays`), a park answers a fork once because a frame
stays a fork's exactly until the child is answered (`Frames`), and an image in the
background record belongs to a child of the process at the bottom (`Parked`).
There is one lemma per action.

These theorems ask one thing of the programs, `ListenerAtTop`: a service that
waits for a listener does so when no ancestor is stacked. It is needed. With an
ancestor stacked, the next exit reinstates it and captures the active process in
the background record, over the name of the service whose image is still there
(`ImagesOwned` above). `FirstServiceAtTop` shows that it holds, and drops it, when
the only such service is the first program the console shell starts, as in the
SSH profile.

The second part proves the invariant and the three action properties of
`fork_signals` (`SignalsInvariant`, then `NeverCaught`, `SignalsStayKept`,
`GroupIsReached`, `StaleCopyIsSpared`), for every set of signals, actions and
masks and any number of calls, and that the four invariants above go on holding
under signals (`SignalsKeepProcesses`). The
strengthening is `IInv`, that every saved signal state is proper, and `Shadowed`.
The stale copy is spared because the record names a process that is visited before
it (`RecordVisited`). That is not inductive, since a park moves the active process
behind the relay and the record has to name it and nobody else; so the record is
shown to name the active process whenever an ancestor is stacked and no program is
parked, and the parked program after it parked. An action property is proved
from a table of where each process's signals are before and after a step
(`Across`), which exists because `IInv` puts every process in one place: a state
that moves is unchanged (`MovedWhole`), queued for (`MovedQueued`) or that of the
process that comes to run (`MovedRuns`).

The proofs assume of the constants what the ASSUMEs of the modules say: sizes
are positive, an atomic write fits the ring, zero is no port, the word of the
arena is a multiple of sixteen long and its table larger than its holders, the
sequence space is more than twice the streams, and the interrupt and child
signals are among the signals.

Only model-checked:

- everything under fairness (`RunnableRuns`, `SlotReclaimed`, `HalfOpenEnds`):
  TLAPS proves neither liveness under fairness nor statements with ENABLED;
- the filesystems, that is `BlocksExclusive`, `NamesLive`, `ChainsSound`,
  `BooksBalance` and the refinement of FileTree. An operation there is a program
  of device commands with a fault at any of them, written with operators that
  take the rest of the program as a parameter (`Then`, `Fold`). A lemma about
  such an operator would itself have an operator parameter, which none of the
  provers can instantiate;
- ForkAdapter for profiles in which a service below another one waits for a
  listener: its invariants do not hold there.

## Not modelled

- Congestion control and round-trip estimation of TCP: the congestion window is
  any limit of at least one segment. Several connections share the two stores
  of the stack; TcpConnection has one connection.
- Canonical-mode editing beyond what the terminal implements, and the text of
  `/proc` and `/dev`.
- The machine code of traps, ELF loading, register-level console I/O, stateless
  parsing of frames, container templates: layout and arithmetic that unit tests
  reach better.
- Of ext4: several block groups, extent trees deeper than the inode and indirect
  maps (the driver only reads those), modes and times.
- Of FAT32: decoding of names and the boot sector, and several sectors to a
  cluster; a name is a value with its number of slots and its alias base.
- Of signals: the registers of the frame, and stop and continue, which the code
  accepts without effect. No process waits for a socket in ForkSignals.
- The rings the network and block drivers share with their devices, and the
  cached sector. The models above see a driver that may refuse or lose a frame,
  and a device that completes commands in order.
- The memory arena, used by a self test at boot only; its algorithm is that of
  the snapshot arena with the list kept in the blocks.
- Sharing of file offsets by dup, fcntl flags, poll and select (which only ask
  `readable` and `writable`), and the lexical normalisation of paths, a pure
  function the tests enumerate.

## Plan

1. Drivers: the virtqueue hand-off for network and block devices, with a
   completion that comes after the driver gave up waiting; the ring beneath
   `io.busy`.
2. Several TCP connections over the two shared stores.
3. Descriptors with shared offsets, poll and dup over pipes, terminals and
   sockets together.
4. Proofs: the filesystems, beginning with `BlocksExclusive` of Ext4 as a lemma
   for each device command instead of each operation.
