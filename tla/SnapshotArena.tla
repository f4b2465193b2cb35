--------------------------- MODULE SnapshotArena ---------------------------
(***************************************************************************)
(* The first-fit extent allocator that backs every saved process image     *)
(* (include/mikos/process/snapshot_arena.hpp), driven the way              *)
(* kernel/syscall.cpp drives it: allocate_snapshot initializes the arena   *)
(* lazily and allocates; release_snapshot gives one allocation back and    *)
(* shuts the kernel down when the arena refuses.                           *)
(*                                                                         *)
(* live is a history variable: the allocations some suspended context      *)
(* still holds.  WordMax stands for ~u32{0}.                               *)
(***************************************************************************)
EXTENDS Integers, Sequences, FiniteSets

CONSTANTS
  ArenaBegin, ArenaEnd,   \* __fork_snapshot_arena_begin / _end
  ExtentCapacity,         \* template parameter; the kernel uses 64
  MaxLive,                \* most contexts that own a snapshot at one time
  Requests,               \* byte counts a context may ask for
  WordMax                 \* largest u32

ASSUME ArenaAssumption ==
  /\ WordMax \in Nat /\ WordMax >= 31 /\ WordMax % 16 = 15
  /\ ArenaBegin \in 0..WordMax /\ ArenaEnd \in 0..WordMax
  /\ MaxLive \in Nat /\ ExtentCapacity \in Nat
  /\ MaxLive < ExtentCapacity
  /\ Requests \subseteq 0..WordMax

VARIABLES begin_, end_, free_, allocated_, live, halted

vars == <<begin_, end_, free_, allocated_, live, halted>>

alignment == 16

Extent == [address : Nat, size : Nat]

\* The bytes an extent or an allocation covers.
Bytes(e) == e.address..(e.address + e.size - 1)

LiveBytes == UNION {Bytes(a) : a \in live}

FreeBytes == UNION {Bytes(free_[i]) : i \in 1..Len(free_)}

align_down(x) == x - (x % alignment)

\* (x + 15) & ~15 in u32 arithmetic: the addition may wrap.
align_up(x) ==
  align_down(IF x + (alignment - 1) > WordMax
             THEN x + (alignment - 1) - (WordMax + 1)
             ELSE x + (alignment - 1))

erase(s, p) ==
  [i \in 1..(Len(s) - 1) |-> IF i < p THEN s[i] ELSE s[i + 1]]

insert(s, p, e) ==
  [i \in 1..(Len(s) + 1) |-> IF i < p THEN s[i]
                             ELSE IF i = p THEN e ELSE s[i - 1]]

-----------------------------------------------------------------------------

Init ==
  /\ begin_ = 0 /\ end_ = 0
  /\ free_ = <<>>
  /\ allocated_ = 0
  /\ live = {}
  /\ halted = FALSE

\* ensure_snapshot_arena: SnapshotArena::initialize on the linker's bounds,
\* done on first use and refused when nothing is left after alignment.
initialize ==
  LET b == align_up(ArenaBegin)
      e == align_down(ArenaEnd)
  IN  /\ ~halted
      /\ begin_ = 0
      /\ b # 0 /\ b < e
      /\ begin_' = b /\ end_' = e
      /\ free_' = <<[address |-> b, size |-> e - b]>>
      /\ allocated_' = 0
      /\ UNCHANGED <<live, halted>>

\* A request the arena turns down: it is never served and changes nothing.
Refused(requested) ==
  \/ requested = 0
  \/ requested > WordMax - (alignment - 1)
  \/ \A i \in 1..Len(free_) : free_[i].size < align_up(requested)

\* The first extent in address order that is large enough.
FirstFit(i, size) ==
  /\ free_[i].size >= size
  /\ \A j \in 1..(i - 1) : free_[j].size < size

allocate(requested) ==
  /\ ~halted
  /\ begin_ # 0
  /\ Cardinality(live) < MaxLive
  /\ ~Refused(requested)
  /\ LET size == align_up(requested)
     IN  \E i \in 1..Len(free_) :
           /\ FirstFit(i, size)
           /\ free_' = IF free_[i].size = size
                       THEN erase(free_, i)
                       ELSE [free_ EXCEPT ![i] =
                               [address |-> @.address + size,
                                size |-> @.size - size]]
           /\ live' = live \cup {[address |-> free_[i].address,
                                  size |-> size]}
           /\ allocated_' = allocated_ + size
  /\ UNCHANGED <<begin_, end_, halted>>

-----------------------------------------------------------------------------

\* release(): the argument checks before the free list is looked at.
WellFormed(a) ==
  /\ a.address # 0 /\ a.size # 0
  /\ begin_ # 0
  /\ a.address % alignment = 0 /\ a.size % alignment = 0
  /\ a.address >= begin_ /\ a.address < end_
  /\ a.size <= end_ - a.address
  /\ a.size <= allocated_

\* p - 1 extents start below the allocation: the code's position is p - 1.
Position(a, p) ==
  /\ p \in 1..(Len(free_) + 1)
  /\ \A j \in 1..(p - 1) : free_[j].address < a.address
  /\ p <= Len(free_) => free_[p].address >= a.address

EndOf(e) == e.address + e.size

\* Mutant: only the following extent is compared.
OverlapsNextOnly(a, p) == p # Len(free_) + 1 /\ EndOf(a) > free_[p].address

\* Mutant: touching counts as overlapping.
OverlapsTouching(a, p) ==
  \/ p # 1 /\ EndOf(free_[p - 1]) >= a.address
  \/ p # Len(free_) + 1 /\ EndOf(a) > free_[p].address

Overlaps(a, p) ==
  \/ p # 1 /\ EndOf(free_[p - 1]) > a.address
  \/ p # Len(free_) + 1 /\ EndOf(a) > free_[p].address

\* Mutant: merged with any extent below it.
MergesApart(a, p) == p # 1 /\ EndOf(free_[p - 1]) <= a.address

merge_previous(a, p) == p # 1 /\ EndOf(free_[p - 1]) = a.address

merge_next(a, p) == p # Len(free_) + 1 /\ EndOf(a) = free_[p].address

\* Mutant: a two-sided merge drops the upper extent's bytes.
LosesNext(a, p) ==
  IF merge_previous(a, p)
  THEN LET grown == [free_ EXCEPT ![p - 1].size = @ + a.size]
       IN  IF merge_next(a, p) THEN erase(grown, p) ELSE grown
  ELSE IF merge_next(a, p)
  THEN [free_ EXCEPT ![p] = [address |-> a.address, size |-> @.size + a.size]]
  ELSE insert(free_, p, a)

\* The free list after a is put back in front of position p.
Returned(a, p) ==
  IF merge_previous(a, p)
  THEN LET grown == [free_ EXCEPT ![p - 1].size = @ + a.size]
       IN  IF merge_next(a, p)
           THEN erase([grown EXCEPT ![p - 1].size = @ + free_[p].size], p)
           ELSE grown
  ELSE IF merge_next(a, p)
  THEN [free_ EXCEPT ![p] = [address |-> a.address, size |-> @.size + a.size]]
  ELSE insert(free_, p, a)

\* The arena refuses a: bad arguments, memory that is free already, or no
\* room for another extent.
ReleaseRefused(a) ==
  \/ ~WellFormed(a)
  \/ \E p \in 1..(Len(free_) + 1) :
       /\ Position(a, p)
       /\ \/ Overlaps(a, p)
          \/ /\ ~merge_previous(a, p) /\ ~merge_next(a, p)
             /\ Len(free_) = ExtentCapacity

\* release_snapshot for an allocation a context holds: the handle is cleared,
\* and a refusal by the arena ends in shutdown.
release(a) ==
  /\ ~halted
  /\ a \in live
  /\ live' = live \ {a}
  /\ halted' = ReleaseRefused(a)
  /\ free_' = IF ReleaseRefused(a)
              THEN free_
              ELSE Returned(a, CHOOSE p \in 1..(Len(free_) + 1) : Position(a, p))
  /\ allocated_' = IF ReleaseRefused(a) THEN allocated_ ELSE allocated_ - a.size
  /\ UNCHANGED <<begin_, end_>>

Next ==
  \/ initialize
  \/ \E r \in Requests : allocate(r)
  \/ \E a \in live : release(a)

Spec == Init /\ [][Next]_vars

-----------------------------------------------------------------------------

\* Types: addresses fit a word, the free list is a sequence of extents and the
\* counter never goes below zero.
TypeOK ==
  /\ begin_ \in 0..WordMax /\ end_ \in 0..WordMax
  /\ free_ \in Seq(Extent)
  /\ allocated_ \in Nat
  /\ live \in SUBSET Extent
  /\ halted \in BOOLEAN

\* Every free extent, and every outstanding allocation, is a nonempty aligned
\* piece of the arena.
Piece(e) ==
  /\ e.size > 0
  /\ e.address >= begin_
  /\ EndOf(e) <= end_
  /\ e.address % alignment = 0
  /\ e.size % alignment = 0

Inside ==
  /\ \A i \in 1..Len(free_) : Piece(free_[i])
  /\ \A a \in live : Piece(a)
  /\ IF begin_ = 0 THEN end_ = 0 /\ free_ = <<>> /\ live = {} ELSE begin_ < end_

\* The free list is sorted by address and fully coalesced: something always
\* separates two neighbours, so release never leaves two extents it could
\* have merged, and first fit scans in address order.
Coalesced ==
  \A i, j \in 1..Len(free_) :
    i < j => EndOf(free_[i]) < free_[j].address

\* Two contexts never hold overlapping memory: saving one process image never
\* overwrites another that is still suspended.
LiveDisjoint ==
  \A a, b \in live : a # b => EndOf(a) <= b.address \/ EndOf(b) <= a.address

\* No byte is both free and held by a context, and none is lost: the free
\* extents and the outstanding allocations tile the arena.
Tiling ==
  /\ FreeBytes \cap LiveBytes = {}
  /\ FreeBytes \cup LiveBytes = begin_..(end_ - 1)

\* The allocated_ counter is the number of bytes contexts hold, so release's
\* test allocation.size > allocated_ never refuses what is really allocated
\* and available() = capacity() - allocated() counts the free bytes.
Accounting == allocated_ = Cardinality(LiveBytes)

\* The free list has at most one extent more than there are outstanding
\* allocations: "At most one free extent can be introduced per live context
\* release" (kernel/syscall.cpp:119).
ExtentBound == Len(free_) <= Cardinality(live) + 1

\* Giving back memory that is free already is refused, whatever its size or
\* alignment: a second release of the same handle changes nothing.
DoubleReleaseRefused ==
  \A a \in [address : begin_..end_, size : 1..(end_ - begin_)] :
    Bytes(a) \subseteq FreeBytes => ReleaseRefused(a)

\* release_snapshot never meets a refusal, so it never shuts the kernel down:
\* the free list never overflows and the argument checks never fire.
NeverHalts == ~halted

\* Accounting, tiling and the shape of the list together are inductive.
IInv ==
  /\ TypeOK
  /\ IsFiniteSet(live) /\ Cardinality(live) <= MaxLive
  /\ Inside /\ Coalesced /\ LiveDisjoint /\ Tiling /\ Accounting
  /\ NeverHalts

=============================================================================
