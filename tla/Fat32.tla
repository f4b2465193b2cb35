------------------------------- MODULE Fat32 --------------------------------
(***************************************************************************)
(* The FAT32 driver (drivers/fs/fat32/fat32.hpp): allocation tables with   *)
(* cluster chains, the free count and hint of FSInfo, directories of       *)
(* 32-byte slots with long names and short aliases, and the operations     *)
(* built from them, as sequences of device writes and flushes any of which *)
(* the power may cut short (see Device).  The record s also carries the    *)
(* counters of the mounted Volume, the Node at hand and the results of the *)
(* allocator: the last cluster, the first of a chain and free slots.       *)
(*                                                                         *)
(* A name is a pair <<text, number>>: number 0 for a name a program chose, *)
(* otherwise <<"A", 1>> is the text A~1.  A cluster has one sector.        *)
(***************************************************************************)
EXTENDS Device, FiniteSets, FiniteSetsExt

CONSTANTS
  ClusterCount,           \* geometry_.cluster_count; numbers start at 2
  ClusterSize,            \* bytes in a cluster
  SlotsPerCluster,        \* directory slots in a cluster
  FatCount, ActiveFat, MirrorFats,
  FsInfo,                 \* the image's FSInfo: [valid, free, next]
  Folder,                 \* the name of the image's one directory below the root
  Parts(_),               \* long slots a name takes: one per 13 UTF-16 units
  Stem(_),                \* the base of a name's alias
  ShortChecksum(_),       \* short_checksum of an alias
  MaxAlias,               \* aliases tried: 99
  LongCapacity,           \* long slots erase_directory_record remembers: 20
  Paths, Bytes,           \* what programs name and write
  Moves,                  \* what they move: pairs of a source and a destination
  Junk,                   \* what unused clusters hold
  Sizes,                  \* the sizes files take: a bound, and which below it
  Cycles,                 \* a directory is moved below itself
  Tolerated               \* what a cut may leave in part (see FileTree)

ASSUME Fat32Assumption ==
  /\ ClusterCount \in Nat /\ ClusterCount > 1
  /\ ClusterSize \in Nat \ {0} /\ SlotsPerCluster \in Nat /\ SlotsPerCluster > 2
  /\ FatCount \in Nat \ {0} /\ ActiveFat \in 0..(FatCount - 1)
  /\ MirrorFats => ActiveFat = 0
  /\ MaxAlias \in Nat \ {0}
  /\ Junk \notin Bytes /\ 0 \notin Bytes

VARIABLES
  volume,       \* fs_info_valid_, free_clusters_known_, free_clusters_, allocation_hint_
  shown,        \* history: the tree that lookups and reads show
  partial       \* history: a cut left neither the tree before nor the one after

vars == <<platter, unflushed, volume, faults, shown, partial>>

Clusters == 2..(ClusterCount + 1)
RootCluster == 2

\* Values of an allocation table besides cluster numbers.
Free       == 0
EndOfChain == -1

\* Places on the media.
Info         == <<"info", 0, 0>>
FatAt(f, c)  == <<"fat", f, c>>
ClusterAt(c) == <<"cluster", 0, c>>

\* Directory slots: the first byte 0, the first byte 0xe5, a part of a long
\* name, or a short entry.
EndSlot == [kind |-> "end"]
Deleted == [kind |-> "deleted"]
LongSlot(name, ordinal, alias) ==
  [kind |-> "long", name |-> name, ordinal |-> ordinal,
   last |-> ordinal = Parts(name), checksum |-> ShortChecksum(alias)]
ShortSlot(alias, type, first, size) ==
  [kind |-> "short", alias |-> alias, type |-> type, first |-> first, size |-> size]

\* What a cluster holds: bytes, or directory slots.
Zeroes == [data |-> [k \in 1..ClusterSize |-> 0],
           slots |-> [k \in 1..SlotsPerCluster |-> EndSlot]]

\* What a free cluster holds: nothing a program wrote.
Unused == [data |-> [k \in 1..ClusterSize |-> Junk],
           slots |-> [k \in 1..SlotsPerCluster |->
                        ShortSlot(<<"JUNK", 0>>, "file", 0, 0)]]

\* A Node; at is the cluster and slot of its entry_offset.
Nowhere == <<0, 0>>
NoNode  == [type |-> "none", first |-> 0, size |-> 0, at |-> Nowhere]
root    == [type |-> "directory", first |-> RootCluster, size |-> 0, at |-> Nowhere]

\* The entries every directory below the root begins with.
Dots == {<<".", 0>>, <<"..", 0>>}

-----------------------------------------------------------------------------
(* Reading: chains, directories, paths and files.                          *)

next_cluster(media, c) == media[FatAt(ActiveFat, c)]

\* The clusters of a chain as far as it can be followed: at most ClusterCount
\* of them, up to the end mark or to a value that is no cluster.
Chain(media, first) ==
  LET walk[n \in 1..ClusterCount] ==
        IF n = 1 THEN <<first>>
        ELSE LET before == walk[n - 1]
                 next == next_cluster(media, Last(before))
             IN  IF Len(before) = n - 1 /\ next \in Clusters
                 THEN Append(before, next) ELSE before
  IN  IF first \in Clusters THEN walk[ClusterCount] ELSE <<>>

Ended(media, chain) ==
  chain # <<>> /\ next_cluster(media, Last(chain)) = EndOfChain

\* The slots of a directory in order, each with its place.
Slots(media, first) ==
  LET chain == Chain(media, first)
      Of(c, k) == [at |-> <<c, k>>, slot |-> media[ClusterAt(c)].slots[k]]
  IN  [i \in 1..(Len(chain) * SlotsPerCluster) |->
         Of(chain[1 + ((i - 1) \div SlotsPerCluster)], 1 + ((i - 1) % SlotsPerCluster))]

\* LongNameState: the parts met so far of a long name.
NoLongName == [active |-> FALSE, expected |-> 0, checksum |-> 0, names |-> {}]

consume_long_entry(slot, state) ==
  LET begun == IF slot.last
               THEN [active |-> TRUE, expected |-> slot.ordinal,
                     checksum |-> slot.checksum, names |-> {}]
               ELSE state
  IN  IF begun.active /\ slot.ordinal = begun.expected /\ slot.checksum = begun.checksum
      THEN [begun EXCEPT !.expected = @ - 1, !.names = @ \cup {slot.name}]
      ELSE NoLongName

\* The parts of two names make up a third.
decode_long_name(state) ==
  IF Cardinality(state.names) = 1
  THEN CHOOSE name \in state.names : TRUE
  ELSE <<"mixed", 0>>

\* A short entry with the long name before it, if that is whole and its own.
EntryOf(state, place) ==
  [name |-> IF /\ state.active /\ state.expected = 0
               /\ state.checksum = ShortChecksum(place.slot.alias)
            THEN decode_long_name(state) ELSE place.slot.alias,
   short |-> place.slot.alias,
   node |-> [type |-> place.slot.type, first |-> place.slot.first,
             size |-> place.slot.size, at |-> place.at]]

\* for_each: the entries up to the end mark, volume labels left out.
for_each(media, first) ==
  LET Visit(seen, place) ==
        IF seen.over THEN seen
        ELSE CASE place.slot.kind = "end" -> [seen EXCEPT !.over = TRUE]
               [] place.slot.kind = "deleted" -> [seen EXCEPT !.state = NoLongName]
               [] place.slot.kind = "long" ->
                    [seen EXCEPT !.state = consume_long_entry(place.slot, @)]
               [] place.slot.kind = "short" ->
                    [seen EXCEPT !.state = NoLongName,
                                 !.entries = IF place.slot.type = "label" THEN @
                                             ELSE Append(@, EntryOf(seen.state, place))]
  IN  Fold(Visit, [over |-> FALSE, state |-> NoLongName, entries |-> <<>>],
               Slots(media, first))

Entries(media, first) == for_each(media, first).entries

\* The first entry with the name, long or short.
Found(entries, name) ==
  LET hits == SelectSeq(entries, LAMBDA e : name \in {e.name, e.short})
  IN  IF hits = <<>> THEN NoNode ELSE hits[1].node

\* A directory whose chain breaks off before the name or the end mark is corrupt.
lookup(media, first, name) ==
  LET Of(seen, node) ==
        IF node.type # "none" \/ seen.over \/ Ended(media, Chain(media, first)) THEN node
        ELSE [NoNode EXCEPT !.type = "corrupt"]
      In(seen) == Of(seen, Found(seen.entries, name))
  IN  In(for_each(media, first))

lookup_path(media, path) ==
  LET found[n \in 0..Len(path)] ==
        IF n = 0 THEN root
        ELSE LET dir == found[n - 1]
             IN  IF dir.type = "directory" THEN lookup(media, dir.first, path[n]) ELSE NoNode
  IN  found[Len(path)]

resolve_parent(media, path) == lookup_path(media, Front(path))

clusters_for_size(size) == IF size = 0 THEN 0 ELSE 1 + ((size - 1) \div ClusterSize)

\* The bytes of a file from offset on.
read(media, node, offset, count) ==
  LET chain == Chain(media, node.first)
  IN  [i \in 1..count |->
         LET k == offset + i - 1
         IN  media[ClusterAt(chain[(k \div ClusterSize) + 1])].data[(k % ClusterSize) + 1]]

\* read meets the end of the chain before the end of the file.
TooShort(media, node) == Len(Chain(media, node.first)) < clusters_for_size(node.size)

\* The tree programs see: the listed names of the root and of the directories
\* in it, with what a lookup of each finds.
Tree(media) ==
  LET Under(prefix, entries) ==
        {[path |-> Append(prefix, n), node |-> Found(entries, n)] :
           n \in {e.name : e \in Range(entries)} \ Dots}
      top == Under(<<>>, Entries(media, RootCluster))
      all == top \cup UNION {Under(x.path, Entries(media, x.node.first)) :
                               x \in {y \in top : y.node.type = "directory"}}
      Shown(node) ==
        [dir |-> node.type = "directory",
         bytes |-> IF node.type = "directory" THEN <<>>
                   ELSE IF TooShort(media, node) THEN <<Junk>>
                   ELSE read(media, node, 0, node.size)]
  IN  [p \in {x.path : x \in all} |-> Shown((CHOOSE x \in all : x.path = p).node)]

-----------------------------------------------------------------------------
(* Allocation.                                                             *)

\* Mutant: only the table that is read is written.
write_active_fat(s, c, value) == write_exact(s, FatAt(ActiveFat, c), value)

\* What a cluster holds is forgotten with its entry: free clusters are not told
\* apart by what they held.
Forgotten(s, c, value) ==
  IF Ok(s) /\ value = Free
  THEN [s EXCEPT !.media[ClusterAt(c)] = Unused,
                 !.log = Logged(s.base, @, ClusterAt(c), Unused)]
  ELSE s

\* The same value in every table, or in the active one.
write_fat_entry(s, c, value) ==
  LET fats == IF MirrorFats THEN [k \in 1..FatCount |-> k - 1] ELSE <<ActiveFat>>
      Step(t, f) == IF f = ActiveFat
                    THEN Forgotten(write_exact(t, FatAt(f, c), value), c, value)
                    ELSE write_exact(t, FatAt(f, c), value)
  IN  IF c \notin Clusters THEN Fail(s, "corrupt")
      ELSE Fold(Step, s, fats)

After(c) == IF c = ClusterCount + 1 THEN 2 ELSE c + 1

\* The first free cluster from the hint on, wrapping once.
Candidates(s) ==
  LET from == IF s.volume.hint \in Clusters THEN s.volume.hint ELSE 2
      order == [k \in 1..ClusterCount |-> 2 + ((from + k - 3) % ClusterCount)]
  IN  SelectSeq(order, LAMBDA c : s.media[FatAt(ActiveFat, c)] = Free)

\* The counters after a cluster was taken.
Taken(volume_, c) ==
  [volume_ EXCEPT !.hint = After(c),
                  !.free = IF volume_.known /\ @ # 0 THEN @ - 1 ELSE @]

\* Mutant: the cluster keeps what it held.
allocate_dirty(s) ==
  LET free == Candidates(s)
      c    == Head(free)
  IN  IF ~Ok(s) THEN s
      ELSE IF free = <<>> THEN Fail(s, "no_space")
      ELSE Then(write_fat_entry(s, c, EndOfChain), LAMBDA t :
             [t EXCEPT !.volume = Taken(@, c), !.cluster = c])

\* Marked as the end of a chain, then zeroed.
allocate_cluster(s) ==
  LET free == Candidates(s)
      c    == Head(free)
      Zeroed(t) == Undo(write_exact(t, ClusterAt(c), Zeroes),
                        LAMBDA u : Ignored(write_fat_entry(u, c, Free)))
  IN  IF ~Ok(s) THEN s
      ELSE IF free = <<>> THEN Fail(s, "no_space")
      ELSE Then(Then(write_fat_entry(s, c, EndOfChain), Zeroed), LAMBDA t :
             [t EXCEPT !.volume = Taken(@, c), !.cluster = c])

\* Each cluster of a chain is marked free in turn; t.cluster is the next one.
free_chain(s, first) ==
  LET Freed(t, next) ==
        [t EXCEPT !.volume.free = IF t.volume.known /\ @ < ClusterCount THEN @ + 1 ELSE @,
                  !.volume.hint = Min({@, t.cluster}),
                  !.cluster = IF next = EndOfChain THEN 0 ELSE next,
                  !.err = IF next \in Clusters \cup {EndOfChain} THEN "none" ELSE "corrupt"]
      Step(t, k) ==
        IF ~Ok(t) \/ t.cluster = 0 THEN t
        ELSE Then(write_fat_entry(t, t.cluster, Free), LAMBDA u :
               Freed(u, t.media[FatAt(ActiveFat, t.cluster)]))
      freed == Fold(Step, [s EXCEPT !.cluster = first], [k \in 1..ClusterCount |-> k])
  IN  IF ~Ok(s) THEN s
      ELSE IF Ok(freed) /\ freed.cluster # 0 THEN Fail(freed, "loop")
      ELSE freed

\* count clusters, each linked behind the one before; the first is s.first.
allocate_chain(s, count) ==
  LET Failed(t, first) == IF first = 0 THEN t ELSE Ignored(free_chain(t, first))
      Linked(t) ==
        IF t.first = 0 THEN [t EXCEPT !.first = t.cluster, !.last = t.cluster]
        ELSE Then(Undo(write_fat_entry(t, t.last, t.cluster), LAMBDA u :
                    Failed(Ignored(write_fat_entry(u, t.cluster, Free)), t.first)),
                  LAMBDA u : [u EXCEPT !.last = t.cluster])
      Step(t, k) ==
        Then(t, LAMBDA u : Then(Undo(allocate_cluster(u), LAMBDA v : Failed(v, u.first)),
                                Linked))
  IN  Fold(Step, [s EXCEPT !.first = 0, !.last = 0], [k \in 1..count |-> k])

\* The counters go to FSInfo, if the image has one, and everything is flushed.
commit_fs_info(s) ==
  LET old == s.media[Info]
  IN  IF ~s.volume.valid THEN flush(s)
      ELSE flush(write_exact(s, Info,
             [old EXCEPT !.free = IF s.volume.known THEN s.volume.free ELSE @,
                         !.next = s.volume.hint]))

-----------------------------------------------------------------------------
(* File contents.                                                          *)

\* The bytes go to the clusters of the chain one after the other.
Store(s, first, offset, bytes) ==
  LET chain == Chain(s.media, first)
      stop  == offset + Len(bytes)
      Piece(data, j) ==
        [i \in 1..ClusterSize |->
           LET k == j * ClusterSize + i - 1
           IN  IF k >= offset /\ k < stop THEN bytes[k - offset + 1] ELSE data[i]]
      Step(t, j) ==
        IF j >= Len(chain) THEN Fail(t, "corrupt")
        ELSE write_exact(t, ClusterAt(chain[j + 1]),
               [t.media[ClusterAt(chain[j + 1])] EXCEPT !.data = Piece(@, j)])
      from == offset \div ClusterSize
  IN  IF bytes = <<>> THEN s
      ELSE Fold(Step, s, [k \in 1..(clusters_for_size(stop) - from) |-> from + k - 1])

zero_file_range(s, first, offset, size) ==
  Store(s, first, offset, [k \in 1..size |-> 0])

\* A slot is written where it is, the rest of its cluster is left alone.
write_slot(s, at, slot) ==
  write_exact(s, ClusterAt(at[1]),
              [s.media[ClusterAt(at[1])] EXCEPT !.slots[at[2]] = slot])

\* The first cluster and the size, in one write.
write_node_metadata(s, first, size) ==
  LET at == s.node.at
      slot == s.media[ClusterAt(at[1])].slots[at[2]]
  IN  IF at = Nowhere THEN Fail(s, "invalid_argument")
      ELSE write_slot(s, at, [slot EXCEPT !.first = first, !.size = size])

\* The node in memory follows when the media has.
Kept(s, first, size) ==
  Then(s, LAMBDA t : [t EXCEPT !.node.first = first, !.node.size = size])

\* truncate, the number of clusters staying the same.
resize_within(s, size) ==
  LET zeroed == IF size > s.node.size
                THEN zero_file_range(s, s.node.first, s.node.size, size - s.node.size)
                ELSE s
  IN  flush(Kept(write_node_metadata(zeroed, s.node.first, size), s.node.first, size))

\* truncate to nothing: the chain is freed once no entry shows it.
release_all(s) ==
  Then(Kept(flush(write_node_metadata(s, 0, 0)), 0, 0), LAMBDA t :
    commit_fs_info(free_chain(t, s.node.first)))

\* truncate of an empty file: the chain is whole before an entry shows it.
first_chain(s, size) ==
  Then(allocate_chain(s, clusters_for_size(size)), LAMBDA t :
    commit_fs_info(Kept(
      Undo(flush(write_node_metadata(flush(t), t.first, size)), LAMBDA u :
             Ignored(free_chain(u, t.first))),
      t.first, size)))

\* truncate to more clusters: the new ones are linked, then the range cleared,
\* then the size changed.
grow_chain(s, size, last_kept) ==
  LET node == s.node
      Linked(t) == flush(write_fat_entry(flush(t), last_kept, t.first))
      Shown(t) == flush(write_node_metadata(
                    Then(t, LAMBDA u : zero_file_range(u, node.first, node.size,
                                                       size - node.size)),
                    node.first, size))
  IN  Then(allocate_chain(s, clusters_for_size(size) - clusters_for_size(node.size)),
           LAMBDA t : commit_fs_info(Kept(
             Undo(Shown(Linked(t)), LAMBDA u :
                    Ignored(free_chain(Ignored(write_fat_entry(u, last_kept, EndOfChain)),
                                       t.first))),
             node.first, size)))

\* truncate to fewer clusters: the chain is cut, then the size changed, then
\* the tail freed.
cut_chain(s, size, last_kept) ==
  LET tail == next_cluster(s.media, last_kept)
      cut  == flush(write_node_metadata(write_fat_entry(s, last_kept, EndOfChain),
                                        s.node.first, size))
  IN  IF tail \notin Clusters THEN Fail(s, "corrupt")
      ELSE commit_fs_info(Kept(free_chain(cut, tail), s.node.first, size))

truncate(s, size) ==
  LET old   == clusters_for_size(s.node.size)
      new   == clusters_for_size(size)
      chain == Chain(s.media, s.node.first)
      kept  == Min({old, new})
  IN  IF ~Ok(s) THEN s
      ELSE IF s.node.type = "directory" THEN Fail(s, "refused")
      ELSE IF old = new THEN resize_within(s, size)
      ELSE IF new = 0 THEN release_all(s)
      ELSE IF old = 0 THEN first_chain(s, size)
      ELSE IF Len(chain) < kept THEN Fail(s, "corrupt")
      ELSE IF new > old THEN grow_chain(s, size, chain[kept])
      ELSE cut_chain(s, size, chain[kept])

\* The file first takes its new size, then the bytes.
write(s, offset, bytes) ==
  LET stop  == offset + Len(bytes)
      sized == IF stop > s.node.size THEN truncate(s, stop) ELSE s
  IN  IF s.node.type = "directory" THEN Fail(s, "refused")
      ELSE IF bytes = <<>> THEN s
      ELSE Then(sized, LAMBDA t : flush(Store(t, t.node.first, offset, bytes)))

-----------------------------------------------------------------------------
(* Directories.                                                            *)

\* The least number whose alias no entry of the directory has.
make_short_alias(media, first, name) ==
  LET taken == {e.short : e \in Range(Entries(media, first))}
      free  == {n \in 1..MaxAlias : <<Stem(name), n>> \notin taken}
  IN  IF free = {} THEN 0 ELSE Min(free)

\* The first run of free slots, in a directory that grows by a cluster while
\* it has none; its places are left in s.slots.
find_free_directory_slots(s, first, needed) ==
  LET Vacant(slot) == slot.kind \in {"end", "deleted"}
      Run(t) ==
        LET all == Slots(t.media, first)
            starts == {i \in 1..(Len(all) - needed + 1) :
                         \A k \in i..(i + needed - 1) : Vacant(all[k].slot)}
        IN  IF starts = {} THEN t
            ELSE [t EXCEPT !.slots = [k \in 1..needed |-> all[Min(starts) + k - 1].at]]
      Grown(t) ==
        LET end == Last(Chain(t.media, first))
        IN  Undo(flush(write_fat_entry(flush(t), end, t.cluster)), LAMBDA u :
                   Ignored(write_fat_entry(u, t.cluster, Free)))
      Step(t, k) ==
        IF ~Ok(t) \/ t.slots # <<>> THEN t
        ELSE IF ~Ended(t.media, Chain(t.media, first)) THEN Fail(t, "corrupt")
        ELSE Then(Then(allocate_cluster(t), Grown), Run)
  IN  Fold(Step, Run([s EXCEPT !.slots = <<>>]), [k \in 1..ClusterCount |-> k])

\* The long slots, last part first, then the short entry of s.node.
insert_directory_record(s, first, name) ==
  LET parts  == Parts(name)
      number == make_short_alias(s.media, first, name)
      alias  == <<Stem(name), number>>
      node   == s.node
      Long(t) == Fold(LAMBDA u, k : write_slot(u, u.slots[k],
                                                   LongSlot(name, parts - k + 1, alias)),
                          t, [k \in 1..parts |-> k])
      Short(t) == write_slot(t, t.slots[parts + 1],
                             ShortSlot(alias, node.type, node.first, node.size))
      Placed(t) == flush([t EXCEPT !.node.at = t.slots[parts + 1]])
  IN  IF number = 0 THEN Fail(s, "no_space")
      ELSE Then(Then(Then(find_free_directory_slots(s, first, parts + 1),
                          LAMBDA t : flush(Long(t))), Short), Placed)

\* The long slots right before the entry, then the entry.  Of more than are
\* remembered, those after the last one that found no room.
erase_directory_record(s, first, at) ==
  LET all  == Slots(s.media, first)
      here == CHOOSE i \in 1..Len(all) : all[i].at = at
      long == here - Min({i \in 1..here : \A k \in i..(here - 1) : all[k].slot.kind = "long"})
      from == here - (long % (LongCapacity + 1))
  IN  Fold(LAMBDA t, k : write_slot(t, all[k].at, Deleted), s,
               [k \in 1..(here - from + 1) |-> from + k - 1])

-----------------------------------------------------------------------------
(* Operations on paths.                                                    *)

\* The name is entered first, then the file written under it.
create(s, path, bytes) ==
  LET parent == resolve_parent(s.media, path)
      Written(t) ==
        Undo(write(t, 0, bytes), LAMBDA u :
          LET erased == Ignored(erase_directory_record(u, parent.first, u.node.at))
          IN  IF u.node.first = 0 THEN erased
              ELSE Ignored(free_chain(erased, u.node.first)))
  IN  IF \/ parent.type # "directory"
         \/ lookup(s.media, parent.first, Last(path)).type # "none"
      THEN Fail(s, "refused")
      ELSE Then(insert_directory_record([s EXCEPT !.node = [NoNode EXCEPT !.type = "file"]],
                                        parent.first, Last(path)), Written)

\* Mutant: the chain is freed while the entry still shows it.
remove_chain_first(s, path) ==
  LET parent == resolve_parent(s.media, path)
      node   == lookup(s.media, parent.first, Last(path))
      empty  == \A e \in Range(Entries(s.media, node.first)) : e.name \in Dots
      Freed(t) == IF node.first = 0 THEN t ELSE free_chain(t, node.first)
  IN  IF \/ parent.type # "directory" \/ node.type \in {"none", "corrupt"}
         \/ node.type = "directory" /\ ~empty
      THEN Fail(s, "refused")
      ELSE Then(flush(Freed(s)), LAMBDA t :
             commit_fs_info(erase_directory_record(t, parent.first, node.at)))

\* The name goes first, then the chain is freed.
remove(s, path) ==
  LET parent == resolve_parent(s.media, path)
      node   == lookup(s.media, parent.first, Last(path))
      empty  == \A e \in Range(Entries(s.media, node.first)) : e.name \in Dots
      Freed(t) == IF node.first = 0 THEN t ELSE free_chain(t, node.first)
  IN  IF \/ parent.type # "directory" \/ node.type \in {"none", "corrupt"}
         \/ node.type = "directory" /\ ~empty
      THEN Fail(s, "refused")
      ELSE Then(flush(erase_directory_record(s, parent.first, node.at)), LAMBDA t :
             commit_fs_info(Freed(t)))

\* The new name is entered, then the old one erased.
move(s, source, destination) ==
  LET from == resolve_parent(s.media, source)
      to   == resolve_parent(s.media, destination)
      node == lookup(s.media, from.first, Last(source))
  IN  IF \/ from.type # "directory" \/ to.type # "directory"
         \/ node.type \in {"none", "corrupt"}
         \/ lookup(s.media, to.first, Last(destination)).type # "none"
      THEN Fail(s, "refused")
      ELSE Then(insert_directory_record([s EXCEPT !.node = [node EXCEPT !.at = Nowhere]],
                                        to.first, Last(destination)), LAMBDA t :
             flush(erase_directory_record(t, from.first, node.at)))

\* The destination grows to the sum, then the source is copied sector by sector.
concatenate(s, destination, source) ==
  LET target == lookup_path(s.media, destination)
      origin == lookup_path(s.media, source)
      Step(t, j) ==
        LET at    == (j - 1) * ClusterSize
            count == Min({ClusterSize, origin.size - at})
        IN  Then(t, LAMBDA u : write(u, target.size + at, read(u.media, origin, at, count)))
  IN  IF target.type # "file" \/ origin.type # "file" THEN Fail(s, "refused")
      ELSE Fold(Step, truncate([s EXCEPT !.node = target], target.size + origin.size),
                    [j \in 1..clusters_for_size(origin.size) |-> j])

-----------------------------------------------------------------------------
(* Steps.                                                                  *)

Start(fault, node) ==
  [media |-> Media, base |-> platter, log |-> unflushed, volume |-> volume,
   kind |-> fault.kind, left |-> fault.left, done |-> 0, err |-> "none",
   node |-> node, cluster |-> 0, first |-> 0, last |-> 0, slots |-> <<>>]

\* mount: a count or hint that cannot be is ignored.
Mounted(media) ==
  LET info  == media[Info]
      known == info.valid /\ info.free \in 0..ClusterCount
  IN  [valid |-> info.valid, known |-> known,
       free |-> IF known THEN info.free ELSE 0,
       hint |-> IF info.valid /\ info.next \in Clusters THEN info.next ELSE 2]

\* After a cut the tree is compared with that before and the one on whole.
Remounted(media, whole) ==
  /\ volume' = Mounted(media)
  /\ shown' = Tree(media)
  /\ partial' = (shown' # shown /\ shown' # Tree(whole))

Perform(operation, Run(_)) ==
  LET Returned(s) ==
        /\ volume' = s.volume
        /\ shown' = IF s.media = Media THEN shown ELSE Tree(s.media)
        /\ partial' = FALSE
  IN  Attempt(operation, Run, Returned, Remounted)

\* truncate and write take the Node of a lookup.  Cutting a chain short is told
\* apart: its faults are chosen on their own.
truncate_path(path, size) ==
  LET node == lookup_path(Media, path)
      cuts == size # 0 /\ clusters_for_size(size) < clusters_for_size(node.size)
  IN  /\ node.type = "file" /\ size # node.size
      /\ Perform(IF cuts THEN "shrink" ELSE "truncate",
                 LAMBDA fault : truncate(Start(fault, node), size))

write_path(path, offset, bytes) ==
  LET node == lookup_path(Media, path)
  IN  /\ node.type = "file"
      /\ Perform("write", LAMBDA fault : write(Start(fault, node), offset, bytes))

create_path(path, bytes) ==
  Perform("create", LAMBDA fault : create(Start(fault, NoNode), path, bytes))

remove_path(path) ==
  Perform("remove", LAMBDA fault : remove(Start(fault, NoNode), path))

\* Nothing keeps a directory from being moved below itself; Cycles says whether
\* a program asks for it.
move_path(source, destination) ==
  /\ IsStrictPrefix(source, destination) => Cycles
  /\ Perform("move", LAMBDA fault : move(Start(fault, NoNode), source, destination))

concatenate_path(destination, source) ==
  /\ lookup_path(Media, destination).size + lookup_path(Media, source).size \in Sizes
  /\ Perform("concatenate",
            LAMBDA fault : concatenate(Start(fault, NoNode), destination, source))

restart == PowerOff(Remounted)

\* An image with a volume label and one empty directory.
FolderCluster == 3

Init ==
  /\ platter =
       [at \in {Info} \cup {FatAt(f, c) : f \in 0..(FatCount - 1), c \in Clusters}
                  \cup {ClusterAt(c) : c \in Clusters} |->
          CASE at = Info -> FsInfo
            [] at[1] = "fat" ->
                 IF at[3] \in {RootCluster, FolderCluster} THEN EndOfChain ELSE Free
            [] at = ClusterAt(RootCluster) ->
                 [Zeroes EXCEPT !.slots[1] = ShortSlot(<<"LABEL", 0>>, "label", 0, 0),
                                !.slots[2] = ShortSlot(Folder, "directory", FolderCluster, 0)]
            [] at = ClusterAt(FolderCluster) ->
                 [Zeroes EXCEPT
                    !.slots[1] = ShortSlot(<<".", 0>>, "directory", FolderCluster, 0),
                    !.slots[2] = ShortSlot(<<"..", 0>>, "directory", 0, 0)]
            [] OTHER -> Unused]
  /\ unflushed = <<>>
  /\ volume = Mounted(platter)
  /\ faults = 0
  /\ shown = Tree(platter)
  /\ partial = FALSE

\* What a file is created with: nothing, or as much as it can hold.
Contents == {<<>>} \cup [1..Max(Sizes) -> Bytes]

Operations ==
  \/ \E p \in Paths :
       \/ \E bytes \in Contents : create_path(p, bytes)
       \/ \E n \in Sizes : truncate_path(p, n)
       \/ \E offset, stop \in Sizes : \E bytes \in [1..(stop - offset) -> Bytes] :
            offset < stop /\ write_path(p, offset, bytes)
       \/ \E q \in Paths : concatenate_path(p, q)
  \/ \E p \in Paths \cup {<<Folder>>} : remove_path(p)
  \/ \E m \in Moves : move_path(m[1], m[2])

\* A cut that left an operation in part is followed by another restart, which
\* only resets partial.
Next == (~partial /\ Operations) \/ restart

Spec == Init /\ [][Next]_vars

-----------------------------------------------------------------------------
(* Properties.                                                             *)

TypeOK ==
  /\ \A c \in Clusters, f \in 0..(FatCount - 1) :
       platter[FatAt(f, c)] \in Clusters \cup {Free, EndOfChain}
  /\ \A c \in Clusters : platter[ClusterAt(c)].data \in [1..ClusterSize -> Bytes \cup {0, Junk}]
  /\ volume \in [valid : BOOLEAN, known : BOOLEAN, free : 0..ClusterCount, hint : Clusters]
  /\ faults \in 0..MaxFaults

\* The entries of the directories that can be reached, besides each one's own
\* two, with the first cluster of the directory.
Records(media) ==
  LET In(d) == {[dir |-> d, name |-> e.name, short |-> e.short, node |-> e.node] :
                  e \in {f \in Range(Entries(media, d)) : f.name \notin Dots}}
      top == In(RootCluster)
  IN  top \cup UNION {In(e.node.first) : e \in {f \in top : f.node.type = "directory"}}

Nodes(records) == {root} \cup {e.node : e \in records}

\* Within a directory no name, long or short, stands for two entries: aliases are
\* chosen among those not taken and a name is looked up before it is entered
\* (make_short_alias, create, move), whatever a power cut left behind.
NamesUnique(records) ==
  \A e, f \in records :
    e # f /\ e.dir = f.dir => {e.name, e.short} \cap {f.name, f.short} = {}

\* Every chain an entry shows comes to its end, covers the size of the file, and
\* shares no cluster with another, whatever operation the power cut short: the
\* entry is written when its chain is whole and goes before its chain is freed
\* (truncate, remove).  So for the media as read and as a restart would find it,
\* where names stay unique as well.
ChainsSound ==
  /\ TypeOK
  /\ \A media \in {Media, platter} : \A records \in {Records(media)} :
       /\ NamesUnique(records)
       /\ \A n \in Nodes(records) : \A chain \in {Chain(media, n.first)} :
            /\ n.first # 0 => Ended(media, chain)
            /\ n.type = "file" => clusters_for_size(n.size) <= Len(chain)
       /\ \A n, m \in Nodes(records) :
            n # m => Range(Chain(media, n.first)) \cap Range(Chain(media, m.first)) = {}

\* As long as nothing failed: exactly the clusters of the entries' chains are in
\* use, a chain is as long as the size asks for, the tables agree, every long
\* slot belongs to the entry behind it, and the free count is never too small.
\* It can be too large: a directory that grew is not counted in FSInfo until the
\* next operation that commits, so a restart in between forgets the cluster.
BooksBalance ==
  faults = 0 =>
    \A media \in {Media} : \A records \in {Records(media)} :
      LET used == {c \in Clusters : media[FatAt(ActiveFat, c)] # Free}
          nodes == Nodes(records)
          Long(d) == Len(SelectSeq(Slots(media, d), LAMBDA p : p.slot.kind = "long"))
      IN  /\ used = UNION {Range(Chain(media, n.first)) : n \in nodes}
          /\ \A n \in nodes : n.type = "file" =>
               Len(Chain(media, n.first)) = clusters_for_size(n.size)
          /\ \A c \in Clusters, f \in 0..(FatCount - 1) :
               media[FatAt(f, c)] = media[FatAt(ActiveFat, c)]
          /\ \A d \in {n \in nodes : n.type = "directory"} :
               Long(d.first) =
                 MapThenSumSet(LAMBDA e : Parts(e.name),
                               {e \in records : e.dir = d.first /\ e.name # e.short})
          /\ volume.known => volume.free >= ClusterCount - Cardinality(used)

Abstract == INSTANCE FileTree WITH tree <- shown, cuts <- faults

\* Each operation is one of the steps of the abstract tree, directories moving
\* with what is in them.  One that a power cut interrupts has happened in full or
\* not at all, and a restart shows what was there before it, with five exceptions,
\* in which the code keeps less than doc/fs-write-regression.md asks for: after a
\* cut an overwrite may be torn, a write that extends the file may leave the new
\* size with zeroes in place of bytes, create a file without some of its bytes,
\* and remove a file that still has its alias; after a restart a create that
\* failed, and was undone without a flush, may show as an empty file.  No file
\* ever shows what the media held before, and no other file is touched.  A move,
\* and a truncation that cuts a chain, is such a step when the power stays on and
\* no directory goes below itself.
ImplementsTree == Abstract!Spec

=============================================================================
