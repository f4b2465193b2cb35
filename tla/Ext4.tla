-------------------------------- MODULE Ext4 --------------------------------
(***************************************************************************)
(* The writable root filesystem (drivers/fs/ext4/ext4.hpp, used through    *)
(* drivers/fs/root.cpp): allocation bitmaps and free counts, inodes with   *)
(* an inline extent root, one-block directories, and the operations built  *)
(* from them, as a sequence of device writes and flushes any of which the  *)
(* power may cut short (see Device).  The record s also carries the        *)
(* counters of geometry_, the node at hand and what was last allocated.    *)
(* One block group is modelled; its metadata blocks are not in Blocks.     *)
(***************************************************************************)
EXTENDS Device, FiniteSets, FiniteSetsExt

CONSTANTS
  BlockCount, InodeCount, \* data blocks and inodes; 1 is the root's
  BlockSize,              \* bytes in a block
  DirUnits,               \* records a directory block has room for
  MaxExtents,             \* records of the inline extent root: 4
  MaxExtentLength,        \* blocks in an extent: 32768
  MaxLinks,               \* links of a directory: 0xffff
  CountModulus,           \* 2^w for the width of the free counts
  Paths, Bytes,           \* what programs name and write
  Junk,                   \* what unused blocks hold
  MaxSize,                \* bound on the size of a file
  Reach,                  \* how far past the end of a file a call may go
  Handles,                \* open descriptions
  Shared,                 \* a file is opened twice, or changed by path while open
  Cycles,                 \* a directory is moved below itself
  Tolerated               \* what a cut may leave in part (see FileTree)

ASSUME Ext4Assumption ==
  /\ BlockCount \in Nat \ {0} /\ InodeCount \in Nat \ {0} /\ BlockSize \in Nat \ {0}
  /\ DirUnits \in Nat /\ DirUnits > 1 /\ MaxExtents \in Nat \ {0}
  /\ CountModulus > BlockCount /\ CountModulus > InodeCount
  /\ Junk \notin Bytes /\ 0 \notin Bytes

VARIABLES
  geometry_,    \* free_blocks and free_inodes of the mounted volume
  files,        \* the node each open description holds
  shown,        \* history: the tree that lookups and reads show
  partial       \* history: a cut left neither the tree before nor the one after

vars == <<platter, unflushed, geometry_, files, faults, shown, partial>>

Blocks == 1..BlockCount
Inodes == 1..InodeCount
Root   == 1

\* Places on the media.
BlockBitmap == <<"block_bitmap", 0>>
InodeBitmap == <<"inode_bitmap", 0>>
Group       == <<"group", 0>>
Superblock  == <<"superblock", 0>>
InodeAt(i)  == <<"inode", i>>
BlockAt(b)  == <<"block", b>>

Places == {BlockBitmap, InodeBitmap, Group, Superblock}
            \cup {InodeAt(i) : i \in Inodes} \cup {BlockAt(b) : b \in Blocks}

\* What a block holds: bytes, or directory records.
Zeroes    == [data |-> [k \in 1..BlockSize |-> 0], records |-> {}]
ZeroInode == [type |-> "none", size |-> 0, links |-> 0, extents |-> <<>>]

\* A node in memory: the inode, its number and where its entry was found.
NoNode == [inode |-> 0, at |-> 0, type |-> "none", size |-> 0,
           links |-> 0, extents |-> <<>>]

Persistent(node) == [type |-> node.type, size |-> node.size,
                     links |-> node.links, extents |-> node.extents]

-----------------------------------------------------------------------------
(* Bitmaps and counts.                                                     *)

\* Mutant: the superblock keeps its old counts.
CountGroupOnly(s, blocks, inodes) ==
  LET g == s.media[Group]
  IN  IF Ok(s)
      THEN write_exact([s EXCEPT !.free_blocks = (@ + blocks) % CountModulus,
                                 !.free_inodes = (@ + inodes) % CountModulus], Group,
             [g EXCEPT !.blocks = (@ + blocks) % CountModulus,
                       !.inodes = (@ + inodes) % CountModulus])
      ELSE s

\* The counters in memory, then write_group_free_counts and
\* write_superblock_free_counts, each skipped when a command before it failed.
Count(s, blocks, inodes) ==
  LET fb == (s.free_blocks + blocks) % CountModulus
      fi == (s.free_inodes + inodes) % CountModulus
      g  == s.media[Group]
      counted == [s EXCEPT !.free_blocks = fb, !.free_inodes = fi]
      group == write_exact(counted, Group,
                 [g EXCEPT !.blocks = (@ + blocks) % CountModulus,
                           !.inodes = (@ + inodes) % CountModulus])
  IN  IF Ok(s)
      THEN write_exact(group, Superblock, [blocks |-> fb, inodes |-> fi])
      ELSE s

\* Mutant: the block is handed out with what it held before.
allocate_unzeroed(s) ==
  LET used == s.media[BlockBitmap]
      b    == Min(Blocks \ used)
      marked == flush(Count(write_exact(s, BlockBitmap, used \cup {b}), -1, 0))
  IN  IF s.media[Group].blocks = 0 THEN Fail(s, "no_space")
      ELSE IF used = Blocks THEN Fail(s, "corrupt")
      ELSE [marked EXCEPT !.block = b]

\* Mutant: the changed bitmap is not written back.
allocate_unmarked(s) ==
  LET used == s.media[BlockBitmap]
      b    == Min(Blocks \ used)
      zeroed == flush(write_exact(flush(Count(s, -1, 0)), BlockAt(b), Zeroes))
  IN  IF s.media[Group].blocks = 0 THEN Fail(s, "no_space")
      ELSE IF used = Blocks THEN Fail(s, "corrupt")
      ELSE [zeroed EXCEPT !.block = b]

\* The lowest free block, marked and counted, then zeroed.
allocate_block(s) ==
  LET used == s.media[BlockBitmap]
      b    == Min(Blocks \ used)
      marked == flush(Count(write_exact(s, BlockBitmap, used \cup {b}), -1, 0))
      zeroed == flush(write_exact(marked, BlockAt(b), Zeroes))
  IN  IF s.media[Group].blocks = 0 THEN Fail(s, "no_space")
      ELSE IF used = Blocks THEN Fail(s, "corrupt")
      ELSE [zeroed EXCEPT !.block = b]

allocate_inode(s) ==
  LET used == s.media[InodeBitmap]
      i    == Min(Inodes \ used)
      marked == flush(Count(write_exact(s, InodeBitmap, used \cup {i}), 0, -1))
      zeroed == flush(write_exact(marked, InodeAt(i), ZeroInode))
  IN  IF s.media[Group].inodes = 0 THEN Fail(s, "no_space")
      ELSE IF used = Inodes THEN Fail(s, "corrupt")
      ELSE [zeroed EXCEPT !.inode = i]

\* Zeroed, and only when that has reached the media unmarked and counted.
release_block(s, b) ==
  LET used == s.media[BlockBitmap]
      zeroed == flush(write_exact(s, BlockAt(b), Zeroes))
  IN  IF b \notin Blocks THEN Fail(s, "invalid_argument")
      ELSE IF b \notin used THEN Fail(s, "corrupt")
      ELSE flush(Count(write_exact(zeroed, BlockBitmap, used \ {b}), 1, 0))

release_inode(s, i) ==
  LET used == s.media[InodeBitmap]
      zeroed == flush(write_exact(s, InodeAt(i), ZeroInode))
  IN  IF i \notin Inodes \ {Root} THEN Fail(s, "invalid_argument")
      ELSE IF i \notin used THEN Fail(s, "corrupt")
      ELSE flush(Count(write_exact(zeroed, InodeBitmap, used \ {i}), 0, 1))

-----------------------------------------------------------------------------
(* Nodes and extents.                                                      *)

End(extent) == extent.first + extent.length

\* The physical block of a logical one: 0 for a hole, -1 when the scan meets
\* an extent out of order before the one it looks for.
map_block(node, logical) ==
  LET e    == node.extents
      hits == {k \in 1..Len(e) : logical >= e[k].first /\ logical < End(e[k])}
      upto == IF hits = {} THEN Len(e) ELSE Min(hits)
  IN  IF \E k \in 2..upto : e[k].first < End(e[k - 1]) THEN -1
      ELSE IF hits = {} THEN 0
      ELSE e[upto].start + (logical - e[upto].first)

persist_inode(s, node) == write_exact(s, InodeAt(node.inode), Persistent(node))

\* The last extent grows when the block continues it.
append_extent(s, logical, physical) ==
  LET e == s.node.extents
      n == Len(e)
      follows == /\ n # 0 /\ End(e[n]) = logical
                 /\ e[n].start + e[n].length = physical
                 /\ e[n].length < MaxExtentLength
  IN  IF ~Ok(s) THEN s
      ELSE IF follows THEN [s EXCEPT !.node.extents[n].length = @ + 1]
      ELSE IF n >= MaxExtents THEN Fail(s, "no_space")
      ELSE [s EXCEPT !.node.extents =
              Append(@, [first |-> logical, start |-> physical, length |-> 1])]

BlocksFor(size) == (size + BlockSize - 1) \div BlockSize

\* Blocks are allocated one by one; the ones before a failure stay in the node.
ensure_file_blocks(s, size) ==
  LET Put(t, logical) == Undo(append_extent(t, logical, t.block),
                              LAMBDA u : release_block(u, t.block))
      Step(t, logical) == Then(t, LAMBDA u : Then(allocate_block(u), LAMBDA v : Put(v, logical)))
      current == BlocksFor(s.node.size)
  IN  Fold(Step, s, [k \in 1..(BlocksFor(size) - current) |-> current + k - 1])

\* The blocks an inode's extents name, in the order they are released.
BlocksOf(extents) ==
  FlattenSeq([k \in 1..Len(extents) |->
    [j \in 1..extents[k].length |-> extents[k].start + j - 1]])

release_file_blocks(s, node) ==
  Fold(LAMBDA t, b : Then(t, LAMBDA u : release_block(u, b)), s, BlocksOf(node.extents))

-----------------------------------------------------------------------------
(* Directories.                                                            *)

\* read_inode: an inode that was never written, or was zeroed, is corrupt.
read_inode(media, i) ==
  [NoNode EXCEPT !.inode = i, !.type = media[InodeAt(i)].type,
                 !.size = media[InodeAt(i)].size, !.links = media[InodeAt(i)].links,
                 !.extents = media[InodeAt(i)].extents]

Dead(media, r) == media[InodeAt(r.inode)].type = "none"

\* The entries of a directory's block, in the order for_each meets them.
Entries(media, dir) ==
  {r \in media[BlockAt(map_block(dir, 0))].records : r.inode # 0}

\* for_each reads every inode on its way: a dead one before the name is found
\* ends the search.  The node of a failed search has type "none".
lookup(media, dir, name) ==
  LET entries == Entries(media, dir)
      found   == {r \in entries : r.name = name}
      first   == CHOOSE r \in found : \A q \in found : r.at <= q.at
  IN  IF dir.type # "directory" \/ found = {}
         \/ \E r \in entries : r.at <= first.at /\ Dead(media, r)
      THEN NoNode
      ELSE [read_inode(media, first.inode) EXCEPT !.at = first.at]

\* lookup says not_found, and no error, for a name to be created.
Absent(media, dir, name) ==
  /\ dir.type = "directory"
  /\ \A r \in Entries(media, dir) : r.name # name /\ ~Dead(media, r)

lookup_path(media, path) ==
  LET walk[n \in 0..Len(path)] ==
        IF n = 0 THEN read_inode(media, Root) ELSE lookup(media, walk[n - 1], path[n])
  IN  walk[Len(path)]

resolve_parent(media, path) == lookup_path(media, Front(path))

\* The first record with room: unused, or longer than its own name needs.
insert_directory_entry(s, dir, name, child) ==
  LET b     == map_block(dir, 0)
      block == s.media[BlockAt(b)]
      room  == {r \in block.records : r.inode = 0 \/ r.length > 1}
      slot  == CHOOSE r \in room : \A q \in room : r.at <= q.at
      entry(at, length) == [at |-> at, inode |-> child, name |-> name, length |-> length]
      placed == IF slot.inode = 0
                THEN {entry(slot.at, slot.length)}
                ELSE {[slot EXCEPT !.length = 1], entry(slot.at + 1, slot.length - 1)}
  IN  IF room = {} THEN Fail(s, "no_space")
      ELSE flush(write_exact(s, BlockAt(b),
             [block EXCEPT !.records = (@ \ {slot}) \cup placed]))

\* The record keeps its place and loses its inode (and, nobody reading it, its
\* name).
erase_directory_entry(s, dir, at) ==
  LET b     == BlockAt(map_block(dir, 0))
      slot  == CHOOSE r \in s.media[b].records : r.at = at
  IN  write_exact(s, b, [s.media[b] EXCEPT !.records =
        (@ \ {slot}) \cup {[slot EXCEPT !.inode = 0, !.name = ""]}])

initialize_directory_block(s, b, self, parent) ==
  write_exact(s, BlockAt(b), [Zeroes EXCEPT !.records =
    {[at |-> 0, inode |-> self, name |-> ".", length |-> 1],
     [at |-> 1, inode |-> parent, name |-> "..", length |-> DirUnits - 1]}])

increment_used_directories(s) ==
  write_exact(s, Group, [s.media[Group] EXCEPT !.directories = @ + 1])

-----------------------------------------------------------------------------
(* Operations of the volume.  s.node is the node the caller passes.        *)

\* One block's share of the bytes that go to offset and up.
Overlay(data, logical, offset, bytes) ==
  [k \in 1..BlockSize |->
     LET i == logical * BlockSize + k - offset
     IN  IF i \in 1..Len(bytes) THEN bytes[i] ELSE data[k]]

\* Once it is known that everything before succeeded: the node gets its size
\* and extents, and reaches the media.
Resize(s, size, extents) ==
  Then(s, LAMBDA t : flush(persist_inode([t EXCEPT !.node.size = size, !.node.extents = extents],
                             [t.node EXCEPT !.size = size, !.extents = extents])))

\* Blocks first, then the data and a flush, and the new size last.
write(s, offset, bytes) ==
  LET end == offset + Len(bytes)
      Store(t, logical, b) ==
        IF b \notin Blocks THEN Fail(t, "corrupt")
        ELSE write_exact(t, BlockAt(b), [t.media[BlockAt(b)] EXCEPT
               !.data = Overlay(@, logical, offset, bytes)])
      Step(t, logical) == Then(t, LAMBDA u : Store(u, logical, map_block(u.node, logical)))
      first == offset \div BlockSize
      Sized(t) == IF end > s.node.size THEN Resize(t, end, t.node.extents) ELSE t
  IN  IF bytes = <<>> THEN s
      ELSE Sized(flush(Fold(Step, ensure_file_blocks(s, end),
                  [k \in 1..(BlocksFor(end) - first) |-> first + k - 1])))

\* Growing allocates and then sets the size.
Grow(s, size) ==
  Then(ensure_file_blocks(s, size), LAMBDA t : Resize(t, size, t.node.extents))

\* Shrinking is to zero only, and the inode lets go of the blocks before they
\* are released.
truncate(s, size) ==
  IF size = s.node.size THEN s
  ELSE IF size > s.node.size THEN Grow(s, size)
  ELSE IF size # 0 THEN Fail(s, "unsupported")
  ELSE release_file_blocks(Resize(s, 0, <<>>), s.node)

NewNode(i, type, links) == [NoNode EXCEPT !.inode = i, !.type = type, !.links = links]

\* Inode, data and only then the name; any failure gives blocks and inode back.
create(s, path, bytes) ==
  LET parent  == resolve_parent(s.media, path)
      Made(t) == persist_inode([t EXCEPT !.node = NewNode(t.inode, "regular", 1)],
                               NewNode(t.inode, "regular", 1))
      Enter(t) == insert_directory_entry(t, parent, Last(path), t.inode)
      GiveBack(t) ==
        Ignored(release_inode(Ignored(release_file_blocks(t, t.node)), t.inode))
  IN  IF ~Absent(s.media, parent, Last(path)) THEN Fail(s, "refused")
      ELSE Then(allocate_inode(s), LAMBDA t :
             Undo(Then(Then(Made(t), LAMBDA u : write(u, 0, bytes)), Enter), GiveBack))

\* A directory has its block, its "." and ".." and its inode before its name;
\* the parent's link count and the group's directory count follow.
mkdir(s, path) ==
  LET parent  == resolve_parent(s.media, path)
      Made(t) == persist_inode(
        initialize_directory_block(t, t.block, t.inode, parent.inode),
        [NewNode(t.inode, "directory", 2) EXCEPT !.size = BlockSize,
           !.extents = <<[first |-> 0, start |-> t.block, length |-> 1]>>])
      Enter(t) == insert_directory_entry(t, parent, Last(path), t.inode)
      GiveBackInode(t) == Ignored(release_inode(t, t.inode))
      GiveBack(t) == GiveBackInode(Ignored(release_block(t, t.block)))
      Named(t) == Undo(Then(Made(t), Enter), GiveBack)
      Linked(t) == persist_inode(t, [parent EXCEPT !.links = @ + 1])
  IN  IF parent.type = "directory" /\ parent.links = MaxLinks THEN Fail(s, "no_space")
      ELSE IF ~Absent(s.media, parent, Last(path)) THEN Fail(s, "refused")
      ELSE Then(Then(Then(allocate_inode(s),
                          LAMBDA t : Undo(allocate_block(t), GiveBackInode)),
                     Named),
                LAMBDA t : flush(increment_used_directories(Linked(t))))

\* Mutant: the inode goes first and the name last.
remove_early(s, path) ==
  LET parent == resolve_parent(s.media, path)
      file   == lookup_path(s.media, path)
      Erased(t) == flush(erase_directory_entry(t, parent, file.at))
  IN  IF file.type # "regular" THEN Fail(s, "refused")
      ELSE Then(release_file_blocks(release_inode(s, file.inode), file), Erased)

\* The name, then the blocks, then the inode.
remove(s, path) ==
  LET parent == resolve_parent(s.media, path)
      file   == lookup_path(s.media, path)
      erased == flush(erase_directory_entry(s, parent, file.at))
  IN  IF file.type # "regular" THEN Fail(s, "refused")
      ELSE Then(release_file_blocks(erased, file), LAMBDA t : release_inode(t, file.inode))

\* The new name is entered, and flushed, before the old one is erased.
move(s, source, destination) ==
  LET from == resolve_parent(s.media, source)
      to   == resolve_parent(s.media, destination)
      file == lookup_path(s.media, source)
  IN  IF file.type = "none" \/ ~Absent(s.media, to, Last(destination))
      THEN Fail(s, "refused")
      ELSE Then(insert_directory_entry(s, to, Last(destination), file.inode),
                LAMBDA t : flush(erase_directory_entry(t, from, file.at)))

\* The bytes of a file from offset: a hole reads as zero, an extent out of
\* order as -1.
Read(media, node, offset, count) ==
  [k \in 1..count |->
     LET at == offset + k - 1
         b  == map_block(node, at \div BlockSize)
     IN  IF b \in Blocks THEN media[BlockAt(b)].data[(at % BlockSize) + 1] ELSE b]

\* A block at a time: read from the source, written at the target's end.
concatenate(s, destination, source) ==
  LET target == lookup_path(s.media, destination)
      origin == lookup_path(s.media, source)
      Step(t, piece) ==
        LET at    == (piece - 1) * BlockSize
            count == Min({BlockSize, origin.size - at})
        IN  Then(t, LAMBDA u : write(u, target.size + at, Read(u.media, origin, at, count)))
  IN  IF target.type # "regular" \/ origin.type # "regular" THEN Fail(s, "refused")
      ELSE Fold(Step, [s EXCEPT !.node = target],
                    [k \in 1..BlocksFor(origin.size) |-> k])

-----------------------------------------------------------------------------
(* Steps: an operation with the fault, if any, that meets it.              *)

\* Every path the names can form: a tree is no deeper than it has inodes.
AllPaths ==
  LET Names == UNION {Range(p) : p \in Paths}
  IN  UNION {[1..n -> Names] : n \in 1..(InodeCount - 1)}

\* The tree programs see: every path that can be looked up, with its bytes.
Tree(media) ==
  LET Shown(node) ==
        [dir |-> node.type = "directory",
         bytes |-> IF node.type = "regular" THEN Read(media, node, 0, node.size) ELSE <<>>]
  IN  [p \in {q \in AllPaths : lookup_path(media, q).type # "none"} |->
         Shown(lookup_path(media, p))]

Start(fault, node) ==
  [media |-> Media, base |-> platter, log |-> unflushed,
   free_blocks |-> geometry_.blocks, free_inodes |-> geometry_.inodes,
   kind |-> fault.kind, left |-> fault.left,
   done |-> 0, err |-> "none", node |-> node, block |-> 0, inode |-> 0]

Closed == [h \in Handles |-> NoNode]

\* initialize: the counters come from the superblock, nothing is open.
Mounted(media) == geometry_' = media[Superblock] /\ files' = Closed

\* After a cut the tree is compared with that before and the one on whole.
Remounted(media, whole) ==
  /\ Mounted(media)
  /\ shown' = Tree(media)
  /\ partial' = (shown' # shown /\ shown' # Tree(whole))

\* An operation that leaves Opened(s) as the nodes of the open descriptions.
Perform(operation, Run(_), Opened(_)) ==
  LET Returned(s) ==
        /\ geometry_' = [blocks |-> s.free_blocks, inodes |-> s.free_inodes]
        /\ files' = Opened(s)
        /\ shown' = IF s.media = Media THEN shown ELSE Tree(s.media)
        /\ partial' = FALSE
  IN  Attempt(operation, Run, Returned, Remounted)

\* Some description holds the file a path names.
Open(path) ==
  LET i == lookup_path(Media, path).inode
  IN  i # 0 /\ \E h \in Handles : files[h].inode = i

Undisturbed(path) == Shared \/ ~Open(path)

\* write and ftruncate refuse the descriptor of a directory: it is not kept.
Opens(node) == node.type = "regular"

\* openat with O_CREAT and O_TRUNC as asked: the file is truncated before a
\* descriptor is looked for.  O_CREAT makes no difference to a file that exists.
openat(path, creating, truncating) ==
  LET free == {h \in Handles : files[h].inode = 0}
      Made(s) == IF s.node.type # "none" THEN s
                 ELSE IF creating THEN create(s, path, <<>>)
                 ELSE Fail(s, "refused")
      Found(s) == [s EXCEPT !.node = lookup_path(s.media, path)]
      Cleared(s) == IF ~truncating THEN s
                    ELSE IF s.node.type = "directory" THEN Fail(s, "refused")
                    ELSE truncate(s, 0)
      Run(fault) == Then(Then(Made(Start(fault, lookup_path(Media, path))), Found), Cleared)
      Opened(s) ==
        IF Ok(s) /\ free # {} /\ Opens(s.node)
        THEN [files EXCEPT ![CHOOSE h \in free : TRUE] = [s.node EXCEPT !.at = 0]]
        ELSE files
  IN  /\ creating <=> lookup_path(Media, path).type = "none"
      /\ Undisturbed(path)
      /\ Perform("openat", Run, Opened)

\* write and ftruncate work on the node the description was opened with.
write_file(h, offset, bytes) ==
  /\ files[h].inode # 0
  /\ offset + Len(bytes) <= Min({MaxSize, files[h].size + Reach})
  /\ Perform("write", LAMBDA fault : write(Start(fault, files[h]), offset, bytes),
             LAMBDA s : [files EXCEPT ![h] = s.node])

ftruncate(h, size) ==
  /\ files[h].inode # 0
  /\ size <= files[h].size + Reach
  /\ Perform("truncate", LAMBDA fault : truncate(Start(fault, files[h]), size),
             LAMBDA s : [files EXCEPT ![h] = s.node])

close(h) ==
  /\ files[h].inode # 0
  /\ files' = [files EXCEPT ![h] = NoNode]
  /\ partial' = FALSE
  /\ UNCHANGED <<platter, unflushed, geometry_, faults, shown>>

\* An operation that names its file by path, and opens nothing.
ByPath(operation, Run(_)) == Perform(operation, Run, LAMBDA s : files)

truncate_path(path, size) ==
  LET node == lookup_path(Media, path)
  IN  /\ node.type = "regular"
      /\ size <= node.size + Reach
      /\ Undisturbed(path)
      /\ ByPath("truncate", LAMBDA fault : truncate(Start(fault, node), size))

create_path(path, bytes) ==
  ByPath("create", LAMBDA fault : create(Start(fault, NoNode), path, bytes))

mkdirat(path) ==
  ByPath("mkdir", LAMBDA fault : mkdir(Start(fault, NoNode), path))

unlinkat(path) ==
  /\ Undisturbed(path)
  /\ ByPath("remove", LAMBDA fault : remove(Start(fault, NoNode), path))

\* Nothing keeps a directory from being moved below itself; Cycles says whether
\* a program asks for it.
renameat(source, destination) ==
  /\ IsStrictPrefix(source, destination) => Cycles
  /\ ByPath("move", LAMBDA fault : move(Start(fault, NoNode), source, destination))

concatenate_path(destination, source) ==
  /\ lookup_path(Media, destination).size + lookup_path(Media, source).size <= MaxSize
  /\ Undisturbed(destination)
  /\ ByPath("concatenate",
            LAMBDA fault : concatenate(Start(fault, NoNode), destination, source))

\* The machine is switched off and on between two operations.
restart == PowerOff(Remounted)

\* A fresh image: the root directory and nothing else.
Init ==
  /\ platter =
       [at \in Places |->
          CASE at = BlockBitmap -> {1}
            [] at = InodeBitmap -> {Root}
            [] at = Group -> [blocks |-> BlockCount - 1, inodes |-> InodeCount - 1,
                              directories |-> 1]
            [] at = Superblock -> [blocks |-> BlockCount - 1, inodes |-> InodeCount - 1]
            [] at = InodeAt(Root) ->
                 [type |-> "directory", size |-> BlockSize, links |-> 2,
                  extents |-> <<[first |-> 0, start |-> 1, length |-> 1]>>]
            [] at = BlockAt(1) ->
                 [Zeroes EXCEPT !.records =
                    {[at |-> 0, inode |-> Root, name |-> ".", length |-> 1],
                     [at |-> 1, inode |-> Root, name |-> "..", length |-> DirUnits - 1]}]
            [] at \in {BlockAt(b) : b \in Blocks \ {1}} ->
                 [Zeroes EXCEPT !.data = [k \in 1..BlockSize |-> Junk]]
            [] OTHER -> ZeroInode]
  /\ unflushed = <<>>
  /\ geometry_ = [blocks |-> BlockCount - 1, inodes |-> InodeCount - 1]
  /\ files = Closed
  /\ faults = 0
  /\ shown = Tree(platter)
  /\ partial = FALSE

\* The bytes one call stores.
Contents(limit) == UNION {[1..n -> Bytes] : n \in 0..limit}

Next ==
  \/ \E p \in Paths :
       \/ \E creating, truncating \in BOOLEAN : openat(p, creating, truncating)
       \/ \E n \in 0..MaxSize : truncate_path(p, n)
       \/ \E bytes \in {<<>>} \cup [1..MaxSize -> Bytes] : create_path(p, bytes)
       \/ mkdirat(p) \/ unlinkat(p)
       \/ \E q \in Paths : renameat(p, q) \/ concatenate_path(p, q)
  \/ \E h \in Handles :
       \/ \E n \in 0..MaxSize : ftruncate(h, n)
       \/ \E bytes \in Contents(MaxSize) \ {<<>>} :
            \E offset \in 0..files[h].size : write_file(h, offset, bytes)
       \/ close(h)
  \/ restart

Spec == Init /\ [][Next]_vars

-----------------------------------------------------------------------------
(* Properties.                                                             *)

\* Inodes that names lead to: what lookups from the root can reach.
Reachable(media) ==
  {Root} \cup ({lookup_path(media, p).inode : p \in AllPaths} \ {0})

Directory(media, i) == media[InodeAt(i)].type = "directory"

Owned(media, i) == BlocksOf(media[InodeAt(i)].extents)

Abstract == INSTANCE FileTree WITH tree <- shown, cuts <- faults

\* Types: the media holds what belongs at each place, and open descriptions
\* hold nodes of regular files.
TypeOK ==
  /\ DOMAIN platter = Places
  /\ platter[BlockBitmap] \subseteq Blocks /\ platter[InodeBitmap] \subseteq Inodes
  /\ geometry_ \in [blocks : 0..(CountModulus - 1), inodes : 0..(CountModulus - 1)]
  /\ \A i \in Inodes : platter[InodeAt(i)].type \in {"none", "regular", "directory"}
  /\ \A h \in Handles : files[h].type \in {"none", "regular"}
  /\ faults \in 0..MaxFaults

\* No block belongs to two files, or twice to one, and none that a file uses is
\* marked free, whatever operation but a rename a power cut interrupted: what is
\* allocated next never overwrites a file.
BlocksExclusive ==
  /\ TypeOK
  /\ \A media \in {Media} : \A reached \in {Reachable(media)} :
       /\ \A i \in reached :
            /\ IsInjective(Owned(media, i))
            /\ Range(Owned(media, i)) \subseteq media[BlockBitmap]
            /\ i \in media[InodeBitmap]
       /\ \A i, j \in reached :
            i # j => Range(Owned(media, i)) \cap Range(Owned(media, j)) = {}

\* Every name in a directory leads to an inode that was written, and every
\* byte below a file's size to a block: for_each and read never meet damage
\* of the driver's own making.  So for a device that keeps the order of its
\* writes (Reorders): create and mkdir flush only after the name is written.
NamesLive ==
  \A media \in {Media} : \A i \in Reachable(media) :
    /\ Directory(media, i) =>
         \A r \in Entries(media, read_inode(media, i)) :
           ~Dead(media, r) /\ r.inode \in media[InodeBitmap]
    /\ \A k \in 0..(BlocksFor(media[InodeAt(i)].size) - 1) :
         map_block(read_inode(media, i), k) \in Blocks

\* While no fault has happened the books balance: the bitmaps mark exactly
\* what the tree uses, so that nothing leaks, and the three copies of the free
\* counts, and the count of directories, agree with them.  So for calls that ask
\* for at most one block (Reach) and move no directory below itself (Cycles):
\* the code leaks in both cases.
BooksBalance ==
  faults = 0 =>
    \A media \in {Media} : \A reached \in {Reachable(media)} :
      /\ media[InodeBitmap] = reached
      /\ media[BlockBitmap] = UNION {Range(Owned(media, i)) : i \in reached}
      /\ geometry_ = media[Superblock]
      /\ geometry_ = [blocks |-> BlockCount - Cardinality(media[BlockBitmap]),
                      inodes |-> InodeCount - Cardinality(media[InodeBitmap])]
      /\ media[Group] = [blocks |-> geometry_.blocks, inodes |-> geometry_.inodes,
                         directories |-> Cardinality({i \in reached : Directory(media, i)})]

\* Each operation is one of the steps of the abstract tree, and one that a power
\* cut interrupts has happened in full or not at all: create, mkdir, remove and
\* truncate always; a write may be torn, the file keeping its length, and bytes
\* that an interrupted write had stored behind the end may show when the file is
\* extended.  No file ever shows what the media held before.  rename is such a
\* step when the power stays on and no directory goes below itself: the code does
\* not keep the promise otherwise.
ImplementsTree == Abstract!Spec

\* What doc/fs-write-regression.md asks of a rename (EXT-034), and move does not
\* do: the ".." of a directory names the directory it is in.
ParentsNamed ==
  \A p \in AllPaths : lookup_path(Media, p).type = "directory" =>
    \A r \in Entries(Media, lookup_path(Media, p)) :
      r.name = ".." => r.inode = resolve_parent(Media, p).inode

=============================================================================
