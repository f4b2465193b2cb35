------------------------------ MODULE FileTree ------------------------------
(***************************************************************************)
(* What a writable filesystem promises: a tree of names, of files with     *)
(* their bytes and of directories, in which every operation happens        *)
(* completely or not at all, also when the power is cut in the middle of   *)
(* it.  partial says that the last step was a cut which left neither the   *)
(* tree before the operation nor the one it was to make, or a restart that *)
(* changed the tree.  The promise of doc/fs-write-regression.md is that    *)
(* there is no such step: Tolerated is then empty.  A driver that keeps    *)
(* less names what it leaves.                                              *)
(***************************************************************************)
EXTENDS Integers, Sequences, FiniteSets, Functions

CONSTANTS
  Bytes,      \* the values a program writes; 0 is not one of them
  Tolerated   \* what a cut or a restart may leave besides the tree before and after

VARIABLES
  tree,       \* the names with what they stand for
  cuts,       \* how often the power was cut
  partial     \* the last cut left an operation done in part

vars == <<tree, cuts, partial>>

File(bytes) == [dir |-> FALSE, bytes |-> bytes]

Directory == [dir |-> TRUE, bytes |-> <<>>]

IsFile(p) == p \in DOMAIN tree /\ ~tree[p].dir

Parent(p) == SubSeq(p, 1, Len(p) - 1)

\* A name can be put at p.
Vacant(p) ==
  /\ p \notin DOMAIN tree
  /\ Parent(p) = <<>> \/ (Parent(p) \in DOMAIN tree /\ tree[Parent(p)].dir)

Set(p, content) == [q \in DOMAIN tree \cup {p} |-> IF q = p THEN content ELSE tree[q]]

\* The directories of the image, and no file.
Init ==
  /\ \A p \in DOMAIN tree : tree[p] = Directory
  /\ cuts = 0
  /\ partial = FALSE

\* A new file at p, of the given values.
Create(p, values) ==
  /\ Vacant(p)
  /\ tree' = Set(p, tree'[p])
  /\ ~tree'[p].dir
  /\ Range(tree'[p].bytes) \subseteq values

MakeDirectory(p) ==
  /\ Vacant(p)
  /\ tree' = Set(p, Directory)

\* A file, or a directory with nothing in it.
Remove(p) ==
  /\ \A q \in DOMAIN tree : Parent(q) # p
  /\ tree' = Restrict(tree, DOMAIN tree \ {p})

\* p and everything below it gets the name q, which is not below p.
Rename(p, q) ==
  LET Below == {r \in DOMAIN tree : Len(r) >= Len(p) /\ SubSeq(r, 1, Len(p)) = p}
      To(r) == q \o SubSeq(r, Len(p) + 1, Len(r))
  IN  /\ p \in DOMAIN tree
      /\ Vacant(q) /\ Parent(q) \notin Below
      /\ DOMAIN tree' = (DOMAIN tree \ Below) \cup {To(r) : r \in Below}
      /\ \A r \in DOMAIN tree :
           tree[r] = IF r \in Below THEN tree'[To(r)] ELSE tree'[r]

\* Bytes from some position on are replaced, the file growing as far as they
\* reach; what lies between its old end and them is zero.
Written(old, new) ==
  /\ Len(new) >= Len(old)
  /\ \E first, last \in 1..Len(new) :
       /\ first <= last
       /\ Len(new) > Len(old) => last = Len(new)
       /\ \A i \in 1..Len(new) :
            new[i] \in IF i \in first..last THEN Bytes
                       ELSE IF i <= Len(old) THEN {old[i]} ELSE {0}

\* The file grows by bytes nobody wrote.  They are zero, or what a write that a
\* cut interrupted had stored behind the end ("leftover").
Extended(old, new) ==
  /\ Len(new) > Len(old)
  /\ SubSeq(new, 1, Len(old)) = old
  /\ \A i \in (Len(old) + 1)..Len(new) :
       new[i] = 0 \/ ("leftover" \in Tolerated /\ cuts # 0 /\ new[i] \in Bytes)

Shortened(old, new) == Len(new) < Len(old) /\ new = SubSeq(old, 1, Len(new))

Changed(old, new) == Written(old, new) \/ Extended(old, new) \/ Shortened(old, new)

\* The bytes of p change as told.
Change(p, To(_, _)) ==
  /\ IsFile(p)
  /\ tree[p] # tree'[p]
  /\ tree' = Set(p, File(tree'[p].bytes))
  /\ To(tree[p].bytes, tree'[p].bytes)

Concatenate(p, q) ==
  IsFile(q) /\ Change(p, LAMBDA old, new : new = old \o tree[q].bytes)

\* What an operation makes of the tree when it is not interrupted.
Operation ==
  \/ UNCHANGED tree
  \/ \E p \in DOMAIN tree' :
       \/ Create(p, Bytes) \/ MakeDirectory(p)
       \/ Change(p, Changed)
       \/ \E q \in DOMAIN tree : Rename(q, p) \/ Concatenate(p, q)
  \/ \E p \in DOMAIN tree : Remove(p)

\* An overwrite, each byte old or new: the length stays.
Torn(old, new) ==
  /\ Len(new) = Len(old)
  /\ \A i \in 1..Len(old) : new[i] \in Bytes \cup {old[i]}

\* A write that set the size first: what had not been stored is zero.
ZeroFilled(old, new) ==
  /\ Len(new) > Len(old)
  /\ \A i \in 1..Len(new) :
       new[i] \in Bytes \cup (IF i <= Len(old) THEN {old[i]} ELSE {0})

\* What a cut leaves of an operation in part, one case for each name.
InPart ==
  \/ \E p \in DOMAIN tree' :
       \/ "torn" \in Tolerated /\ Change(p, Torn)
       \/ "zeroes" \in Tolerated /\ Change(p, ZeroFilled)
       \* A file that was being created has none or some of its bytes.
       \/ "unfilled" \in Tolerated /\ Create(p, Bytes \cup {0})
       \* A file that was being removed has another name, its alias.
       \/ /\ "alias" \in Tolerated
          /\ \E q \in DOMAIN tree : Parent(p) = Parent(q) /\ Rename(q, p)

\* A restart between two operations changes nothing, except that a create which
\* failed, and was undone without a flush, may show as an empty file.
Resurfaced == "undone" \in Tolerated /\ \E p \in DOMAIN tree' : Create(p, {})

Next ==
  \/ ~partial' /\ cuts' \in {cuts, cuts + 1} /\ Operation
  \/ partial' /\ cuts' = cuts + 1 /\ InPart
  \/ partial' /\ cuts' = cuts /\ Resurfaced

Spec == Init /\ [][Next]_vars

=============================================================================
