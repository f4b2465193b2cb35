------------------------- MODULE ForkSignals_proofs --------------------------
(***************************************************************************)
(* For every number of processes, depth of the ancestor stack, zombie table*)
(* and choice of who opens what: a process that has not exited is the      *)
(* active one or sits in exactly one saved context, with its own image and *)
(* descriptors; the suspended processes are the ancestors of the active    *)
(* one in order; and a park answers a fork once.  The signals of a process *)
(* move with it: none that is pending is lost, two are never caught, an    *)
(* interrupt reaches the group it is typed for, and the background record  *)
(* takes one only for a process that has left that group.                  *)
(*                                                                         *)
(* One thing is asked of the programs: that a service which waits for a    *)
(* listener does so when no ancestor is stacked (ListenerAtTop).  It holds *)
(* when the service is the first process the console shell starts.         *)
(***************************************************************************)
EXTENDS ForkSignals, TLAPS

\* What is asked of the programs.
ListenerAtTop == CanParkBackground("listener") => depth = 0

\* What the proofs use of sets of numbers and of cardinalities.  The library is
\* brought in at the end, where SetLaws is proved.
SetLaws ==
  /\ \A S \in SUBSET Nat : S # {} => \E n \in S : \A m \in S : n <= m
  /\ \A n \in Nat : IsFiniteSet(1..n) /\ Cardinality(1..n) = n
  /\ IsFiniteSet({}) /\ Cardinality({}) = 0
  /\ \A x : IsFiniteSet({x}) /\ Cardinality({x}) = 1
  /\ \A S : IsFiniteSet(S) =>
       /\ Cardinality(S) \in Nat
       /\ Cardinality(S) = 0 <=> S = {}
       /\ Cardinality(S) = 1 => \E x : S = {x}
       /\ \A T \in SUBSET S : IsFiniteSet(T) /\ Cardinality(T) <= Cardinality(S)
       /\ \A x : /\ IsFiniteSet(S \cup {x})
                 /\ x \notin S => Cardinality(S \cup {x}) = Cardinality(S) + 1

Bit(b) == IF b THEN 1 ELSE 0

\* How many contexts of a stack are among C.
Count(s, C) == Cardinality({i \in 1..Len(s) : s[i] \in C})

Of(p) == {c \in Context : c.pid = p}

Having(o) == {c \in Context : o \in c.descriptors}

\* How many saved contexts hold process p, and how many tables object o.
Places(n, a, b, c, g, p) ==
  Count(n, Of(p)) + Bit(a.pid = p) + Bit(b.pid = p) + Bit(c.pid = p)
                  + Bit(g.snap = p)

Tables(n, a, b, c, g, o) ==
  Count(n, Having(o)) + Bit(o \in a.descriptors) + Bit(o \in b.descriptors)
                      + Bit(o \in c.descriptors) + Bit(o \in g.descriptors)

\* A suspended context in use, and a slot for one.
Saves(c) == c \in Context /\ c.pid # 0 /\ c.snap = c.pid /\ c.parent_pid < c.pid

Slot(c) == Saves(c) \/ c = NoContext

\* Context c was suspended by its fork of a child that has not been answered, or
\* in a later call.
Asks(c, done) == c.frame = "clone" <=> c.child_pid \notin done

\* The stack n is linked, and its newest suspension waits for process q.
Linked(n) ==
  \A i \in 1..Len(n) - 1 : n[i].child_pid = n[i + 1].pid /\ n[i + 1].parent_pid = n[i].pid

WaitsFor(n, q) ==
  Len(n) # 0 => n[Len(n)].child_pid = q.pid /\ q.parent_pid = n[Len(n)].pid

Chained(n, a, q) ==
  /\ Linked(n)
  /\ Active(a) => a.child_pid = q.pid /\ q.parent_pid = a.pid /\ WaitsFor(n, a)
  /\ ~Active(a) => WaitsFor(n, q)

Background ==
  [used : BOOLEAN, pid : 0..MaxPid, parent_pid : 0..MaxPid,
   wait : Sockets \cup {"none"}, snap : 0..MaxPid, descriptors : SUBSET Objects]

\* The background record: it holds an image exactly while it waits, and then for
\* a child of the process at the bottom.
Parked(g, n, a, q, done) ==
  /\ g.snap = 0 => g.descriptors = {}
  /\ g.used /\ g.wait \in Sockets => g.snap # 0
  /\ g.snap # 0 =>
       /\ g.used /\ g.snap = g.pid /\ g.pid \in done /\ g.parent_pid < g.pid
       /\ Len(n) = 0
       /\ g.parent_pid = IF Active(a) THEN a.pid ELSE q.pid

\* The parked program b and, below a relay r, its shell c.
Relays(b, c, r, done) ==
  /\ Active(b) /\ ~Active(c) => b.pid \in done
  /\ Active(c) =>
       /\ Active(b) /\ c.child_pid = b.pid /\ b.parent_pid = c.pid
       /\ c.parent_pid = r /\ c.pid \in done /\ Asks(c, done)

Kept ==
  /\ \A p \in Pid :
       Places(nested_ancestors, parent, interactive_child, interactive_parent,
              background, p)
         = Bit(p \in Alive /\ p # process.pid)
  /\ arena = Alive \ {process.pid}
  /\ ~halted => process.pid \in Alive

Counts(n, a, b, c, g, d, r) ==
  \A o \in Objects : r[o] = Tables(n, a, b, c, g, o) + Bit(o \in d)

Counted ==
  Counts(nested_ancestors, parent, interactive_child, interactive_parent, background,
         descriptors, references)

Slots ==
  /\ memory = process.pid /\ process.parent_pid < process.pid
  /\ \A i \in 1..depth : Saves(nested_ancestors[i])
  /\ Slot(parent) /\ Slot(interactive_child) /\ Slot(interactive_parent)

Frames ==
  /\ \A i \in 1..depth : Asks(nested_ancestors[i], answered)
  /\ Active(parent) => Asks(parent, answered)

IInv ==
  /\ TypeOK /\ IsFiniteSet(waitable_children)
  /\ exited \subseteq 1..next_pid - 1 /\ answered \subseteq 1..next_pid - 1
  /\ Slots /\ Kept /\ Counted
  /\ Chained(nested_ancestors, parent, process)
  /\ Parked(background, nested_ancestors, parent, process, answered)
  /\ Relays(interactive_child, interactive_parent, interactive_relay_service_pid,
            answered)
  /\ Frames /\ ParkAnswersForkOnce

-----------------------------------------------------------------------------
(* Counting the contexts of a stack.                                       *)

\* Process identifiers, and zero for none.
LEMMA PidNumbers ==
  /\ 0 \notin Pid /\ 0 \in 0..MaxPid /\ 1 \in Pid
  /\ \A p \in Pid : p \in 0..MaxPid /\ p \in Nat /\ p # 0
  /\ \A p \in 0..MaxPid : p # 0 => p \in Pid
BY ForkAssumption DEF Pid

\* The ranges of numbers that index a stack.
LEMMA Ranges ==
  \A n \in Nat :
    /\ n + 1 \in Nat /\ n + 1 # 0 /\ n + 1 \in 1..(n + 1) /\ n + 1 \notin 1..n
    /\ \A i \in 1..(n + 1) : i = n + 1 \/ i \in 1..n
    /\ \A i \in 1..n : i \in 1..(n + 1)
    /\ n # 0 => n \in 1..n
    /\ \A i \in 1..(n - 1) : i \in 1..n /\ i + 1 \in 1..n
    /\ \A i \in 1..n : i = n \/ i \in 1..(n - 1)
OBVIOUS

\* A sequence is read inside its range.
LEMMA Indexed ==
  ASSUME NEW S, NEW s \in Seq(S)
  PROVE  Len(s) \in Nat /\ DOMAIN s = 1..Len(s) /\ \A i \in 1..Len(s) : s[i] \in S
OBVIOUS

\* The types of the contexts and of the counters, from the invariant.
LEMMA Typed ==
  ASSUME IInv
  PROVE  /\ process.pid \in Pid /\ process.parent_pid \in 0..MaxPid
         /\ parent \in Context /\ interactive_child \in Context
         /\ interactive_parent \in Context /\ background \in Background
         /\ nested_ancestors \in Seq(Context) /\ Len(nested_ancestors) = depth
         /\ depth \in Nat /\ depth <= NestedCapacity
         /\ Alive \subseteq Pid /\ next_pid \in Nat
BY ForkAssumption DEF IInv, TypeOK, Background, depth, Alive, Pid

\* An empty stack holds no context.
LEMMA CountEmpty ==
  ASSUME SetLaws, NEW s, NEW C, Len(s) = 0
  PROVE  Count(s, C) = 0
<1>1. {i \in 1..Len(s) : s[i] \in C} = {}
  OBVIOUS
<1>2. QED
  BY <1>1, Zenon DEF Count, SetLaws

\* A stack holds at most as many contexts of a kind as it is long.
LEMMA CountBounded ==
  ASSUME SetLaws, NEW S, NEW s \in Seq(S), NEW C
  PROVE  /\ Count(s, C) \in Nat /\ Count(s, C) <= Len(s)
         /\ IsFiniteSet({i \in 1..Len(s) : s[i] \in C})
<1> DEFINE at == {i \in 1..Len(s) : s[i] \in C}
<1>1. Len(s) \in Nat
  BY Indexed, Zenon
<1>2. IsFiniteSet(1..Len(s)) /\ Cardinality(1..Len(s)) = Len(s)
  BY <1>1, Zenon DEF SetLaws
<1>3. at \subseteq 1..Len(s)
  BY Zenon
<1>4. IsFiniteSet(at) /\ Cardinality(at) <= Len(s)
  BY <1>2, <1>3 DEF SetLaws
<1>5. Cardinality(at) \in Nat
  BY <1>4, Zenon DEF SetLaws
<1>6. QED
  BY <1>4, <1>5, Zenon DEF Count

\* A context that is among C is counted.
LEMMA CountSeen ==
  ASSUME SetLaws, NEW S, NEW s \in Seq(S), NEW C
  PROVE  Count(s, C) = 0 <=> \A i \in 1..Len(s) : s[i] \notin C
<1> DEFINE at == {i \in 1..Len(s) : s[i] \in C}
<1>1. IsFiniteSet(at)
  BY CountBounded, Zenon
<1>2. Cardinality(at) = 0 <=> at = {}
  BY <1>1, Zenon DEF SetLaws
<1>3. QED
  BY <1>2, Zenon DEF Count

\* Pushing a context counts it once.
LEMMA CountAppend ==
  ASSUME SetLaws, NEW S, NEW s \in Seq(S), NEW C, NEW c \in S
  PROVE  Count(Append(s, c), C) = Count(s, C) + Bit(c \in C)
<1> DEFINE at == {i \in 1..Len(s) : s[i] \in C}
           new == {i \in 1..Len(Append(s, c)) : Append(s, c)[i] \in C}
<1>1. /\ Len(s) \in Nat /\ Len(Append(s, c)) = Len(s) + 1
      /\ Append(s, c)[Len(s) + 1] = c
      /\ \A i \in 1..Len(s) : Append(s, c)[i] = s[i]
  OBVIOUS
<1>2. IsFiniteSet(at) /\ Len(s) + 1 \notin at /\ Cardinality(at) \in Nat
  BY <1>1, CountBounded DEF SetLaws
<1>3. CASE c \in C
  <2>1. new = at \cup {Len(s) + 1}
    BY <1>1, <1>3
  <2>2. \A x : x \notin at => Cardinality(at \cup {x}) = Cardinality(at) + 1
    BY <1>2, Zenon DEF SetLaws
  <2>3. Cardinality(new) = Cardinality(at) + 1
    BY <1>2, <2>1, <2>2, Zenon
  <2>4. QED
    BY <2>3, <1>3, Zenon DEF Count, Bit
<1>4. CASE c \notin C
  <2>1. new = at
    BY <1>1, <1>4
  <2>2. Count(s, C) \in Nat
    BY CountBounded, Zenon
  <2>3. Count(Append(s, c), C) = Count(s, C)
    BY <2>1, Zenon DEF Count
  <2>4. QED
    BY <2>2, <2>3, <1>4, SMTT(60) DEF Bit
<1>5. QED
  BY <1>3, <1>4, Zenon

\* What is left of a stack without its top.
LEMMA PrefixProperties ==
  ASSUME NEW S, NEW s \in Seq(S), NEW n \in 0..Len(s)
  PROVE  /\ SubSeq(s, 1, n) \in Seq(S) /\ Len(SubSeq(s, 1, n)) = n
         /\ \A i \in 1..n : SubSeq(s, 1, n)[i] = s[i]
OBVIOUS

\* The top of a stack that is not empty.
LEMMA TopProperties ==
  ASSUME NEW S, NEW s \in Seq(S), Len(s) # 0
  PROVE  LET t == SubSeq(s, 1, Len(s) - 1)
         IN  /\ Len(s) \in Nat /\ t \in Seq(S) /\ s[Len(s)] \in S
             /\ Len(t) = Len(s) - 1 /\ \A i \in 1..Len(t) : t[i] = s[i]
<1>1. Len(s) \in Nat \ {0} /\ Len(s) - 1 \in 0..Len(s)
  OBVIOUS
<1>2. s[Len(s)] \in S
  BY <1>1, PidNumbers, Ranges, Indexed, Zenon
<1>3. QED
  BY <1>1, <1>2, PrefixProperties, Zenon

\* The stack with a context on top, and without its newest one.
Grown(n, c, m) ==
  /\ m \in Seq(Context) /\ Len(m) = Len(n) + 1 /\ m[Len(m)] = c
  /\ \A i \in 1..Len(n) : m[i] = n[i]
  /\ \A p : Count(m, Of(p)) = Count(n, Of(p)) + Bit(c.pid = p)
  /\ \A o : Count(m, Having(o)) = Count(n, Having(o)) + Bit(o \in c.descriptors)

\* Every context of a stack is saved in the snapshot of its process.
Saving(n) == \A i \in 1..Len(n) : n[i].snap = n[i].pid

\* A saved context pushed on a stack of saved ones leaves them saved.
LEMMA GrownSaves ==
  ASSUME NEW n, NEW c, NEW m, Len(n) \in Nat, Grown(n, c, m), c.snap = c.pid, Saving(n)
  PROVE  Saving(m)
<1>1. /\ Len(m) = Len(n) + 1 /\ m[Len(n) + 1] = c /\ \A i \in 1..Len(n) : m[i] = n[i]
      /\ \A i \in 1..(Len(n) + 1) : i = Len(n) + 1 \/ i \in 1..Len(n)
  BY Ranges, Zenon DEF Grown
<1>2. QED
  BY <1>1, Zenon DEF Saving

\* The counts of a stack with one more context on top.
LEMMA Pushed ==
  ASSUME SetLaws, NEW n \in Seq(Context), NEW c \in Context
  PROVE  Grown(n, c, Append(n, c))
<1> DEFINE m == Append(n, c)
<1>1. /\ m \in Seq(Context) /\ Len(m) = Len(n) + 1 /\ m[Len(m)] = c
      /\ \A i \in 1..Len(n) : m[i] = n[i]
  OBVIOUS
<1>2. ASSUME NEW p PROVE Count(m, Of(p)) = Count(n, Of(p)) + Bit(c.pid = p)
  <2>1. c \in Of(p) <=> c.pid = p
    BY Zenon DEF Of
  <2>2. Count(m, Of(p)) = Count(n, Of(p)) + Bit(c \in Of(p))
    BY CountAppend, Zenon
  <2>3. QED
    BY <2>1, <2>2, Zenon DEF Bit
<1>3. ASSUME NEW o
      PROVE  Count(m, Having(o)) = Count(n, Having(o)) + Bit(o \in c.descriptors)
  <2>1. c \in Having(o) <=> o \in c.descriptors
    BY Zenon DEF Having
  <2>2. Count(m, Having(o)) = Count(n, Having(o)) + Bit(c \in Having(o))
    BY CountAppend, Zenon
  <2>3. QED
    BY <2>1, <2>2, Zenon DEF Bit
<1>4. QED
  BY <1>1, <1>2, <1>3, Zenon DEF Grown

\* The counts of a stack without its top.
LEMMA Popped ==
  ASSUME SetLaws, NEW n \in Seq(Context), Len(n) # 0
  PROVE  /\ Grown(SubSeq(n, 1, Len(n) - 1), n[Len(n)], n)
         /\ SubSeq(n, 1, Len(n) - 1) \in Seq(Context) /\ n[Len(n)] \in Context
<1> DEFINE m == SubSeq(n, 1, Len(n) - 1)
<1>1. /\ Len(n) \in Nat /\ m \in Seq(Context) /\ n[Len(n)] \in Context
      /\ Len(m) = Len(n) - 1 /\ \A i \in 1..Len(m) : m[i] = n[i]
  BY TopProperties, Zenon
<1>2. Append(m, n[Len(n)]) = n
  BY <1>1
<1>3. QED
  BY <1>1, <1>2, Pushed, Zenon

\* The counts of a stack are numbers, and none of its own contexts counts zero.
LEMMA StackCounts ==
  ASSUME SetLaws, NEW n \in Seq(Context)
  PROVE  /\ \A p : Count(n, Of(p)) \in Nat
         /\ \A o : Count(n, Having(o)) \in Nat /\ Count(n, Having(o)) <= Len(n)
         /\ \A i \in 1..Len(n) : Count(n, Of(n[i].pid)) # 0
<1>1. ASSUME NEW i \in 1..Len(n) PROVE Count(n, Of(n[i].pid)) # 0
  <2>1. n[i] \in Of(n[i].pid)
    BY Indexed, Zenon DEF Of
  <2>2. QED
    BY <2>1, CountSeen, Zenon
<1>2. QED
  BY <1>1, CountBounded, Zenon

\* A reference count is bounded by the tables there are.
LEMMA TablesBounded ==
  ASSUME SetLaws, NEW n \in Seq(Context), NEW a, NEW b, NEW c, NEW g, NEW o
  PROVE  Tables(n, a, b, c, g, o) \in 0..Len(n) + 4
<1>1. Count(n, Having(o)) \in Nat /\ Count(n, Having(o)) <= Len(n) /\ Len(n) \in Nat
  BY StackCounts, Indexed, Zenon
<1>2. QED
  BY <1>1, SMTT(60) DEF Tables, Bit

\* A reference count is a number.
LEMMA ReferencesTyped ==
  ASSUME SetLaws, NEW n \in Seq(Context), Len(n) <= NestedCapacity, NEW a, NEW b, NEW c, NEW g,
         NEW d, NEW r, r = [o \in Objects |-> r[o]], Counts(n, a, b, c, g, d, r)
  PROVE  r \in [Objects -> 0..(NestedCapacity + 5)]
<1>1. \A o : Tables(n, a, b, c, g, o) \in 0..Len(n) + 4
  BY TablesBounded, Zenon
<1>2. Len(n) \in Nat /\ NestedCapacity \in Nat
  BY ForkAssumption, Indexed, Zenon
<1>3. \A o \in Objects : r[o] \in 0..(NestedCapacity + 5)
  BY <1>1, <1>2, SMTT(60) DEF Bit, Counts
<1>4. QED
  BY <1>3, Zenon

\* The stack n is m with c on top: links go down to c, and on from it.
Below(m, c, n) ==
  /\ Grown(m, c, n) /\ m \in Seq(Context) /\ c \in Context
  /\ Len(n) \in Nat /\ Len(m) = Len(n) - 1 /\ n[Len(n)] = c
  /\ \A i \in 1..Len(m) : i \in 1..Len(n) - 1 /\ m[i] = n[i]
  /\ Linked(m) /\ WaitsFor(m, c)

\* Without its top a linked stack is linked still, and the top is above it.
LEMMA Unstacked ==
  ASSUME SetLaws, NEW n \in Seq(Context), Len(n) # 0, Linked(n)
  PROVE  Below(SubSeq(n, 1, Len(n) - 1), n[Len(n)], n)
<1> DEFINE m == SubSeq(n, 1, Len(n) - 1)
           c == n[Len(n)]
<1>1. Grown(m, c, n) /\ m \in Seq(Context) /\ c \in Context
  BY Popped, Zenon
<1>2. Len(n) \in Nat /\ Len(m) = Len(n) - 1 /\ \A i \in 1..Len(m) : m[i] = n[i]
  BY TopProperties, Zenon
<1> HIDE DEF m, c
<1>3. Linked(m)
  <2>1. \A i \in 1..Len(m) - 1 : i \in 1..Len(n) - 1 /\ i \in 1..Len(m) /\ i + 1 \in 1..Len(m)
    BY <1>2
  <2>2. QED
    BY <1>2, <2>1, Zenon DEF Linked
<1>4. WaitsFor(m, c)
  BY <1>2 DEF Linked, WaitsFor, c
<1>5. QED
  BY <1>1, <1>2, <1>3, <1>4, Zenon DEF Below, m, c

\* A context whose child is the process pushed keeps the stack linked.
LEMMA Stacked ==
  ASSUME SetLaws, NEW n \in Seq(Context), NEW c \in Context, Linked(n), WaitsFor(n, c)
  PROVE  Below(n, c, Append(n, c)) /\ Linked(Append(n, c))
<1> DEFINE m == Append(n, c)
<1>1. Grown(n, c, m)
  BY Pushed, Zenon
<1>2. Len(n) \in Nat /\ Len(m) = Len(n) + 1 /\ m[Len(n) + 1] = c
      /\ \A i \in 1..Len(n) : m[i] = n[i]
  BY <1>1, Indexed, Zenon DEF Grown
<1> HIDE DEF m
<1>3. \A i \in 1..Len(m) - 1 : i = Len(n) \/ (i \in 1..Len(n) - 1 /\ i + 1 \in 1..Len(n))
  BY <1>2, Ranges, Zenon
<1>4. Linked(m)
  BY <1>2, <1>3 DEF Linked, WaitsFor
<1>5. QED
  BY <1>1, <1>2, <1>4 DEF Below, m

-----------------------------------------------------------------------------
(* Where the processes are.                                                *)

\* The pids p of the contexts are those of live processes other than the active
\* one, and no two contexts hold the same.
LEMMA Located ==
  ASSUME SetLaws, IInv
  PROVE  /\ \A i \in 1..depth :
              /\ nested_ancestors[i].pid \in Alive \ {process.pid}
              /\ nested_ancestors[i].pid \notin
                   {parent.pid, interactive_child.pid, interactive_parent.pid,
                    background.snap}
         /\ Active(parent) =>
              /\ parent.pid \in Alive \ {process.pid}
              /\ parent.pid \notin {interactive_child.pid, interactive_parent.pid,
                                    background.snap}
         /\ Active(interactive_child) =>
              /\ interactive_child.pid \in Alive \ {process.pid}
              /\ interactive_child.pid \notin {interactive_parent.pid, background.snap}
         /\ Active(interactive_parent) =>
              /\ interactive_parent.pid \in Alive \ {process.pid}
              /\ interactive_parent.pid # background.snap
         /\ background.snap # 0 => background.snap \in Alive \ {process.pid}
<1> DEFINE k(p) == Count(nested_ancestors, Of(p))
<1>1. /\ \A p : k(p) \in Nat
      /\ \A i \in 1..depth : k(nested_ancestors[i].pid) # 0
  BY StackCounts, Zenon DEF IInv, TypeOK, depth
<1>2. \A p \in Pid :
        k(p) + Bit(parent.pid = p) + Bit(interactive_child.pid = p)
          + Bit(interactive_parent.pid = p) + Bit(background.snap = p)
        = Bit(p \in Alive /\ p # process.pid)
  BY Zenon DEF IInv, Kept, Places
<1>3. /\ parent.pid \in 0..MaxPid /\ interactive_child.pid \in 0..MaxPid
      /\ interactive_parent.pid \in 0..MaxPid /\ background.snap \in 0..MaxPid
      /\ \A i \in 1..depth : nested_ancestors[i].pid \in Pid
  <2>1. \A c \in Context : c.pid \in 0..MaxPid
    BY Zenon DEF Context
  <2>2. \A i \in 1..depth : Saves(nested_ancestors[i])
    BY Zenon DEF IInv, Slots
  <2>3. \A i \in 1..depth : nested_ancestors[i].pid \in Pid
    BY <2>1, <2>2, ForkAssumption, PidNumbers, Zenon DEF Saves
  <2>4. QED
    BY <2>1, <2>3, Zenon DEF IInv, TypeOK
<1> HIDE DEF k
<1>4. \A i \in 1..depth :
        /\ nested_ancestors[i].pid \in Alive \ {process.pid}
        /\ nested_ancestors[i].pid \notin
             {parent.pid, interactive_child.pid, interactive_parent.pid, background.snap}
  BY <1>1, <1>2, <1>3, SMTT(60) DEF Bit
<1>5. MaxPid \in Nat
  BY ForkAssumption, Zenon
<1>6. QED
  BY <1>1, <1>2, <1>3, <1>4, <1>5, SMTT(60) DEF Bit, Active, Pid

\* The record that names a process and holds no image.
Names(g, q, bg) ==
  g \in Background /\ g.snap = bg.snap /\ g.descriptors = bg.descriptors /\ g.wait = "none"

\* A captured record names the process and holds no image.
LEMMA CapturedNames ==
  ASSUME NEW bg \in Background, NEW q, q.pid \in 0..MaxPid, q.parent_pid \in 0..MaxPid
  PROVE  Names(Captured(bg, q), q, bg)
BY Zenon DEF Background, Captured, Names

-----------------------------------------------------------------------------
(* fork.                                                                   *)

\* A fork keeps the invariant.
LEMMA CloneKeeps ==
  ASSUME SetLaws, IInv, clone
  PROVE  IInv'
<1> USE ForkAssumption
<1>1. /\ ~halted /\ next_pid \in Pid /\ process.pid \in Pid
      /\ process.pid # next_pid /\ next_pid \notin answered /\ memory = process.pid
      /\ process.parent_pid < process.pid /\ process.parent_pid \in 0..MaxPid
      /\ process.pid < next_pid
  BY DEF IInv, TypeOK, clone, Slots, Kept, Alive, Pid
<1>2. parent' = [pid |-> process.pid, parent_pid |-> process.parent_pid,
                 child_pid |-> next_pid, frame |-> "clone", snap |-> process.pid,
                 descriptors |-> descriptors]
  BY <1>1, Zenon DEF clone, Suspended
<1>3. Saves(parent') /\ Active(parent') /\ Asks(parent', answered)
  <2>1. descriptors \subseteq Objects
    BY Zenon DEF IInv, TypeOK
  <2>2. parent' \in Context
    BY <1>1, <1>2, <2>1, PidNumbers, Zenon DEF Context
  <2>3. QED
    BY <1>1, <1>2, <2>2, PidNumbers, Zenon DEF Saves, Active, Asks
<1>4. process' = [pid |-> next_pid, parent_pid |-> process.pid]
  BY Zenon DEF clone
<1>5. /\ \A p \in Pid : Count(nested_ancestors', Of(p)) + Bit(background'.snap = p)
           = Count(nested_ancestors, Of(p)) + Bit(parent.pid = p) + Bit(background.snap = p)
      /\ \A o : Count(nested_ancestors', Having(o)) + Bit(o \in background'.descriptors)
           = Count(nested_ancestors, Having(o)) + Bit(o \in parent.descriptors)
             + Bit(o \in background.descriptors)
      /\ nested_ancestors' \in Seq(Context) /\ Len(nested_ancestors') <= NestedCapacity
      /\ \A i \in 1..Len(nested_ancestors') :
           Saves(nested_ancestors'[i]) /\ Asks(nested_ancestors'[i], answered)
      /\ Linked(nested_ancestors') /\ WaitsFor(nested_ancestors', parent')
      /\ Parked(background', nested_ancestors', parent', process', answered)
      /\ background' \in [used : BOOLEAN, pid : 0..MaxPid, parent_pid : 0..MaxPid,
                          wait : Sockets \cup {"none"}, snap : 0..MaxPid,
                          descriptors : SUBSET Objects]
  <2> DEFINE n == nested_ancestors
             m == nested_ancestors'
  <2>0. /\ n \in Seq(Context) /\ Len(n) \in Nat /\ Len(n) <= NestedCapacity
        /\ \A i \in 1..Len(n) : Saves(n[i]) /\ Asks(n[i], answered)
        /\ Linked(n)
    BY Indexed, Zenon DEF IInv, TypeOK, Slots, Frames, Chained, depth
  <2>1. CASE nested_background_fork
    <3>1. /\ Active(parent) /\ parent.child_pid = process.pid
          /\ background.snap = 0 /\ Len(n) # NestedCapacity
          /\ m = Append(n, parent) /\ background' = NoBackground
      BY <2>1, Zenon DEF clone, ForkRefused, CanStack, nested_background_fork, depth
    <3>2. Grown(n, parent, m)
      BY <2>0, <3>1, Pushed, Zenon DEF IInv, TypeOK
    <3>3. Saves(parent) /\ Asks(parent, answered) /\ WaitsFor(n, parent)
          /\ process.parent_pid = parent.pid /\ background.descriptors = {}
      BY <3>1 DEF IInv, Slots, Slot, NoContext, Active, Frames, Chained, Parked
    <3>4. \A i \in 1..Len(m) : i = Len(n) + 1 \/ (i \in 1..Len(n) /\ m[i] = n[i])
      BY <2>0, <3>2, Ranges, Zenon DEF Grown
    <3>5. /\ m[Len(n) + 1] = parent /\ Len(m) = Len(n) + 1
      BY <3>2, Zenon DEF Grown
    <3>6. \A i \in 1..Len(m) : Saves(m[i]) /\ Asks(m[i], answered)
      BY <2>0, <3>3, <3>4, <3>5, Zenon
    <3>7. Linked(m) /\ WaitsFor(m, parent')
      BY <2>0, <3>1, <3>3, <3>4, <3>5, <1>2 DEF Linked, WaitsFor
    <3>8. Parked(background', m, parent', process', answered)
      BY <3>1, Zenon DEF Parked, NoBackground
    <3>9. /\ \A p \in Pid : Count(m, Of(p)) + Bit(background'.snap = p)
               = Count(n, Of(p)) + Bit(parent.pid = p) + Bit(background.snap = p)
          /\ \A o : Count(m, Having(o)) + Bit(o \in background'.descriptors)
               = Count(n, Having(o)) + Bit(o \in parent.descriptors)
                 + Bit(o \in background.descriptors)
      <4>1. \A x : Bit(x \in background'.descriptors) = 0 /\ Bit(x \in background.descriptors) = 0
        BY <3>1, <3>3, Zenon DEF NoBackground, Bit
      <4>2. \A p \in Pid : Bit(background'.snap = p) = 0 /\ Bit(background.snap = p) = 0
        BY <3>1, PidNumbers, Zenon DEF NoBackground, Bit
      <4>3. /\ \A p : Count(m, Of(p)) = Count(n, Of(p)) + Bit(parent.pid = p)
            /\ \A o : Count(m, Having(o)) = Count(n, Having(o)) + Bit(o \in parent.descriptors)
        BY <3>2, Zenon DEF Grown
      <4>4. QED
        BY <4>1, <4>2, <4>3
    <3>10. background' \in [used : BOOLEAN, pid : 0..MaxPid, parent_pid : 0..MaxPid,
                            wait : Sockets \cup {"none"}, snap : 0..MaxPid,
                            descriptors : SUBSET Objects]
      BY <3>1, PidNumbers, Zenon DEF NoBackground
    <3>11. m \in Seq(Context) /\ Len(m) <= NestedCapacity
      BY <2>0, <3>1, <3>2 DEF Grown
    <3>12. QED
      BY <3>6, <3>7, <3>8, <3>9, <3>10, <3>11, Zenon
  <2>2. CASE ~nested_background_fork
    <3>1. ~Active(parent) /\ m = n /\ background' = background
      BY <2>2, Zenon DEF clone, ForkRefused
    <3>2. parent = NoContext /\ WaitsFor(n, process)
      BY <3>1, Zenon DEF IInv, Slots, Slot, Saves, Active, Chained
    <3>3. WaitsFor(n, parent')
      BY <3>2, <1>2, Zenon DEF WaitsFor
    <3>4. Parked(background, n, parent', process', answered)
      <4>1. Parked(background, n, parent, process, answered)
        BY Zenon DEF IInv
      <4>2. parent'.pid = process.pid
        BY <1>2, Zenon
      <4>3. QED
        BY <3>1, <1>3, <4>1, <4>2, Zenon DEF Parked
    <3>5. \A x : Bit(x \in parent.descriptors) = 0
      BY <3>2, Zenon DEF NoContext, Bit
    <3>6. \A p \in Pid : Bit(parent.pid = p) = 0
      BY <3>2, PidNumbers, Zenon DEF NoContext, Bit
    <3>7. \A p, o : Count(n, Of(p)) \in Nat /\ Count(n, Having(o)) \in Nat
      BY <2>0, StackCounts, Zenon
    <3>8. \A b : Bit(b) \in Nat
      BY Zenon DEF Bit
    <3>9. /\ \A p \in Pid : Count(m, Of(p)) + Bit(background'.snap = p)
               = Count(n, Of(p)) + Bit(parent.pid = p) + Bit(background.snap = p)
          /\ \A o : Count(m, Having(o)) + Bit(o \in background'.descriptors)
               = Count(n, Having(o)) + Bit(o \in parent.descriptors)
                 + Bit(o \in background.descriptors)
      BY <3>1, <3>5, <3>6, <3>7, <3>8
    <3>10. background' \in [used : BOOLEAN, pid : 0..MaxPid, parent_pid : 0..MaxPid,
                            wait : Sockets \cup {"none"}, snap : 0..MaxPid,
                            descriptors : SUBSET Objects]
      BY <3>1, Zenon DEF IInv, TypeOK
    <3>11. QED
      BY <2>0, <3>1, <3>3, <3>4, <3>9, <3>10, Zenon
  <2>3. QED
    BY <2>1, <2>2, Zenon

<1>6. Alive' = Alive \cup {next_pid} /\ next_pid \notin Alive /\ process.pid \in Alive
  <2>1. /\ next_pid' = next_pid + 1 /\ exited' = exited /\ process.pid \in Alive
        /\ next_pid \in Pid \cup {MaxPid + 1} /\ exited \subseteq 1..next_pid - 1
    BY <1>1, Zenon DEF clone, IInv, TypeOK, Kept, history
  <2>2. next_pid \in Nat \ {0}
    BY <2>1, ForkAssumption DEF Pid
  <2>3. next_pid \notin 1..next_pid - 1 /\ 1..next_pid = 1..(next_pid - 1) \cup {next_pid}
        /\ (next_pid + 1) - 1 = next_pid
    BY <2>2
  <2>4. QED
    BY <2>1, <2>3, Zenon DEF Alive
<1>7. Kept'
  <2>1. ASSUME NEW p \in Pid
        PROVE  Places(nested_ancestors', parent', interactive_child', interactive_parent',
                      background', p) = Bit(p \in Alive' /\ p # process'.pid)
    <3>1. Places(nested_ancestors, parent, interactive_child, interactive_parent,
                 background, p) = Bit(p \in Alive /\ p # process.pid)
      BY Zenon DEF IInv, Kept
    <3>2. Count(nested_ancestors', Of(p)) \in Nat /\ Count(nested_ancestors, Of(p)) \in Nat
      BY <1>5, StackCounts, Zenon DEF IInv, TypeOK
    <3>3. Count(nested_ancestors', Of(p)) + Bit(background'.snap = p)
          = Count(nested_ancestors, Of(p)) + Bit(parent.pid = p) + Bit(background.snap = p)
      BY <1>5, Zenon
    <3>4. /\ interactive_child' = interactive_child /\ interactive_parent' = interactive_parent
          /\ parent'.pid = process.pid /\ process'.pid = next_pid
      BY <1>2, <1>4 DEF clone, parked
    <3>5. Bit(p \in Alive' /\ p # process'.pid)
          = Bit(p \in Alive /\ p # process.pid) + Bit(process.pid = p)
      BY <1>1, <1>4, <1>6, SMTT(60) DEF Bit
    <3>6. \A b : Bit(b) \in Nat
      BY Zenon DEF Bit
    <3>7. QED
      <4> DEFINE k == Count(nested_ancestors, Of(p))
                 l == Count(nested_ancestors', Of(p))
                 a == Bit(parent.pid = p)
                 b == Bit(interactive_child.pid = p)
                 c == Bit(interactive_parent.pid = p)
                 g == Bit(background.snap = p)
                 h == Bit(background'.snap = p)
                 q == Bit(process.pid = p)
                 old == Bit(p \in Alive /\ p # process.pid)
                 new == Bit(p \in Alive' /\ p # process'.pid)
      <4>1. /\ k \in Nat /\ l \in Nat /\ a \in Nat /\ b \in Nat /\ c \in Nat /\ g \in Nat
            /\ h \in Nat /\ q \in Nat /\ old \in Nat
        BY <3>2, <3>6, Zenon
      <4>2. k + a + b + c + g = old /\ l + h = k + a + g /\ new = old + q
        BY <3>1, <3>3, <3>5, Zenon DEF Places
      <4>3. Places(nested_ancestors', parent', interactive_child', interactive_parent',
                   background', p) = l + q + b + c + h
        BY <3>4, Zenon DEF Places
      <4> HIDE DEF k, l, a, b, c, g, h, q, old, new
      <4>4. l + q + b + c + h = new
        BY <4>1, <4>2
      <4>5. QED
        BY <4>3, <4>4, Zenon DEF new
  <2>2. arena' = Alive' \ {process'.pid}
    BY <1>1, <1>4, <1>6 DEF clone, IInv, Kept
  <2>3. process'.pid \in Alive'
    BY <1>4, <1>6, Zenon
  <2>4. QED
    BY <2>1, <2>2, <2>3, Zenon DEF Kept
<1>8. Counted'
  <2> SUFFICES ASSUME NEW o \in Objects
               PROVE  references'[o] = Tables(nested_ancestors', parent', interactive_child',
                                              interactive_parent', background', o)
                                       + Bit(o \in descriptors')
    BY Zenon DEF Counted, Counts
  <2>1. references[o] = Tables(nested_ancestors, parent, interactive_child,
                               interactive_parent, background, o) + Bit(o \in descriptors)
    BY Zenon DEF IInv, Counted, Counts
  <2>2. Count(nested_ancestors', Having(o)) \in Nat /\ Count(nested_ancestors, Having(o)) \in Nat
    BY <1>5, StackCounts, Zenon DEF IInv, TypeOK
  <2>3. Count(nested_ancestors', Having(o)) + Bit(o \in background'.descriptors)
        = Count(nested_ancestors, Having(o)) + Bit(o \in parent.descriptors)
          + Bit(o \in background.descriptors)
    BY <1>5, Zenon
  <2>4. references'[o] = references[o] + Bit(o \in descriptors)
    BY SMTT(60) DEF clone, Recount, Bit, IInv, TypeOK
  <2>5. /\ interactive_child' = interactive_child /\ interactive_parent' = interactive_parent
        /\ parent'.descriptors = descriptors /\ descriptors' = descriptors
    BY <1>2 DEF clone, parked
  <2>6. \A b : Bit(b) \in Nat
    BY Zenon DEF Bit
  <2>7. QED
    BY <2>1, <2>2, <2>3, <2>4, <2>5, <2>6, SMTT(60) DEF Tables
<1>9. references' \in [Objects -> 0..(NestedCapacity + 5)]
  <2>1. references' = [o \in Objects |-> references'[o]]
    BY Zenon DEF clone, Recount
  <2>2. QED
    BY <1>5, <1>8, <2>1, ReferencesTyped, Zenon DEF Counted
<1>10. TypeOK'
  <2>1. /\ process' \in [pid : Pid, parent_pid : 0..MaxPid] /\ memory' \in 0..MaxPid
        /\ next_pid' \in 2..(MaxPid + 1) /\ parent' \in Context
    BY <1>1, <1>3, <1>4 DEF clone, IInv, TypeOK, Saves, Pid
  <2>2. arena' \subseteq 0..MaxPid
    BY <1>1, Zenon DEF clone, IInv, TypeOK, Pid
  <2>3. QED
    BY <1>5, <1>9, <2>1, <2>2, Zenon DEF clone, IInv, TypeOK, parked, history, depth
<1>11. Chained(nested_ancestors', parent', process')
  BY <1>2, <1>3, <1>4, <1>5, Zenon DEF Chained
<1>12. Slots' /\ Frames'
  BY <1>1, <1>3, <1>4, <1>5 DEF clone, Slots, Slot, Frames, IInv, parked, history, depth
<1>13. exited' \subseteq 1..next_pid' - 1 /\ answered' \subseteq 1..next_pid' - 1
  BY DEF clone, history, IInv, TypeOK
<1>14. QED
  BY <1>5, <1>7, <1>8, <1>10, <1>11, <1>12, <1>13, Zenon
     DEF IInv, clone, parked, history, ParkAnswersForkOnce

\* The record with nothing in it is in order whatever else there is.
LEMMA IdleParked ==
  ASSUME NEW g, g.snap = 0, g.descriptors = {}, ~g.used \/ g.wait \notin Sockets,
         NEW n, NEW a, NEW q, NEW done
  PROVE  Parked(g, n, a, q, done)
BY Zenon DEF Parked

\* A fork refused for want of memory keeps the invariant.
LEMMA CloneNoMemoryKeeps ==
  ASSUME SetLaws, IInv, clone_no_memory
  PROVE  IInv'
<1> USE ForkAssumption
<1>1. /\ ~halted /\ next_pid \in Pid /\ process.pid \in Pid
      /\ process.parent_pid \in 0..MaxPid
      /\ nested_ancestors \in Seq(Context) /\ background \in Background
  BY DEF IInv, TypeOK, clone_no_memory, Pid, Background
<1>2. Alive' = Alive
  BY <1>1, PidNumbers, Ranges, Indexed, Zenon DEF clone_no_memory, IInv, TypeOK, Alive
<1>3. ASSUME nested_ancestors' \in Seq(Context), Len(nested_ancestors') <= NestedCapacity,
             Slot(parent'), Active(parent') => Asks(parent', answered),
             \A i \in 1..Len(nested_ancestors') :
               Saves(nested_ancestors'[i]) /\ Asks(nested_ancestors'[i], answered),
             \A p \in Pid : Count(nested_ancestors', Of(p)) + Bit(parent'.pid = p)
                            = Count(nested_ancestors, Of(p)) + Bit(parent.pid = p),
             \A o : Count(nested_ancestors', Having(o)) + Bit(o \in parent'.descriptors)
                    = Count(nested_ancestors, Having(o)) + Bit(o \in parent.descriptors),
             Chained(nested_ancestors', parent', process),
             background' \in Background, background'.snap = background.snap,
             background'.descriptors = background.descriptors,
             Parked(background', nested_ancestors', parent', process, answered)
      PROVE  IInv'
  <2>1. \A p, o : /\ Count(nested_ancestors', Of(p)) \in Nat
                  /\ Count(nested_ancestors, Of(p)) \in Nat
                  /\ Count(nested_ancestors', Having(o)) \in Nat
                  /\ Count(nested_ancestors, Having(o)) \in Nat
    BY <1>1, <1>3, StackCounts, Zenon
  <2>2. \A b : Bit(b) \in Nat
    BY Zenon DEF Bit
  <2>3. /\ process' = process /\ descriptors' = descriptors /\ memory' = memory
        /\ interactive_child' = interactive_child /\ interactive_parent' = interactive_parent
        /\ interactive_relay_service_pid' = interactive_relay_service_pid
        /\ references' = references /\ arena' = arena /\ answered' = answered
        /\ outcome' = outcome /\ halted' = halted /\ next_pid' = next_pid + 1
        /\ waitable_children' = waitable_children /\ ready' = ready
        /\ exited' = exited \cup {next_pid}
    BY Zenon DEF clone_no_memory, parked
  <2>4. ASSUME NEW p \in Pid
        PROVE  Places(nested_ancestors', parent', interactive_child, interactive_parent,
                      background', p)
               = Places(nested_ancestors, parent, interactive_child, interactive_parent,
                        background, p)
    <3>1. Count(nested_ancestors', Of(p)) + Bit(parent'.pid = p)
          = Count(nested_ancestors, Of(p)) + Bit(parent.pid = p)
      BY <1>3, Zenon
    <3>2. QED
      BY <1>3, <2>1, <2>2, <3>1, Zenon DEF Places
  <2>5. ASSUME NEW o \in Objects
        PROVE  Tables(nested_ancestors', parent', interactive_child, interactive_parent,
                      background', o)
               = Tables(nested_ancestors, parent, interactive_child, interactive_parent,
                        background, o)
    <3>1. Count(nested_ancestors', Having(o)) + Bit(o \in parent'.descriptors)
          = Count(nested_ancestors, Having(o)) + Bit(o \in parent.descriptors)
      BY <1>3, Zenon
    <3>2. QED
      BY <1>3, <2>1, <2>2, <3>1, Zenon DEF Tables
  <2>6. Kept'
    BY <1>2, <2>3, <2>4, Zenon DEF Kept, IInv
  <2>7. Counted'
    BY <2>3, <2>5, Zenon DEF Counted, Counts, IInv
  <2>8. TypeOK'
    <3>1. parent' \in Context
      BY <1>3 DEF Slot, Saves, NoContext, Context
    <3>2. next_pid' \in 2..(MaxPid + 1) /\ exited' \subseteq Pid
      BY <1>1, <2>3 DEF IInv, TypeOK, Pid
    <3>3. QED
      BY <1>3, <2>3, <3>1, <3>2, Zenon DEF IInv, TypeOK, depth, Background
  <2>9. Slots' /\ Frames'
    BY <1>3, <2>3, Zenon DEF Slots, Frames, IInv, depth
  <2>10. exited' \subseteq 1..next_pid' - 1 /\ answered' \subseteq 1..next_pid' - 1
    BY <2>3 DEF IInv, TypeOK
  <2>11. QED
    BY <1>3, <2>3, <2>6, <2>7, <2>8, <2>9, <2>10, Zenon DEF IInv, ParkAnswersForkOnce
<1>4. /\ Len(nested_ancestors) \in Nat /\ Len(nested_ancestors) <= NestedCapacity
      /\ Slot(parent) /\ (Active(parent) => Asks(parent, answered))
      /\ \A i \in 1..Len(nested_ancestors) :
           Saves(nested_ancestors[i]) /\ Asks(nested_ancestors[i], answered)
      /\ Chained(nested_ancestors, parent, process)
      /\ Parked(background, nested_ancestors, parent, process, answered)
  BY Indexed, Zenon DEF IInv, TypeOK, Slots, Frames, depth
<1>5. CASE nested_background_fork
  <2>1. /\ nested_ancestors' = nested_ancestors /\ parent' = parent
        /\ background' = Captured(NoBackground, process) /\ background.snap = 0
    BY <1>5, Zenon DEF clone_no_memory, ForkRefused, CanStack
  <2>2. /\ background' \in Background /\ background'.snap = 0
        /\ background'.descriptors = {} /\ background'.wait = "none"
    <3>1. NoBackground \in Background
      BY PidNumbers, Zenon DEF NoBackground, Background
    <3>2. Names(background', process, NoBackground)
      BY <1>1, <2>1, <3>1, CapturedNames, PidNumbers, Zenon
    <3>3. QED
      BY <3>2, Zenon DEF Names, NoBackground
  <2>3. background.descriptors = {}
    BY <2>1, Zenon DEF IInv, Parked
  <2>4. Parked(background', nested_ancestors', parent', process, answered)
    BY <2>2, IdleParked, Zenon DEF Sockets
  <2>5. QED
    BY <1>1, <1>3, <1>4, <2>1, <2>2, <2>3, <2>4, Zenon
<1>6. CASE ~nested_background_fork /\ depth = 0
  <2>1. ~Active(parent) /\ parent' = NoContext /\ background' = background
        /\ nested_ancestors' = nested_ancestors
    BY <1>6, Zenon DEF clone_no_memory, ForkRefused, reinstate_suspended_ancestor
  <2>2. parent = NoContext
    BY <2>1, Zenon DEF IInv, Slots, Slot, Saves, Active
  <2>3. QED
    BY <1>1, <1>3, <1>4, <2>1, <2>2, Zenon
<1>7. CASE ~nested_background_fork /\ depth # 0
  <2>1. ~Active(parent) /\ parent' = Newest /\ background' = Captured(background, process)
        /\ nested_ancestors' = Older
    BY <1>7, Zenon DEF clone_no_memory, ForkRefused, reinstate_suspended_ancestor
  <2>2. parent = NoContext
    BY <2>1, Zenon DEF IInv, Slots, Slot, Saves, Active
  <2>3. Below(Older, Newest, nested_ancestors)
    BY <1>1, <1>4, <1>7, Unstacked, Zenon DEF Older, Newest, depth, Chained
  <2>4. background.snap = 0 /\ background.descriptors = {}
    BY <1>4, <1>7, Zenon DEF Parked, depth
  <2>5. Names(background', process, background)
    BY <1>1, <2>1, CapturedNames, PidNumbers, Zenon
  <2>6. Parked(background', nested_ancestors', parent', process, answered)
    BY <2>4, <2>5, IdleParked, Zenon DEF Names, Sockets
  <2>7. Saves(Newest) /\ Asks(Newest, answered)
    BY <1>4, <1>7, Ranges, Zenon DEF Newest, depth
  <2>8. Chained(Older, Newest, process)
    <3>1. WaitsFor(nested_ancestors, process)
      BY <1>4, <2>1, Zenon DEF Chained
    <3>2. Newest.child_pid = process.pid /\ process.parent_pid = Newest.pid
      BY <1>7, <3>1, Zenon DEF WaitsFor, Newest, depth
    <3>3. Active(Newest)
      BY <2>7, Zenon DEF Saves, Active
    <3>4. QED
      BY <2>3, <3>2, <3>3, Zenon DEF Chained, Below
  <2>9. /\ \A p \in Pid : Count(Older, Of(p)) + Bit(Newest.pid = p)
                          = Count(nested_ancestors, Of(p)) + Bit(parent.pid = p)
        /\ \A o : Count(Older, Having(o)) + Bit(o \in Newest.descriptors)
                  = Count(nested_ancestors, Having(o)) + Bit(o \in parent.descriptors)
    <3>1. \A p, o : Count(Older, Of(p)) \in Nat /\ Count(Older, Having(o)) \in Nat
      BY <2>3, StackCounts, Zenon DEF Below
    <3>2. /\ \A p : Count(nested_ancestors, Of(p)) = Count(Older, Of(p)) + Bit(Newest.pid = p)
          /\ \A o : Count(nested_ancestors, Having(o))
                    = Count(Older, Having(o)) + Bit(o \in Newest.descriptors)
      BY <2>3, Zenon DEF Below, Grown
    <3>3. /\ \A o : Bit(o \in parent.descriptors) = 0
          /\ \A p \in Pid : Bit(parent.pid = p) = 0
      BY <2>2, PidNumbers, Zenon DEF NoContext, Bit
    <3>4. \A b : Bit(b) \in Nat
      BY Zenon DEF Bit
    <3>5. QED
      BY <3>1, <3>2, <3>3, <3>4
  <2>10. /\ Older \in Seq(Context) /\ Len(Older) <= NestedCapacity
         /\ \A i \in 1..Len(Older) : Saves(Older[i]) /\ Asks(Older[i], answered)
    BY <1>4, <2>3 DEF Below
  <2>11. QED
    BY <1>3, <2>1, <2>4, <2>5, <2>6, <2>7, <2>8, <2>9, <2>10, Zenon DEF Names, Slot
<1>8. QED
  BY <1>5, <1>6, <1>7, Zenon

-----------------------------------------------------------------------------
(* The resumption of the parent.                                           *)

\* A parent that is resumed was waiting for the active process, and no other
\* context was: answering it leaves their frames right.
LEMMA ParentFacts ==
  ASSUME SetLaws, IInv, ~halted, Active(parent)
  PROVE  /\ Saves(parent) /\ parent.pid \in Pid /\ parent.pid \in Alive \ {process.pid}
         /\ parent.child_pid = process.pid /\ process.parent_pid = parent.pid
         /\ parent.parent_pid \in 0..MaxPid /\ parent.descriptors \subseteq Objects
         /\ Linked(nested_ancestors) /\ WaitsFor(nested_ancestors, parent)
         /\ first_park(parent) <=> process.pid \notin answered
         /\ \A i \in 1..depth : /\ Saves(nested_ancestors[i])
                                /\ Asks(nested_ancestors[i], answered \cup {process.pid})
         /\ Relays(interactive_child, interactive_parent, interactive_relay_service_pid,
                   answered \cup {process.pid})
         /\ process.pid \in Alive /\ process.pid \in Pid
<1>1. Saves(parent) /\ parent \in Context
  BY DEF IInv, TypeOK, Slots, Slot, NoContext, Active
<1>2. /\ parent.pid \in Pid /\ parent.parent_pid \in 0..MaxPid
      /\ parent.descriptors \subseteq Objects
  BY <1>1, ForkAssumption, PidNumbers, Zenon DEF Saves, Context
<1>3. parent.pid \in Alive \ {process.pid}
  BY Located, Zenon
<1>4. /\ parent.child_pid = process.pid /\ process.parent_pid = parent.pid
      /\ Linked(nested_ancestors) /\ WaitsFor(nested_ancestors, parent)
  BY Zenon DEF IInv, Chained
<1>5. first_park(parent) <=> process.pid \notin answered
  BY <1>4, Zenon DEF IInv, Frames, Asks, first_park
<1>6. ASSUME NEW i \in 1..depth
      PROVE  /\ Saves(nested_ancestors[i])
             /\ Asks(nested_ancestors[i], answered \cup {process.pid})
  <2>1. Saves(nested_ancestors[i]) /\ Asks(nested_ancestors[i], answered)
    BY Zenon DEF IInv, Slots, Frames
  <2>2. nested_ancestors[i].child_pid # process.pid
    <3>1. CASE i = depth
      BY <1>3, <1>4, <3>1 DEF WaitsFor, depth
    <3>2. CASE i # depth
      <4>1. i \in 1..depth - 1 /\ i + 1 \in 1..depth
        BY <3>2, PidNumbers, Ranges, Indexed, Zenon DEF IInv, TypeOK, depth
      <4>2. nested_ancestors[i].child_pid = nested_ancestors[i + 1].pid
        BY <1>4, <4>1, Zenon DEF Linked, depth
      <4>3. nested_ancestors[i + 1].pid # process.pid
        BY <4>1, Located, Zenon
      <4>4. QED
        BY <4>2, <4>3, Zenon
    <3>3. QED
      BY <3>1, <3>2, Zenon
  <2>3. QED
    BY <2>1, <2>2, Zenon DEF Asks
<1>7. Relays(interactive_child, interactive_parent, interactive_relay_service_pid,
             answered \cup {process.pid})
  <2>1. Relays(interactive_child, interactive_parent, interactive_relay_service_pid, answered)
    BY Zenon DEF IInv
  <2>2. Active(interactive_child) => interactive_child.pid # process.pid
    BY Located, Zenon
  <2>3. QED
    BY <2>1, <2>2, Zenon DEF Relays, Asks
<1>8. process.pid \in Alive /\ process.pid \in Pid
  BY Zenon DEF IInv, TypeOK, Kept
<1>9. QED
  BY <1>1, <1>2, <1>3, <1>4, <1>5, <1>6, <1>7, <1>8, Zenon

\* What publish_child_exit leaves fits in its table.
LEMMA ZombiesFit ==
  ASSUME SetLaws, IInv, NEW x \in Pid, NEW y \in Pid
  PROVE  LET w == publish_child_exit(x, y)
         IN  /\ w \subseteq [pid : Pid, parent_pid : Pid] /\ IsFiniteSet(w)
             /\ Cardinality(w) <= WaitableCapacity
<1> DEFINE z == [pid |-> x, parent_pid |-> y]
<1>1. /\ waitable_children \subseteq [pid : Pid, parent_pid : Pid]
      /\ IsFiniteSet(waitable_children)
      /\ Cardinality(waitable_children) <= WaitableCapacity
      /\ z \in [pid : Pid, parent_pid : Pid]
  BY Zenon DEF IInv, TypeOK
<1>2. Cardinality(waitable_children) \in Nat /\ WaitableCapacity \in Nat
  BY <1>1, ForkAssumption, Zenon DEF SetLaws
<1>3. /\ IsFiniteSet(waitable_children \cup {z})
      /\ Cardinality(waitable_children \cup {z})
           = IF z \in waitable_children THEN Cardinality(waitable_children)
             ELSE Cardinality(waitable_children) + 1
  BY <1>1 DEF SetLaws
<1>4. QED
  BY <1>1, <1>2, <1>3 DEF publish_child_exit

\* The exit of a child, with the resumption of its parent, keeps the invariant.
LEMMA ExitKeeps ==
  ASSUME SetLaws, IInv, exit_child
  PROVE  IInv'
<1> USE ForkAssumption
<1> DEFINE done == answered \cup {process.pid}
           bg == IF background.used /\ background.pid = process.pid
                 THEN [background EXCEPT !.used = FALSE, !.wait = "none"] ELSE background
<1>1. ~halted /\ Active(parent)
  BY Zenon DEF exit_child
<1>2. /\ Saves(parent) /\ parent.pid \in Pid /\ parent.pid \in Alive \ {process.pid}
      /\ parent.child_pid = process.pid /\ process.parent_pid = parent.pid
      /\ parent.parent_pid \in 0..MaxPid /\ parent.descriptors \subseteq Objects
      /\ Linked(nested_ancestors) /\ WaitsFor(nested_ancestors, parent)
      /\ \A i \in 1..depth : Saves(nested_ancestors[i]) /\ Asks(nested_ancestors[i], done)
      /\ Relays(interactive_child, interactive_parent, interactive_relay_service_pid, done)
      /\ process.pid \in Alive /\ process.pid \in Pid
  BY <1>1, ParentFacts, Zenon
<1>3. /\ process' = [pid |-> parent.pid, parent_pid |-> parent.parent_pid]
      /\ memory' = parent.snap /\ descriptors' = parent.descriptors
      /\ answered' = done /\ outcome'.by = "exit"
      /\ exited' = exited \cup {process.pid} /\ next_pid' = next_pid /\ halted' = halted
      /\ interactive_child' = interactive_child /\ interactive_parent' = interactive_parent
      /\ interactive_relay_service_pid' = interactive_relay_service_pid
      /\ arena' = arena \ {parent.snap} /\ references' = Recount({}, descriptors)
      /\ waitable_children' = publish_child_exit(process.pid, parent.pid)
      /\ ready' = StillOpen
  BY <1>2, Zenon DEF exit_child, resume_parent, parked
<1>4. reinstate_suspended_ancestor(parent, bg)
  BY Zenon DEF exit_child
<1>5. /\ nested_ancestors \in Seq(Context) /\ background \in Background
      /\ Len(nested_ancestors) \in Nat /\ Len(nested_ancestors) <= NestedCapacity
      /\ Parked(background, nested_ancestors, parent, process, answered)
      /\ \A p, o : /\ Count(nested_ancestors, Of(p)) \in Nat
                   /\ Count(nested_ancestors, Having(o)) \in Nat
  BY StackCounts, Indexed, Zenon DEF IInv, TypeOK, depth, Background
<1>6. background.snap # 0 => background.snap # process.pid /\ background.pid # process.pid
  BY <1>5, Located, Zenon DEF Parked
<1>7. /\ bg \in Background /\ bg.snap = background.snap
      /\ bg.descriptors = background.descriptors
      /\ bg = background \/ (bg.snap = 0 /\ bg.wait = "none")
  BY <1>5, <1>6, Zenon DEF Background
<1> HIDE DEF bg
<1>8. /\ nested_ancestors' \in Seq(Context) /\ Len(nested_ancestors') <= NestedCapacity
      /\ \A i \in 1..Len(nested_ancestors') :
           Saves(nested_ancestors'[i]) /\ Asks(nested_ancestors'[i], done)
      /\ Slot(parent') /\ (Active(parent') => Asks(parent', done))
      /\ Chained(nested_ancestors', parent', process')
      /\ \A p \in Pid : Count(nested_ancestors', Of(p)) + Bit(parent'.pid = p)
                        = Count(nested_ancestors, Of(p))
      /\ \A o : Count(nested_ancestors', Having(o)) + Bit(o \in parent'.descriptors)
                = Count(nested_ancestors, Having(o))
      /\ background' \in Background /\ background'.snap = background.snap
      /\ background'.descriptors = background.descriptors
      /\ Parked(background', nested_ancestors', parent', process', done)
  <2>1. CASE depth = 0
    <3>1. /\ nested_ancestors' = nested_ancestors /\ parent' = NoContext /\ background' = bg
      BY <1>4, <2>1, Zenon DEF reinstate_suspended_ancestor
    <3>2. ~Active(parent') /\ Slot(parent')
      BY <3>1, Zenon DEF Active, Slot, NoContext
    <3>3. Chained(nested_ancestors', parent', process')
      BY <1>2, <1>3, <3>1, <3>2, Zenon DEF Chained, WaitsFor
    <3>4. Parked(background', nested_ancestors', parent', process', done)
      <4>1. CASE bg = background
        BY <1>1, <1>3, <1>5, <3>1, <3>2, <4>1, Zenon DEF Parked
      <4>2. CASE bg.snap = 0 /\ bg.wait = "none"
        <5>1. bg.descriptors = {}
          BY <1>5, <1>7, <4>2, Zenon DEF Parked
        <5>2. QED
          BY <3>1, <4>2, <5>1, IdleParked, Zenon DEF Sockets
      <4>3. QED
        BY <1>7, <4>1, <4>2, Zenon
    <3>5. /\ \A p \in Pid : Count(nested_ancestors', Of(p)) + Bit(parent'.pid = p)
                            = Count(nested_ancestors, Of(p))
          /\ \A o : Count(nested_ancestors', Having(o)) + Bit(o \in parent'.descriptors)
                    = Count(nested_ancestors, Having(o))
      BY <1>5, <3>1, SMTT(60) DEF NoContext, Bit, Pid
    <3>6. QED
      BY <1>2, <1>5, <1>7, <3>1, <3>2, <3>3, <3>4, <3>5, Zenon DEF depth
  <2>2. CASE depth # 0
    <3>1. /\ nested_ancestors' = Older /\ parent' = Newest
          /\ background' = Captured(bg, parent)
      BY <1>4, <2>2, Zenon DEF reinstate_suspended_ancestor
    <3>2. Below(Older, Newest, nested_ancestors)
      BY <1>2, <1>5, <2>2, Unstacked, Zenon DEF Older, Newest, depth
    <3>3. Saves(Newest) /\ Asks(Newest, done) /\ Active(Newest)
      <4>1. depth \in 1..depth
        BY <1>5, <2>2, Ranges, Zenon DEF depth
      <4>2. Saves(Newest) /\ Asks(Newest, done)
        BY <1>2, <4>1, Zenon DEF Newest
      <4>3. QED
        BY <4>2, Zenon DEF Saves, Active
    <3>4. Names(background', parent, bg)
      BY <1>2, <1>7, <3>1, CapturedNames, PidNumbers, Zenon
    <3>5. background.snap = 0 /\ background.descriptors = {}
      BY <1>5, <2>2, Zenon DEF Parked, depth
    <3>6. Parked(background', nested_ancestors', parent', process', done)
      BY <1>7, <3>4, <3>5, IdleParked, Zenon DEF Names, Sockets
    <3>7. Newest.child_pid = parent.pid /\ parent.parent_pid = Newest.pid
      BY <1>2, <2>2, Zenon DEF WaitsFor, Newest, depth
    <3>8. Chained(nested_ancestors', parent', process')
      BY <1>3, <3>1, <3>2, <3>3, <3>7, Zenon DEF Chained, Below
    <3>9. /\ Older \in Seq(Context) /\ Len(Older) <= NestedCapacity
          /\ \A i \in 1..Len(Older) : Saves(Older[i]) /\ Asks(Older[i], done)
      <4>1. /\ Older \in Seq(Context) /\ Len(Older) <= NestedCapacity
            /\ \A i \in 1..Len(Older) : i \in 1..depth /\ Older[i] = nested_ancestors[i]
        <5>1. Len(nested_ancestors) \in Nat /\ Len(nested_ancestors) <= NestedCapacity
          BY <1>5, Zenon
        <5>2. QED
          BY <3>2, <5>1 DEF Below, depth
      <4>2. QED
        BY <1>2, <4>1, Zenon
    <3>10. /\ \A p : Count(nested_ancestors, Of(p)) = Count(Older, Of(p)) + Bit(Newest.pid = p)
           /\ \A o : Count(nested_ancestors, Having(o))
                     = Count(Older, Having(o)) + Bit(o \in Newest.descriptors)
      BY <3>2, Zenon DEF Below, Grown
    <3>11. QED
      BY <1>7, <3>1, <3>3, <3>4, <3>6, <3>8, <3>9, <3>10, Zenon DEF Names, Slot
  <2>3. QED
    BY <2>1, <2>2, Zenon
<1>9. Alive' = Alive \ {process.pid}
  BY <1>3, Zenon DEF Alive
<1>10. \A p, o : /\ Count(nested_ancestors', Of(p)) \in Nat
                 /\ Count(nested_ancestors', Having(o)) \in Nat
  BY <1>8, StackCounts, Zenon
<1>11. \A b : Bit(b) \in Nat
  BY Zenon DEF Bit
<1>12. Kept'
  <2>1. ASSUME NEW p \in Pid
        PROVE  Places(nested_ancestors', parent', interactive_child', interactive_parent',
                      background', p) = Bit(p \in Alive' /\ p # process'.pid)
    <3>1. Places(nested_ancestors, parent, interactive_child, interactive_parent,
                 background, p) = Bit(p \in Alive /\ p # process.pid)
      BY Zenon DEF IInv, Kept
    <3>2. Count(nested_ancestors', Of(p)) + Bit(parent'.pid = p)
          = Count(nested_ancestors, Of(p))
      BY <1>8, Zenon
    <3>3. Bit(p \in Alive' /\ p # process'.pid) + Bit(parent.pid = p)
          = Bit(p \in Alive /\ p # process.pid)
      <4>1. /\ Alive' = Alive \ {process.pid} /\ process'.pid = parent.pid
            /\ parent.pid \in Alive /\ parent.pid # process.pid
        BY <1>2, <1>3, <1>9, Zenon
      <4>2. QED
        BY <4>1, SMTT(60) DEF Bit
    <3>4. /\ interactive_child' = interactive_child /\ interactive_parent' = interactive_parent
          /\ background'.snap = background.snap
      BY <1>3, <1>8, Zenon
    <3>5. Count(nested_ancestors, Of(p)) \in Nat /\ Count(nested_ancestors', Of(p)) \in Nat
      BY <1>5, <1>10, Zenon
    <3>6. QED
      BY <3>1, <3>2, <3>3, <3>4, <3>5, SMTT(60) DEF Places, Bit
  <2>2. arena' = Alive' \ {process'.pid}
    BY <1>2, <1>3, <1>9, Zenon DEF IInv, Kept, Saves
  <2>3. process'.pid \in Alive'
    BY <1>2, <1>3, <1>9, Zenon
  <2>4. QED
    BY <2>1, <2>2, <2>3, Zenon DEF Kept
<1>13. Counted'
  <2> SUFFICES ASSUME NEW o \in Objects
               PROVE  references'[o] = Tables(nested_ancestors', parent', interactive_child',
                                              interactive_parent', background', o)
                                       + Bit(o \in descriptors')
    BY Zenon DEF Counted, Counts
  <2>1. references[o] = Tables(nested_ancestors, parent, interactive_child,
                               interactive_parent, background, o) + Bit(o \in descriptors)
    BY Zenon DEF IInv, Counted, Counts
  <2>2. Count(nested_ancestors', Having(o)) + Bit(o \in parent'.descriptors)
        = Count(nested_ancestors, Having(o))
    BY <1>8, Zenon
  <2>3. references'[o] = references[o] - Bit(o \in descriptors)
    BY <1>3, SMTT(60) DEF Recount, Bit, IInv, TypeOK
  <2>4. /\ interactive_child' = interactive_child /\ interactive_parent' = interactive_parent
        /\ background'.descriptors = background.descriptors
        /\ descriptors' = parent.descriptors
    BY <1>3, <1>8, Zenon
  <2>5. /\ Count(nested_ancestors, Having(o)) \in Nat
        /\ Count(nested_ancestors', Having(o)) \in Nat
    BY <1>5, <1>10, Zenon
  <2>6. QED
    BY <1>11, <2>1, <2>2, <2>3, <2>4, <2>5, SMTT(60) DEF Tables
<1>14. references' \in [Objects -> 0..(NestedCapacity + 5)]
  <2>1. references' = [o \in Objects |-> references'[o]]
    BY <1>3, Zenon DEF Recount
  <2>2. QED
    BY <1>8, <1>13, <2>1, ReferencesTyped, Zenon DEF Counted
<1>15. /\ waitable_children' \subseteq [pid : Pid, parent_pid : Pid]
       /\ IsFiniteSet(waitable_children') /\ Cardinality(waitable_children') <= WaitableCapacity
  BY <1>2, <1>3, ZombiesFit, Zenon
<1>16. TypeOK'
  <2>1. /\ process' \in [pid : Pid, parent_pid : 0..MaxPid] /\ memory' \in 0..MaxPid
        /\ descriptors' \subseteq Objects
    BY <1>2, <1>3, PidNumbers, Zenon DEF Saves
  <2>2. parent' \in Context
    <3>1. NoContext \in Context
      BY PidNumbers, Zenon DEF NoContext, Context
    <3>2. QED
      BY <1>8, <3>1, Zenon DEF Slot, Saves
  <2>3. arena' \subseteq 0..MaxPid /\ ready' \subseteq Objects
    BY <1>3, Zenon DEF IInv, TypeOK, StillOpen
  <2>4. exited' \subseteq Pid /\ answered' \subseteq Pid
    BY <1>2, <1>3, Zenon DEF IInv, TypeOK
  <2>5. QED
    BY <1>3, <1>8, <1>14, <1>15, <2>1, <2>2, <2>3, <2>4, Zenon DEF IInv, TypeOK, depth, Background
<1>17. Slots' /\ Frames'
  BY <1>2, <1>3, <1>8, Zenon DEF Slots, Frames, IInv, depth, Saves
<1>18. exited' \subseteq 1..next_pid' - 1 /\ answered' \subseteq 1..next_pid' - 1
  BY <1>2, <1>3, Zenon DEF IInv, Alive
<1>19. ParkAnswersForkOnce'
  BY <1>3, Zenon DEF ParkAnswersForkOnce
<1>20. QED
  BY <1>2, <1>3, <1>8, <1>12, <1>13, <1>15, <1>16, <1>17, <1>18, <1>19, Zenon DEF IInv

-----------------------------------------------------------------------------
(* The parks.                                                              *)

\* A service may park only when the background slot holds no image.
LEMMA SlotFree ==
  ASSUME SetLaws, IInv, NEW o, CanParkBackground(o)
  PROVE  background.snap = 0 /\ background.descriptors = {}
<1>1. Parked(background, nested_ancestors, parent, process, answered)
  BY Zenon DEF IInv
<1>2. ~(background.used /\ background.pid # process.pid)
  BY Zenon DEF CanParkBackground
<1>3. background.snap # 0 => background.snap # process.pid
  BY Located, Zenon
<1>4. QED
  BY <1>1, <1>2, <1>3, Zenon DEF Parked

\* Resuming a process by a park answers its fork unless that was done before.
LEMMA ParkAnswers ==
  ASSUME NEW s, Asks(s, answered), resume_parent(s, "park", first_park(s))
  PROVE  answered' = answered \cup {s.child_pid} /\ ParkAnswersForkOnce'
<1>1. first_park(s) <=> s.child_pid \notin answered
  BY Zenon DEF Asks, first_park
<1>2. /\ answered' = IF first_park(s) THEN answered \cup {s.child_pid} ELSE answered
      /\ outcome'.gives = IF first_park(s) THEN "pid" ELSE "replay"
      /\ outcome'.again = (s.child_pid \in answered)
  BY Zenon DEF resume_parent
<1>3. answered' = answered \cup {s.child_pid}
  BY <1>1, <1>2, Zenon
<1>4. ParkAnswersForkOnce'
  BY <1>1, <1>2, Zenon DEF ParkAnswersForkOnce
<1>5. QED
  BY <1>3, <1>4, Zenon

\* Parking a service in the background record keeps the invariant.
LEMMA ParkBackgroundKeeps ==
  ASSUME SetLaws, IInv, ListenerAtTop, NEW o \in Sockets, park_background(o)
  PROVE  IInv'
<1> USE ForkAssumption
<1> DEFINE done == answered \cup {process.pid}
<1>1. ~halted /\ Active(parent) /\ CanParkBackground(o)
  BY Zenon DEF park_background, CanParkBackground
<1>2. /\ Saves(parent) /\ parent.pid \in Pid /\ parent.pid \in Alive \ {process.pid}
      /\ parent.child_pid = process.pid /\ process.parent_pid = parent.pid
      /\ parent.parent_pid \in 0..MaxPid /\ parent.descriptors \subseteq Objects
      /\ Linked(nested_ancestors) /\ WaitsFor(nested_ancestors, parent)
      /\ \A i \in 1..depth : Saves(nested_ancestors[i]) /\ Asks(nested_ancestors[i], done)
      /\ Relays(interactive_child, interactive_parent, interactive_relay_service_pid, done)
      /\ process.pid \in Alive /\ process.pid \in Pid
  BY <1>1, ParentFacts, Zenon
<1>3. answered' = done /\ ParkAnswersForkOnce'
  <2>1. Asks(parent, answered)
    BY <1>1, Zenon DEF IInv, Frames
  <2>2. QED
    BY <1>2, <2>1, ParkAnswers, Zenon DEF park_background
<1>4. depth = 0
  BY <1>1, Zenon DEF ListenerAtTop, CanParkBackground, Sockets
<1>5. background.snap = 0 /\ background.descriptors = {}
  BY <1>1, SlotFree, Zenon
<1>6. memory = process.pid
  BY Zenon DEF IInv, Slots
<1>7. /\ process' = [pid |-> parent.pid, parent_pid |-> parent.parent_pid]
      /\ memory' = parent.snap /\ descriptors' = parent.descriptors
      /\ exited' = exited /\ next_pid' = next_pid /\ halted' = halted
      /\ interactive_child' = interactive_child /\ interactive_parent' = interactive_parent
      /\ interactive_relay_service_pid' = interactive_relay_service_pid
      /\ arena' = (arena \cup {process.pid}) \ {parent.snap} /\ references' = references
      /\ waitable_children' = waitable_children /\ ready' = ready
      /\ nested_ancestors' = nested_ancestors /\ parent' = NoContext
  BY <1>6, Zenon DEF park_background, resume_parent, parked
<1>8. background' = [used |-> TRUE, pid |-> process.pid, parent_pid |-> process.parent_pid,
                     wait |-> o, snap |-> process.pid, descriptors |-> descriptors]
  BY <1>6, Zenon DEF park_background
<1>9. Alive' = Alive
  BY <1>7, Zenon DEF Alive
<1>10. Kept'
  <2>1. ASSUME NEW p \in Pid
        PROVE  Places(nested_ancestors', parent', interactive_child', interactive_parent',
                      background', p) = Bit(p \in Alive' /\ p # process'.pid)
    <3>1. Places(nested_ancestors, parent, interactive_child, interactive_parent,
                 background, p) = Bit(p \in Alive /\ p # process.pid)
      BY Zenon DEF IInv, Kept
    <3>2. Count(nested_ancestors, Of(p)) \in Nat
      BY StackCounts, Zenon DEF IInv, TypeOK
    <3>3. /\ parent'.pid = 0 /\ background'.snap = process.pid /\ process'.pid = parent.pid
          /\ p # 0
      BY <1>7, <1>8, PidNumbers, Zenon DEF NoContext
    <3>4. Bit(p \in Alive' /\ p # process'.pid) + Bit(parent.pid = p)
          = Bit(p \in Alive /\ p # process.pid) + Bit(process.pid = p)
      <4>1. /\ Alive' = Alive /\ process'.pid = parent.pid /\ process.pid \in Alive
            /\ parent.pid \in Alive
        BY <1>2, <1>9, <3>3, Zenon
      <4>2. QED
        BY <4>1, SMTT(60) DEF Bit
    <3>5. QED
      <4> DEFINE k == Count(nested_ancestors, Of(p))
                 a == Bit(parent.pid = p)
                 b == Bit(interactive_child.pid = p)
                 c == Bit(interactive_parent.pid = p)
                 q == Bit(process.pid = p)
                 old == Bit(p \in Alive /\ p # process.pid)
                 new == Bit(p \in Alive' /\ p # process'.pid)
      <4>1. /\ Bit(parent'.pid = p) = 0 /\ Bit(background'.snap = p) = q
            /\ Bit(background.snap = p) = 0
            /\ k \in Nat /\ a \in Nat /\ b \in Nat /\ c \in Nat /\ q \in Nat
            /\ old \in Nat /\ new \in Nat
        BY <1>5, <3>2, <3>3, Zenon DEF Bit
      <4>2. k + a + b + c + 0 = old
        BY <3>1, <4>1, Zenon DEF Places
      <4>3. Places(nested_ancestors', parent', interactive_child', interactive_parent',
                   background', p) = k + 0 + b + c + q
        BY <1>7, <4>1, Zenon DEF Places
      <4>4. new + a = old + q
        BY <3>4, Zenon
      <4> HIDE DEF a, b, c, k, q, old, new
      <4>5. k + 0 + b + c + q = new
        BY <4>1, <4>2, <4>4
      <4>6. QED
        BY <4>3, <4>5, Zenon DEF new
  <2>2. arena' = Alive' \ {process'.pid}
    BY <1>2, <1>7, <1>9, Zenon DEF IInv, Kept, Saves
  <2>3. process'.pid \in Alive'
    BY <1>2, <1>7, <1>9, Zenon
  <2>4. QED
    BY <2>1, <2>2, <2>3, Zenon DEF Kept
<1>11. Counted'
  <2> SUFFICES ASSUME NEW x \in Objects
               PROVE  references'[x] = Tables(nested_ancestors', parent', interactive_child',
                                              interactive_parent', background', x)
                                       + Bit(x \in descriptors')
    BY Zenon DEF Counted, Counts
  <2>1. references[x] = Tables(nested_ancestors, parent, interactive_child,
                               interactive_parent, background, x) + Bit(x \in descriptors)
    BY Zenon DEF IInv, Counted, Counts
  <2>2. Count(nested_ancestors, Having(x)) \in Nat
    BY StackCounts, Zenon DEF IInv, TypeOK
  <2>3. /\ parent'.descriptors = {} /\ background'.descriptors = descriptors
        /\ descriptors' = parent.descriptors
    BY <1>7, <1>8, Zenon DEF NoContext
  <2>4. QED
    BY <1>5, <1>7, <2>1, <2>2, <2>3, SMTT(60) DEF Tables, Bit
<1>12. TypeOK'
  <2>1. /\ process' \in [pid : Pid, parent_pid : 0..MaxPid] /\ memory' \in 0..MaxPid
        /\ descriptors' \subseteq Objects
    BY <1>2, <1>7, PidNumbers, Zenon DEF Saves
  <2>2. parent' \in Context
    BY <1>7, PidNumbers, Zenon DEF NoContext, Context
  <2>3. background' \in Background
    BY <1>2, <1>8, PidNumbers, Zenon DEF Background, IInv, TypeOK
  <2>4. arena' \subseteq 0..MaxPid
    <3>1. arena \subseteq 0..MaxPid /\ process.pid \in 0..MaxPid
      BY <1>2, PidNumbers, Zenon DEF IInv, TypeOK
    <3>2. QED
      BY <1>7, <3>1, Zenon
  <2>5. answered' \subseteq Pid
    BY <1>2, <1>3, Zenon DEF IInv, TypeOK
  <2>6. QED
    BY <1>7, <2>1, <2>2, <2>3, <2>4, <2>5, Zenon DEF IInv, TypeOK, depth, Background
<1>13. Slots' /\ Frames'
  BY <1>2, <1>3, <1>7, Zenon DEF Slots, Frames, IInv, depth, Saves, Slot, Active, NoContext
<1>14. exited' \subseteq 1..next_pid' - 1 /\ answered' \subseteq 1..next_pid' - 1
  BY <1>2, <1>3, <1>7, Zenon DEF IInv, Alive
<1>15. ~Active(parent')
  BY <1>7, Zenon DEF Active, NoContext
<1>16. Chained(nested_ancestors', parent', process')
  BY <1>2, <1>7, <1>15, Zenon DEF Chained, WaitsFor
<1>17. Parked(background', nested_ancestors', parent', process', done)
  BY <1>2, <1>4, <1>7, <1>8, <1>15, PidNumbers, Zenon DEF Parked, depth, Saves, IInv, Slots
<1>18. QED
  BY <1>2, <1>3, <1>7, <1>10, <1>11, <1>12, <1>13, <1>14, <1>16, <1>17, Zenon DEF IInv

\* A refused background park keeps the invariant.
LEMMA ParkBackgroundNoMemoryKeeps ==
  ASSUME SetLaws, IInv, NEW o \in Sockets, park_background_no_memory(o)
  PROVE  IInv'
<1> USE ForkAssumption
<1>1. background.snap = 0 /\ background.descriptors = {} /\ background \in Background
  BY SlotFree, Zenon DEF park_background_no_memory, IInv, TypeOK, Background
<1>2. /\ background' \in Background /\ background'.snap = 0
      /\ background'.descriptors = {} /\ ~background'.used
  <2>1. process.pid \in 0..MaxPid /\ process.parent_pid \in 0..MaxPid
    BY PidNumbers, Zenon DEF IInv, TypeOK
  <2>2. Names(Captured(background, process), process, background)
    BY <1>1, <2>1, CapturedNames, Zenon
  <2>3. background' = [Captured(background, process) EXCEPT !.used = FALSE, !.wait = o,
                                                            !.snap = 0]
    BY Zenon DEF park_background_no_memory
  <2>4. QED
    BY <1>1, <2>2, <2>3, Zenon DEF Names, Background
<1>3. Parked(background', nested_ancestors, parent, process, answered)
  BY <1>2, IdleParked, Zenon
<1>4. UNCHANGED <<process, descriptors, memory, parent, nested_ancestors, interactive_child,
                  interactive_parent, interactive_relay_service_pid, arena, references,
                  waitable_children, next_pid, ready, halted, exited, answered, outcome>>
  BY Zenon DEF park_background_no_memory, parked, history
<1>5. Alive' = Alive
  BY <1>4, Zenon DEF Alive
<1>6. Kept'
  <2>1. \A p : Places(nested_ancestors', parent', interactive_child', interactive_parent',
                     background', p)
              = Places(nested_ancestors, parent, interactive_child, interactive_parent,
                       background, p)
    BY <1>1, <1>2, <1>4, Zenon DEF Places
  <2>2. QED
    BY <1>4, <1>5, <2>1, Zenon DEF Kept, IInv
<1>7. Counted'
  BY <1>1, <1>2, <1>4, Zenon DEF Counted, Counts, Tables, IInv
<1>8. TypeOK'
  BY <1>2, <1>4, Zenon DEF IInv, TypeOK, depth, Background
<1>9. QED
  BY <1>3, <1>4, <1>6, <1>7, <1>8, Zenon DEF IInv, Slots, Frames, depth, ParkAnswersForkOnce

\* Parking the interactive child under its own parent keeps the invariant.
LEMMA ParkDirectKeeps ==
  ASSUME SetLaws, IInv, park_interactive_child, ~relay_through_ancestor
  PROVE  IInv'
<1> USE ForkAssumption
<1> DEFINE done == answered \cup {process.pid}
<1>1. ~halted /\ Active(parent) /\ ~Active(interactive_child)
  BY Zenon DEF park_interactive_child, CanParkInteractive
<1>2. /\ Saves(parent) /\ parent.pid \in Pid /\ parent.pid \in Alive \ {process.pid}
      /\ parent.child_pid = process.pid /\ process.parent_pid = parent.pid
      /\ parent.parent_pid \in 0..MaxPid /\ parent.descriptors \subseteq Objects
      /\ Linked(nested_ancestors) /\ WaitsFor(nested_ancestors, parent)
      /\ \A i \in 1..depth : Saves(nested_ancestors[i]) /\ Asks(nested_ancestors[i], done)
      /\ process.pid \in Alive /\ process.pid \in Pid
  BY <1>1, ParentFacts, Zenon
<1>3. answered' = done /\ ParkAnswersForkOnce'
  <2>1. Asks(parent, answered)
    BY <1>1, Zenon DEF IInv, Frames
  <2>2. QED
    BY <1>2, <2>1, ParkAnswers, Zenon DEF park_interactive_child
<1>4. ~Active(interactive_parent) /\ interactive_child = NoContext
      /\ interactive_parent = NoContext
  BY <1>1, Zenon DEF IInv, Relays, Slots, Slot, Saves, Active
<1>5. memory = process.pid /\ process.parent_pid < process.pid /\ descriptors \subseteq Objects
      /\ process.parent_pid \in 0..MaxPid
  BY Zenon DEF IInv, Slots, TypeOK
<1>6. /\ process' = [pid |-> parent.pid, parent_pid |-> parent.parent_pid]
      /\ memory' = parent.snap /\ descriptors' = parent.descriptors
      /\ exited' = exited /\ next_pid' = next_pid /\ halted' = halted
      /\ background' = background /\ interactive_parent' = interactive_parent
      /\ interactive_relay_service_pid' = interactive_relay_service_pid
      /\ arena' = (arena \cup {process.pid}) \ {parent.snap} /\ references' = references
      /\ waitable_children' = waitable_children /\ ready' = ready
      /\ nested_ancestors' = nested_ancestors /\ parent' = NoContext
  BY <1>5, Zenon DEF park_interactive_child, resume_parent
<1>7. interactive_child' = [pid |-> process.pid, parent_pid |-> process.parent_pid,
                            child_pid |-> 0, frame |-> "block", snap |-> process.pid,
                            descriptors |-> descriptors]
  BY <1>5, Zenon DEF park_interactive_child, Suspended
<1>8. interactive_child' \in Context /\ Saves(interactive_child') /\ Active(interactive_child')
  <2>1. interactive_child' \in Context
    BY <1>2, <1>5, <1>7, PidNumbers, Zenon DEF Context
  <2>2. QED
    BY <1>2, <1>5, <1>7, <2>1, PidNumbers, Zenon DEF Saves, Active
<1>9. Alive' = Alive
  BY <1>6, Zenon DEF Alive
<1>10. Kept'
  <2>1. ASSUME NEW p \in Pid
        PROVE  Places(nested_ancestors', parent', interactive_child', interactive_parent',
                      background', p) = Bit(p \in Alive' /\ p # process'.pid)
    <3>1. Places(nested_ancestors, parent, interactive_child, interactive_parent,
                 background, p) = Bit(p \in Alive /\ p # process.pid)
      BY Zenon DEF IInv, Kept
    <3>2. Count(nested_ancestors, Of(p)) \in Nat
      BY StackCounts, Zenon DEF IInv, TypeOK
    <3>3. /\ parent'.pid = 0 /\ interactive_child'.pid = process.pid
          /\ interactive_child.pid = 0 /\ process'.pid = parent.pid /\ p # 0
      BY <1>4, <1>6, <1>7, PidNumbers, Zenon DEF NoContext
    <3>4. Bit(p \in Alive' /\ p # process'.pid) + Bit(parent.pid = p)
          = Bit(p \in Alive /\ p # process.pid) + Bit(process.pid = p)
      <4>1. /\ Alive' = Alive /\ process'.pid = parent.pid /\ process.pid \in Alive
            /\ parent.pid \in Alive
        BY <1>2, <1>9, <3>3, Zenon
      <4>2. QED
        BY <4>1, SMTT(60) DEF Bit
    <3>5. QED
      BY <1>6, <3>1, <3>2, <3>3, <3>4, SMTT(60) DEF Places, Bit
  <2>2. arena' = Alive' \ {process'.pid}
    BY <1>2, <1>6, <1>9, Zenon DEF IInv, Kept, Saves
  <2>3. process'.pid \in Alive'
    BY <1>2, <1>6, <1>9, Zenon
  <2>4. QED
    BY <2>1, <2>2, <2>3, Zenon DEF Kept
<1>11. Counted'
  <2> SUFFICES ASSUME NEW x \in Objects
               PROVE  references'[x] = Tables(nested_ancestors', parent', interactive_child',
                                              interactive_parent', background', x)
                                       + Bit(x \in descriptors')
    BY Zenon DEF Counted, Counts
  <2>1. references[x] = Tables(nested_ancestors, parent, interactive_child,
                               interactive_parent, background, x) + Bit(x \in descriptors)
    BY Zenon DEF IInv, Counted, Counts
  <2>2. Count(nested_ancestors, Having(x)) \in Nat
    BY StackCounts, Zenon DEF IInv, TypeOK
  <2>3. /\ parent'.descriptors = {} /\ interactive_child.descriptors = {}
        /\ interactive_child'.descriptors = descriptors /\ descriptors' = parent.descriptors
    BY <1>4, <1>6, <1>7, Zenon DEF NoContext
  <2>4. QED
    BY <1>6, <2>1, <2>2, <2>3, SMTT(60) DEF Tables, Bit
<1>12. TypeOK'
  <2>1. /\ process' \in [pid : Pid, parent_pid : 0..MaxPid] /\ memory' \in 0..MaxPid
        /\ descriptors' \subseteq Objects
    BY <1>2, <1>6, PidNumbers, Zenon DEF Saves
  <2>2. parent' \in Context
    BY <1>6, PidNumbers, Zenon DEF NoContext, Context
  <2>3. arena' \subseteq 0..MaxPid
    <3>1. arena \subseteq 0..MaxPid /\ process.pid \in 0..MaxPid
      BY <1>2, PidNumbers, Zenon DEF IInv, TypeOK
    <3>2. QED
      BY <1>6, <3>1, Zenon
  <2>4. answered' \subseteq Pid
    BY <1>2, <1>3, Zenon DEF IInv, TypeOK
  <2>5. QED
    BY <1>6, <1>8, <2>1, <2>2, <2>3, <2>4, Zenon DEF IInv, TypeOK, depth
<1>13. Slots' /\ Frames'
  BY <1>2, <1>3, <1>6, <1>8, Zenon DEF Slots, Frames, IInv, depth, Saves, Slot, Active, NoContext
<1>14. exited' \subseteq 1..next_pid' - 1 /\ answered' \subseteq 1..next_pid' - 1
  BY <1>2, <1>3, <1>6, Zenon DEF IInv, Alive
<1>15. ~Active(parent')
  BY <1>6, Zenon DEF Active, NoContext
<1>16. Chained(nested_ancestors', parent', process')
  BY <1>2, <1>6, <1>15, Zenon DEF Chained, WaitsFor
<1>17. Parked(background', nested_ancestors', parent', process', done)
  <2>1. Parked(background, nested_ancestors, parent, process, answered)
    BY Zenon DEF IInv
  <2>2. process'.pid = parent.pid
    BY <1>6, Zenon
  <2>3. QED
    BY <1>1, <1>6, <1>15, <2>1, <2>2, Zenon DEF Parked
<1>18. Relays(interactive_child', interactive_parent', interactive_relay_service_pid', done)
  BY <1>4, <1>6, <1>7, Zenon DEF Relays
<1>19. QED
  BY <1>3, <1>6, <1>10, <1>11, <1>12, <1>13, <1>14, <1>16, <1>17, <1>18, Zenon DEF IInv

\* Parking the interactive child through the relay keeps the invariant.
LEMMA ParkRelayKeeps ==
  ASSUME SetLaws, IInv, park_interactive_child, relay_through_ancestor
  PROVE  IInv'
<1> USE ForkAssumption
<1> DEFINE done == answered \cup {parent.pid}
<1>1. ~halted /\ Active(parent) /\ ~Active(interactive_child) /\ depth # 0
  BY DEF park_interactive_child, CanParkInteractive, relay_through_ancestor
<1>2. /\ Saves(parent) /\ parent.pid \in Pid /\ parent.pid \in Alive \ {process.pid}
      /\ parent.child_pid = process.pid /\ process.parent_pid = parent.pid
      /\ Linked(nested_ancestors) /\ WaitsFor(nested_ancestors, parent)
      /\ process.pid \in Alive /\ process.pid \in Pid
  BY <1>1, ParentFacts, Zenon
<1>3. /\ nested_ancestors \in Seq(Context) /\ depth \in 1..depth
      /\ depth <= NestedCapacity /\ depth = Len(nested_ancestors)
  BY <1>1, PidNumbers, Ranges, Indexed, Zenon DEF IInv, TypeOK, depth
<1>4. Below(Older, Newest, nested_ancestors)
  BY <1>1, <1>2, <1>3, Unstacked, Zenon DEF Older, Newest, depth
<1>5. /\ Saves(Newest) /\ Asks(Newest, answered) /\ Newest.pid \in Alive \ {process.pid}
      /\ Newest.pid # parent.pid
  BY <1>3, Located, Zenon DEF IInv, Slots, Frames, Newest
<1>6. Newest.child_pid = parent.pid /\ parent.parent_pid = Newest.pid
  BY <1>1, <1>2, Zenon DEF WaitsFor, Newest, depth
<1>7. answered' = done /\ ParkAnswersForkOnce'
  <2>1. resume_parent(Newest, "park", first_park(Newest))
    BY Zenon DEF park_interactive_child
  <2>2. QED
    BY <1>5, <1>6, <2>1, ParkAnswers, Zenon
<1>8. ~Active(interactive_parent) /\ interactive_child = NoContext
      /\ interactive_parent = NoContext
  BY <1>1, Zenon DEF IInv, Relays, Slots, Slot, Saves, Active
<1>9. memory = process.pid /\ process.parent_pid < process.pid /\ descriptors \subseteq Objects
      /\ process.parent_pid \in 0..MaxPid
  BY Zenon DEF IInv, Slots, TypeOK
<1>10. /\ process' = [pid |-> Newest.pid, parent_pid |-> Newest.parent_pid]
       /\ memory' = Newest.snap /\ descriptors' = Newest.descriptors
       /\ exited' = exited /\ next_pid' = next_pid /\ halted' = halted
       /\ background' = background /\ interactive_parent' = parent
       /\ interactive_relay_service_pid' = Newest.pid
       /\ arena' = (arena \cup {process.pid}) \ {Newest.snap} /\ references' = references
       /\ waitable_children' = waitable_children /\ ready' = ready
       /\ nested_ancestors' = Older /\ parent' = NoContext
  BY <1>9, Zenon DEF park_interactive_child, resume_parent
<1>11. interactive_child' = [pid |-> process.pid, parent_pid |-> process.parent_pid,
                             child_pid |-> 0, frame |-> "block", snap |-> process.pid,
                             descriptors |-> descriptors]
  BY <1>9, Zenon DEF park_interactive_child, Suspended
<1>12. interactive_child' \in Context /\ Saves(interactive_child')
  <2>1. interactive_child' \in Context
    BY <1>2, <1>9, <1>11, PidNumbers, Zenon DEF Context
  <2>2. QED
    BY <1>2, <1>9, <1>11, <2>1, PidNumbers, Zenon DEF Saves
<1>13. Alive' = Alive
  BY <1>10, Zenon DEF Alive
<1>14. /\ Newest.pid \in Pid /\ Newest.parent_pid \in 0..MaxPid
       /\ Newest.descriptors \subseteq Objects
  BY <1>5, PidNumbers, Zenon DEF Saves, Context
<1>15. background.snap = 0
  BY <1>1, Zenon DEF IInv, Parked, depth
<1>16. Kept'
  <2>1. ASSUME NEW p \in Pid
        PROVE  Places(nested_ancestors', parent', interactive_child', interactive_parent',
                      background', p) = Bit(p \in Alive' /\ p # process'.pid)
    <3>1. Places(nested_ancestors, parent, interactive_child, interactive_parent,
                 background, p) = Bit(p \in Alive /\ p # process.pid)
      BY Zenon DEF IInv, Kept
    <3>2. Count(nested_ancestors, Of(p)) = Count(Older, Of(p)) + Bit(Newest.pid = p)
      BY <1>4, Zenon DEF Below, Grown
    <3>3. Count(Older, Of(p)) \in Nat
      BY <1>4, StackCounts, Zenon DEF Below
    <3>4. /\ parent'.pid = 0 /\ interactive_child'.pid = process.pid
          /\ interactive_child.pid = 0 /\ interactive_parent.pid = 0
          /\ interactive_parent'.pid = parent.pid /\ process'.pid = Newest.pid
          /\ nested_ancestors' = Older /\ background' = background /\ p # 0
      BY <1>8, <1>10, <1>11, PidNumbers, Zenon DEF NoContext
    <3>5. Bit(p \in Alive' /\ p # process'.pid) + Bit(Newest.pid = p)
          = Bit(p \in Alive /\ p # process.pid) + Bit(process.pid = p)
      BY <1>2, <1>5, <1>13, <3>4, SMTT(60) DEF Bit
    <3>6. QED
      BY <3>1, <3>2, <3>3, <3>4, <3>5, SMTT(60) DEF Places, Bit
  <2>2. arena' = Alive' \ {process'.pid}
    BY <1>2, <1>5, <1>10, <1>13, Zenon DEF IInv, Kept, Saves
  <2>3. process'.pid \in Alive'
    BY <1>5, <1>10, <1>13, Zenon
  <2>4. QED
    BY <2>1, <2>2, <2>3, Zenon DEF Kept
<1>17. Counted'
  <2> SUFFICES ASSUME NEW x \in Objects
               PROVE  references'[x] = Tables(nested_ancestors', parent', interactive_child',
                                              interactive_parent', background', x)
                                       + Bit(x \in descriptors')
    BY Zenon DEF Counted, Counts
  <2>1. references[x] = Tables(nested_ancestors, parent, interactive_child,
                               interactive_parent, background, x) + Bit(x \in descriptors)
    BY Zenon DEF IInv, Counted, Counts
  <2>2. Count(nested_ancestors, Having(x)) = Count(Older, Having(x))
                                             + Bit(x \in Newest.descriptors)
    BY <1>4, Zenon DEF Below, Grown
  <2>3. Count(Older, Having(x)) \in Nat
    BY <1>4, StackCounts, Zenon DEF Below
  <2>4. /\ parent'.descriptors = {} /\ interactive_child.descriptors = {}
        /\ interactive_parent.descriptors = {} /\ interactive_parent' = parent
        /\ interactive_child'.descriptors = descriptors /\ descriptors' = Newest.descriptors
        /\ nested_ancestors' = Older /\ background' = background /\ references' = references
    BY <1>8, <1>10, <1>11, Zenon DEF NoContext
  <2>5. QED
    BY <2>1, <2>2, <2>3, <2>4, SMTT(60) DEF Tables, Bit
<1>18. /\ Older \in Seq(Context) /\ Len(Older) <= NestedCapacity
       /\ \A i \in 1..Len(Older) : Saves(Older[i]) /\ Asks(Older[i], done)
  <2>1. /\ Older \in Seq(Context) /\ Len(Older) <= NestedCapacity
        /\ \A i \in 1..Len(Older) : i \in 1..depth - 1 /\ Older[i] = nested_ancestors[i]
    BY <1>3, <1>4 DEF Below
  <2>2. ASSUME NEW i \in 1..depth - 1
        PROVE  Saves(nested_ancestors[i]) /\ Asks(nested_ancestors[i], done)
    <3>1. i \in 1..depth /\ i + 1 \in 1..depth
      BY <1>3, PidNumbers, Ranges, Indexed, Zenon
    <3>2. Saves(nested_ancestors[i]) /\ Asks(nested_ancestors[i], answered)
      BY <3>1, Zenon DEF IInv, Slots, Frames
    <3>3. nested_ancestors[i].child_pid = nested_ancestors[i + 1].pid
      BY <1>2, <1>3, Zenon DEF Linked
    <3>4. nested_ancestors[i + 1].pid # parent.pid
      BY <3>1, Located, Zenon
    <3>5. QED
      BY <3>2, <3>3, <3>4, Zenon DEF Asks
  <2>3. QED
    BY <2>1, <2>2, Zenon
<1>19. TypeOK'
  <2>1. /\ process' \in [pid : Pid, parent_pid : 0..MaxPid] /\ memory' \in 0..MaxPid
        /\ descriptors' \subseteq Objects /\ interactive_relay_service_pid' \in 0..MaxPid
    BY <1>5, <1>10, <1>14, PidNumbers, Zenon DEF Saves
  <2>2. parent' \in Context /\ interactive_parent' \in Context
    BY <1>2, <1>10, PidNumbers, Zenon DEF NoContext, Context, Saves
  <2>3. arena' \subseteq 0..MaxPid
    <3>1. arena \subseteq 0..MaxPid /\ process.pid \in 0..MaxPid
      BY <1>2, PidNumbers, Zenon DEF IInv, TypeOK
    <3>2. QED
      BY <1>10, <3>1, Zenon
  <2>4. answered' \subseteq Pid
    BY <1>2, <1>7, Zenon DEF IInv, TypeOK
  <2>5. QED
    BY <1>10, <1>12, <1>18, <2>1, <2>2, <2>3, <2>4, Zenon DEF IInv, TypeOK, depth
<1>20. ~Active(parent')
  BY <1>10, Zenon DEF Active, NoContext
<1>21. Slots'
  <2>1. /\ memory' = process'.pid /\ process'.parent_pid < process'.pid
        /\ Slot(parent') /\ Slot(interactive_child') /\ Slot(interactive_parent')
    BY <1>2, <1>5, <1>10, <1>12, Zenon DEF Saves, Slot
  <2>2. QED
    BY <1>10, <1>18, <2>1, Zenon DEF Slots, depth
<1>22. Frames'
  BY <1>7, <1>10, <1>18, <1>20, Zenon DEF Frames, depth
<1>23. exited' \subseteq 1..next_pid' - 1 /\ answered' \subseteq 1..next_pid' - 1
  BY <1>2, <1>7, <1>10, Zenon DEF IInv, Alive
<1>24. Chained(nested_ancestors', parent', process')
  <2>1. WaitsFor(Older, Newest) /\ Linked(Older)
    BY <1>4, Zenon DEF Below
  <2>2. QED
    BY <1>10, <1>20, <2>1, Zenon DEF Chained, WaitsFor
<1>25. Parked(background', nested_ancestors', parent', process', done)
  <2>1. Parked(background, nested_ancestors, parent, process, answered)
    BY Zenon DEF IInv
  <2>2. QED
    BY <1>10, <1>15, <2>1, Zenon DEF Parked
<1>26. Relays(interactive_child', interactive_parent', interactive_relay_service_pid', done)
  <2>1. Asks(parent, answered)
    BY <1>1, Zenon DEF IInv, Frames
  <2>2. Asks(parent, done)
    BY <1>2, <2>1, Zenon DEF Asks
  <2>3. Active(interactive_child')
    BY <1>12, Zenon DEF Saves, Active
  <2>4. QED
    BY <1>2, <1>6, <1>10, <1>11, <2>2, <2>3, <1>1, Zenon DEF Relays
<1>27. QED
  BY <1>7, <1>10, <1>16, <1>17, <1>19, <1>21, <1>22, <1>23, <1>24, <1>25, <1>26, Zenon DEF IInv

-----------------------------------------------------------------------------
(* The resumptions.                                                        *)

\* The active process, as a context suspended in a blocking call that waits for
\* a child whose fork is answered.
LEMMA BlockedContext ==
  ASSUME IInv, ~halted, NEW child \in answered
  PROVE  LET c == Suspended("block", child)
         IN  /\ Saves(c) /\ Asks(c, answered) /\ Active(c)
             /\ c.pid = process.pid /\ c.parent_pid = process.parent_pid
             /\ c.child_pid = child /\ c.descriptors = descriptors
<1> DEFINE c == Suspended("block", child)
<1>1. /\ memory = process.pid /\ process.pid \in Pid /\ child \in 0..MaxPid
      /\ process.parent_pid \in 0..MaxPid /\ process.parent_pid < process.pid
      /\ descriptors \subseteq Objects
  BY ForkAssumption, PidNumbers, Zenon DEF IInv, TypeOK, Slots
<1>2. c = [pid |-> process.pid, parent_pid |-> process.parent_pid, child_pid |-> child,
           frame |-> "block", snap |-> process.pid, descriptors |-> descriptors]
  BY <1>1, Zenon DEF Suspended
<1>3. c \in Context
  BY <1>1, <1>2, ForkAssumption DEF Context, Pid
<1>4. QED
  BY <1>1, <1>2, <1>3 DEF Saves, Asks, Active, Pid

\* Resuming the interactive child over its parent keeps the invariant.
LEMMA ResumeDirectKeeps ==
  ASSUME SetLaws, IInv, NEW i, resume_interactive_child_if_ready(i), ~relayed
  PROVE  IInv'
<1> USE ForkAssumption
<1>1. /\ ~halted /\ Active(interactive_child) /\ ~Active(parent)
      /\ process.pid = interactive_child.parent_pid /\ ~Active(interactive_parent)
  BY Zenon DEF resume_interactive_child_if_ready, pty_child_can_resume, relayed
<1>2. /\ parent = NoContext /\ interactive_parent = NoContext /\ Saves(interactive_child)
      /\ interactive_child.pid \in answered /\ memory = process.pid
      /\ WaitsFor(nested_ancestors, process) /\ Linked(nested_ancestors)
  BY <1>1, Zenon DEF IInv, Slots, Slot, Saves, Active, Relays, Chained, NoContext
<1>3. /\ interactive_child.pid \in Pid /\ interactive_child.parent_pid \in 0..MaxPid
      /\ interactive_child.descriptors \subseteq Objects
      /\ interactive_child.pid \in Alive \ {process.pid}
      /\ process.pid \in Alive /\ process.pid \in Pid
  <2>1. interactive_child.pid \in Alive \ {process.pid}
    BY <1>1, Located, Zenon
  <2>2. process.pid \in Alive /\ process.pid \in Pid
    BY <1>1, Zenon DEF IInv, Kept, TypeOK
  <2>3. QED
    BY <1>2, <2>1, <2>2, PidNumbers, Zenon DEF Saves, Context
<1>4. /\ parent' = Suspended("block", interactive_child.pid)
      /\ process' = [pid |-> interactive_child.pid,
                     parent_pid |-> interactive_child.parent_pid]
      /\ memory' = interactive_child.snap /\ descriptors' = interactive_child.descriptors
      /\ exited' = exited /\ next_pid' = next_pid /\ halted' = halted
      /\ background' = background /\ interactive_parent' = NoContext
      /\ interactive_relay_service_pid' = 0 /\ interactive_child' = NoContext
      /\ arena' = (arena \cup {process.pid}) \ {interactive_child.snap}
      /\ references' = references /\ waitable_children' = waitable_children
      /\ ready' = ready /\ nested_ancestors' = nested_ancestors
      /\ answered' = answered /\ outcome'.by = "wake"
  <2>1. /\ ~relayed /\ ~(relayed /\ background.snap # 0) /\ memory = process.pid
        /\ (IF relayed THEN interactive_parent.pid ELSE interactive_child.pid) = interactive_child.pid
    BY <1>2, Zenon
  <2>2. QED
    BY <2>1, SMTT(60) DEF resume_interactive_child_if_ready
<1>5. /\ Saves(parent') /\ Asks(parent', answered) /\ Active(parent')
      /\ parent'.pid = process.pid /\ parent'.parent_pid = process.parent_pid
      /\ parent'.child_pid = interactive_child.pid /\ parent'.descriptors = descriptors
  BY <1>1, <1>2, <1>4, BlockedContext, Zenon
<1>6. Alive' = Alive
  BY <1>4, Zenon DEF Alive
<1>7. Kept'
  <2>1. ASSUME NEW p \in Pid
        PROVE  Places(nested_ancestors', parent', interactive_child', interactive_parent',
                      background', p) = Bit(p \in Alive' /\ p # process'.pid)
    <3>1. Places(nested_ancestors, parent, interactive_child, interactive_parent,
                 background, p) = Bit(p \in Alive /\ p # process.pid)
      BY Zenon DEF IInv, Kept
    <3>2. Count(nested_ancestors, Of(p)) \in Nat
      BY StackCounts, Zenon DEF IInv, TypeOK
    <3>3. /\ parent'.pid = process.pid /\ interactive_child'.pid = 0
          /\ interactive_parent'.pid = 0 /\ interactive_parent.pid = 0 /\ parent.pid = 0
          /\ process'.pid = interactive_child.pid /\ p # 0
          /\ nested_ancestors' = nested_ancestors /\ background' = background
      BY <1>2, <1>4, <1>5, PidNumbers, Zenon DEF NoContext
    <3>4. Bit(p \in Alive' /\ p # process'.pid) + Bit(interactive_child.pid = p)
          = Bit(p \in Alive /\ p # process.pid) + Bit(process.pid = p)
      <4>1. /\ Alive' = Alive /\ process'.pid = interactive_child.pid /\ process.pid \in Alive
            /\ interactive_child.pid \in Alive
        BY <1>3, <1>6, <3>3, Zenon
      <4>2. QED
        BY <4>1, SMTT(60) DEF Bit
    <3>5. QED
      BY <3>1, <3>2, <3>3, <3>4, SMTT(60) DEF Places, Bit
  <2>2. arena' = Alive' \ {process'.pid}
    BY <1>2, <1>3, <1>4, <1>6, Zenon DEF IInv, Kept, Saves
  <2>3. process'.pid \in Alive'
    BY <1>3, <1>4, <1>6, Zenon
  <2>4. QED
    BY <2>1, <2>2, <2>3, Zenon DEF Kept
<1>8. Counted'
  <2> SUFFICES ASSUME NEW x \in Objects
               PROVE  references'[x] = Tables(nested_ancestors', parent', interactive_child',
                                              interactive_parent', background', x)
                                       + Bit(x \in descriptors')
    BY Zenon DEF Counted, Counts
  <2>1. references[x] = Tables(nested_ancestors, parent, interactive_child,
                               interactive_parent, background, x) + Bit(x \in descriptors)
    BY Zenon DEF IInv, Counted, Counts
  <2>2. Count(nested_ancestors, Having(x)) \in Nat
    BY StackCounts, Zenon DEF IInv, TypeOK
  <2>3. /\ parent'.descriptors = descriptors /\ interactive_child'.descriptors = {}
        /\ interactive_parent'.descriptors = {} /\ interactive_parent.descriptors = {}
        /\ parent.descriptors = {} /\ descriptors' = interactive_child.descriptors
        /\ nested_ancestors' = nested_ancestors /\ background' = background
        /\ references' = references
    BY <1>2, <1>4, <1>5, Zenon DEF NoContext
  <2>4. QED
    BY <2>1, <2>2, <2>3, SMTT(60) DEF Tables, Bit
<1>9. TypeOK'
  <2>1. /\ process' \in [pid : Pid, parent_pid : 0..MaxPid] /\ memory' \in 0..MaxPid
        /\ descriptors' \subseteq Objects /\ interactive_relay_service_pid' \in 0..MaxPid
    BY <1>2, <1>3, <1>4, PidNumbers, Zenon DEF Saves
  <2>2. /\ parent' \in Context /\ interactive_child' \in Context
        /\ interactive_parent' \in Context
    BY <1>4, <1>5, PidNumbers, Zenon DEF NoContext, Context, Saves
  <2>3. arena' \subseteq 0..MaxPid
    <3>1. arena \subseteq 0..MaxPid /\ process.pid \in 0..MaxPid
      BY <1>3, PidNumbers, Zenon DEF IInv, TypeOK
    <3>2. QED
      BY <1>4, <3>1, Zenon
  <2>4. QED
    BY <1>4, <2>1, <2>2, <2>3, Zenon DEF IInv, TypeOK, depth
<1>10. Slots' /\ Frames'
  BY <1>2, <1>4, <1>5, Zenon DEF Slots, Frames, IInv, depth, Saves, Slot
<1>11. Chained(nested_ancestors', parent', process')
  BY <1>1, <1>2, <1>4, <1>5, Zenon DEF Chained, WaitsFor
<1>12. Parked(background', nested_ancestors', parent', process', answered)
  <2>1. Parked(background, nested_ancestors, parent, process, answered)
    BY Zenon DEF IInv
  <2>2. QED
    BY <1>1, <1>4, <1>5, <2>1, Zenon DEF Parked
<1>13. Relays(interactive_child', interactive_parent', interactive_relay_service_pid', answered)
  BY <1>4, Zenon DEF Relays, NoContext, Active
<1>14. ParkAnswersForkOnce'
  BY <1>4, Zenon DEF ParkAnswersForkOnce
<1>15. QED
  BY <1>4, <1>7, <1>8, <1>9, <1>10, <1>11, <1>12, <1>13, <1>14, Zenon DEF IInv

\* Resuming the interactive child through the relay keeps the invariant.
LEMMA ResumeRelayedKeeps ==
  ASSUME SetLaws, IInv, NEW i, resume_interactive_child_if_ready(i), relayed, background.snap = 0
  PROVE  IInv'
<1> USE ForkAssumption
<1> DEFINE server == Suspended("block", interactive_parent.pid)
<1>1. /\ ~halted /\ Active(interactive_child) /\ ~Active(parent)
      /\ Active(interactive_parent) /\ depth # NestedCapacity
      /\ \/ process.pid = interactive_child.parent_pid
         \/ process.pid = interactive_relay_service_pid
  BY Zenon DEF resume_interactive_child_if_ready, pty_child_can_resume, relayed
<1>2. /\ parent = NoContext /\ Saves(interactive_child) /\ Saves(interactive_parent)
      /\ memory = process.pid
      /\ WaitsFor(nested_ancestors, process) /\ Linked(nested_ancestors)
      /\ interactive_parent.child_pid = interactive_child.pid
      /\ interactive_child.parent_pid = interactive_parent.pid
      /\ interactive_parent.parent_pid = interactive_relay_service_pid
      /\ interactive_parent.pid \in answered /\ Asks(interactive_parent, answered)
  BY <1>1, Zenon DEF IInv, Slots, Slot, Saves, Active, Relays, Chained, NoContext
<1>3. /\ interactive_child.pid \in Alive \ {process.pid}
      /\ interactive_parent.pid \in Alive \ {process.pid}
      /\ process.pid \in Alive /\ process.pid \in Pid
  BY <1>1, Located, Zenon DEF IInv, Kept, TypeOK
<1>4. interactive_parent.parent_pid = process.pid
  BY <1>1, <1>2, <1>3, Zenon
<1>5. /\ interactive_child.pid \in Pid /\ interactive_child.parent_pid \in 0..MaxPid
      /\ interactive_child.descriptors \subseteq Objects
  BY <1>2, PidNumbers, Zenon DEF Saves, Context
<1>6. /\ parent' = interactive_parent
      /\ process' = [pid |-> interactive_child.pid,
                     parent_pid |-> interactive_child.parent_pid]
      /\ memory' = interactive_child.snap /\ descriptors' = interactive_child.descriptors
      /\ exited' = exited /\ next_pid' = next_pid /\ halted' = halted
      /\ background' = NoBackground /\ interactive_parent' = NoContext
      /\ interactive_relay_service_pid' = 0 /\ interactive_child' = NoContext
      /\ arena' = (arena \cup {process.pid}) \ {interactive_child.snap}
      /\ references' = references /\ waitable_children' = waitable_children
      /\ ready' = ready /\ nested_ancestors' = Append(nested_ancestors, server)
      /\ answered' = answered /\ outcome'.by = "wake"
  <2>1. /\ relayed /\ ~(relayed /\ background.snap # 0) /\ memory = process.pid
        /\ (IF relayed THEN interactive_parent.pid ELSE interactive_child.pid) = interactive_parent.pid
    BY <1>2, Zenon
  <2>2. QED
    BY <2>1, SMTT(60) DEF resume_interactive_child_if_ready
<1>7. /\ Saves(server) /\ Asks(server, answered)
      /\ server.pid = process.pid /\ server.parent_pid = process.parent_pid
      /\ server.child_pid = interactive_parent.pid /\ server.descriptors = descriptors
  BY <1>1, <1>2, BlockedContext, Zenon
<1> HIDE DEF server
<1>8. nested_ancestors \in Seq(Context) /\ depth \in Nat /\ depth <= NestedCapacity
      /\ depth = Len(nested_ancestors)
  BY Indexed, Zenon DEF IInv, TypeOK, depth
<1>9. WaitsFor(nested_ancestors, server)
  BY <1>2, <1>7, Zenon DEF WaitsFor
<1>10. Below(nested_ancestors, server, nested_ancestors') /\ Linked(nested_ancestors')
  BY <1>2, <1>6, <1>7, <1>8, <1>9, Stacked, Zenon DEF Saves
<1>11. /\ nested_ancestors' \in Seq(Context) /\ Len(nested_ancestors') <= NestedCapacity
       /\ Len(nested_ancestors') = depth + 1 /\ nested_ancestors'[depth + 1] = server
       /\ \A k \in 1..depth : nested_ancestors'[k] = nested_ancestors[k]
  <2>1. depth + 1 <= NestedCapacity
    BY <1>1, <1>8
  <2>2. QED
    BY <1>8, <1>10, <2>1, Zenon DEF Below, Grown
<1>12. \A k \in 1..Len(nested_ancestors') :
         Saves(nested_ancestors'[k]) /\ Asks(nested_ancestors'[k], answered)
  <2>1. \A k \in 1..depth : Saves(nested_ancestors[k]) /\ Asks(nested_ancestors[k], answered)
    BY Zenon DEF IInv, Slots, Frames
  <2>2. \A k \in 1..depth + 1 : k = depth + 1 \/ k \in 1..depth
    BY <1>8, Ranges, Zenon
  <2>3. QED
    BY <1>7, <1>11, <2>1, <2>2, Zenon
<1>13. Alive' = Alive
  BY <1>6, Zenon DEF Alive
<1>14. background.descriptors = {}
  BY Zenon DEF IInv, Parked
<1>15. Kept'
  <2>1. ASSUME NEW p \in Pid
        PROVE  Places(nested_ancestors', parent', interactive_child', interactive_parent',
                      background', p) = Bit(p \in Alive' /\ p # process'.pid)
    <3>1. Places(nested_ancestors, parent, interactive_child, interactive_parent,
                 background, p) = Bit(p \in Alive /\ p # process.pid)
      BY Zenon DEF IInv, Kept
    <3>2. Count(nested_ancestors', Of(p)) = Count(nested_ancestors, Of(p))
                                            + Bit(process.pid = p)
      BY <1>7, <1>10, Zenon DEF Below, Grown
    <3>3. Count(nested_ancestors, Of(p)) \in Nat
      BY <1>8, StackCounts, Zenon
    <3>4. /\ parent' = interactive_parent /\ interactive_child'.pid = 0
          /\ interactive_parent'.pid = 0 /\ parent.pid = 0 /\ background'.snap = 0
          /\ process'.pid = interactive_child.pid /\ p # 0
      BY <1>2, <1>6, PidNumbers, Zenon DEF NoContext, NoBackground
    <3>5. Bit(p \in Alive' /\ p # process'.pid) + Bit(interactive_child.pid = p)
          = Bit(p \in Alive /\ p # process.pid) + Bit(process.pid = p)
      BY <1>3, <1>13, <3>4, SMTT(60) DEF Bit
    <3>6. QED
      BY <3>1, <3>2, <3>3, <3>4, <3>5, SMTT(60) DEF Places, Bit
  <2>2. arena' = Alive' \ {process'.pid}
    BY <1>2, <1>3, <1>6, <1>13, Zenon DEF IInv, Kept, Saves
  <2>3. process'.pid \in Alive'
    BY <1>3, <1>6, <1>13, Zenon
  <2>4. QED
    BY <2>1, <2>2, <2>3, Zenon DEF Kept
<1>16. Counted'
  <2> SUFFICES ASSUME NEW x \in Objects
               PROVE  references'[x] = Tables(nested_ancestors', parent', interactive_child',
                                              interactive_parent', background', x)
                                       + Bit(x \in descriptors')
    BY Zenon DEF Counted, Counts
  <2>1. references[x] = Tables(nested_ancestors, parent, interactive_child,
                               interactive_parent, background, x) + Bit(x \in descriptors)
    BY Zenon DEF IInv, Counted, Counts
  <2>2. Count(nested_ancestors', Having(x)) = Count(nested_ancestors, Having(x))
                                              + Bit(x \in descriptors)
    BY <1>7, <1>10, Zenon DEF Below, Grown
  <2>3. Count(nested_ancestors, Having(x)) \in Nat
    BY <1>8, StackCounts, Zenon
  <2>4. /\ parent' = interactive_parent /\ interactive_child'.descriptors = {}
        /\ interactive_parent'.descriptors = {} /\ parent.descriptors = {}
        /\ background'.descriptors = {} /\ descriptors' = interactive_child.descriptors
        /\ references' = references
    BY <1>2, <1>6, Zenon DEF NoContext, NoBackground
  <2>5. QED
    BY <1>14, <2>1, <2>2, <2>3, <2>4, SMTT(60) DEF Tables, Bit
<1>17. TypeOK'
  <2>1. /\ process' \in [pid : Pid, parent_pid : 0..MaxPid] /\ memory' \in 0..MaxPid
        /\ descriptors' \subseteq Objects /\ interactive_relay_service_pid' \in 0..MaxPid
    BY <1>2, <1>5, <1>6, PidNumbers, Zenon DEF Saves
  <2>2. /\ parent' \in Context /\ interactive_child' \in Context
        /\ interactive_parent' \in Context
    BY <1>2, <1>6, PidNumbers, Zenon DEF NoContext, Context, Saves
  <2>3. arena' \subseteq 0..MaxPid
    <3>1. arena \subseteq 0..MaxPid /\ process.pid \in 0..MaxPid
      BY <1>3, PidNumbers, Zenon DEF IInv, TypeOK
    <3>2. QED
      BY <1>6, <3>1, Zenon
  <2>4. background' \in Background
    BY <1>6, PidNumbers, Zenon DEF NoBackground, Background
  <2>5. QED
    BY <1>6, <1>11, <2>1, <2>2, <2>3, <2>4, Zenon DEF IInv, TypeOK, depth, Background
<1>18. Slots' /\ Frames'
  <2>1. /\ memory' = process'.pid /\ process'.parent_pid < process'.pid
        /\ Slot(parent') /\ Slot(interactive_child') /\ Slot(interactive_parent')
    BY <1>2, <1>6, Zenon DEF Saves, Slot
  <2>2. QED
    BY <1>2, <1>6, <1>12, <2>1, Zenon DEF Slots, Frames, depth
<1>19. Chained(nested_ancestors', parent', process')
  <2>1. WaitsFor(nested_ancestors', interactive_parent)
    BY <1>4, <1>7, <1>11, Zenon DEF WaitsFor
  <2>2. QED
    BY <1>1, <1>2, <1>6, <1>10, <2>1, Zenon DEF Chained
<1>20. Parked(background', nested_ancestors', parent', process', answered)
  BY <1>6, IdleParked, Zenon DEF NoBackground
<1>21. Relays(interactive_child', interactive_parent', interactive_relay_service_pid', answered)
  BY <1>6, Zenon DEF Relays, NoContext, Active
<1>22. ParkAnswersForkOnce'
  BY <1>6, Zenon DEF ParkAnswersForkOnce
<1>23. QED
  BY <1>6, <1>15, <1>16, <1>17, <1>18, <1>19, <1>20, <1>21, <1>22, Zenon DEF IInv

\* The machine stops when the stack cannot take the relay's server.
LEMMA ResumeHaltsKeeps ==
  ASSUME IInv, NEW i, resume_interactive_child_if_ready(i), relayed, background.snap # 0
  PROVE  IInv'
<1>1. UNCHANGED <<kernel, history, waitable_children, next_pid, ready>> /\ halted'
  BY Zenon DEF resume_interactive_child_if_ready
<1>2. Alive' = Alive
  BY <1>1, Zenon DEF Alive, history
<1>3. Kept' /\ Counted'
  BY <1>1, <1>2, Zenon DEF Kept, Counted, IInv, kernel
<1>4. TypeOK'
  BY <1>1, Zenon DEF IInv, TypeOK, kernel, history, depth
<1>5. QED
  BY <1>1, <1>3, <1>4, Zenon
     DEF IInv, kernel, history, Slots, Frames, depth, ParkAnswersForkOnce

\* Resuming the service from the background record keeps the invariant.
LEMMA ResumeBackgroundKeeps ==
  ASSUME SetLaws, IInv, resume_background_if_ready
  PROVE  IInv'
<1> USE ForkAssumption
<1>1. /\ ~halted /\ ~Active(parent) /\ background.used /\ background.wait \in Sockets
  BY Zenon DEF resume_background_if_ready
<1>2. /\ background.snap # 0 /\ background.snap = background.pid
      /\ background.pid \in answered /\ background.parent_pid < background.pid
      /\ depth = 0 /\ background.parent_pid = process.pid
  BY <1>1, Zenon DEF IInv, Parked, depth
<1>3. /\ parent = NoContext /\ memory = process.pid /\ Linked(nested_ancestors)
  BY <1>1, Zenon DEF IInv, Slots, Slot, Saves, Active, Chained
<1>4. /\ background.pid \in Alive \ {process.pid} /\ background.pid \in Pid
      /\ background.parent_pid \in 0..MaxPid /\ background.descriptors \subseteq Objects
      /\ process.pid \in Alive /\ process.pid \in Pid /\ background \in Background
  <2>1. background.pid \in Alive \ {process.pid}
    BY <1>2, Located, Zenon
  <2>2. process.pid \in Alive /\ process.pid \in Pid /\ background \in Background
    BY <1>1, Zenon DEF IInv, Kept, TypeOK, Background
  <2>3. QED
    BY <1>2, <2>1, <2>2, PidNumbers, Zenon DEF Background
<1>5. /\ parent' = Suspended("block", background.pid)
      /\ process' = [pid |-> background.pid, parent_pid |-> background.parent_pid]
      /\ memory' = background.snap /\ descriptors' = background.descriptors
      /\ exited' = exited /\ next_pid' = next_pid /\ halted' = halted
      /\ interactive_child' = interactive_child /\ interactive_parent' = interactive_parent
      /\ interactive_relay_service_pid' = interactive_relay_service_pid
      /\ arena' = (arena \cup {process.pid}) \ {background.snap}
      /\ references' = references /\ waitable_children' = waitable_children
      /\ ready' = ready /\ nested_ancestors' = nested_ancestors
      /\ answered' = answered /\ outcome' = outcome
  BY <1>3, Zenon DEF resume_background_if_ready, parked, history
<1>6. /\ Saves(parent') /\ Asks(parent', answered) /\ Active(parent')
      /\ parent'.pid = process.pid /\ parent'.parent_pid = process.parent_pid
      /\ parent'.child_pid = background.pid /\ parent'.descriptors = descriptors
  BY <1>1, <1>2, <1>5, BlockedContext, Zenon
<1>7. /\ background' \in Background /\ background'.snap = 0
      /\ background'.descriptors = {} /\ background'.wait = "none"
  <2> DEFINE none == "none"
             zero == 0
             empty == {}
  <2>1. background' = [background EXCEPT !.wait = none, !.snap = zero, !.descriptors = empty]
    BY Zenon DEF resume_background_if_ready
  <2>2. none \in Sockets \cup {"none"} /\ zero \in 0..MaxPid /\ empty \in SUBSET Objects
    BY PidNumbers, Zenon
  <2>3. none = "none" /\ zero = 0 /\ empty = {}
    BY Zenon
  <2> HIDE DEF none, zero, empty
  <2>4. /\ background' \in Background /\ background'.snap = zero
        /\ background'.descriptors = empty /\ background'.wait = none
    <3>1. background \in Background
      BY <1>4, Zenon
    <3>2. QED
      BY <2>1, <2>2, <3>1, Zenon DEF Background
  <2>5. QED
    BY <2>3, <2>4, Zenon
<1>8. Alive' = Alive
  BY <1>5, Zenon DEF Alive
<1>9. Kept'
  <2>1. ASSUME NEW p \in Pid
        PROVE  Places(nested_ancestors', parent', interactive_child', interactive_parent',
                      background', p) = Bit(p \in Alive' /\ p # process'.pid)
    <3>1. Places(nested_ancestors, parent, interactive_child, interactive_parent,
                 background, p) = Bit(p \in Alive /\ p # process.pid)
      BY Zenon DEF IInv, Kept
    <3>2. Count(nested_ancestors, Of(p)) \in Nat
      BY StackCounts, Zenon DEF IInv, TypeOK
    <3>3. /\ parent'.pid = process.pid /\ parent.pid = 0 /\ background'.snap = 0
          /\ process'.pid = background.snap /\ p # 0
          /\ nested_ancestors' = nested_ancestors
          /\ interactive_child' = interactive_child /\ interactive_parent' = interactive_parent
      BY <1>2, <1>3, <1>5, <1>6, <1>7, PidNumbers, Zenon DEF NoContext
    <3>4. Bit(p \in Alive' /\ p # process'.pid) + Bit(background.snap = p)
          = Bit(p \in Alive /\ p # process.pid) + Bit(process.pid = p)
      <4>1. /\ Alive' = Alive /\ process'.pid = background.snap /\ process.pid \in Alive
            /\ background.snap \in Alive
        BY <1>2, <1>4, <1>8, <3>3, Zenon
      <4>2. QED
        BY <4>1, SMTT(60) DEF Bit
    <3>5. QED
      BY <3>1, <3>2, <3>3, <3>4, SMTT(60) DEF Places, Bit
  <2>2. arena' = Alive' \ {process'.pid}
    BY <1>2, <1>4, <1>5, <1>8, Zenon DEF IInv, Kept
  <2>3. process'.pid \in Alive'
    BY <1>4, <1>5, <1>8, Zenon
  <2>4. QED
    BY <2>1, <2>2, <2>3, Zenon DEF Kept
<1>10. Counted'
  <2> SUFFICES ASSUME NEW x \in Objects
               PROVE  references'[x] = Tables(nested_ancestors', parent', interactive_child',
                                              interactive_parent', background', x)
                                       + Bit(x \in descriptors')
    BY Zenon DEF Counted, Counts
  <2>1. references[x] = Tables(nested_ancestors, parent, interactive_child,
                               interactive_parent, background, x) + Bit(x \in descriptors)
    BY Zenon DEF IInv, Counted, Counts
  <2>2. Count(nested_ancestors, Having(x)) \in Nat
    BY StackCounts, Zenon DEF IInv, TypeOK
  <2>3. /\ parent'.descriptors = descriptors /\ parent.descriptors = {}
        /\ background'.descriptors = {} /\ descriptors' = background.descriptors
        /\ nested_ancestors' = nested_ancestors /\ references' = references
        /\ interactive_child' = interactive_child /\ interactive_parent' = interactive_parent
    BY <1>3, <1>5, <1>6, <1>7, Zenon DEF NoContext
  <2>4. QED
    <3> DEFINE k == Count(nested_ancestors, Having(x))
               a == Bit(x \in descriptors)
               b == Bit(x \in interactive_child.descriptors)
               c == Bit(x \in interactive_parent.descriptors)
               g == Bit(x \in background.descriptors)
    <3>1. /\ Bit(x \in parent.descriptors) = 0 /\ Bit(x \in background'.descriptors) = 0
          /\ Bit(x \in parent'.descriptors) = a /\ Bit(x \in descriptors') = g
          /\ a \in Nat /\ b \in Nat /\ c \in Nat /\ g \in Nat /\ k \in Nat
      BY <2>2, <2>3, Zenon DEF Bit
    <3>2. references[x] = k + 0 + b + c + g + a
      BY <2>1, <3>1, Zenon DEF Tables
    <3>3. Tables(nested_ancestors', parent', interactive_child', interactive_parent',
                 background', x) + Bit(x \in descriptors') = k + a + b + c + 0 + g
      BY <2>3, <3>1, Zenon DEF Tables
    <3> HIDE DEF a, b, c, g, k
    <3>4. k + 0 + b + c + g + a = k + a + b + c + 0 + g
      BY <3>1
    <3>5. QED
      BY <2>3, <3>2, <3>3, <3>4, Zenon
<1>11. TypeOK'
  <2>1. /\ process' \in [pid : Pid, parent_pid : 0..MaxPid] /\ memory' \in 0..MaxPid
        /\ descriptors' \subseteq Objects /\ parent' \in Context
    BY <1>2, <1>4, <1>5, <1>6, PidNumbers, Zenon DEF Saves
  <2>2. arena' \subseteq 0..MaxPid
    <3>1. arena \subseteq 0..MaxPid /\ process.pid \in 0..MaxPid
      BY <1>4, PidNumbers, Zenon DEF IInv, TypeOK
    <3>2. QED
      BY <1>5, <3>1, Zenon
  <2>3. QED
    BY <1>5, <1>7, <2>1, <2>2, Zenon DEF IInv, TypeOK, depth, Background
<1>12. Slots' /\ Frames'
  BY <1>2, <1>5, <1>6, Zenon DEF Slots, Frames, IInv, depth, Slot
<1>13. Chained(nested_ancestors', parent', process')
  BY <1>2, <1>3, <1>5, <1>6, Zenon DEF Chained, WaitsFor, depth
<1>14. Parked(background', nested_ancestors', parent', process', answered)
  BY <1>7, IdleParked, Zenon DEF Sockets
<1>15. QED
  BY <1>5, <1>9, <1>10, <1>11, <1>12, <1>13, <1>14, Zenon DEF IInv, ParkAnswersForkOnce

-----------------------------------------------------------------------------
(* The calls that move no context.                                         *)

\* Opening and closing descriptors keeps the invariant.
LEMMA DescriptorsKeep ==
  ASSUME SetLaws, IInv, NEW o \in Objects, open(o) \/ close(o)
  PROVE  IInv'
<1>1. UNCHANGED <<process, memory, parent, nested_ancestors, background, interactive_child,
                  interactive_parent, interactive_relay_service_pid, arena,
                  waitable_children, next_pid, halted, exited, answered, outcome>>
  BY Zenon DEF open, close, parked, history
<1>2. /\ \/ o \notin descriptors /\ descriptors' = descriptors \cup {o}
            /\ references' = Recount({o}, {})
         \/ o \in descriptors /\ descriptors' = descriptors \ {o}
            /\ references' = Recount({}, {o})
      /\ ready' \subseteq Objects
  BY Zenon DEF open, close, StillOpen, IInv, TypeOK
<1>3. Counted'
  <2> SUFFICES ASSUME NEW x \in Objects
               PROVE  references'[x] = Tables(nested_ancestors, parent, interactive_child,
                                              interactive_parent, background, x)
                                       + Bit(x \in descriptors')
    BY <1>1, Zenon DEF Counted, Counts
  <2>1. references[x] = Tables(nested_ancestors, parent, interactive_child,
                               interactive_parent, background, x) + Bit(x \in descriptors)
    BY Zenon DEF IInv, Counted, Counts
  <2>2. Tables(nested_ancestors, parent, interactive_child, interactive_parent,
               background, x) \in 0..Len(nested_ancestors) + 4
    BY TablesBounded, Zenon DEF IInv, TypeOK
  <2>3. QED
    BY <1>2, <2>1, <2>2, SMTT(60) DEF Recount, Bit
<1>4. references' \in [Objects -> 0..(NestedCapacity + 5)]
  <2>1. references' = [x \in Objects |-> references'[x]]
    BY <1>2, Zenon DEF Recount
  <2>2. nested_ancestors' \in Seq(Context) /\ Len(nested_ancestors') <= NestedCapacity
    BY <1>1, Zenon DEF IInv, TypeOK, depth
  <2>3. QED
    BY <1>3, <2>1, <2>2, ReferencesTyped, Zenon DEF Counted
<1>5. TypeOK'
  BY <1>1, <1>2, <1>4, Zenon DEF IInv, TypeOK, depth
<1>6. Kept'
  BY <1>1, Zenon DEF IInv, Kept, Alive
<1>7. QED
  BY <1>1, <1>3, <1>5, <1>6, Zenon DEF IInv, Slots, Frames, depth, ParkAnswersForkOnce

\* The end of the last process, wait4 and what the outside does keep the invariant.
LEMMA OthersKeep ==
  ASSUME SetLaws, IInv,
         \/ exit_last
         \/ \E z \in waitable_children : wait4(z)
         \/ \E o \in Objects : arrive(o) \/ consume(o)
         \/ UNCHANGED vars
  PROVE  IInv'
<1>1. /\ UNCHANGED <<kernel, next_pid, answered, outcome>>
      /\ \/ exited' = exited /\ halted' = halted
         \/ exited' = exited \cup {process.pid} /\ halted'
      /\ ready' \subseteq Objects /\ waitable_children' \subseteq waitable_children
      /\ halted' \in BOOLEAN
  BY Zenon DEF exit_last, wait4, arrive, consume, vars, history, IInv, TypeOK
<1>2. Alive' \ {process.pid} = Alive \ {process.pid} /\ (~halted' => ~halted /\ Alive' = Alive)
  BY <1>1 DEF Alive
<1>3. Kept'
  <2>1. \A p \in Pid : (p \in Alive' /\ p # process.pid) <=> (p \in Alive /\ p # process.pid)
    BY <1>2, Zenon
  <2>2. \A p \in Pid : Bit(p \in Alive' /\ p # process.pid) = Bit(p \in Alive /\ p # process.pid)
    BY <2>1, Zenon DEF Bit
  <2>3. UNCHANGED <<nested_ancestors, parent, interactive_child, interactive_parent,
                    background, process, arena>>
    BY <1>1, Zenon DEF kernel
  <2>4. \A p \in Pid : Places(nested_ancestors', parent', interactive_child',
                              interactive_parent', background', p)
                       = Bit(p \in Alive' /\ p # process'.pid)
    BY <2>2, <2>3, Zenon DEF IInv, Kept
  <2>5. QED
    BY <1>2, <2>3, <2>4, Zenon DEF IInv, Kept
<1>4. /\ IsFiniteSet(waitable_children')
      /\ Cardinality(waitable_children') <= WaitableCapacity
  <2>1. /\ IsFiniteSet(waitable_children')
        /\ Cardinality(waitable_children') <= Cardinality(waitable_children)
    BY <1>1, Zenon DEF IInv, SetLaws
  <2>2. Cardinality(waitable_children') \in Nat /\ Cardinality(waitable_children) \in Nat
    BY <2>1, Zenon DEF IInv, SetLaws
  <2>3. QED
    BY <2>1, <2>2, ForkAssumption DEF IInv, TypeOK
<1>5. TypeOK' /\ exited' \subseteq 1..next_pid' - 1
  <2>1. process.pid \in Pid /\ (exited' # exited => process.pid \in 1..next_pid - 1)
    <3>1. exited' # exited => ~halted
      BY Zenon DEF exit_last, wait4, arrive, consume, vars, history
    <3>2. QED
      BY <3>1, Zenon DEF IInv, TypeOK, Kept, Alive
  <2>2. exited' \subseteq Pid /\ exited' \subseteq 1..next_pid' - 1
    BY <1>1, <2>1, Zenon DEF IInv, TypeOK
  <2>3. QED
    BY <1>1, <1>4, <2>2, Zenon DEF IInv, TypeOK, kernel, depth
<1>6. QED
  BY <1>1, <1>3, <1>4, <1>5, Zenon
     DEF IInv, Counted, Slots, Frames, depth, ParkAnswersForkOnce, kernel

-----------------------------------------------------------------------------

\* The invariant holds when the console shell starts.
LEMMA InitIInv ==
  ASSUME SetLaws, Init
  PROVE  IInv
<1> USE ForkAssumption
<1>1. depth = 0 /\ Alive = {1} /\ waitable_children = {} /\ nested_ancestors \in Seq(Context)
  BY DEF Init, depth, Alive
<1>2. IsFiniteSet({}) /\ Cardinality({}) = 0
  BY Zenon DEF SetLaws
<1>3. NoContext \in Context /\ NoBackground \in Background
  BY PidNumbers, Zenon DEF NoContext, Context, NoBackground, Background
<1>4. TypeOK
  <2>1. /\ process \in [pid : Pid, parent_pid : 0..MaxPid] /\ memory \in 0..MaxPid
        /\ next_pid \in 2..(MaxPid + 1)
    BY DEF Init, Pid
  <2>2. references \in [Objects -> 0..(NestedCapacity + 5)]
    BY DEF Init
  <2>3. QED
    <3>1. /\ parent \in Context /\ interactive_child \in Context
          /\ interactive_parent \in Context /\ background \in Background
          /\ interactive_relay_service_pid \in 0..MaxPid
      BY <1>3, PidNumbers, Zenon DEF Init
    <3>2. /\ Cardinality(waitable_children) <= WaitableCapacity /\ depth <= NestedCapacity
          /\ waitable_children \subseteq [pid : Pid, parent_pid : Pid]
      BY <1>1, <1>2
    <3>3. /\ descriptors \subseteq Objects /\ arena \subseteq 0..MaxPid
          /\ ready \subseteq Objects /\ halted \in BOOLEAN
          /\ exited \subseteq Pid /\ answered \subseteq Pid
      BY Zenon DEF Init
    <3>4. QED
      BY <1>1, <2>1, <2>2, <3>1, <3>2, <3>3, Zenon DEF TypeOK, Background
<1>5. Slots /\ Frames
  <2>1. 1..depth = {} /\ 0 < 1
    BY <1>1
  <2>2. /\ process.pid = 1 /\ process.parent_pid = 0 /\ memory = 1 /\ parent = NoContext
        /\ interactive_child = NoContext /\ interactive_parent = NoContext
        /\ NoContext.pid = 0
    BY Zenon DEF Init, NoContext
  <2>3. QED
    BY <2>1, <2>2, Zenon DEF Slots, Slot, Frames, Active
<1>6. \A p, o : /\ Count(nested_ancestors, Of(p)) = 0
                /\ Count(nested_ancestors, Having(o)) = 0
  BY <1>1, CountEmpty, Zenon DEF depth
<1>7. Kept
  <2>1. \A p \in Pid : Places(nested_ancestors, parent, interactive_child,
                              interactive_parent, background, p) = 0
    BY <1>6, SMTT(60) DEF Init, Places, Bit, NoContext, NoBackground, Pid
  <2>2. QED
    BY <1>1, <2>1, Zenon DEF Init, Kept, Bit
<1>8. Counted
  <2>1. \A o : /\ o \in Objects => references[o] = 0
              /\ Bit(o \in parent.descriptors) = 0 /\ Bit(o \in background.descriptors) = 0
              /\ Bit(o \in interactive_child.descriptors) = 0
              /\ Bit(o \in interactive_parent.descriptors) = 0 /\ Bit(o \in descriptors) = 0
    BY Zenon DEF Init, Bit, NoContext, NoBackground
  <2>2. 0 + 0 + 0 + 0 + 0 + 0 = 0
    OBVIOUS
  <2>3. QED
    BY <1>6, <2>1, <2>2, Zenon DEF Counted, Counts, Tables
<1>9. /\ Chained(nested_ancestors, parent, process)
      /\ Parked(background, nested_ancestors, parent, process, answered)
      /\ Relays(interactive_child, interactive_parent, interactive_relay_service_pid, answered)
  <2>1. Len(nested_ancestors) = 0
    BY <1>1, Zenon DEF depth
  <2>2. Linked(nested_ancestors)
    BY <2>1 DEF Linked
  <2>3. Chained(nested_ancestors, parent, process)
    BY <2>1, <2>2, Zenon DEF Chained, WaitsFor, Init, NoContext, Active
  <2>4. Parked(background, nested_ancestors, parent, process, answered)
    BY IdleParked, Zenon DEF Init, NoBackground
  <2>5. QED
    BY <2>3, <2>4, Zenon DEF Init, Relays, NoContext, Active
<1>10. ParkAnswersForkOnce
  BY Zenon DEF Init, ParkAnswersForkOnce, NoOutcome
<1>11. QED
  BY <1>2, <1>4, <1>5, <1>7, <1>8, <1>9, <1>10, Zenon DEF Init, IInv

\* Every step of the fork adapter keeps the invariant.
LEMMA StepKeeps ==
  ASSUME SetLaws, IInv, ListenerAtTop, [Next]_vars
  PROVE  IInv'
<1>1. CASE clone
  BY <1>1, CloneKeeps, Zenon
<1>2. CASE clone_no_memory
  BY <1>2, CloneNoMemoryKeeps, Zenon
<1>3. CASE exit_child
  BY <1>3, ExitKeeps, Zenon
<1>4. CASE \E o \in Objects : open(o) \/ close(o)
  BY <1>4, DescriptorsKeep, Zenon
<1>5. CASE \E o \in Sockets : park_background(o)
  BY <1>5, ParkBackgroundKeeps, Zenon
<1>6. CASE \E o \in Sockets : park_background_no_memory(o)
  BY <1>6, ParkBackgroundNoMemoryKeeps, Zenon
<1>7. CASE resume_background_if_ready
  BY <1>7, ResumeBackgroundKeeps, Zenon
<1>8. CASE park_interactive_child
  BY <1>8, ParkDirectKeeps, ParkRelayKeeps, Zenon
<1>9. CASE \E i \in BOOLEAN : resume_interactive_child_if_ready(i)
  BY <1>9, ResumeDirectKeeps, ResumeRelayedKeeps, ResumeHaltsKeeps, Zenon
<1>10. CASE \/ exit_last
            \/ \E z \in waitable_children : wait4(z)
            \/ \E o \in Objects : arrive(o) \/ consume(o)
            \/ UNCHANGED vars
  BY <1>10, OthersKeep, Zenon
<1>11. QED
  BY <1>1, <1>2, <1>3, <1>4, <1>5, <1>6, <1>7, <1>8, <1>9, <1>10, Zenon DEF Next

-----------------------------------------------------------------------------
(* The invariants of the adapter.                                          *)

\* The background record as a saved context.
BackgroundContext ==
  [NoContext EXCEPT !.pid = IF background.snap = 0 THEN 0 ELSE background.pid,
                    !.snap = background.snap, !.descriptors = background.descriptors]

\* The context the background record stands for.
LEMMA BackgroundSaved ==
  ASSUME IInv
  PROVE  /\ BackgroundContext \in Context /\ BackgroundContext.pid = background.snap
         /\ BackgroundContext.snap = background.snap
         /\ BackgroundContext.descriptors = background.descriptors
<1>1. background.snap # 0 => background.snap = background.pid
  BY Zenon DEF IInv, Parked
<1>2. (IF background.snap = 0 THEN 0 ELSE background.pid) = background.snap
  BY <1>1, Zenon
<1>3. background.snap \in 0..MaxPid /\ background.descriptors \in SUBSET Objects
  BY Zenon DEF IInv, TypeOK
<1>4. NoContext \in Context
  BY ForkAssumption, PidNumbers, Zenon DEF NoContext, Context
<1>5. BackgroundContext = [NoContext EXCEPT !.pid = background.snap, !.snap = background.snap,
                                            !.descriptors = background.descriptors]
  BY <1>2, Zenon DEF BackgroundContext
<1>6. QED
  BY <1>3, <1>4, <1>5, Zenon DEF Context

\* The saved contexts, listed: their counts are the ones of the invariant.
LEMMA SavedStack ==
  ASSUME SetLaws, IInv
  PROVE  /\ Saved \in Seq(Context)
         /\ \A p : Count(Saved, Of(p))
              = Places(nested_ancestors, parent, interactive_child, interactive_parent,
                       background, p)
         /\ \A o : Count(Saved, Having(o))
              = Tables(nested_ancestors, parent, interactive_child, interactive_parent,
                       background, o)
         /\ \A i \in 1..Len(Saved) : Saved[i].snap = Saved[i].pid
<1> DEFINE n == nested_ancestors
           n1 == Append(n, parent)
           n2 == Append(n1, interactive_child)
           n3 == Append(n2, interactive_parent)
           n4 == Append(n3, BackgroundContext)
<1>1. /\ n \in Seq(Context) /\ parent \in Context /\ interactive_child \in Context
      /\ interactive_parent \in Context
  BY Zenon DEF IInv, TypeOK
<1>2. /\ BackgroundContext \in Context /\ BackgroundContext.pid = background.snap
      /\ BackgroundContext.snap = background.snap
      /\ BackgroundContext.descriptors = background.descriptors
  BY BackgroundSaved, Zenon
<1>3. Saved = n4
  BY <1>1, <1>2 DEF Saved, BackgroundContext
<1>4. Grown(n, parent, n1) /\ n1 \in Seq(Context)
  BY <1>1, Pushed
<1> HIDE DEF n1
<1>5. Grown(n1, interactive_child, n2) /\ n2 \in Seq(Context)
  BY <1>1, <1>4, Pushed
<1> HIDE DEF n2
<1>6. Grown(n2, interactive_parent, n3) /\ n3 \in Seq(Context)
  BY <1>1, <1>5, Pushed
<1> HIDE DEF n3
<1>7. Grown(n3, BackgroundContext, n4) /\ n4 \in Seq(Context)
  BY <1>2, <1>6, Pushed
<1> HIDE DEF n4
<1>8. ASSUME NEW p
      PROVE  Count(n4, Of(p)) = Places(n, parent, interactive_child, interactive_parent,
                                       background, p)
  <2>1. /\ Count(n1, Of(p)) = Count(n, Of(p)) + Bit(parent.pid = p)
        /\ Count(n2, Of(p)) = Count(n1, Of(p)) + Bit(interactive_child.pid = p)
        /\ Count(n3, Of(p)) = Count(n2, Of(p)) + Bit(interactive_parent.pid = p)
        /\ Count(n4, Of(p)) = Count(n3, Of(p)) + Bit(background.snap = p)
    <3>1. Count(n1, Of(p)) = Count(n, Of(p)) + Bit(parent.pid = p)
      BY <1>4, Zenon DEF Grown
    <3>2. Count(n2, Of(p)) = Count(n1, Of(p)) + Bit(interactive_child.pid = p)
      BY <1>5, Zenon DEF Grown
    <3>3. Count(n3, Of(p)) = Count(n2, Of(p)) + Bit(interactive_parent.pid = p)
      BY <1>6, Zenon DEF Grown
    <3>4. Count(n4, Of(p)) = Count(n3, Of(p)) + Bit(background.snap = p)
      BY <1>2, <1>7, Zenon DEF Grown
    <3>5. QED
      BY <3>1, <3>2, <3>3, <3>4, Zenon
  <2>2. QED
    BY <2>1, Zenon DEF Places
<1>9. ASSUME NEW o
      PROVE  Count(n4, Having(o)) = Tables(n, parent, interactive_child, interactive_parent,
                                           background, o)
  <2>1. /\ Count(n1, Having(o)) = Count(n, Having(o)) + Bit(o \in parent.descriptors)
        /\ Count(n2, Having(o)) = Count(n1, Having(o))
                                  + Bit(o \in interactive_child.descriptors)
        /\ Count(n3, Having(o)) = Count(n2, Having(o))
                                  + Bit(o \in interactive_parent.descriptors)
        /\ Count(n4, Having(o)) = Count(n3, Having(o)) + Bit(o \in background.descriptors)
    <3>1. Count(n1, Having(o)) = Count(n, Having(o)) + Bit(o \in parent.descriptors)
      BY <1>4, Zenon DEF Grown
    <3>2. Count(n2, Having(o)) = Count(n1, Having(o)) + Bit(o \in interactive_child.descriptors)
      BY <1>5, Zenon DEF Grown
    <3>3. Count(n3, Having(o)) = Count(n2, Having(o)) + Bit(o \in interactive_parent.descriptors)
      BY <1>6, Zenon DEF Grown
    <3>4. Count(n4, Having(o)) = Count(n3, Having(o)) + Bit(o \in background.descriptors)
      BY <1>2, <1>7, Zenon DEF Grown
    <3>5. QED
      BY <3>1, <3>2, <3>3, <3>4, Zenon
  <2>2. QED
    BY <2>1, Zenon DEF Tables
<1>10. Saving(n4)
  <2>0. Len(n) \in Nat /\ Len(n1) \in Nat /\ Len(n2) \in Nat /\ Len(n3) \in Nat
    BY <1>1, <1>4, <1>5, <1>6, Indexed, Zenon
  <2>1. Saving(n)
    BY Zenon DEF Saving, IInv, Slots, Saves, depth
  <2>2. /\ parent.snap = parent.pid /\ interactive_child.snap = interactive_child.pid
        /\ interactive_parent.snap = interactive_parent.pid
    <3>1. NoContext.snap = NoContext.pid
      BY Zenon DEF NoContext
    <3>2. QED
      BY <3>1, Zenon DEF IInv, Slots, Slot, Saves
  <2>3. Saving(n1)
    BY <1>1, <1>4, <2>1, <2>2, <2>0, GrownSaves, Zenon
  <2>4. Saving(n2)
    BY <1>4, <1>5, <2>2, <2>3, <2>0, GrownSaves, Zenon
  <2>5. Saving(n3)
    BY <1>5, <1>6, <2>2, <2>4, <2>0, GrownSaves, Zenon
  <2>6. QED
    BY <1>2, <1>6, <1>7, <2>5, <2>0, GrownSaves, Zenon
<1>11. QED
  BY <1>3, <1>7, <1>8, <1>9, <1>10, Zenon DEF Saving

\* The invariant keeps every process.
LEMMA KeptProcesses ==
  ASSUME SetLaws, IInv
  PROVE  EveryProcessKept
<1> DEFINE all == Saved
<1>1. /\ all \in Seq(Context) /\ DOMAIN all = 1..Len(all)
      /\ \A i \in 1..Len(all) : all[i] \in Context /\ all[i].snap = all[i].pid
  BY SavedStack, Indexed, Zenon
<1>2. \A p \in Pid : Count(all, Of(p)) = Bit(p \in Alive /\ p # process.pid)
  BY SavedStack, Zenon DEF IInv, Kept
<1>3. \A p : Holding(p) = {i \in 1..Len(all) : all[i] \in Of(p)}
  BY <1>1, Zenon DEF Holding, Of
<1>4. \A p : Cardinality(Holding(p)) = Count(all, Of(p))
  BY <1>3, Zenon DEF Count
<1>5. \A p : Count(all, Of(p)) = 0 <=> Holding(p) = {}
  <2>1. \A p : Count(all, Of(p)) = 0 <=> \A i \in 1..Len(all) : all[i] \notin Of(p)
    BY <1>1, CountSeen, Zenon
  <2>2. QED
    BY <1>3, <2>1, Zenon
<1>6. memory = process.pid /\ arena = Alive \ {process.pid} /\ Alive \subseteq Pid
  BY ForkAssumption, Typed, PidNumbers, Zenon DEF IInv, Slots, Kept
<1> HIDE DEF all
<1>7. \A p \in Pid : p \in {all[i].snap : i \in DOMAIN all} <=> p \in Alive \ {process.pid}
  <2> SUFFICES ASSUME NEW p \in Pid
               PROVE  p \in {all[i].snap : i \in DOMAIN all} <=> p \in Alive \ {process.pid}
    BY Zenon
  <2>1. p \in {all[i].snap : i \in DOMAIN all} <=> Holding(p) # {}
    BY <1>1, <1>3, Zenon DEF Of
  <2>2. Count(all, Of(p)) = 0 <=> ~(p \in Alive /\ p # process.pid)
    BY <1>2, PidNumbers, Zenon DEF Bit
  <2>3. QED
    BY <1>5, <2>1, <2>2, Zenon
<1>8. \A i \in DOMAIN all : all[i].snap # 0 => all[i].snap \in Pid
  BY <1>1, ForkAssumption, PidNumbers, Zenon DEF Context
<1>9. ImagesOwned
  <2>1. arena = {all[i].snap : i \in DOMAIN all} \ {0}
    <3>1. 0 \notin Pid
      BY PidNumbers, Zenon
    <3>2. QED
      BY <1>6, <1>7, <1>8, <3>1, Zenon
  <2>2. QED
    BY <1>1, <1>6, <2>1, Zenon DEF ImagesOwned, all
<1>10. ASSUME ~halted
       PROVE  /\ process.pid \in Alive /\ Holding(process.pid) = {}
              /\ \A p \in Alive \ {process.pid} : Cardinality(Holding(p)) = 1
              /\ \A p \in exited : Holding(p) = {}
  <2>1. process.pid \in Alive
    BY <1>10, Zenon DEF IInv, Kept
  <2>2. Holding(process.pid) = {}
    BY <1>2, <1>5, <1>6, <2>1, Zenon DEF Bit
  <2>3. \A p \in Alive \ {process.pid} : Cardinality(Holding(p)) = 1
    BY <1>2, <1>4, <1>6, Zenon DEF Bit
  <2>4. exited \subseteq Pid /\ \A p \in exited : p \notin Alive
    BY Zenon DEF IInv, TypeOK, Alive
  <2>5. \A p \in exited : Holding(p) = {}
    BY <1>2, <1>5, <2>4, Zenon DEF Bit
  <2>6. QED
    BY <2>1, <2>2, <2>3, <2>5, Zenon
<1>11. QED
  BY <1>9, <1>10, Zenon DEF EveryProcessKept, IInv

\* The invariant counts the references exactly.
LEMMA CountedReferences ==
  ASSUME SetLaws, IInv
  PROVE  ReferencesExact
<1>1. /\ Saved \in Seq(Context) /\ DOMAIN Saved = 1..Len(Saved)
      /\ \A i \in 1..Len(Saved) : Saved[i] \in Context
  BY SavedStack, Indexed, Zenon
<1>2. \A o : {i \in DOMAIN Saved : o \in Saved[i].descriptors}
             = {i \in 1..Len(Saved) : Saved[i] \in Having(o)}
  BY <1>1, Zenon DEF Having
<1>3. \A o \in Objects : references[o] = Count(Saved, Having(o)) + Bit(o \in descriptors)
  BY SavedStack, Zenon DEF IInv, Counted, Counts
<1>4. \A o : Count(Saved, Having(o))
             = Cardinality({i \in DOMAIN Saved : o \in Saved[i].descriptors})
  BY <1>2, Zenon DEF Count
<1>5. QED
  BY <1>3, <1>4, Zenon DEF ReferencesExact, Bit

\* The invariant orders the ancestors.
LEMMA OrderedAncestry ==
  ASSUME SetLaws, IInv
  PROVE  AncestryOrdered
<1> DEFINE n == nested_ancestors
           chain == n \o (IF Active(parent) THEN <<parent>> ELSE <<>>)
<1>1. n \in Seq(Context) /\ Len(n) \in Nat /\ parent \in Context
  BY Indexed, Zenon DEF IInv, TypeOK
<1>2. Chained(n, parent, process)
  BY Zenon DEF IInv
<1>3. CASE Active(parent)
  <2>1. chain = Append(n, parent)
    BY <1>1, <1>3
  <2>2. Linked(Append(n, parent))
    BY <1>1, <1>2, <1>3, Stacked, Zenon DEF Chained
  <2>3. QED
    BY <1>2, <1>3, <2>1, <2>2, Zenon DEF AncestryOrdered, Linked, Chained
<1>4. CASE ~Active(parent)
  <2>1. chain = n
    BY <1>1, <1>4
  <2>2. QED
    BY <1>2, <1>4, <2>1, Zenon DEF AncestryOrdered, Linked, Chained
<1>5. QED
  BY <1>3, <1>4, Zenon

\* The second process cannot have a grandparent to be stacked.
LEMMA SecondAtTop ==
  ASSUME IInv, Services \subseteq {2}
  PROVE  ListenerAtTop
<1> SUFFICES ASSUME CanParkBackground("listener"), depth # 0
             PROVE  FALSE
  BY Zenon DEF ListenerAtTop
<1>1. Active(parent) /\ process.pid = 2
  BY Zenon DEF CanParkBackground
<1>2. Saves(parent) /\ parent.pid < 2 /\ WaitsFor(nested_ancestors, parent)
  <2>1. Slot(parent) /\ Active(parent) /\ WaitsFor(nested_ancestors, parent)
        /\ process.parent_pid = parent.pid
    BY <1>1, Zenon DEF IInv, Slots, Chained
  <2>2. Saves(parent)
    <3>1. NoContext.pid = 0
      BY Zenon DEF NoContext
    <3>2. QED
      BY <2>1, <3>1, Zenon DEF Slot, Active
  <2>3. QED
    BY <1>1, <2>1, <2>2, Zenon DEF IInv, Slots
<1>3. parent.parent_pid = nested_ancestors[depth].pid
  BY <1>2, Zenon DEF WaitsFor, depth
<1>4. nested_ancestors[depth] \in Context /\ nested_ancestors[depth].pid # 0
  <2>1. depth \in 1..depth
    BY PidNumbers, Ranges, Indexed, Zenon DEF IInv, TypeOK, depth
  <2>2. QED
    BY <2>1, Zenon DEF IInv, Slots, Saves
<1>5. /\ nested_ancestors[depth].pid \in 0..MaxPid /\ parent.pid \in 0..MaxPid
      /\ parent.parent_pid < parent.pid
  BY <1>2, <1>4, Zenon DEF Context, Saves
<1>6. QED
  BY <1>2, <1>3, <1>4, <1>5, ForkAssumption

-----------------------------------------------------------------------------
(* Signal states.                                                          *)

\* A state that blocks and catches neither SIGKILL nor SIGSTOP.
Proper(state) ==
  /\ state \in SignalState
  /\ \A s \in uncatchable_mask \cap Signals : state.action[s] = DefaultAction

\* SignalState::next picks a member of a set that is not empty.
LEMMA LowestIn ==
  ASSUME SetLaws, NEW S \in SUBSET Nat, S # {}
  PROVE  Lowest(S) \in S
<1>1. PICK n \in S : \A m \in S : n <= m
  BY Zenon DEF SetLaws
<1>2. QED
  BY <1>1, Zenon DEF Lowest

\* The signals of the first process are proper.
LEMMA NoSignalsProper == Proper(NoSignals)
<1>1. DefaultAction \in Action
  BY Zenon DEF DefaultAction, Action, Handlers
<1>2. NoSignals.action = [s \in Signals |-> DefaultAction]
  BY Zenon DEF NoSignals
<1>3. NoSignals \in SignalState
  BY <1>1, ForkAssumption, PidNumbers, Zenon DEF NoSignals, SignalState
<1>4. QED
  BY <1>2, <1>3, Zenon DEF Proper

\* What the operations on a state leave alone.
LEMMA QueueProper ==
  ASSUME NEW state, Proper(state), NEW s \in Signals
  PROVE  /\ Proper(queue(state, s)) /\ queue(state, s).pending = state.pending \cup {s}
         /\ queue(state, s).blocked = state.blocked /\ queue(state, s).group = state.group
BY Zenon DEF Proper, SignalState, queue

\* A handler's return, which restores a mask, leaves the signals proper.
LEMMA MaskProper ==
  ASSUME NEW state, Proper(state), NEW set \in SUBSET Signals, NEW h \in BOOLEAN
  PROVE  LET new == change_mask([state EXCEPT !.handling = h], set)
         IN  Proper(new) /\ new.pending = state.pending
BY Zenon DEF Proper, SignalState, change_mask

\* rt_sigprocmask leaves the signals proper.
LEMMA PlainMaskProper ==
  ASSUME NEW state, Proper(state), NEW set \in SUBSET Signals
  PROVE  Proper(change_mask(state, set)) /\ change_mask(state, set).pending = state.pending
BY Zenon DEF Proper, SignalState, change_mask

\* rt_sigaction leaves the signals proper.
LEMMA SetActionProper ==
  ASSUME NEW state, Proper(state), NEW s \in Signals \ uncatchable_mask, NEW action \in Action
  PROVE  /\ Proper(set_action(state, s, action))
         /\ set_action(state, s, action).pending = state.pending
<1> DEFINE a == [action EXCEPT !.mask = @ \ uncatchable_mask]
           f == [state.action EXCEPT ![s] = a]
<1>1. a \in Action
  BY Zenon DEF Action
<1> HIDE DEF a
<1>2. state.action \in [Signals -> Action]
  BY Zenon DEF Proper, SignalState
<1>3. f \in [Signals -> Action] /\ \A t \in Signals \ {s} : f[t] = state.action[t]
  BY <1>1, <1>2, Zenon
<1> HIDE DEF f
<1>4. set_action(state, s, action) = [state EXCEPT !.action = f]
  BY Zenon DEF set_action, a, f
<1>5. /\ [state EXCEPT !.action = f] \in SignalState
      /\ [state EXCEPT !.action = f].action = f
      /\ [state EXCEPT !.action = f].pending = state.pending
  BY <1>3, Zenon DEF Proper, SignalState
<1>6. QED
  BY <1>3, <1>4, <1>5, Zenon DEF Proper

\* setsid leaves the signals proper.
LEMMA GroupProper ==
  ASSUME NEW state, Proper(state), NEW g \in 0..MaxPid, NEW h \in 0..MaxPid
  PROVE  LET new == [state EXCEPT !.group = g, !.session = h]
         IN  Proper(new) /\ new.pending = state.pending
BY Zenon DEF Proper, SignalState

\* setpgid leaves the signals proper.
LEMMA OwnGroupProper ==
  ASSUME NEW state, Proper(state), NEW g \in 0..MaxPid
  PROVE  LET new == [state EXCEPT !.group = g]
         IN  Proper(new) /\ new.pending = state.pending
BY Zenon DEF Proper, SignalState

\* At most one signal is taken from the first state, and none that it blocks.
Takes(state, new) ==
  /\ \E s : state.pending \ new.pending \subseteq {s}
  /\ (state.pending \ new.pending) \cap state.blocked = {}

\* Delivering the pending signals takes only what was pending and unblocked.
LEMMA Delivered ==
  ASSUME SetLaws, NEW state, Proper(state), deliver_pending_signal(state)
  PROVE  Proper(signals') /\ Takes(state, signals')
<1>1. CASE Due(state) = {}
  BY <1>1, Zenon DEF deliver_pending_signal, Takes
<1>2. CASE Due(state) # {}
  <2> DEFINE s == Lowest(Due(state))
             taken == [state EXCEPT !.pending = @ \ {s}]
             action == state.action[s]
  <2>1. s \in Due(state)
    <3>1. Due(state) \in SUBSET Nat
      <4>1. Signals \subseteq Nat
        BY SignalsAssumption
      <4>2. state.pending \subseteq Signals
        BY Zenon DEF Proper, SignalState
      <4>3. QED
        BY <4>1, <4>2, Zenon DEF Due, deliverable
    <3>2. QED
      BY <1>2, <3>1, LowestIn, Zenon
  <2>2. s \in Signals /\ s \notin state.blocked
    BY <1>2, <2>1, Zenon DEF Due, deliverable, Proper, SignalState
  <2> HIDE DEF s
  <2>3. Proper(taken) /\ taken.pending = state.pending \ {s} /\ taken.blocked = state.blocked
    BY Zenon DEF Proper, SignalState
  <2>4. action.mask \in SUBSET Signals
    BY <2>2, Zenon DEF Proper, SignalState, Action
  <2>5. signals' = IF action.handler = "function" THEN Handle(taken, action, s) ELSE taken
    BY <1>2, Zenon DEF deliver_pending_signal, Deliver, s
  <2> HIDE DEF taken, action
  <2>6. Proper(Handle(taken, action, s)) /\ Handle(taken, action, s).pending = taken.pending
    <3> DEFINE set == taken.blocked \cup action.mask
                        \cup (IF action.nodefer THEN {} ELSE {s})
    <3>1. set \in SUBSET Signals
      BY <2>2, <2>3, <2>4, Zenon DEF Proper, SignalState
    <3> HIDE DEF set
    <3>2. LET new == change_mask([taken EXCEPT !.handling = TRUE], set)
          IN  Proper(new) /\ new.pending = taken.pending
      BY <2>3, <3>1, MaskProper, Zenon
    <3>3. QED
      BY <3>2, Zenon DEF Handle, set
  <2>7. Proper(signals') /\ signals'.pending = state.pending \ {s}
    BY <2>3, <2>5, <2>6, Zenon
  <2>8. QED
    BY <2>2, <2>7, Zenon DEF Takes
<1>3. QED
  BY <1>1, <1>2, Zenon

-----------------------------------------------------------------------------
(* Where the signals of a process are.                                     *)

\* SignalsOf(p), for the processes in q, a, n, b and c with signals s, sa, ...
SignalsAt(q, a, n, b, c, s, sa, sn, sb, sc, p) ==
  CASE p = q.pid -> s
    [] p = a.pid -> sa
    [] p = b.pid -> sb
    [] p = c.pid -> sc
    [] OTHER -> sn[CHOOSE i \in 1..Len(n) : n[i].pid = p]

Placed(q, a, n, b, c, g, alive) ==
  /\ n \in Seq(Context) /\ g.snap = 0
  /\ \A p \in Pid : Places(n, a, b, c, g, p) = Bit(p \in alive /\ p # q.pid)

\* Each process is found where it is, and each live one is somewhere.
Finds(q, a, n, b, c, s, sa, sn, sb, sc, alive) ==
  \A p \in Pid :
    LET found == SignalsAt(q, a, n, b, c, s, sa, sn, sb, sc, p)
    IN  /\ p = q.pid => found = s
        /\ p = a.pid => found = sa
        /\ p = b.pid => found = sb
        /\ p = c.pid => found = sc
        /\ \A i \in 1..Len(n) : p = n[i].pid => found = sn[i]
        /\ p \in alive => \/ p \in {q.pid, a.pid, b.pid, c.pid}
                          \/ \E i \in 1..Len(n) : p = n[i].pid

\* Where the signals of a process are found.
LEMMA SignalsFound ==
  ASSUME SetLaws, NEW q, NEW a, NEW n, NEW b, NEW c, NEW g, NEW alive,
         Placed(q, a, n, b, c, g, alive),
         NEW s, NEW sa, NEW sn, NEW sb, NEW sc
  PROVE  Finds(q, a, n, b, c, s, sa, sn, sb, sc, alive)
<1> SUFFICES ASSUME NEW p \in Pid
             PROVE  LET found == SignalsAt(q, a, n, b, c, s, sa, sn, sb, sc, p)
                    IN  /\ p = q.pid => found = s
                        /\ p = a.pid => found = sa
                        /\ p = b.pid => found = sb
                        /\ p = c.pid => found = sc
                        /\ \A i \in 1..Len(n) : p = n[i].pid => found = sn[i]
                        /\ p \in alive => \/ p \in {q.pid, a.pid, b.pid, c.pid}
                                          \/ \E i \in 1..Len(n) : p = n[i].pid
  BY Zenon DEF Finds
<1> DEFINE k == Count(n, Of(p))
           at == {i \in 1..Len(n) : n[i] \in Of(p)}
<1>1. n \in Seq(Context) /\ p # 0 /\ g.snap = 0
  BY ForkAssumption, PidNumbers, Zenon DEF Placed
<1>2. k \in Nat /\ k = Cardinality(at) /\ IsFiniteSet(at)
  BY <1>1, CountBounded, Zenon DEF Count
<1>3. \A i \in 1..Len(n) : n[i] \in Of(p) <=> n[i].pid = p
  BY <1>1, Indexed, Zenon DEF Of
<1>4. k = 0 <=> \A i \in 1..Len(n) : n[i].pid # p
  BY <1>1, <1>3, CountSeen, Zenon
<1>5. k + Bit(a.pid = p) + Bit(b.pid = p) + Bit(c.pid = p) + Bit(g.snap = p)
      = Bit(p \in alive /\ p # q.pid)
  BY Zenon DEF Placed, Places
<1>6. k = 1 => \E i : at = {i}
  BY <1>2, Zenon DEF SetLaws
<1> HIDE DEF k
<1>7. /\ k # 0 => k = 1 /\ p # q.pid /\ p # a.pid /\ p # b.pid /\ p # c.pid
      /\ p = a.pid => p # q.pid /\ p # b.pid /\ p # c.pid
      /\ p = b.pid => p # q.pid /\ p # c.pid
      /\ p = c.pid => p # q.pid
      /\ p \in alive => p = q.pid \/ k # 0 \/ p = a.pid \/ p = b.pid \/ p = c.pid
  BY <1>1, <1>2, <1>5, SMTT(60) DEF Bit
<1>8. ASSUME NEW i \in 1..Len(n), p = n[i].pid
      PROVE  SignalsAt(q, a, n, b, c, s, sa, sn, sb, sc, p) = sn[i]
  <2>1. k # 0
    BY <1>4, <1>8, Zenon
  <2>2. \A j \in 1..Len(n) : n[j].pid = p => j = i
    <3>1. i \in at /\ \A j \in 1..Len(n) : n[j].pid = p => j \in at
      BY <1>3, <1>8, Zenon
    <3>2. PICK x : at = {x}
      BY <1>6, <1>7, <2>1, Zenon
    <3>3. QED
      BY <3>1, <3>2, Zenon
  <2>3. (CHOOSE j \in 1..Len(n) : n[j].pid = p) = i
    BY <1>8, <2>2, Zenon
  <2>4. p # q.pid /\ p # a.pid /\ p # b.pid /\ p # c.pid
    BY <1>7, <2>1, Zenon
  <2>5. QED
    BY <2>3, <2>4, Zenon DEF SignalsAt
<1>9. /\ p = q.pid => SignalsAt(q, a, n, b, c, s, sa, sn, sb, sc, p) = s
      /\ p = a.pid => SignalsAt(q, a, n, b, c, s, sa, sn, sb, sc, p) = sa
      /\ p = b.pid => SignalsAt(q, a, n, b, c, s, sa, sn, sb, sc, p) = sb
      /\ p = c.pid => SignalsAt(q, a, n, b, c, s, sa, sn, sb, sc, p) = sc
  BY <1>7, Zenon DEF SignalsAt
<1>10. QED
  BY <1>4, <1>7, <1>8, <1>9, Zenon

-----------------------------------------------------------------------------
(* What a step may do to the signals of a process.                         *)

\* SignalsKept for process p, when q runs before the step and r after it.
Moved(p, q, r, old, new) ==
  LET taken == old.pending \ new.pending
  IN  /\ p # r => /\ taken = {}
                  /\ p # q => new = [old EXCEPT !.pending = new.pending]
      /\ Cardinality(taken) <= 1
      /\ p # q => taken \cap old.blocked = {}

\* Signals that do not change have moved whole.
LEMMA MovedWhole ==
  ASSUME SetLaws
  PROVE  \A p, q, r, old, new : new = old /\ Proper(old) => Moved(p, q, r, old, new)
<1> SUFFICES ASSUME NEW p, NEW q, NEW r, NEW old, Proper(old)
             PROVE  Moved(p, q, r, old, old)
  BY Zenon
<1>1. old = [old EXCEPT !.pending = old.pending]
  BY Zenon DEF Proper, SignalState
<1>2. Cardinality(old.pending \ old.pending) = 0
  <2>1. old.pending \ old.pending = {}
    BY Zenon
  <2>2. QED
    BY <2>1, Zenon DEF SetLaws
<1>3. QED
  BY <1>1, <1>2 DEF Moved

\* A signal that is queued loses none that was pending.
LEMMA MovedQueued ==
  ASSUME SetLaws, NEW p, NEW q, NEW r, NEW old, Proper(old), NEW s
  PROVE  Moved(p, q, r, old, queue(old, s))
<1>1. /\ queue(old, s).pending = old.pending \cup {s}
      /\ queue(old, s) = [old EXCEPT !.pending = queue(old, s).pending]
  BY Zenon DEF Proper, SignalState, queue
<1>2. old.pending \ queue(old, s).pending = {}
  BY <1>1, Zenon
<1>3. QED
  BY <1>1, <1>2 DEF Moved, SetLaws

\* The process that runs after the step, whose state was brought to the given one
\* and then delivered a signal.
LEMMA MovedRuns ==
  ASSUME SetLaws, NEW p, NEW q, NEW old, NEW state, NEW new, Takes(state, new),
         old.pending \subseteq state.pending, p # q => state.blocked = old.blocked
  PROVE  Moved(p, q, p, old, new)
<1> DEFINE taken == old.pending \ new.pending
<1>1. PICK s : state.pending \ new.pending \subseteq {s}
  BY Zenon DEF Takes
<1>2. taken \subseteq {s}
  BY <1>1, Zenon
<1>3. Cardinality(taken) <= 1
  <2>1. IsFiniteSet({s}) /\ Cardinality({s}) = 1
    BY Zenon DEF SetLaws
  <2>2. taken \in SUBSET {s}
    BY <1>2, Zenon
  <2> HIDE DEF taken
  <2>3. Cardinality(taken) <= Cardinality({s})
    BY <2>1, <2>2, Zenon DEF SetLaws
  <2>4. QED
    BY <2>1, <2>3, Zenon
<1>4. p # q => taken \cap old.blocked = {}
  BY Zenon DEF Takes
<1>5. QED
  BY <1>3, <1>4, Zenon DEF Moved

-----------------------------------------------------------------------------
(* The invariant.                                                          *)

AllProper ==
  /\ ancestor_signals \in Seq(SignalState) /\ Len(ancestor_signals) = depth
  /\ \A i \in 1..depth : Proper(ancestor_signals[i])
  /\ Proper(signals) /\ Proper(parent_signals) /\ Proper(background_signals)
  /\ Proper(child_signals) /\ Proper(shell_signals)

\* The background record names a process that queue_process_group_signal visits
\* before it.
RecordVisited ==
  ~halted /\ background.used =>
    background.pid \in {process.pid, parent.pid, interactive_child.pid}
                       \cup {nested_ancestors[i].pid : i \in 1..depth}

\* No process waits for a socket.  A record in use names a process that is found
\* before it; above a stacked ancestor, with no program parked, that is the
\* active one, so that a relay cannot hide it, and it becomes the parked program
\* when the active process parks.
Shadowed ==
  /\ background.snap = 0
  /\ ~halted =>
       /\ RecordVisited /\ (background.used => background.pid # 0)
       /\ ~Active(interactive_child) /\ depth # 0 =>
            Active(parent) /\ (background.used => background.pid = process.pid)
       /\ background.used /\ Active(interactive_child) /\ ~Active(interactive_parent)
            /\ ~Active(parent) /\ depth # 0 => background.pid = interactive_child.pid

SInv == IInv /\ AllProper /\ Shadowed

\* The signals of every process that lives on are kept by the step.
AllMoved ==
  \A p \in Alive \cap Alive' :
    Moved(p, process.pid, process'.pid, SignalsOf(p), SignalsOf(p)')

\* Proper signals catch and block neither uncatchable signal.
LEMMA ProperUncatchable ==
  ASSUME AllProper
  PROVE  Uncatchable
BY DEF AllProper, Uncatchable, Proper

\* The signals of a process, before the step.
LEMMA FoundNow ==
  ASSUME SetLaws, IInv, background.snap = 0
  PROVE  /\ Finds(process, parent, nested_ancestors, interactive_child, interactive_parent,
                  signals, parent_signals, ancestor_signals, child_signals, shell_signals,
                  Alive)
         /\ \A p : SignalsOf(p) =
              SignalsAt(process, parent, nested_ancestors, interactive_child,
                        interactive_parent, signals, parent_signals, ancestor_signals,
                        child_signals, shell_signals, p)
<1>1. Placed(process, parent, nested_ancestors, interactive_child, interactive_parent,
             background, Alive)
  BY Zenon DEF Placed, IInv, Kept, TypeOK
<1>2. QED
  BY <1>1, SignalsFound, Zenon DEF SignalsOf, SignalsAt, depth

\* The signals of a process, after the step.
LEMMA FoundNext ==
  ASSUME SetLaws, IInv', background'.snap = 0
  PROVE  /\ Finds(process', parent', nested_ancestors', interactive_child',
                  interactive_parent', signals', parent_signals', ancestor_signals',
                  child_signals', shell_signals', Alive')
         /\ \A p : SignalsOf(p)' =
              SignalsAt(process', parent', nested_ancestors', interactive_child',
                        interactive_parent', signals', parent_signals', ancestor_signals',
                        child_signals', shell_signals', p)
<1>1. Placed(process', parent', nested_ancestors', interactive_child', interactive_parent',
             background', Alive')
  BY Zenon DEF Placed, IInv, Kept, TypeOK
<1>2. QED
  BY <1>1, SignalsFound, Zenon DEF SignalsOf, SignalsAt, depth

-----------------------------------------------------------------------------
(* fork.                                                                   *)

\* A state of signals pushed on the stack of the ancestors' signals.
LEMMA StackedSignals ==
  ASSUME NEW t \in Seq(SignalState), NEW st \in SignalState
  PROVE  /\ Append(t, st) \in Seq(SignalState) /\ Len(Append(t, st)) = Len(t) + 1
         /\ Append(t, st)[Len(t) + 1] = st
         /\ \A i \in 1..Len(t) : Append(t, st)[i] = t[i]
OBVIOUS

\* What the invariant says of the places signals are kept in.
LEMMA SignalsPlaced ==
  ASSUME SInv
  PROVE  /\ IInv /\ AllProper /\ Shadowed
         /\ nested_ancestors \in Seq(Context) /\ depth \in Nat /\ depth = Len(nested_ancestors)
         /\ parent \in Context
<1>1. IInv /\ AllProper /\ Shadowed /\ TypeOK
  BY Zenon DEF SInv, IInv
<1>2. nested_ancestors \in Seq(Context) /\ parent \in Context
  BY <1>1, Zenon DEF TypeOK
<1>3. QED
  BY <1>1, <1>2, Indexed, Zenon DEF depth

\* The signals of process p before and after a step, by where it is.
Across(p, old, new) ==
  /\ p = process.pid => old = signals
  /\ p = parent.pid => old = parent_signals
  /\ p = interactive_child.pid => old = child_signals
  /\ p = interactive_parent.pid => old = shell_signals
  /\ \A i \in 1..depth : p = nested_ancestors[i].pid => old = ancestor_signals[i]
  /\ \/ p = process.pid \/ p = parent.pid
     \/ p = interactive_child.pid \/ p = interactive_parent.pid
     \/ \E i \in 1..depth : p = nested_ancestors[i].pid
  /\ p = process'.pid => new = signals'
  /\ p = parent'.pid => new = parent_signals'
  /\ p = interactive_child'.pid => new = child_signals'
  /\ p = interactive_parent'.pid => new = shell_signals'
  /\ \A i \in 1..Len(nested_ancestors') :
       p = nested_ancestors'[i].pid => new = ancestor_signals'[i]

\* A process that lives on has its signals somewhere on both sides of the step.
LEMMA FoundAcross ==
  ASSUME SetLaws, IInv, Shadowed, IInv', Shadowed', NEW p, p \in Alive
  PROVE  p \in Pid /\ Across(p, SignalsOf(p), SignalsOf(p)')
<1>1. p \in Pid
  BY ForkAssumption, Typed, Zenon DEF Alive, Pid
<1>2. background.snap = 0 /\ background'.snap = 0
  BY Zenon DEF Shadowed
<1>3. /\ p = process.pid => SignalsOf(p) = signals
      /\ p = parent.pid => SignalsOf(p) = parent_signals
      /\ p = interactive_child.pid => SignalsOf(p) = child_signals
      /\ p = interactive_parent.pid => SignalsOf(p) = shell_signals
      /\ \A i \in 1..depth : p = nested_ancestors[i].pid => SignalsOf(p) = ancestor_signals[i]
      /\ \/ p = process.pid \/ p = parent.pid
         \/ p = interactive_child.pid \/ p = interactive_parent.pid
         \/ \E i \in 1..depth : p = nested_ancestors[i].pid
  <2> DEFINE found == SignalsAt(process, parent, nested_ancestors, interactive_child,
                                interactive_parent, signals, parent_signals, ancestor_signals,
                                child_signals, shell_signals, p)
  <2>1. SignalsOf(p) = found
    BY <1>2, FoundNow, Zenon
  <2>2. /\ p = process.pid => found = signals
        /\ p = parent.pid => found = parent_signals
        /\ p = interactive_child.pid => found = child_signals
        /\ p = interactive_parent.pid => found = shell_signals
        /\ \A i \in 1..depth : p = nested_ancestors[i].pid => found = ancestor_signals[i]
        /\ \/ p \in {process.pid, parent.pid, interactive_child.pid, interactive_parent.pid}
           \/ \E i \in 1..depth : p = nested_ancestors[i].pid
    BY <1>1, <1>2, FoundNow, Zenon DEF Finds, depth
  <2> HIDE DEF found
  <2>3. QED
    BY <2>1, <2>2, Zenon
<1>4. /\ p = process'.pid => SignalsOf(p)' = signals'
      /\ p = parent'.pid => SignalsOf(p)' = parent_signals'
      /\ p = interactive_child'.pid => SignalsOf(p)' = child_signals'
      /\ p = interactive_parent'.pid => SignalsOf(p)' = shell_signals'
      /\ \A i \in 1..Len(nested_ancestors') :
           p = nested_ancestors'[i].pid => SignalsOf(p)' = ancestor_signals'[i]
  <2> DEFINE found == SignalsAt(process', parent', nested_ancestors', interactive_child',
                                interactive_parent', signals', parent_signals',
                                ancestor_signals', child_signals', shell_signals', p)
  <2>1. SignalsOf(p)' = found
    BY <1>2, FoundNext, Zenon
  <2>2. /\ p = process'.pid => found = signals'
        /\ p = parent'.pid => found = parent_signals'
        /\ p = interactive_child'.pid => found = child_signals'
        /\ p = interactive_parent'.pid => found = shell_signals'
        /\ \A i \in 1..Len(nested_ancestors') :
             p = nested_ancestors'[i].pid => found = ancestor_signals'[i]
    BY <1>1, <1>2, FoundNext, Zenon DEF Finds
  <2> HIDE DEF found
  <2>3. QED
    BY <2>1, <2>2, Zenon
<1>5. QED
  BY <1>1, <1>3, <1>4, Zenon DEF Across

\* What moves between every two such places moves for every process.
LEMMA MovedAcross ==
  ASSUME SetLaws, IInv, Shadowed, IInv', Shadowed',
         \A p, old, new :
           p \in Pid /\ Across(p, old, new) /\ p \in Alive /\ p \in Alive' =>
             Moved(p, process.pid, process'.pid, old, new)
  PROVE  AllMoved
<1> SUFFICES ASSUME NEW p \in Alive \cap Alive'
             PROVE  Moved(p, process.pid, process'.pid, SignalsOf(p), SignalsOf(p)')
  BY Zenon DEF AllMoved
<1>1. p \in Pid /\ Across(p, SignalsOf(p), SignalsOf(p)')
  BY FoundAcross, Zenon
<1>2. QED
  BY <1>1, Zenon

\* A fork keeps the signals, the child's taken from its parent's.
LEMMA ForkSignalsKeep ==
  ASSUME SetLaws, SInv, fork
  PROVE  SInv' /\ AllMoved
<1> USE ForkAssumption
<1>1. /\ IInv /\ AllProper /\ Shadowed /\ clone /\ ~halted
      /\ nested_ancestors \in Seq(Context) /\ depth \in Nat /\ depth = Len(nested_ancestors)
      /\ parent \in Context
  BY SignalsPlaced, Zenon DEF fork, clone
<1>2. IInv'
  BY <1>1, CloneKeeps, Zenon
<1>3. /\ parent'.pid = process.pid /\ process'.pid = next_pid
      /\ interactive_child' = interactive_child /\ interactive_parent' = interactive_parent
      /\ halted' = halted
  BY <1>1, Zenon DEF clone, Suspended, parked
<1>4. /\ parent_signals' = signals /\ child_signals' = child_signals
      /\ shell_signals' = shell_signals
      /\ deliver_pending_signal(signals)
  BY Zenon DEF fork
<1>5. Proper(signals') /\ Proper(signals) /\ Proper(parent_signals)
  BY <1>1, <1>4, Delivered, Zenon DEF AllProper
<1>6. CASE nested_background_fork
  <2>1. /\ Active(parent) /\ nested_ancestors' = Append(nested_ancestors, parent)
        /\ background' = NoBackground
        /\ ancestor_signals' = Append(ancestor_signals, parent_signals)
        /\ background_signals' = NoSignals
    BY <1>1, <1>6, Zenon DEF nested_background_fork, fork, clone
  <2>2. /\ Len(nested_ancestors') = depth + 1 /\ nested_ancestors'[depth + 1] = parent
        /\ \A i \in 1..depth : nested_ancestors'[i] = nested_ancestors[i]
    <3>1. Grown(nested_ancestors, parent, nested_ancestors')
      BY <1>1, <2>1, Typed, Pushed, Zenon
    <3>2. QED
      BY <1>1, <3>1, Zenon DEF Grown
  <2>3. /\ ancestor_signals' \in Seq(SignalState) /\ Len(ancestor_signals') = depth + 1
        /\ ancestor_signals'[depth + 1] = parent_signals
        /\ \A i \in 1..depth : ancestor_signals'[i] = ancestor_signals[i]
    <3>1. /\ ancestor_signals \in Seq(SignalState) /\ Len(ancestor_signals) = depth
          /\ parent_signals \in SignalState
      BY <1>1, <1>5, Zenon DEF AllProper, Proper
    <3>2. QED
      BY <2>1, <3>1, StackedSignals, Zenon
  <2>4. AllProper'
    <3>1. \A i \in 1..depth + 1 : i = depth + 1 \/ i \in 1..depth
      BY <1>1, Ranges, Zenon
    <3>2. \A i \in 1..depth + 1 : Proper(ancestor_signals'[i])
      BY <1>1, <1>5, <2>3, <3>1, Zenon DEF AllProper
    <3>3. depth' = depth + 1
      BY <2>2, Zenon DEF depth
    <3>4. QED
      BY <1>1, <1>4, <1>5, <2>1, <2>3, <3>2, <3>3, NoSignalsProper, Zenon DEF AllProper
  <2>5. Shadowed'
    <3>1. background'.snap = 0 /\ ~background'.used /\ Active(parent')
      BY <1>2, <1>3, <2>1, PidNumbers, Zenon DEF NoBackground, Active, IInv, TypeOK, SInv
    <3>2. QED
      BY <3>1, Zenon DEF Shadowed, RecordVisited
  <2>6. AllMoved
    <3>1. ASSUME NEW p \in Pid, NEW old, NEW new, Across(p, old, new),
                 p \in Alive, p \in Alive'
          PROVE  new = old /\ Proper(old)
      <4>1. CASE p = process.pid
        BY <1>3, <1>4, <1>5, <3>1, <4>1, Zenon DEF Across
      <4>2. CASE p = parent.pid
        BY <1>1, <1>5, <2>2, <2>3, <3>1, <4>2, Ranges, Zenon DEF Across
      <4>3. CASE p = interactive_child.pid \/ p = interactive_parent.pid
        BY <1>1, <1>3, <1>4, <3>1, <4>3, Zenon DEF Across, AllProper
      <4>4. ASSUME NEW i \in 1..depth, p = nested_ancestors[i].pid
            PROVE  new = old /\ Proper(old)
        <5>1. /\ i \in 1..Len(nested_ancestors') /\ p = nested_ancestors'[i].pid
              /\ ancestor_signals'[i] = ancestor_signals[i]
          BY <1>1, <2>2, <2>3, <4>4, Ranges, Zenon
        <5>2. QED
          BY <1>1, <3>1, <4>4, <5>1, Zenon DEF Across, AllProper
      <4>5. QED
        BY <3>1, <4>1, <4>2, <4>3, <4>4, Zenon DEF Across
    <3>2. \A p, old, new :
            p \in Pid /\ Across(p, old, new) /\ p \in Alive /\ p \in Alive' =>
              Moved(p, process.pid, process'.pid, old, new)
      BY <3>1, MovedWhole, Zenon
    <3>3. QED
      BY <1>1, <1>2, <2>5, <3>2, MovedAcross, Zenon
  <2>7. QED
    BY <1>2, <2>4, <2>5, <2>6, Zenon DEF SInv
<1>7. CASE ~nested_background_fork
  <2>1. /\ ~Active(parent) /\ nested_ancestors' = nested_ancestors
        /\ background' = background
        /\ ancestor_signals' = ancestor_signals /\ background_signals' = background_signals
    BY <1>1, <1>7, Zenon DEF fork, clone, ForkRefused
  <2>2. AllProper'
    BY <1>1, <1>4, <1>5, <2>1, Zenon DEF AllProper, depth
  <2>3. Active(parent') /\ parent.pid = 0
    BY <1>1, <1>3, <2>1, PidNumbers, Zenon DEF Active, IInv, TypeOK
  <2>4. Shadowed'
    BY <1>1, <1>3, <2>1, <2>3, Zenon DEF Shadowed, RecordVisited, depth
  <2>5. AllMoved
    <3>1. ASSUME NEW p \in Pid, NEW old, NEW new, Across(p, old, new),
                 p \in Alive, p \in Alive'
          PROVE  new = old /\ Proper(old)
      <4>1. CASE p = process.pid
        BY <1>3, <1>4, <1>5, <3>1, <4>1, Zenon DEF Across
      <4>2. p # parent.pid
        BY <2>3, PidNumbers, Zenon
      <4>3. CASE p = interactive_child.pid \/ p = interactive_parent.pid
        BY <1>1, <1>3, <1>4, <3>1, <4>3, Zenon DEF Across, AllProper
      <4>4. CASE \E i \in 1..depth : p = nested_ancestors[i].pid
        BY <1>1, <2>1, <3>1, <4>4, Zenon DEF Across, AllProper
      <4>5. QED
        BY <3>1, <4>1, <4>2, <4>3, <4>4, Zenon DEF Across
    <3>2. \A p, old, new :
            p \in Pid /\ Across(p, old, new) /\ p \in Alive /\ p \in Alive' =>
              Moved(p, process.pid, process'.pid, old, new)
      BY <3>1, MovedWhole, Zenon
    <3>3. QED
      BY <1>1, <1>2, <2>4, <3>2, MovedAcross, Zenon
  <2>6. QED
    BY <1>2, <2>2, <2>4, <2>5, Zenon DEF SInv
<1>8. QED
  BY <1>6, <1>7, Zenon

-----------------------------------------------------------------------------
(* reinstate_suspended_ancestor, in the fork that fails and in exit.       *)

\* The top of the stack, and its signals, move to the suspended parent.
LEMMA NewestTaken ==
  ASSUME SInv, depth # 0
  PROVE  /\ depth \in 1..depth /\ Len(Older) = depth - 1 /\ Len(OlderSignals) = depth - 1
         /\ Newest.pid # 0 /\ Newest = nested_ancestors[depth]
         /\ NewestSignals = ancestor_signals[depth] /\ Proper(NewestSignals)
         /\ OlderSignals \in Seq(SignalState)
         /\ \A i \in 1..depth - 1 : /\ Older[i] = nested_ancestors[i] /\ i \in 1..depth
                                    /\ OlderSignals[i] = ancestor_signals[i]
                                    /\ Proper(OlderSignals[i])
<1>1. /\ nested_ancestors \in Seq(Context) /\ depth \in Nat /\ depth = Len(nested_ancestors)
      /\ ancestor_signals \in Seq(SignalState) /\ Len(ancestor_signals) = depth
      /\ \A i \in 1..depth : Proper(ancestor_signals[i])
  BY SignalsPlaced, Zenon DEF AllProper
<1>2. \A i \in 1..depth : nested_ancestors[i].pid # 0
  BY SignalsPlaced, Zenon DEF IInv, Slots, Saves
<1>3. depth \in 1..depth /\ \A i \in 1..depth - 1 : i \in 1..depth
  BY <1>1, Ranges, Zenon
<1>4. Len(Older) = depth - 1 /\ \A i \in 1..depth - 1 : Older[i] = nested_ancestors[i]
  BY <1>1, TopProperties, PidNumbers, Zenon DEF Older
<1>5. /\ OlderSignals \in Seq(SignalState) /\ Len(OlderSignals) = depth - 1
      /\ \A i \in 1..depth - 1 : OlderSignals[i] = ancestor_signals[i]
  BY <1>1, TopProperties, PidNumbers, Zenon DEF OlderSignals
<1>6. QED
  BY <1>1, <1>2, <1>3, <1>4, <1>5, Zenon DEF Newest, NewestSignals

\* Reinstating an ancestor moves no other process's signals.
LEMMA ReinstatedSignals ==
  ASSUME SInv, NEW q, NEW bg, reinstate_suspended_ancestor(q, bg),
         NEW state, Proper(state), Reinstated(state), Proper(signals'),
         UNCHANGED <<interactive_child, interactive_parent, child_signals, shell_signals>>
  PROVE  /\ AllProper'
         /\ \A p, old, new :
              p \in Pid /\ Across(p, old, new) /\ p # process.pid /\ p # parent.pid
                => new = old /\ Proper(old)
<1>1. /\ AllProper /\ depth \in Nat /\ depth = Len(nested_ancestors)
  BY SignalsPlaced, Zenon
<1>2. CASE depth = 0
  <2>1. /\ nested_ancestors' = nested_ancestors /\ ancestor_signals' = ancestor_signals
        /\ parent_signals' = NoSignals /\ background_signals' \in {background_signals, NoSignals}
    BY <1>2, Zenon DEF reinstate_suspended_ancestor, Reinstated
  <2>2. AllProper'
    BY <1>1, <2>1, NoSignalsProper, Zenon DEF AllProper, depth
  <2>3. ASSUME NEW p \in Pid, NEW old, NEW new, Across(p, old, new),
               p # process.pid, p # parent.pid
        PROVE  new = old /\ Proper(old)
    <3>1. 1..depth = {}
      BY <1>2
    <3>2. p = interactive_child.pid \/ p = interactive_parent.pid
      BY <2>3, <3>1, Zenon DEF Across
    <3>3. QED
      BY <1>1, <2>3, <3>2, Zenon DEF Across, AllProper
  <2>4. QED
    BY <2>2, <2>3, Zenon
<1>3. CASE depth # 0
  <2>1. /\ nested_ancestors' = Older /\ ancestor_signals' = OlderSignals
        /\ parent' = Newest /\ parent_signals' = NewestSignals
        /\ background_signals' = state
    BY <1>3, Zenon DEF reinstate_suspended_ancestor, Reinstated
  <2>2. /\ depth \in 1..depth /\ Len(Older) = depth - 1 /\ Len(OlderSignals) = depth - 1
        /\ Newest = nested_ancestors[depth]
        /\ NewestSignals = ancestor_signals[depth] /\ Proper(NewestSignals)
        /\ OlderSignals \in Seq(SignalState)
        /\ \A i \in 1..depth - 1 : /\ Older[i] = nested_ancestors[i]
                                   /\ OlderSignals[i] = ancestor_signals[i]
                                   /\ Proper(OlderSignals[i])
    BY <1>3, NewestTaken, Zenon
  <2>3. AllProper'
    <3>1. depth' = depth - 1
      BY <2>1, <2>2, Zenon DEF depth
    <3>2. QED
      BY <1>1, <2>1, <2>2, <3>1, Zenon DEF AllProper
  <2>4. ASSUME NEW p \in Pid, NEW old, NEW new, Across(p, old, new),
               p # process.pid, p # parent.pid
        PROVE  new = old /\ Proper(old)
    <3>1. CASE p = interactive_child.pid \/ p = interactive_parent.pid
      BY <1>1, <2>4, <3>1, Zenon DEF Across, AllProper
    <3>2. ASSUME NEW i \in 1..depth, p = nested_ancestors[i].pid
          PROVE  new = old /\ Proper(old)
      <4>1. CASE i = depth
        BY <2>1, <2>2, <2>4, <3>2, <4>1, Zenon DEF Across
      <4>2. CASE i # depth
        <5>1. i \in 1..depth - 1 /\ i \in 1..Len(nested_ancestors')
          BY <1>1, <2>1, <2>2, <4>2, Ranges, Zenon
        <5>2. old = ancestor_signals[i]
          BY <2>4, <3>2, Zenon DEF Across
        <5>3. nested_ancestors'[i].pid = p
          BY <2>1, <2>2, <3>2, <5>1, Zenon
        <5>4. new = ancestor_signals'[i]
          BY <2>1, <2>2, <2>4, <5>1, <5>3, Zenon DEF Across, depth
        <5>5. QED
          BY <2>1, <2>2, <5>1, <5>2, <5>4, Zenon
      <4>3. QED
        BY <4>1, <4>2, Zenon
    <3>3. QED
      BY <2>4, <3>1, <3>2, Zenon DEF Across
  <2>5. QED
    BY <2>3, <2>4, Zenon
<1>4. QED
  BY <1>2, <1>3, Zenon

\* The record that capture_background leaves.
LEMMA CapturedRecord ==
  ASSUME NEW bg \in Background, NEW q
  PROVE  /\ Captured(bg, q).pid = q.pid /\ Captured(bg, q).snap = bg.snap
         /\ Captured(bg, q).used
BY Zenon DEF Background, Captured

\* A refused fork keeps the signals.
LEMMA ForkNoMemorySignalsKeep ==
  ASSUME SetLaws, SInv, fork_no_memory
  PROVE  SInv' /\ AllMoved
<1> USE ForkAssumption
<1>1. /\ IInv /\ AllProper /\ Shadowed /\ clone_no_memory /\ ~halted /\ ~halted'
      /\ depth \in Nat /\ depth = Len(nested_ancestors)
  BY SignalsPlaced, Zenon DEF fork_no_memory, clone_no_memory
<1>2. IInv'
  BY <1>1, CloneNoMemoryKeeps, Zenon
<1>3. UNCHANGED <<process, interactive_child, interactive_parent, child_signals,
                  shell_signals>>
  BY <1>1, Zenon DEF fork_no_memory, clone_no_memory, parked
<1>4. Proper(signals) /\ Proper(signals') /\ Takes(signals, signals')
  BY <1>1, Delivered, Zenon DEF fork_no_memory, AllProper
<1>5. ASSUME NEW p, NEW old, NEW new, Across(p, old, new), p = process.pid
      PROVE  Moved(p, process.pid, process'.pid, old, new)
  <2>1. old = signals /\ new = signals' /\ process'.pid = p
    BY <1>3, <1>5, Zenon DEF Across
  <2>2. QED
    BY <1>4, <1>5, <2>1, MovedRuns, Zenon
<1>6. CASE nested_background_fork
  <2>1. /\ UNCHANGED <<parent, nested_ancestors, parent_signals, ancestor_signals>>
        /\ background' = Captured(NoBackground, process) /\ background_signals' = signals
        /\ Active(parent)
    BY <1>1, <1>6, Zenon DEF fork_no_memory, clone_no_memory, nested_background_fork
  <2>2. AllProper'
    BY <1>1, <1>3, <1>4, <2>1, Zenon DEF AllProper, depth
  <2>3. background'.pid = process.pid /\ background'.snap = 0 /\ process.pid # 0
    <3>1. NoBackground \in Background /\ NoBackground.snap = 0
      BY PidNumbers, Zenon DEF NoBackground, Background
    <3>2. QED
      BY <1>1, <2>1, <3>1, CapturedRecord, PidNumbers, Zenon DEF IInv, TypeOK
  <2>4. Shadowed'
    BY <1>1, <1>3, <2>1, <2>3, Zenon DEF Shadowed, RecordVisited, depth, Active
  <2>5. ASSUME NEW p \in Pid, NEW old, NEW new, Across(p, old, new), p # process.pid
        PROVE  new = old /\ Proper(old)
    BY <1>1, <1>3, <2>1, <2>5, Zenon DEF Across, AllProper
  <2>6. \A p, old, new :
          p \in Pid /\ Across(p, old, new) /\ p \in Alive /\ p \in Alive' =>
            Moved(p, process.pid, process'.pid, old, new)
    BY <1>5, <2>5, MovedWhole, Zenon
  <2>7. AllMoved
    BY <1>1, <1>2, <2>4, <2>6, MovedAcross, Zenon
  <2>8. QED
    BY <1>2, <2>2, <2>4, <2>7, Zenon DEF SInv
<1>7. CASE ~nested_background_fork
  <2>1. /\ reinstate_suspended_ancestor(process, background) /\ Reinstated(signals)
        /\ ~Active(parent)
    BY <1>1, <1>7, Zenon DEF fork_no_memory, clone_no_memory, ForkRefused
  <2>2. /\ AllProper'
        /\ \A p, old, new :
             p \in Pid /\ Across(p, old, new) /\ p # process.pid /\ p # parent.pid
               => new = old /\ Proper(old)
    BY <1>3, <1>4, <2>1, ReinstatedSignals, Zenon
  <2>3. parent.pid = 0 /\ background \in Background /\ background.snap = 0
        /\ process.pid # 0
    BY <1>1, <2>1, PidNumbers, Zenon DEF Active, IInv, TypeOK, Background, Shadowed
  <2>4. Shadowed'
    <3>1. CASE depth = 0
      <4>1. UNCHANGED <<background, nested_ancestors>> /\ parent'.pid = 0
        BY <2>1, <3>1 DEF reinstate_suspended_ancestor, NoContext
      <4>2. QED
        BY <1>1, <1>3, <2>3, <3>1, <4>1, Zenon DEF Shadowed, RecordVisited, depth, Active
    <3>2. CASE depth # 0
      <4>1. parent' = Newest /\ background' = Captured(background, process)
        BY <2>1, <3>2, Zenon DEF reinstate_suspended_ancestor
      <4>2. /\ background'.pid = process.pid /\ background'.snap = 0 /\ Active(parent')
        <5>1. Newest.pid # 0
          BY <3>2, NewestTaken, Zenon
        <5>2. Captured(background, process).pid = process.pid
              /\ Captured(background, process).snap = background.snap
          BY <2>3, CapturedRecord, Zenon
        <5>3. QED
          BY <2>3, <4>1, <5>1, <5>2, Zenon DEF Active
      <4>3. Active(interactive_child)
        BY <1>1, <2>1, <3>2, Zenon DEF Shadowed
      <4>4. QED
        BY <1>3, <2>3, <4>2, <4>3, Zenon DEF Shadowed, RecordVisited, Active
    <3>3. QED
      BY <3>1, <3>2, Zenon
  <2>5. \A p, old, new :
          p \in Pid /\ Across(p, old, new) /\ p \in Alive /\ p \in Alive' =>
            Moved(p, process.pid, process'.pid, old, new)
    <3>1. \A p \in Pid : p # parent.pid
      BY <2>3, PidNumbers, Zenon
    <3>2. TAKE p, old, new
    <3>3. HAVE p \in Pid /\ Across(p, old, new) /\ p \in Alive /\ p \in Alive'
    <3>4. CASE p = process.pid
      BY <1>5, <3>3, <3>4, Zenon
    <3>5. CASE p # process.pid
      <4>1. new = old /\ Proper(old)
        BY <2>2, <3>1, <3>3, <3>5, Zenon
      <4>2. QED
        BY <4>1, MovedWhole, Zenon
    <3>6. QED
      BY <3>4, <3>5, Zenon
  <2>6. AllMoved
    BY <1>1, <1>2, <2>4, <2>5, MovedAcross, Zenon
  <2>7. QED
    BY <1>2, <2>2, <2>4, <2>6, Zenon DEF SInv
<1>8. QED
  BY <1>6, <1>7, Zenon

\* An exit keeps the signals and queues SIGCHLD for the parent.
LEMMA ExitSignalsKeep ==
  ASSUME SetLaws, SInv, exit
  PROVE  SInv' /\ AllMoved
<1> USE ForkAssumption
<1> DEFINE resumed == queue(parent_signals, signal_child)
           over == background.used /\ background.pid = process.pid
           bg == IF over THEN [background EXCEPT !.used = FALSE, !.wait = "none"]
                 ELSE background
<1>1. /\ IInv /\ AllProper /\ Shadowed /\ exit_child /\ ~halted /\ ~halted'
      /\ Active(parent) /\ depth \in Nat /\ depth = Len(nested_ancestors)
  BY SignalsPlaced, Zenon DEF exit, exit_child
<1>2. IInv'
  BY <1>1, ExitKeeps, Zenon
<1>3. /\ UNCHANGED <<interactive_child, interactive_parent, child_signals, shell_signals>>
      /\ process'.pid = parent.pid /\ exited' = exited \cup {process.pid}
      /\ reinstate_suspended_ancestor(parent, bg) /\ Reinstated(resumed)
  BY <1>1 DEF exit, exit_child, resume_parent, parked
<1>4. /\ Proper(resumed) /\ resumed.blocked = parent_signals.blocked
      /\ parent_signals.pending \subseteq resumed.pending
  <2>1. Proper(parent_signals) /\ signal_child \in Signals
    BY <1>1, SignalsAssumption, Zenon DEF AllProper
  <2>2. /\ Proper(resumed) /\ resumed.blocked = parent_signals.blocked
        /\ resumed.pending = parent_signals.pending \cup {signal_child}
    BY <2>1, QueueProper, Zenon
  <2> HIDE DEF resumed
  <2>3. QED
    BY <2>2, Zenon
<1>5. Proper(signals') /\ Takes(resumed, signals')
  BY <1>4, Delivered, Zenon DEF exit
<1> HIDE DEF resumed
<1>6. /\ AllProper'
      /\ \A p, old, new :
           p \in Pid /\ Across(p, old, new) /\ p # process.pid /\ p # parent.pid
             => new = old /\ Proper(old)
  BY <1>3, <1>4, <1>5, ReinstatedSignals, Zenon
<1>7. /\ bg \in Background /\ bg.snap = 0 /\ bg.pid = background.pid
      /\ bg.used => background.used /\ background.pid # process.pid
  BY <1>1, Zenon DEF IInv, TypeOK, Background, Shadowed
<1> HIDE DEF bg
<1>8. Shadowed'
  <2>1. CASE depth = 0
    <3>1. background' = bg /\ UNCHANGED nested_ancestors
      BY <1>3, <2>1, Zenon DEF reinstate_suspended_ancestor
    <3>2. bg.used => bg.pid \in {parent.pid, interactive_child.pid} /\ bg.pid # 0
      <4>1. {nested_ancestors[i].pid : i \in 1..depth} = {}
        BY <2>1
      <4>2. QED
        BY <1>1, <1>7, <4>1, Zenon DEF Shadowed, RecordVisited
    <3>3. QED
      BY <1>3, <1>7, <2>1, <3>1, <3>2, Zenon DEF Shadowed, RecordVisited, depth
  <2>2. CASE depth # 0
    <3>1. parent' = Newest /\ background' = Captured(bg, parent)
      BY <1>3, <2>2, Zenon DEF reinstate_suspended_ancestor
    <3>2. background'.pid = process'.pid /\ background'.snap = 0 /\ Active(parent')
      <4>1. Newest.pid # 0
        BY <2>2, NewestTaken, Zenon
      <4>2. Captured(bg, parent).pid = parent.pid /\ Captured(bg, parent).snap = bg.snap
        BY <1>7, CapturedRecord, Zenon
      <4>3. QED
        BY <1>3, <1>7, <3>1, <4>1, <4>2, Zenon DEF Active
    <3>3. background'.pid # 0
      BY <1>1, <1>3, <3>2, Zenon DEF Active
    <3>4. QED
      BY <3>2, <3>3, Zenon DEF Shadowed, RecordVisited
  <2>3. QED
    BY <2>1, <2>2, Zenon
<1>9. \A p, old, new :
        p \in Pid /\ Across(p, old, new) /\ p \in Alive /\ p \in Alive' =>
          Moved(p, process.pid, process'.pid, old, new)
  <2>1. ASSUME NEW p, NEW old, NEW new, Across(p, old, new), p = parent.pid
        PROVE  Moved(p, process.pid, process'.pid, old, new)
    <3>1. old = parent_signals /\ new = signals' /\ process'.pid = p
      BY <1>3, <2>1, Zenon DEF Across
    <3>2. QED
      BY <1>4, <1>5, <3>1, MovedRuns, Zenon
  <2>2. \A p \in Alive' : p # process.pid
    BY <1>3, Zenon DEF Alive
  <2>3. QED
    <3>1. TAKE p, old, new
    <3>2. HAVE p \in Pid /\ Across(p, old, new) /\ p \in Alive /\ p \in Alive'
    <3>3. CASE p = parent.pid
      BY <2>1, <3>2, <3>3, Zenon
    <3>4. CASE p # parent.pid
      <4>1. new = old /\ Proper(old)
        BY <1>6, <2>2, <3>2, <3>4, Zenon
      <4>2. QED
        BY <4>1, MovedWhole, Zenon
    <3>5. QED
      BY <3>3, <3>4, Zenon
<1>10. AllMoved
  BY <1>1, <1>2, <1>8, <1>9, MovedAcross, Zenon
<1>11. QED
  BY <1>2, <1>6, <1>8, <1>10, Zenon DEF SInv

-----------------------------------------------------------------------------
(* The calls that leave every context in its place.                        *)

\* Whichever process runs, nothing is lost.
Safe(old, new) == \A p, q, r : Moved(p, q, r, old, new)

\* Queueing a signal for a group keeps the signals proper.
LEMMA QueuedSafe ==
  ASSUME SetLaws, NEW state, Proper(state), NEW s \in Signals
  PROVE  /\ Safe(state, state) /\ Safe(state, queue(state, s)) /\ Proper(queue(state, s))
         /\ \A active, g : /\ Safe(state, QueuedTo(active, state, g, s))
                           /\ Proper(QueuedTo(active, state, g, s))
BY MovedWhole, MovedQueued, QueueProper, Zenon DEF Safe, QueuedTo

\* A step that moves no process keeps the signals.
LEMMA InPlaceKeep ==
  ASSUME SetLaws, SInv, IInv', AllProper',
         UNCHANGED <<process, parent, nested_ancestors, interactive_child,
                     interactive_parent, background>>,
         halted' = halted \/ halted',
         Safe(parent_signals, parent_signals'), Safe(child_signals, child_signals'),
         Safe(shell_signals, shell_signals'),
         \A i \in 1..depth : Safe(ancestor_signals[i], ancestor_signals'[i]),
         process.pid \in Alive' =>
           Moved(process.pid, process.pid, process.pid, signals, signals')
  PROVE  SInv' /\ AllMoved
<1>1. IInv /\ Shadowed
  BY Zenon DEF SInv
<1>2. Shadowed'
  BY <1>1, Zenon DEF Shadowed, RecordVisited, depth
<1>3. ASSUME NEW p \in Pid, NEW old, NEW new, Across(p, old, new), p \in Alive, p \in Alive'
      PROVE  Moved(p, process.pid, process'.pid, old, new)
  <2>1. CASE p = process.pid
    BY <1>3, <2>1, Zenon DEF Across
  <2>2. CASE \/ p = parent.pid \/ p = interactive_child.pid \/ p = interactive_parent.pid
             \/ \E i \in 1..depth : p = nested_ancestors[i].pid
    <3>1. Safe(old, new)
      BY <1>3, <2>2, Zenon DEF Across, depth
    <3>2. QED
      BY <3>1, Zenon DEF Safe
  <2>3. QED
    BY <1>3, <2>1, <2>2, Zenon DEF Across
<1>4. AllMoved
  BY <1>1, <1>2, <1>3, MovedAcross, Zenon
<1>5. QED
  BY <1>2, <1>4, Zenon DEF SInv

\* The active process brings its own state to the given one.
LEMMA OwnKeep ==
  ASSUME SetLaws, SInv, IInv', NEW state, Proper(state), deliver_pending_signal(state),
         signals.pending \subseteq state.pending, UNCHANGED saved_signals,
         UNCHANGED <<process, parent, nested_ancestors, interactive_child,
                     interactive_parent, background, halted>>
  PROVE  SInv' /\ AllMoved
<1>1. AllProper
  BY Zenon DEF SInv
<1>2. Proper(signals') /\ Moved(process.pid, process.pid, process.pid, signals, signals')
  BY Delivered, MovedRuns, Zenon
<1>3. /\ UNCHANGED <<parent_signals, ancestor_signals, background_signals, child_signals,
                     shell_signals>>
  BY Zenon DEF saved_signals
<1>4. AllProper'
  BY <1>1, <1>2, <1>3, Zenon DEF AllProper, depth
<1>5. /\ Safe(parent_signals, parent_signals') /\ Safe(child_signals, child_signals')
      /\ Safe(shell_signals, shell_signals')
      /\ \A i \in 1..depth : Safe(ancestor_signals[i], ancestor_signals'[i])
  BY <1>1, <1>3, MovedWhole, Zenon DEF Safe, AllProper
<1>6. QED
  BY <1>2, <1>4, <1>5, InPlaceKeep, Zenon

\* A call that touches no signals keeps them.
LEMMA OtherCallKeeps ==
  ASSUME SetLaws, SInv, other_call
  PROVE  SInv' /\ AllMoved
<1>1. IInv /\ Proper(signals)
  BY Zenon DEF SInv, AllProper
<1>2. /\ UNCHANGED <<process, parent, nested_ancestors, interactive_child,
                     interactive_parent, background, halted>>
      /\ UNCHANGED saved_signals /\ deliver_pending_signal(signals)
  BY Zenon DEF other_call, open, close, consume, wait4, parked, kernel
<1>3. IInv'
  <2>1. {"master", "slave"} \subseteq Objects
    BY Zenon DEF Objects
  <2>2. \/ \E o \in Objects : open(o) \/ close(o) \/ consume(o)
        \/ \E z \in waitable_children : wait4(z)
    BY <2>1, Zenon DEF other_call
  <2>3. QED
    BY <1>1, <2>2, DescriptorsKeep, OthersKeep, Zenon
<1>4. QED
  BY <1>1, <1>2, <1>3, OwnKeep, Zenon

\* Input arrives, the machine stops, or nothing happens.
LEMMA QuietKeeps ==
  ASSUME SetLaws, SInv, input \/ exit_machine \/ UNCHANGED allvars
  PROVE  SInv' /\ AllMoved
<1>1. IInv /\ AllProper
  BY Zenon DEF SInv
<1>2. /\ UNCHANGED <<process, parent, nested_ancestors, interactive_child,
                     interactive_parent, background, signals, parent_signals,
                     ancestor_signals, background_signals, child_signals, shell_signals>>
      /\ halted' = halted \/ halted'
  BY Zenon DEF input, exit_machine, arrive, exit_last, kernel, parked, allvars, vars,
         saved_signals
<1>3. IInv'
  <2>1. "slave" \in Objects
    BY Zenon DEF Objects
  <2>2. \/ exit_last \/ \E o \in Objects : arrive(o) \/ consume(o)
        \/ UNCHANGED vars
    BY <2>1, Zenon DEF input, exit_machine, allvars
  <2>3. QED
    BY <1>1, <2>2, OthersKeep, Zenon
<1>4. AllProper'
  BY <1>1, <1>2, Zenon DEF AllProper, depth
<1>5. /\ Safe(parent_signals, parent_signals') /\ Safe(child_signals, child_signals')
      /\ Safe(shell_signals, shell_signals') /\ Safe(signals, signals')
      /\ \A i \in 1..depth : Safe(ancestor_signals[i], ancestor_signals'[i])
  BY <1>1, <1>2, MovedWhole, Zenon DEF Safe, AllProper
<1>6. Moved(process.pid, process.pid, process.pid, signals, signals')
  BY <1>5, Zenon DEF Safe
<1>7. QED
  BY <1>2, <1>3, <1>4, <1>5, <1>6, InPlaceKeep, Zenon

-----------------------------------------------------------------------------
(* The signal calls.                                                       *)

\* A call on the caller's own signals keeps the others'.
LEMMA OwnCallKeeps ==
  ASSUME SetLaws, SInv, NEW state, Proper(state), Own(state),
         signals.pending \subseteq state.pending
  PROVE  SInv' /\ AllMoved
<1>1. IInv' /\ UNCHANGED vars
  BY OthersKeep, Zenon DEF SInv, Own
<1>2. UNCHANGED <<process, parent, nested_ancestors, interactive_child,
                  interactive_parent, background, halted>>
  BY <1>1, Zenon DEF vars, kernel
<1>3. QED
  BY <1>1, <1>2, OwnKeep, Zenon DEF Own

\* rt_sigaction, rt_sigprocmask, rt_sigreturn, setpgid and setsid keep the signals.
LEMMA OwnStateKeeps ==
  ASSUME SetLaws, SInv,
         \/ \E s \in Signals, action \in Installable : rt_sigaction(s, action)
         \/ \E operation \in {"block", "unblock", "set"}, set \in Masks :
              rt_sigprocmask(operation, set)
         \/ \E mask \in Masks : rt_sigreturn(mask)
         \/ \E g \in Pid : setpgid(g)
         \/ setsid
  PROVE  SInv' /\ AllMoved
<1>1. /\ Proper(signals) /\ process.pid \in 0..MaxPid
      /\ signals.blocked \in SUBSET Signals
  <2>1. Proper(signals) /\ process.pid \in Pid
    BY Zenon DEF SInv, AllProper, IInv, TypeOK
  <2>2. signals.blocked \in SUBSET Signals
    BY <2>1, Zenon DEF Proper, SignalState
  <2>3. QED
    BY <2>1, <2>2, ForkAssumption, PidNumbers, Zenon
<1>2. ASSUME NEW s \in Signals, NEW action \in Installable, rt_sigaction(s, action)
      PROVE  SInv' /\ AllMoved
  <2>1. /\ Proper(set_action(signals, s, action))
        /\ signals.pending \subseteq set_action(signals, s, action).pending
    BY <1>1, <1>2, SetActionProper, SignalsAssumption, Zenon DEF rt_sigaction
  <2>2. QED
    BY <1>2, <2>1, OwnCallKeeps, Zenon DEF rt_sigaction
<1>3. ASSUME NEW operation \in {"block", "unblock", "set"}, NEW set \in Masks,
             rt_sigprocmask(operation, set)
      PROVE  SInv' /\ AllMoved
  <2> DEFINE new == CASE operation = "block"   -> signals.blocked \cup set
                      [] operation = "unblock" -> signals.blocked \ set
                      [] operation = "set"     -> set
  <2>1. new \in SUBSET Signals
    BY <1>1, SignalsAssumption, Zenon
  <2>2. Own(change_mask(signals, new))
    BY <1>3, Zenon DEF rt_sigprocmask
  <2> HIDE DEF new
  <2>3. /\ Proper(change_mask(signals, new))
        /\ signals.pending \subseteq change_mask(signals, new).pending
    BY <1>1, <2>1, PlainMaskProper, Zenon
  <2>4. QED
    BY <2>2, <2>3, OwnCallKeeps, Zenon
<1>4. ASSUME NEW mask \in Masks, rt_sigreturn(mask)
      PROVE  SInv' /\ AllMoved
  <2> DEFINE new == change_mask([signals EXCEPT !.handling = FALSE], mask)
  <2>1. mask \in SUBSET Signals
    BY SignalsAssumption, Zenon
  <2>2. Proper(new) /\ signals.pending \subseteq new.pending
    BY <1>1, <2>1, MaskProper, Zenon
  <2>3. Own(new)
    BY <1>4, Zenon DEF rt_sigreturn
  <2> HIDE DEF new
  <2>4. QED
    BY <2>2, <2>3, OwnCallKeeps, Zenon
<1>5. ASSUME NEW g \in Pid, setpgid(g)
      PROVE  SInv' /\ AllMoved
  <2> DEFINE new == [signals EXCEPT !.group = g]
  <2>1. g \in 0..MaxPid
    BY ForkAssumption, PidNumbers, Zenon
  <2>2. Proper(new) /\ signals.pending \subseteq new.pending
    BY <1>1, <2>1, OwnGroupProper, Zenon
  <2>3. Own(new)
    BY <1>5, Zenon DEF setpgid
  <2> HIDE DEF new
  <2>4. QED
    BY <2>2, <2>3, OwnCallKeeps, Zenon
<1>6. ASSUME setsid
      PROVE  SInv' /\ AllMoved
  <2> DEFINE new == [signals EXCEPT !.group = process.pid, !.session = process.pid]
  <2>1. Proper(new) /\ signals.pending \subseteq new.pending
    BY <1>1, GroupProper, Zenon
  <2>2. Own(new)
    BY <1>6, Zenon DEF setsid
  <2> HIDE DEF new
  <2>3. QED
    BY <2>1, <2>2, OwnCallKeeps, Zenon
<1>7. QED
  BY <1>2, <1>3, <1>4, <1>5, <1>6, Zenon

\* send_signal keeps the signals.
LEMMA SendKeeps ==
  ASSUME SetLaws, SInv, NEW pid \in Pid, NEW s \in Signals, send_signal(pid, s)
  PROVE  SInv' /\ AllMoved
<1>1. /\ IInv /\ AllProper
  BY Zenon DEF SInv
<1>2. /\ UNCHANGED vars
      /\ UNCHANGED <<ancestor_signals, background_signals, child_signals, shell_signals>>
  BY Zenon DEF send_signal
<1>3. IInv'
  BY <1>1, <1>2, OthersKeep, Zenon
<1>4. UNCHANGED <<process, parent, nested_ancestors, interactive_child,
                  interactive_parent, background, halted>>
  BY <1>2, Zenon DEF vars, kernel
<1>5. /\ parent_signals' \in {parent_signals, queue(parent_signals, s)}
      /\ \E state \in {signals, queue(signals, s)} : deliver_pending_signal(state)
  BY Zenon DEF send_signal
<1>6. Proper(parent_signals') /\ Safe(parent_signals, parent_signals')
  BY <1>1, <1>5, QueuedSafe, Zenon DEF AllProper
<1>7. Proper(signals') /\ Moved(process.pid, process.pid, process.pid, signals, signals')
  <2>1. PICK state \in {signals, queue(signals, s)} : deliver_pending_signal(state)
    BY <1>5, Zenon
  <2>2. Proper(state) /\ signals.pending \subseteq state.pending
    <3>1. /\ Proper(signals) /\ Proper(queue(signals, s))
          /\ queue(signals, s).pending = signals.pending \cup {s}
      BY <1>1, QueueProper, Zenon DEF AllProper
    <3>2. QED
      BY <2>1, <3>1, Zenon
  <2>3. QED
    BY <2>1, <2>2, Delivered, MovedRuns, Zenon
<1>8. AllProper'
  BY <1>1, <1>2, <1>4, <1>6, <1>7, Zenon DEF AllProper, depth
<1>9. /\ Safe(child_signals, child_signals') /\ Safe(shell_signals, shell_signals')
      /\ \A i \in 1..depth : Safe(ancestor_signals[i], ancestor_signals'[i])
  BY <1>1, <1>2, MovedWhole, Zenon DEF Safe, AllProper
<1>10. QED
  BY <1>3, <1>4, <1>6, <1>7, <1>8, <1>9, InPlaceKeep, Zenon

\* A signal queued for a group is pending in its members.
LEMMA QueuedPending ==
  ASSUME NEW state, Proper(state), NEW g, NEW s \in Signals
  PROVE  QueuedTo(TRUE, state, g, s).pending =
           state.pending \cup (IF state.group = g THEN {s} ELSE {})
BY QueueProper, Zenon DEF QueuedTo, InGroup

\* An interrupt typed at the terminal reaches its group and keeps the signals.
LEMMA WriteMasterKeeps ==
  ASSUME SetLaws, SInv, NEW g \in Pid, write_master(g, signal_interrupt)
  PROVE  /\ SInv' /\ AllMoved
         /\ \A p \in Alive \ {process.pid, interactive_parent.pid} :
              SignalsOf(p)'.pending = SignalsOf(p).pending \cup
                (IF SignalsOf(p).group = g THEN {signal_interrupt} ELSE {})
<1> DEFINE s == signal_interrupt
<1>1. IInv /\ AllProper /\ Shadowed /\ depth \in Nat /\ s \in Signals
      /\ depth = Len(nested_ancestors)
  BY SignalsPlaced, SignalsAssumption, Zenon
<1>2. /\ UNCHANGED vars /\ shell_signals' = shell_signals
      /\ parent_signals' = QueuedTo(Active(parent), parent_signals, g, s)
      /\ ancestor_signals' = [i \in 1..depth |-> QueuedTo(TRUE, ancestor_signals[i], g, s)]
      /\ child_signals' = QueuedTo(Active(interactive_child), child_signals, g, s)
      /\ \E active : background_signals' = QueuedTo(active, background_signals, g, s)
      /\ deliver_pending_signal(QueuedTo(TRUE, signals, g, s))
  BY Zenon DEF write_master, queue_process_group_signal
<1> HIDE DEF s
<1>3. IInv'
  BY <1>1, <1>2, OthersKeep, Zenon
<1>4. UNCHANGED <<process, parent, nested_ancestors, interactive_child,
                  interactive_parent, background, halted>>
  BY <1>2, Zenon DEF vars, kernel
<1>5. /\ Proper(parent_signals') /\ Safe(parent_signals, parent_signals')
      /\ Proper(child_signals') /\ Safe(child_signals, child_signals')
      /\ Proper(background_signals') /\ Safe(shell_signals, shell_signals')
  BY <1>1, <1>2, QueuedSafe, Zenon DEF AllProper
<1>6. Proper(signals') /\ Moved(process.pid, process.pid, process.pid, signals, signals')
  <2> DEFINE state == QueuedTo(TRUE, signals, g, s)
  <2>1. Proper(signals) /\ Proper(state)
    BY <1>1, QueuedSafe, Zenon DEF AllProper
  <2>2. signals.pending \subseteq state.pending
    <3>1. state.pending = signals.pending \cup (IF signals.group = g THEN {s} ELSE {})
      BY <1>1, <2>1, QueuedPending, Zenon
    <3>2. QED
      BY <3>1, Zenon
  <2> HIDE DEF state
  <2>3. deliver_pending_signal(state)
    BY <1>2, Zenon DEF state
  <2>4. QED
    BY <2>1, <2>2, <2>3, Delivered, MovedRuns, Zenon
<1>7. \A i \in 1..depth : /\ ancestor_signals'[i] = QueuedTo(TRUE, ancestor_signals[i], g, s)
                          /\ Safe(ancestor_signals[i], ancestor_signals'[i])
                          /\ Proper(ancestor_signals'[i])
  BY <1>1, <1>2, QueuedSafe, Zenon DEF AllProper
<1>8. AllProper'
  <2>1. \A i \in 1..depth : QueuedTo(TRUE, ancestor_signals[i], g, s) \in SignalState
    BY <1>7, Zenon DEF Proper
  <2>2. ancestor_signals' \in Seq(SignalState) /\ Len(ancestor_signals') = depth
    <3> DEFINE Q(i) == QueuedTo(TRUE, ancestor_signals[i], g, s)
    <3>1. ancestor_signals' = [i \in 1..depth |-> Q(i)] /\ \A i \in 1..depth : Q(i) \in SignalState
      BY <1>2, <2>1, Zenon
    <3>2. depth \in Nat
      BY <1>1, Zenon
    <3> HIDE DEF Q
    <3>3. QED
      BY <3>1, <3>2
  <2>3. QED
    BY <1>1, <1>2, <1>4, <1>5, <1>6, <1>7, <2>2, Zenon DEF AllProper, depth
<1>9. SInv' /\ AllMoved
  BY <1>3, <1>4, <1>5, <1>6, <1>7, <1>8, InPlaceKeep, Zenon
<1>10. ASSUME NEW p \in Alive \ {process.pid, interactive_parent.pid}
       PROVE  SignalsOf(p)'.pending = SignalsOf(p).pending \cup
                (IF SignalsOf(p).group = g THEN {s} ELSE {})
  <2> DEFINE old == SignalsOf(p)
             new == SignalsOf(p)'
  <2>1. p \in Pid /\ Across(p, old, new)
    BY <1>1, <1>9, FoundAcross, Zenon DEF SInv
  <2> HIDE DEF old, new
  <2>2. p # 0
    BY <2>1, ForkAssumption, PidNumbers, Zenon
  <2>3. new = QueuedTo(TRUE, old, g, s) /\ Proper(old)
    <3>1. CASE p = parent.pid \/ p = interactive_child.pid
      BY <1>1, <1>2, <1>4, <2>1, <2>2, <3>1, Zenon DEF Across, AllProper, Active
    <3>2. CASE \E i \in 1..depth : p = nested_ancestors[i].pid
      BY <1>1, <1>4, <1>7, <2>1, <3>2, Zenon DEF Across, AllProper
    <3>3. QED
      BY <1>10, <2>1, <3>1, <3>2, Zenon DEF Across
  <2>4. new.pending = old.pending \cup (IF old.group = g THEN {s} ELSE {})
    BY <1>1, <2>3, QueuedPending, Zenon
  <2>5. QED
    BY <2>4, Zenon DEF old, new
<1>11. QED
  BY <1>9, <1>10, Zenon DEF s

\* A process in a place visited before the background record is alive and is not
\* the relay.
LEMMA VisitedLive ==
  ASSUME SetLaws, NEW q, NEW a, NEW n, NEW b, NEW c, NEW g, NEW alive, NEW p \in Pid,
         Placed(q, a, n, b, c, g, alive), q.pid \in alive,
         p \in {q.pid, a.pid, b.pid} \/ \E i \in 1..Len(n) : p = n[i].pid
  PROVE  p \in alive /\ p # c.pid
<1> DEFINE k == Count(n, Of(p))
<1>1. n \in Seq(Context) /\ p # 0 /\ g.snap = 0
  BY ForkAssumption, PidNumbers, Zenon DEF Placed
<1>2. k \in Nat
  BY <1>1, CountBounded, Zenon
<1>3. (\E i \in 1..Len(n) : p = n[i].pid) => k # 0
  <2>1. \A i \in 1..Len(n) : n[i] \in Of(p) <=> n[i].pid = p
    BY <1>1, Indexed, Zenon DEF Of
  <2>2. QED
    BY <1>1, <2>1, CountSeen, Zenon
<1>4. k + Bit(a.pid = p) + Bit(b.pid = p) + Bit(c.pid = p) + Bit(g.snap = p)
      = Bit(p \in alive /\ p # q.pid)
  BY Zenon DEF Placed, Places
<1>5. /\ k # 0 \/ p = a.pid \/ p = b.pid => p \in alive /\ p # c.pid
      /\ p = q.pid => p # c.pid
  <2> DEFINE x == Bit(a.pid = p)
             y == Bit(b.pid = p)
             z == Bit(c.pid = p)
             w == Bit(p \in alive /\ p # q.pid)
  <2>0. 0 # 1
    OBVIOUS
  <2>1. /\ k \in Nat /\ x \in {0, 1} /\ y \in {0, 1} /\ z \in {0, 1} /\ w \in {0, 1}
        /\ p = a.pid => x = 1
        /\ p = b.pid => y = 1
        /\ p = c.pid => z = 1
        /\ w = 1 => p \in alive /\ p # q.pid
        /\ Bit(g.snap = p) = 0
    BY <1>1, <1>2, <2>0, Zenon DEF Bit
  <2>2. k + x + y + z + 0 = w
    BY <1>4, <2>1, Zenon
  <2> HIDE DEF k, x, y, z, w
  <2>3. /\ k # 0 \/ x = 1 \/ y = 1 => w = 1 /\ z # 1
        /\ z = 1 => w = 1
    BY <2>1, <2>2, SMTT(60)
  <2>4. QED
    BY <2>1, <2>3, Zenon
<1>6. QED
  BY <1>3, <1>5, Zenon

\* What takes a signal in the background record is the copy of a live process that
\* has left the group.
LEMMA CopyTaken ==
  ASSUME SetLaws, SInv, NEW g \in Pid, write_master(g, signal_interrupt),
         background_signals' # background_signals
  PROVE  \E p \in Alive \ {interactive_parent.pid} :
           p = background.pid /\ SignalsOf(p).group # g
<1> DEFINE p == background.pid
<1>1. IInv /\ Shadowed /\ ~halted /\ depth = Len(nested_ancestors)
  BY SignalsPlaced, Zenon DEF write_master
<1>2. background.used /\ p \notin delivered_pids(g)
  BY Zenon DEF write_master, queue_process_group_signal, QueuedTo, InGroup
<1>3. /\ p # 0 /\ background.snap = 0
      /\ \/ p \in {process.pid, parent.pid, interactive_child.pid}
         \/ \E i \in 1..Len(nested_ancestors) : p = nested_ancestors[i].pid
  BY <1>1, <1>2, Zenon DEF Shadowed, RecordVisited
<1>4. p \in Pid
  BY <1>1, <1>3, PidNumbers, Zenon DEF IInv, TypeOK, Background
<1>5. p \in Alive /\ p # interactive_parent.pid
  <2>1. /\ Placed(process, parent, nested_ancestors, interactive_child,
                  interactive_parent, background, Alive)
        /\ process.pid \in Alive
    BY <1>1, <1>3, Zenon DEF Placed, IInv, Kept, TypeOK
  <2>2. QED
    BY <1>3, <1>4, <2>1, VisitedLive, Zenon
<1>6. SignalsOf(p).group # g
  <2> DEFINE found == SignalsOf(p)
  <2>1. /\ p = process.pid => found = signals
        /\ p = parent.pid => found = parent_signals
        /\ p = interactive_child.pid => found = child_signals
        /\ \A i \in 1..Len(nested_ancestors) :
             p = nested_ancestors[i].pid => found = ancestor_signals[i]
    <3> DEFINE at(r) == SignalsAt(process, parent, nested_ancestors, interactive_child,
                          interactive_parent, signals, parent_signals, ancestor_signals,
                          child_signals, shell_signals, r)
    <3>1. found = at(p)
      BY <1>1, <1>3, FoundNow, Zenon
    <3>2. \A r \in Pid :
            /\ r = process.pid => at(r) = signals
            /\ r = parent.pid => at(r) = parent_signals
            /\ r = interactive_child.pid => at(r) = child_signals
            /\ \A i \in 1..Len(nested_ancestors) :
                 r = nested_ancestors[i].pid => at(r) = ancestor_signals[i]
      BY <1>1, <1>3, FoundNow, Zenon DEF Finds
    <3> HIDE DEF at, found
    <3>3. QED
      BY <1>4, <3>1, <3>2, Zenon
  <2> HIDE DEF found
  <2>2. found.group # g
    BY <1>1, <1>2, <1>3, <1>4, <2>1, Zenon DEF delivered_pids
  <2>3. QED
    BY <2>2, Zenon DEF found
<1>7. QED
  BY <1>5, <1>6, Zenon

-----------------------------------------------------------------------------
(* The parks and resumptions of the interactive program.                   *)

\* Parking keeps the signals.
LEMMA ParkSignalsKeep ==
  ASSUME SetLaws, SInv, park_child
  PROVE  SInv' /\ AllMoved
<1> USE ForkAssumption
<1>1. /\ IInv /\ AllProper /\ Shadowed /\ park_interactive_child /\ ~halted /\ ~halted'
      /\ Active(parent) /\ ~Active(interactive_child)
      /\ depth \in Nat /\ depth = Len(nested_ancestors)
  BY SignalsPlaced, Zenon DEF park_child, park_interactive_child, CanParkInteractive
<1>2. /\ interactive_child'.pid = process.pid /\ parent' = NoContext
      /\ background' = background /\ child_signals' = signals
      /\ parent_signals' = NoSignals /\ background_signals' = background_signals
  <2>1. /\ interactive_child' = Suspended("block", 0) /\ parent' = NoContext
        /\ background' = background
    BY <1>1, Zenon DEF park_interactive_child
  <2>2. /\ child_signals' = signals /\ parent_signals' = NoSignals
        /\ background_signals' = background_signals
    BY Zenon DEF park_child
  <2>3. QED
    BY <2>1, <2>2, Zenon DEF Suspended
<1>3. /\ process.pid # 0 /\ interactive_child.pid = 0 /\ interactive_parent.pid = 0
      /\ background.snap = 0
  BY <1>1, PidNumbers, Zenon DEF IInv, TypeOK, Active, Relays, Shadowed
<1>4. CASE ~relay_through_ancestor
  <2>1. IInv'
    BY <1>1, <1>4, ParkDirectKeeps, Zenon
  <2>2. /\ process'.pid = parent.pid
        /\ UNCHANGED <<interactive_parent, nested_ancestors, shell_signals,
                       ancestor_signals>>
        /\ deliver_pending_signal(parent_signals)
    <3>1. /\ process'.pid = parent.pid
          /\ UNCHANGED <<interactive_parent, nested_ancestors>>
      BY <1>1, <1>4, Zenon DEF park_interactive_child, resume_parent
    <3>2. UNCHANGED <<shell_signals, ancestor_signals>> /\ deliver_pending_signal(parent_signals)
      BY <1>4, Zenon DEF park_child
    <3>3. QED
      BY <3>1, <3>2, Zenon
  <2>3. Proper(parent_signals) /\ Proper(signals') /\ Takes(parent_signals, signals')
    BY <1>1, <2>2, Delivered, Zenon DEF AllProper
  <2>4. AllProper'
    BY <1>1, <1>2, <2>2, <2>3, NoSignalsProper, Zenon DEF AllProper, depth
  <2>5. Shadowed'
    <3>1. background.used => /\ background.pid # 0
                             /\ \/ background.pid \in {process.pid, parent.pid}
                                \/ background.pid \in {nested_ancestors[i].pid : i \in 1..depth}
                             /\ depth # 0 => background.pid = process.pid
      BY <1>1, <1>3, Zenon DEF Shadowed, RecordVisited
    <3>2. Active(interactive_child')
      BY <1>2, <1>3, Zenon DEF Active
    <3>3. RecordVisited'
      BY <1>2, <2>2, <3>1, Zenon DEF RecordVisited, depth
    <3>4. QED
      BY <1>2, <1>3, <2>2, <3>1, <3>2, <3>3, Zenon DEF Shadowed, depth
  <2>6. ASSUME NEW p \in Pid, NEW old, NEW new, Across(p, old, new), p # parent.pid
        PROVE  new = old /\ Proper(old)
    <3>1. p # interactive_child.pid /\ p # interactive_parent.pid
      BY <1>3, PidNumbers, Zenon
    <3>2. CASE p = process.pid
      BY <1>1, <1>2, <2>6, <3>2, Zenon DEF Across, AllProper
    <3>3. CASE \E i \in 1..depth : p = nested_ancestors[i].pid
      BY <1>1, <2>2, <2>6, <3>3, Zenon DEF Across, AllProper
    <3>4. QED
      BY <2>6, <3>1, <3>2, <3>3, Zenon DEF Across
  <2>7. ASSUME NEW p \in Pid, NEW old, NEW new, Across(p, old, new), p = parent.pid
        PROVE  Moved(p, process.pid, process'.pid, old, new)
    <3>1. old = parent_signals /\ new = signals' /\ process'.pid = p
      BY <2>2, <2>7, Zenon DEF Across
    <3>2. QED
      BY <2>3, <3>1, MovedRuns, Zenon
  <2>8. AllMoved
    BY <1>1, <2>1, <2>5, <2>6, <2>7, MovedWhole, MovedAcross, Zenon
  <2>9. QED
    BY <2>1, <2>4, <2>5, <2>8, Zenon DEF SInv
<1>5. CASE relay_through_ancestor
  <2>1. IInv' /\ depth # 0
    BY <1>1, <1>5, ParkRelayKeeps DEF relay_through_ancestor
  <2>2. /\ process'.pid = Newest.pid /\ interactive_parent' = parent
        /\ nested_ancestors' = Older /\ shell_signals' = parent_signals
        /\ ancestor_signals' = OlderSignals
        /\ deliver_pending_signal(NewestSignals)
    <3>1. /\ process'.pid = Newest.pid /\ interactive_parent' = parent
          /\ nested_ancestors' = Older
      BY <1>1, <1>5, Zenon DEF park_interactive_child, resume_parent
    <3>2. /\ shell_signals' = parent_signals /\ ancestor_signals' = OlderSignals
          /\ deliver_pending_signal(NewestSignals)
      BY <1>5, Zenon DEF park_child
    <3>3. QED
      BY <3>1, <3>2, Zenon
  <2>3. /\ depth \in 1..depth /\ Len(Older) = depth - 1 /\ Len(OlderSignals) = depth - 1
        /\ Newest = nested_ancestors[depth]
        /\ NewestSignals = ancestor_signals[depth] /\ Proper(NewestSignals)
        /\ OlderSignals \in Seq(SignalState)
        /\ \A i \in 1..depth - 1 : /\ Older[i] = nested_ancestors[i]
                                   /\ OlderSignals[i] = ancestor_signals[i]
                                   /\ Proper(OlderSignals[i])
    BY <2>1, NewestTaken, Zenon
  <2>4. Proper(signals') /\ Takes(NewestSignals, signals')
    BY <2>2, <2>3, Delivered, Zenon
  <2>5. AllProper'
    <3>1. depth' = depth - 1
      BY <2>2, <2>3, Zenon DEF depth
    <3>2. QED
      BY <1>1, <1>2, <2>2, <2>3, <2>4, <3>1, NoSignalsProper, Zenon DEF AllProper
  <2>6. Shadowed'
    <3>1. background.used => background.pid # 0 /\ background.pid = process.pid
      BY <1>1, <2>1, Zenon DEF Shadowed
    <3>2. Active(interactive_child') /\ Active(interactive_parent')
      BY <1>1, <1>2, <1>3, <2>2, Zenon DEF Active
    <3>3. QED
      BY <1>2, <1>3, <3>1, <3>2, Zenon DEF Shadowed, RecordVisited
  <2>7. ASSUME NEW p \in Pid, NEW old, NEW new, Across(p, old, new), p # Newest.pid
        PROVE  new = old /\ Proper(old)
    <3>1. p # interactive_child.pid /\ p # interactive_parent.pid
      BY <1>3, PidNumbers, Zenon
    <3>2. CASE p = process.pid \/ p = parent.pid
      BY <1>1, <1>2, <2>2, <2>7, <3>2, Zenon DEF Across, AllProper
    <3>3. ASSUME NEW i \in 1..depth, p = nested_ancestors[i].pid
          PROVE  new = old /\ Proper(old)
      <4>1. i \in 1..depth - 1 /\ i \in 1..Len(nested_ancestors')
        BY <1>1, <2>2, <2>3, <2>7, <3>3, Ranges, Zenon
      <4>2. p = nested_ancestors'[i].pid /\ ancestor_signals'[i] = ancestor_signals[i]
            /\ Proper(ancestor_signals[i])
        BY <2>2, <2>3, <3>3, <4>1, Zenon
      <4>3. QED
        BY <2>7, <3>3, <4>1, <4>2, Zenon DEF Across
    <3>4. QED
      BY <2>7, <3>1, <3>2, <3>3, Zenon DEF Across
  <2>8. ASSUME NEW p \in Pid, NEW old, NEW new, Across(p, old, new), p = Newest.pid
        PROVE  Moved(p, process.pid, process'.pid, old, new)
    <3>1. old = NewestSignals /\ new = signals' /\ process'.pid = p
      BY <2>2, <2>3, <2>8, Zenon DEF Across
    <3>2. QED
      BY <2>4, <3>1, MovedRuns, Zenon
  <2>9. AllMoved
    BY <1>1, <2>1, <2>6, <2>7, <2>8, MovedWhole, MovedAcross, Zenon
  <2>10. QED
    BY <2>1, <2>5, <2>6, <2>9, Zenon DEF SInv
<1>6. QED
  BY <1>4, <1>5, Zenon

\* Resuming keeps the signals.
LEMMA ResumeSignalsKeep ==
  ASSUME SetLaws, SInv, resume_child
  PROVE  SInv' /\ AllMoved
<1> USE ForkAssumption
<1>1. /\ IInv /\ AllProper /\ Shadowed /\ resume_interactive_child_if_ready(wait_interrupted)
      /\ ~halted /\ Active(interactive_child) /\ ~Active(parent)
      /\ nested_ancestors \in Seq(Context) /\ depth \in Nat /\ depth = Len(nested_ancestors)
  BY SignalsPlaced, Zenon
     DEF resume_child, resume_interactive_child_if_ready, pty_child_can_resume
<1>2. process.pid # 0 /\ parent.pid = 0 /\ background.snap = 0
  BY <1>1, PidNumbers, Zenon DEF IInv, TypeOK, Active, Shadowed
<1>3. /\ process'.pid = interactive_child.pid /\ interactive_child'.pid = 0
      /\ interactive_parent'.pid = 0 /\ ~halted'
      /\ shell_signals' = NoSignals /\ child_signals' = NoSignals
      /\ deliver_pending_signal(child_signals)
  <2>1. /\ process' = [pid |-> interactive_child.pid,
                       parent_pid |-> interactive_child.parent_pid]
        /\ interactive_child' = NoContext /\ interactive_parent' = NoContext
        /\ halted' = halted
    BY <1>1, <1>2, Zenon DEF resume_interactive_child_if_ready
  <2>2. /\ shell_signals' = NoSignals /\ child_signals' = NoSignals
        /\ deliver_pending_signal(child_signals)
    BY Zenon DEF resume_child
  <2>3. QED
    BY <1>1, <2>1, <2>2, Zenon DEF NoContext
<1>4. Proper(child_signals) /\ Proper(signals') /\ Takes(child_signals, signals')
  BY <1>1, <1>3, Delivered, Zenon DEF AllProper
<1>5. ASSUME NEW p \in Pid, NEW old, NEW new, Across(p, old, new), p = interactive_child.pid
      PROVE  Moved(p, process.pid, process'.pid, old, new)
  <2>1. old = child_signals /\ new = signals' /\ process'.pid = p
    BY <1>3, <1>5, Zenon DEF Across
  <2>2. QED
    BY <1>4, <2>1, MovedRuns, Zenon
<1>6. CASE ~relayed
  <2>1. IInv'
    BY <1>1, <1>6, ResumeDirectKeeps, Zenon
  <2>2. /\ parent'.pid = process.pid
        /\ UNCHANGED <<nested_ancestors, background, ancestor_signals, background_signals>>
        /\ parent_signals' = signals
    <3>1. /\ parent' = Suspended("block", interactive_child.pid)
          /\ UNCHANGED <<nested_ancestors, background>>
      BY <1>1, <1>6, Zenon DEF resume_interactive_child_if_ready
    <3>2. UNCHANGED <<ancestor_signals, background_signals>> /\ parent_signals' = signals
      BY <1>6, Zenon DEF resume_child
    <3>3. QED
      BY <3>1, <3>2, Zenon DEF Suspended
  <2>3. interactive_parent.pid = 0
    BY <1>6, Zenon DEF relayed, Active
  <2>4. AllProper'
    BY <1>1, <1>3, <1>4, <2>2, NoSignalsProper, Zenon DEF AllProper, depth
  <2>5. Shadowed'
    <3>1. background.used =>
            /\ background.pid # 0
            /\ \/ background.pid \in {process.pid, interactive_child.pid}
               \/ background.pid \in {nested_ancestors[i].pid : i \in 1..depth}
            /\ depth # 0 => background.pid = interactive_child.pid
      BY <1>1, <1>2, <1>6, Zenon DEF Shadowed, RecordVisited, relayed
    <3>2. Active(parent') /\ ~Active(interactive_child')
      BY <1>2, <1>3, <2>2, Zenon DEF Active
    <3>3. RecordVisited'
      BY <1>3, <2>2, <3>1, Zenon DEF RecordVisited, depth
    <3>4. QED
      BY <1>2, <1>3, <2>2, <3>1, <3>2, <3>3, Zenon DEF Shadowed, depth
  <2>6. ASSUME NEW p \in Pid, NEW old, NEW new, Across(p, old, new),
               p # interactive_child.pid
        PROVE  new = old /\ Proper(old)
    <3>1. p # parent.pid /\ p # interactive_parent.pid
      BY <1>2, <2>3, PidNumbers, Zenon
    <3>2. CASE p = process.pid
      BY <1>1, <2>2, <2>6, <3>2, Zenon DEF Across, AllProper
    <3>3. CASE \E i \in 1..depth : p = nested_ancestors[i].pid
      BY <1>1, <2>2, <2>6, <3>3, Zenon DEF Across, AllProper
    <3>4. QED
      BY <2>6, <3>1, <3>2, <3>3, Zenon DEF Across
  <2>7. AllMoved
    BY <1>1, <1>5, <2>1, <2>5, <2>6, MovedWhole, MovedAcross, Zenon
  <2>8. QED
    BY <2>1, <2>4, <2>5, <2>7, Zenon DEF SInv
<1>7. CASE relayed
  <2> DEFINE server == Suspended("block", interactive_parent.pid)
  <2>1. IInv'
    BY <1>1, <1>2, <1>7, ResumeRelayedKeeps, Zenon
  <2>2. /\ parent' = interactive_parent /\ nested_ancestors' = Append(nested_ancestors, server)
        /\ background' = NoBackground /\ parent_signals' = shell_signals
        /\ ancestor_signals' = Append(ancestor_signals, signals)
        /\ background_signals' = NoSignals
    BY <1>1, <1>2, <1>7, Zenon DEF resume_child, resume_interactive_child_if_ready
  <2>3. server \in Context /\ server.pid = process.pid
    <3>1. /\ process \in [pid : Pid, parent_pid : 0..MaxPid] /\ memory \in 0..MaxPid
          /\ descriptors \subseteq Objects /\ interactive_parent.pid \in 0..MaxPid
      BY <1>1, Zenon DEF IInv, TypeOK, Context
    <3>2. process.pid \in 0..MaxPid /\ process.parent_pid \in 0..MaxPid
      BY <3>1, PidNumbers, Zenon
    <3>3. QED
      BY <3>1, <3>2, Zenon DEF Suspended, Context
  <2> HIDE DEF server
  <2>4. /\ Len(nested_ancestors') = depth + 1 /\ nested_ancestors'[depth + 1] = server
        /\ \A i \in 1..depth : nested_ancestors'[i] = nested_ancestors[i]
    <3>1. Grown(nested_ancestors, server, nested_ancestors')
      BY <1>1, <2>2, <2>3, Pushed, Zenon
    <3>2. QED
      BY <1>1, <3>1, Zenon DEF Grown
  <2>5. /\ ancestor_signals' \in Seq(SignalState) /\ Len(ancestor_signals') = depth + 1
        /\ ancestor_signals'[depth + 1] = signals
        /\ \A i \in 1..depth : ancestor_signals'[i] = ancestor_signals[i]
    <3>1. /\ ancestor_signals \in Seq(SignalState) /\ Len(ancestor_signals) = depth
          /\ signals \in SignalState
      BY <1>1, Zenon DEF AllProper, Proper
    <3>2. QED
      BY <2>2, <3>1, StackedSignals, Zenon
  <2>6. AllProper'
    <3>1. \A i \in 1..depth + 1 : i = depth + 1 \/ i \in 1..depth
      BY <1>1, Ranges, Zenon
    <3>2. \A i \in 1..depth + 1 : Proper(ancestor_signals'[i])
      BY <1>1, <2>5, <3>1, Zenon DEF AllProper
    <3>3. depth' = depth + 1
      BY <2>4, Zenon DEF depth
    <3>4. QED
      BY <1>1, <1>3, <1>4, <2>2, <2>5, <3>2, <3>3, NoSignalsProper, Zenon DEF AllProper
  <2>7. Shadowed'
    <3>1. ~background'.used /\ background'.snap = 0 /\ Active(parent')
      BY <1>7, <2>2, Zenon DEF NoBackground, relayed
    <3>2. QED
      BY <3>1, Zenon DEF Shadowed, RecordVisited
  <2>8. ASSUME NEW p \in Pid, NEW old, NEW new, Across(p, old, new),
               p # interactive_child.pid
        PROVE  new = old /\ Proper(old)
    <3>1. p # parent.pid
      BY <1>2, PidNumbers, Zenon
    <3>2. CASE p = process.pid
      BY <1>1, <2>3, <2>4, <2>5, <2>8, <3>2, Ranges, Zenon DEF Across, AllProper
    <3>3. CASE p = interactive_parent.pid
      BY <1>1, <2>2, <2>8, <3>3, Zenon DEF Across, AllProper
    <3>4. ASSUME NEW i \in 1..depth, p = nested_ancestors[i].pid
          PROVE  new = old /\ Proper(old)
      <4>1. /\ i \in 1..Len(nested_ancestors') /\ p = nested_ancestors'[i].pid
            /\ ancestor_signals'[i] = ancestor_signals[i]
        BY <1>1, <2>4, <2>5, <3>4, Ranges, Zenon
      <4>2. QED
        BY <1>1, <2>8, <3>4, <4>1, Zenon DEF Across, AllProper
    <3>5. QED
      BY <2>8, <3>1, <3>2, <3>3, <3>4, Zenon DEF Across
  <2>9. AllMoved
    BY <1>1, <1>5, <2>1, <2>7, <2>8, MovedWhole, MovedAcross, Zenon
  <2>10. QED
    BY <2>1, <2>6, <2>7, <2>9, Zenon DEF SInv
<1>8. QED
  BY <1>6, <1>7, Zenon

-----------------------------------------------------------------------------
(* Every step.                                                             *)

\* The signals start proper.
LEMMA InitSInv ==
  ASSUME SetLaws, SignalsInit
  PROVE  SInv
<1> USE ForkAssumption
<1>1. IInv
  BY InitIInv, Zenon DEF SignalsInit
<1>2. /\ depth = 0 /\ background.snap = 0 /\ ~background.used
      /\ ~Active(interactive_child)
  BY Zenon DEF SignalsInit, Init, depth, NoBackground, NoContext, Active
<1>3. Proper(signals)
  <2>1. 1 \in 0..MaxPid
    BY PidNumbers, Zenon
  <2>2. QED
    BY <2>1, NoSignalsProper, GroupProper, Zenon DEF SignalsInit
<1>4. AllProper
  BY <1>2, <1>3, NoSignalsProper DEF SignalsInit, AllProper
<1>5. QED
  BY <1>1, <1>2, <1>4, Zenon DEF SInv, Shadowed, RecordVisited

\* Every step keeps the signals.
LEMMA SignalsStep ==
  ASSUME SetLaws, SInv, [SignalsNext]_allvars
  PROVE  SInv' /\ AllMoved
<1>1. CASE Moves
  BY <1>1, ForkSignalsKeep, ForkNoMemorySignalsKeep, ExitSignalsKeep, QuietKeeps,
     ParkSignalsKeep, ResumeSignalsKeep, OtherCallKeeps, Zenon DEF Moves
<1>2. CASE \E mask \in Masks : rt_sigreturn(mask)
  BY <1>2, OwnStateKeeps, Zenon
<1>3. CASE SignalCalls
  BY <1>3, OwnStateKeeps, SendKeeps, WriteMasterKeeps, Zenon DEF SignalCalls
<1>4. CASE UNCHANGED allvars
  BY <1>4, QuietKeeps, Zenon
<1>5. QED
  BY <1>1, <1>2, <1>3, <1>4, Zenon DEF SignalsNext

-----------------------------------------------------------------------------
(* The library, and what was assumed of it.                                *)

INSTANCE FiniteSetTheorems

\* The library of finite sets gives what the proofs use.
LEMMA Laws == SetLaws
<1>1. ASSUME NEW S \in SUBSET Nat, S # {}
      PROVE  \E n \in S : \A m \in S : n <= m
  <2> DEFINE R == OpToRel(<, Nat)
  <2>1. IsWellFoundedOn(R, Nat)
    BY NatLessThanWellFounded, Zenon
  <2>2. \A x, y \in Nat : <<x, y>> \in R <=> x < y
    BY Zenon DEF OpToRel
  <2> HIDE DEF R
  <2>3. PICK n \in S : \A y \in S : ~(<<y, n>> \in R)
    BY <1>1, <2>1, WFMin, Zenon
  <2>4. n \in Nat /\ \A y \in S : y \in Nat
    BY <2>3, Zenon
  <2>5. \A y \in S : ~(y < n)
    BY <2>2, <2>3, <2>4, Zenon
  <2>6. QED
    BY <2>4, <2>5
<1>2. ASSUME NEW n \in Nat
      PROVE  IsFiniteSet(1..n) /\ Cardinality(1..n) = n
  <2>1. IF 1 > n THEN n - 1 + 1 = n ELSE n - 1 + 1 = n
    OBVIOUS
  <2>2. QED
    BY <2>1, FS_Interval
<1>3. IsFiniteSet({}) /\ Cardinality({}) = 0
  BY FS_EmptySet, Zenon
<1>4. \A x : IsFiniteSet({x}) /\ Cardinality({x}) = 1
  BY FS_Singleton, Zenon
<1>5. ASSUME NEW S, IsFiniteSet(S)
      PROVE  /\ Cardinality(S) \in Nat
             /\ Cardinality(S) = 0 <=> S = {}
             /\ Cardinality(S) = 1 => \E x : S = {x}
  BY <1>5, FS_CardinalityType, FS_EmptySet, FS_Singleton, Zenon
<1>6. ASSUME NEW S, IsFiniteSet(S), NEW T \in SUBSET S
      PROVE  IsFiniteSet(T) /\ Cardinality(T) <= Cardinality(S)
  BY <1>6, FS_Subset, Zenon
<1>7. ASSUME NEW S, IsFiniteSet(S), NEW x
      PROVE  /\ IsFiniteSet(S \cup {x})
             /\ x \notin S => Cardinality(S \cup {x}) = Cardinality(S) + 1
  BY <1>7, FS_AddElement, Zenon
<1>8. QED
  BY <1>1, <1>2, <1>3, <1>4, <1>5, <1>6, <1>7, Zenon DEF SetLaws

-----------------------------------------------------------------------------
(* Theorems about the fork adapter.                                        *)

\* IInv is inductive: clone, exit, the parks and the resumptions of
\* kernel/syscall.cpp move contexts and images so that each live process stays
\* in one place, linked to its parent.
THEOREM ForkInvariant == Spec /\ []ListenerAtTop => []IInv
<1>1. Init => IInv
  BY Laws, InitIInv, Zenon
<1>2. IInv /\ ListenerAtTop /\ [Next]_vars => IInv'
  BY Laws, StepKeeps, Zenon
<1>3. QED
  BY <1>1, <1>2, PTL DEF Spec

\* No process is lost and none is duplicated by clone, exit, park and resume:
\* each one that has not exited is active or in exactly one saved context, with
\* its own image in the arena and no image of any other.
THEOREM ProcessesStayKept == Spec /\ []ListenerAtTop => []EveryProcessKept
<1>1. IInv => EveryProcessKept
  BY Laws, KeptProcesses, Zenon
<1>2. QED
  BY <1>1, ForkInvariant, PTL

\* retain_descriptor and release_descriptor keep every object's count equal to
\* the number of descriptor tables that hold it, suspended ones included.
THEOREM ReferencesStayExact == Spec /\ []ListenerAtTop => []ReferencesExact
<1>1. IInv => ReferencesExact
  BY Laws, CountedReferences, Zenon
<1>2. QED
  BY <1>1, ForkInvariant, PTL

\* The suspended processes are the ancestors of the active one in order, however
\* stack_suspended_ancestor, reinstate_suspended_ancestor and the relay moved
\* them.
THEOREM AncestryStaysOrdered == Spec /\ []ListenerAtTop => []AncestryOrdered
<1>1. IInv => AncestryOrdered
  BY Laws, OrderedAncestry, Zenon
<1>2. QED
  BY <1>1, ForkInvariant, PTL

\* A park returns from its parent's fork exactly when no earlier park or exit of
\* that child did; every later one replays the blocked call.
THEOREM ForkAnsweredOnce == Spec /\ []ListenerAtTop => []ParkAnswersForkOnce
<1>1. IInv => ParkAnswersForkOnce
  BY Zenon DEF IInv
<1>2. QED
  BY <1>1, ForkInvariant, PTL

\* When the only service that waits for a listener is the first program the
\* console shell starts, as in the profile that runs the SSH server, nothing is
\* asked of the programs.
THEOREM FirstServiceAtTop ==
  ASSUME Services \subseteq {2}
  PROVE  Spec => [](ListenerAtTop /\ EveryProcessKept /\ ReferencesExact /\ AncestryOrdered
                    /\ ParkAnswersForkOnce)
<1>1. Init => IInv
  BY Laws, InitIInv, Zenon
<1>2. IInv => ListenerAtTop
  BY SecondAtTop, Zenon
<1>3. IInv /\ [Next]_vars => IInv'
  BY <1>2, Laws, StepKeeps, Zenon
<1>4. IInv => EveryProcessKept /\ ReferencesExact /\ AncestryOrdered /\ ParkAnswersForkOnce
  BY Laws, KeptProcesses, CountedReferences, OrderedAncestry, Zenon DEF IInv
<1>5. QED
  BY <1>1, <1>2, <1>3, <1>4, PTL DEF Spec

-----------------------------------------------------------------------------
(* Theorems about signals.                                                 *)

\* The invariant of the contexts together with their signals.
THEOREM SignalsInvariant == SignalsSpec => []SInv
<1>1. SignalsInit => SInv
  BY Laws, InitSInv, Zenon
<1>2. SInv /\ [SignalsNext]_allvars => SInv'
  BY Laws, SignalsStep, Zenon
<1>3. QED
  BY <1>1, <1>2, PTL DEF SignalsSpec

\* SIGKILL and SIGSTOP can be neither blocked nor caught, in any context, whatever
\* masks rt_sigprocmask, rt_sigreturn and the handlers that deliver_pending_signal
\* enters install, and however deep the forks nest.
THEOREM NeverCaught == SignalsSpec => []Uncatchable
<1>1. SInv => Uncatchable
  BY ProperUncatchable, Zenon DEF SInv
<1>2. QED
  BY <1>1, SignalsInvariant, PTL

\* queue_process_group_signal queues nothing in the stale copy of a live member of
\* the group, after every fork, exit, park, relay and resumption that captures or
\* clears the background record: a process whose copy takes the signal lives on
\* elsewhere and has left the group.
THEOREM StaleCopyIsSpared == SignalsSpec => StaleCopySpared
<1>1. SInv =>
        [\A g \in Pid :
           write_master(g, signal_interrupt) /\ background_signals' # background_signals =>
             \E p \in Alive \ {interactive_parent.pid} :
               p = background.pid /\ SignalsOf(p).group # g]_allvars
  BY Laws, CopyTaken, Zenon
<1>2. QED
  BY <1>1, SignalsInvariant, PTL DEF SignalsSpec, StaleCopySpared

\* No move of a context loses or delivers a signal of a process that does not run,
\* and the end of a system call takes at most one signal from the process that
\* does, none that it blocked when it came to run.
THEOREM SignalsStayKept == SignalsSpec => SignalsKept
<1>1. SInv /\ [SignalsNext]_allvars =>
        [\A p \in Alive \cap Alive' :
           LET old == SignalsOf(p)
               new == SignalsOf(p)'
               taken == old.pending \ new.pending
           IN  /\ p # process'.pid =>
                    /\ taken = {}
                    /\ p # process.pid => new = [old EXCEPT !.pending = new.pending]
               /\ Cardinality(taken) <= 1
               /\ p # process.pid => taken \cap old.blocked = {}]_allvars
  <2> SUFFICES ASSUME SInv, [SignalsNext]_allvars
               PROVE  AllMoved
    BY Zenon DEF AllMoved, Moved
  <2>1. QED
    BY Laws, SignalsStep, Zenon
<1>2. QED
  BY <1>1, SignalsInvariant, PTL DEF SignalsSpec, SignalsKept

\* queue_process_group_signal reaches every live process of the group wherever its
\* context is, the shell behind a relayed program excepted, and no other process.
THEOREM GroupIsReached == SignalsSpec => GroupReached
<1>1. SInv =>
        [\A g \in Pid : write_master(g, signal_interrupt) =>
           \A p \in Alive \ {process.pid, interactive_parent.pid} :
             SignalsOf(p)'.pending = SignalsOf(p).pending \cup
               (IF SignalsOf(p).group = g THEN {signal_interrupt} ELSE {})]_allvars
  BY Laws, WriteMasterKeeps, Zenon
<1>2. QED
  BY <1>1, SignalsInvariant, PTL DEF SignalsSpec, GroupReached

\* With signals delivered at the end of every system call the fork adapter still
\* keeps every process once, with its image, its references and its ancestry:
\* here without any condition, since no service parks for a socket.
THEOREM SignalsKeepProcesses ==
  SignalsSpec => [](EveryProcessKept /\ ReferencesExact /\ AncestryOrdered
                      /\ ParkAnswersForkOnce)
<1>1. SInv => EveryProcessKept /\ ReferencesExact /\ AncestryOrdered /\ ParkAnswersForkOnce
  BY Laws, KeptProcesses, CountedReferences, OrderedAncestry, Zenon DEF SInv, IInv
<1>2. QED
  BY <1>1, SignalsInvariant, PTL

=============================================================================
