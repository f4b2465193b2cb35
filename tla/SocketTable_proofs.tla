------------------------- MODULE SocketTable_proofs -------------------------
(***************************************************************************)
(* For every number of slots, descriptors, ports and peers: the references *)
(* of a socket are its descriptors, a connection nobody has accepted waits *)
(* at an open listener of its port, and a segment belongs to at most one   *)
(* socket.                                                                 *)
(***************************************************************************)
EXTENDS SocketTable, FiniteSetTheorems, WellFoundedInduction, TLAPS

States ==
  {"free", "control", "created", "bound", "listening", "closed", "syn_received",
   "established", "last_ack", "time_wait", "reset"}

Slot ==
  [state : States, references : Nat, address : {"any", "own"},
   port : Ports \cup EphemeralPorts \cup {0}, remote : Peers \cup {NoPeer},
   listener : Handles \cup {invalid_socket}, accepted : BOOLEAN,
   detached : BOOLEAN, send_closed : BOOLEAN,
   backlog : 0 .. BacklogCapacity, opened_at : 0 .. Lifetime]

Descriptor == [socket : Handles \cup {invalid_socket}, remote : Peers \cup {NoPeer}]

Tables == [Handles -> Slot]

DescriptorTables == [1 .. DescriptorCount -> Descriptor]

\* The stack owns the slot, no descriptor does.
Transport(s) == s.detached \/ (s.remote # NoPeer /\ ~s.accepted)

Serving(s) == s.state \in {"bound", "listening"}

\* What holds of a slot by itself: only connections have a peer, and only an
\* accepted one is left behind by its last descriptor.
Formed(s) ==
  /\ s.state = "free" => s = Free
  /\ s.detached => s.accepted
  /\ is_connection(s.state) => s.remote # NoPeer
  /\ s.listener # invalid_socket => s.remote # NoPeer
  /\ s.state \in {"control", "created", "bound", "listening"} =>
       s.remote = NoPeer /\ ~s.detached

NamesOf(ds, h) == {d \in 1 .. DescriptorCount : ds[d].socket = h}

Waits(s) == is_connection(s.state) /\ ~s.accepted

\* The properties, as predicates of the two tables.
Attached(t) ==
  \A h \in Handles :
    Waits(t[h]) => /\ t[h].listener # invalid_socket
                   /\ t[t[h].listener].state = "listening"
                   /\ t[t[h].listener].port = t[h].port

Same(r, s) ==
  /\ r.port = s.port
  /\ \/ is_connection(r.state) /\ is_connection(s.state) /\ r.remote = s.remote
     \/ Serving(r) /\ Serving(s) /\ ("any" \in {r.address, s.address} \/ r.address = s.address)

Exclusive(t) == \A g, h \in Handles : Same(t[g], t[h]) => g = h

Counted(s, n) ==
  s.state # "free" =>
    IF Transport(s) THEN s.references = 1 /\ n = 0 ELSE s.references = n /\ n > 0

\* The inductive invariant.
Base(t, ds) ==
  /\ t \in Tables /\ ds \in DescriptorTables
  /\ \A h \in Handles : Formed(t[h])
  /\ \A d \in 1 .. DescriptorCount :
       /\ ds[d].socket = invalid_socket => ds[d] = NoDescriptor
       /\ ds[d].socket # invalid_socket =>
            t[ds[d].socket].state # "free" /\ t[ds[d].socket].remote = ds[d].remote
  /\ \A h \in Handles : Counted(t[h], Cardinality(NamesOf(ds, h)))

All(t, ds) == Base(t, ds) /\ Attached(t) /\ Exclusive(t)

IInv == All(slots_, descriptors)

-----------------------------------------------------------------------------
(* Sets and counts.                                                        *)

\* The lowest member is a member: allocate and the choices of the loops
\* (socket.hpp:571).
LEMMA MinMember ==
  ASSUME NEW S \in SUBSET Nat, S # {}
  PROVE  Min(S) \in S
<1> DEFINE R == OpToRel(<, Nat)
<1>1. IsWellFoundedOn(R, Nat) BY Zenon, NatLessThanWellFounded
<1>2. \A x, y \in Nat : <<x, y>> \in R <=> x < y BY Zenon DEF OpToRel
<1> HIDE DEF R
<1>3. PICK x \in S : \A y \in S : ~(<<y, x>> \in R) BY Zenon, <1>1, WFMin
<1>4. \A y \in S : ~(y < x) BY Zenon, <1>2, <1>3
<1>5. \A y \in S : x <= y BY <1>4
<1> QED BY Zenon, <1>5 DEF Min

LEMMA HandleFacts ==
  /\ invalid_socket \notin Handles
  /\ Handles \subseteq Nat
  /\ Capacity \in Nat /\ DescriptorCount \in Nat /\ DescriptorCount >= 1
  /\ BacklogCapacity \in Nat /\ BacklogCapacity >= 1 /\ Lifetime \in Nat
BY SocketAssumption DEF invalid_socket, Handles

\* A free slot has the type of a slot and is well formed (socket.hpp:104).
LEMMA FreeFormed == Free \in Slot /\ Formed(Free)
BY HandleFacts DEF Free, Slot, States, Formed, is_connection, invalid_socket

\* Slots are the same when their fields are.
LEMMA SlotEqual ==
  ASSUME NEW r \in Slot, NEW s \in Slot,
         r.state = s.state, r.references = s.references, r.address = s.address,
         r.port = s.port, r.remote = s.remote, r.listener = s.listener,
         r.accepted = s.accepted, r.detached = s.detached,
         r.send_closed = s.send_closed, r.backlog = s.backlog, r.opened_at = s.opened_at
  PROVE  r = s
BY DEF Slot

\* The descriptors of a socket are finitely many.
LEMMA NamesFinite ==
  ASSUME NEW ds, NEW h
  PROVE  /\ IsFiniteSet(NamesOf(ds, h))
         /\ Cardinality(NamesOf(ds, h)) \in Nat
         /\ Cardinality(NamesOf(ds, h)) <= DescriptorCount
         /\ Cardinality(NamesOf(ds, h)) = 0 <=> NamesOf(ds, h) = {}
<1>1. IsFiniteSet(1 .. DescriptorCount) /\ Cardinality(1 .. DescriptorCount) = DescriptorCount
  BY HandleFacts, FS_Interval
<1>2. NamesOf(ds, h) \in SUBSET (1 .. DescriptorCount) BY Zenon DEF NamesOf
<1>3. /\ IsFiniteSet(NamesOf(ds, h))
      /\ Cardinality(NamesOf(ds, h)) <= Cardinality(1 .. DescriptorCount)
  BY Zenon, <1>1, <1>2, FS_Subset
<1> QED BY Zenon, <1>1, <1>3, FS_CardinalityType, FS_EmptySet

\* Giving a descriptor another meaning moves one count from the old socket to
\* the new one.
LEMMA Renamed ==
  ASSUME NEW ds \in DescriptorTables, NEW d \in 1 .. DescriptorCount, NEW e \in Descriptor,
         NEW h \in Handles, ds[d].socket = invalid_socket \/ e.socket = invalid_socket
  PROVE  LET old == Cardinality(NamesOf(ds, h))
             new == Cardinality(NamesOf([ds EXCEPT ![d] = e], h))
         IN  new = IF e.socket = h THEN old + 1
                   ELSE IF ds[d].socket = h THEN old - 1 ELSE old
<1> DEFINE ds2 == [ds EXCEPT ![d] = e]
<1>1. IsFiniteSet(NamesOf(ds, h)) BY Zenon, NamesFinite
<1>2. \A x \in 1 .. DescriptorCount : ds2[x] = IF x = d THEN e ELSE ds[x]
  BY Zenon DEF DescriptorTables
<1> HIDE DEF ds2
<1>3. CASE e.socket = h
  <2>1. d \notin NamesOf(ds, h) BY Zenon, <1>3, HandleFacts DEF NamesOf
  <2>2. NamesOf(ds2, h) = NamesOf(ds, h) \cup {d} BY Zenon, <1>2, <1>3 DEF NamesOf
  <2> QED BY Zenon, <1>1, <1>3, <2>1, <2>2, FS_AddElement DEF ds2
<1>4. CASE e.socket # h /\ ds[d].socket = h
  <2>1. d \in NamesOf(ds, h) BY Zenon, <1>4 DEF NamesOf
  <2>2. NamesOf(ds2, h) = NamesOf(ds, h) \ {d} BY Zenon, <1>2, <1>4 DEF NamesOf
  <2> QED BY Zenon, <1>1, <1>4, <2>1, <2>2, FS_RemoveElement DEF ds2
<1>5. CASE e.socket # h /\ ds[d].socket # h
  <2>1. NamesOf(ds2, h) = NamesOf(ds, h) BY Zenon, <1>2, <1>5 DEF NamesOf
  <2> QED BY Zenon, <1>5, <2>1 DEF ds2
<1> QED BY Zenon, <1>3, <1>4, <1>5

\* A free slot has no descriptor, and neither has one the stack owns.
LEMMA Unnamed ==
  ASSUME NEW t, NEW ds, Base(t, ds), NEW h \in Handles,
         t[h].state = "free" \/ Transport(t[h])
  PROVE  /\ Cardinality(NamesOf(ds, h)) = 0
         /\ \A d \in 1 .. DescriptorCount : ds[d].socket # h
<1>1. CASE t[h].state = "free"
  <2>1. NamesOf(ds, h) = {} BY Zenon, <1>1, HandleFacts DEF Base, NamesOf
  <2> QED BY Zenon, <2>1, NamesFinite DEF NamesOf
<1>2. CASE t[h].state # "free" /\ Transport(t[h])
  <2>1. Cardinality(NamesOf(ds, h)) = 0 BY Zenon, <1>2 DEF Base, Counted
  <2>2. NamesOf(ds, h) = {} BY Zenon, <2>1, NamesFinite
  <2> QED BY Zenon, <2>1, <2>2 DEF NamesOf
<1> QED BY Zenon, <1>1, <1>2

-----------------------------------------------------------------------------
(* Steps that leave the descriptors alone.                                 *)

\* The stack gives up a slot it owns.
Ends(r, s) == s = Free /\ r.state # "free" /\ Transport(r)

\* A socket stays, for the same owner; a listener stays one.
Remains(r, s) ==
  /\ s \in Slot /\ Formed(s)
  /\ r.state # "free" /\ s.state # "free"
  /\ s.references = r.references /\ s.remote = r.remote /\ s.listener = r.listener
  /\ Transport(s) <=> Transport(r)
  /\ ~s.accepted => ~r.accepted
  /\ is_connection(s.state) => is_connection(r.state) /\ s.port = r.port
  /\ r.state = "listening" => s.state = "listening" /\ s.port = r.port

\* It takes no endpoint or port it did not have.
Narrow(r, s) ==
  \/ ~is_connection(s.state) /\ ~Serving(s)
  \/ /\ s.port = r.port /\ s.remote = r.remote /\ s.address = r.address
     /\ is_connection(s.state) => is_connection(r.state)
     /\ Serving(s) => Serving(r)

\* Slots that end or remain leave every count and every waiting child right.
LEMMA Sweep ==
  ASSUME NEW t, NEW ds, Base(t, ds), Attached(t), NEW u, u = [h \in Handles |-> u[h]],
         \A h \in Handles : u[h] = t[h] \/ Ends(t[h], u[h]) \/ Remains(t[h], u[h])
  PROVE  Base(u, ds) /\ Attached(u)
<1>1. \A h \in Handles : t[h] \in Slot /\ Formed(t[h]) BY Zenon DEF Base, Tables
<1>2. \A h \in Handles : u[h] \in Slot /\ Formed(u[h])
  BY Zenon, <1>1, FreeFormed DEF Ends, Remains
<1>3. u \in Tables BY Zenon, <1>2 DEF Tables
<1>4. ASSUME NEW d \in 1 .. DescriptorCount, ds[d].socket # invalid_socket
      PROVE  u[ds[d].socket].state # "free" /\ u[ds[d].socket].remote = ds[d].remote
  <2> DEFINE h == ds[d].socket
  <2>1. h \in Handles BY Zenon, <1>4 DEF Base, DescriptorTables, Descriptor
  <2>2. t[h].state # "free" /\ t[h].remote = ds[d].remote BY Zenon, <1>4 DEF Base
  <2>3. ~Transport(t[h]) BY Zenon, <2>1, Unnamed
  <2> QED BY Zenon, <2>1, <2>2, <2>3 DEF Ends, Remains
<1>5. ASSUME NEW h \in Handles PROVE Counted(u[h], Cardinality(NamesOf(ds, h)))
  <2>1. Counted(t[h], Cardinality(NamesOf(ds, h))) BY Zenon DEF Base
  <2>2. Free.state = "free" BY Zenon DEF Free
  <2> QED BY Zenon, <2>1, <2>2 DEF Ends, Remains, Counted
<1>6. Base(u, ds) BY Zenon, <1>2, <1>3, <1>4, <1>5 DEF Base
<1>7. ASSUME NEW h \in Handles, Waits(u[h])
      PROVE  /\ u[h].listener # invalid_socket
             /\ u[u[h].listener].state = "listening"
             /\ u[u[h].listener].port = u[h].port
  <2>1. u[h] # Free BY <1>7 DEF Waits, Free, is_connection
  <2>2. Waits(t[h]) /\ u[h].listener = t[h].listener /\ u[h].port = t[h].port
    BY Zenon, <2>1, <1>7 DEF Ends, Remains, Waits
  <2> DEFINE l == t[h].listener
  <2>3. l \in Handles /\ t[l].state = "listening" /\ t[l].port = t[h].port
    BY Zenon, <2>2, <1>1 DEF Attached, Slot
  <2>4. ~Transport(t[l]) BY Zenon, <2>3, <1>1 DEF Formed, Transport
  <2>5. u[l].state = "listening" /\ u[l].port = t[l].port
    BY Zenon, <2>3, <2>4 DEF Ends, Remains
  <2>6. l # invalid_socket BY Zenon, <2>3, HandleFacts
  <2> QED BY Zenon, <2>2, <2>3, <2>5, <2>6
<1> QED BY Zenon, <1>6, <1>7 DEF Attached

\* Slots that take nothing new leave the endpoints exclusive.
LEMMA Narrowed ==
  ASSUME NEW t, Exclusive(t), NEW u,
         \A h \in Handles : u[h] = t[h] \/ Narrow(t[h], u[h])
  PROVE  Exclusive(u)
<1> SUFFICES ASSUME NEW g \in Handles, NEW h \in Handles, Same(u[g], u[h]) PROVE g = h
  BY Zenon DEF Exclusive
<1>1. \A k \in {g, h} :
        /\ u[k].port = t[k].port /\ u[k].remote = t[k].remote /\ u[k].address = t[k].address
        /\ is_connection(u[k].state) => is_connection(t[k].state)
        /\ Serving(u[k]) => Serving(t[k])
  BY Zenon DEF Same, Narrow
<1>2. Same(t[g], t[h]) BY Zenon, <1>1 DEF Same
<1> QED BY Zenon, <1>2 DEF Exclusive

LEMMA FreeNarrow == ASSUME NEW r PROVE Narrow(r, Free)
BY Zenon DEF Narrow, Free, is_connection, Serving

\* A slot changes as the stack may change it.
Keeps(r, s) == s = r \/ Ends(r, s) \/ (Remains(r, s) /\ Narrow(r, s))

\* Such changes, of any number of slots at once, keep the invariant.
LEMMA Kept ==
  ASSUME NEW t, NEW ds, All(t, ds), NEW u, u = [h \in Handles |-> u[h]],
         \A h \in Handles : Keeps(t[h], u[h])
  PROVE  All(u, ds)
<1>1. Base(u, ds) /\ Attached(u) BY Zenon, Sweep DEF All, Keeps
<1>2. Exclusive(u) BY Zenon, Narrowed, FreeNarrow DEF All, Keeps, Ends
<1> QED BY Zenon, <1>1, <1>2 DEF All

\* The same for one slot.
LEMMA KeptOne ==
  ASSUME NEW t, NEW ds, All(t, ds), NEW h \in Handles, NEW s, Keeps(t[h], s)
  PROVE  All([t EXCEPT ![h] = s], ds)
<1> DEFINE u == [t EXCEPT ![h] = s]
<1>1. t \in Tables BY Zenon DEF All, Base
<1>2. u = [g \in Handles |-> u[g]] /\ \A g \in Handles : Keeps(t[g], u[g])
  BY Zenon, <1>1 DEF Tables, Keeps
<1> HIDE DEF u
<1>3. All(u, ds) BY Zenon, <1>2, Kept
<1> QED BY Zenon, <1>3 DEF u

\* Releasing a slot that the stack owns frees it alone (socket.hpp:223).
LEMMA ReleaseTransport ==
  ASSUME NEW t, NEW ds, All(t, ds), NEW h \in Handles, t[h].state # "free", Transport(t[h])
  PROVE  release(t, h) = [t EXCEPT ![h] = Free] /\ Keeps(t[h], Free)
<1>1. t \in Tables /\ Formed(t[h]) BY Zenon DEF All, Base
<1>2. t[h].references = 1 BY Zenon DEF All, Base, Counted
<1>3. t[h].state # "listening" BY Zenon, <1>1 DEF Formed, Transport
<1>4. ~(t[h].references > 1) BY <1>2
<1>5. release(t, h) = [c \in Handles |-> IF c = h THEN Free ELSE t[c]]
  BY Zenon, <1>3, <1>4 DEF release
<1>6. [t EXCEPT ![h] = Free] = [c \in Handles |-> IF c = h THEN Free ELSE t[c]]
  BY Zenon, <1>1 DEF Tables
<1> QED BY Zenon, <1>5, <1>6 DEF Keeps, Ends

\* A connection that moves to another state of a connection, or to the one
\* after TIME-WAIT, keeps its slot.
LEMMA StateKeeps ==
  ASSUME NEW r \in Slot, Formed(r), is_connection(r.state),
         NEW st \in {"established", "last_ack", "time_wait", "reset", "closed"}
  PROVE  Keeps(r, [r EXCEPT !.state = st])
<1> DEFINE s == [r EXCEPT !.state = st]
<1>1. s \in Slot BY Zenon DEF Slot, States
<1>2. /\ s.state = st /\ s.references = r.references /\ s.remote = r.remote
      /\ s.listener = r.listener /\ s.accepted = r.accepted /\ s.detached = r.detached
      /\ s.port = r.port /\ s.address = r.address
  BY Zenon DEF Slot
<1>3. r.state # "free" /\ r.state # "listening" BY Zenon DEF is_connection
<1> HIDE DEF s
<1>4. Formed(s) BY Zenon, <1>2 DEF Formed, is_connection
<1>5. Remains(r, s) BY Zenon, <1>1, <1>2, <1>3, <1>4 DEF Transport, Remains
<1>6. Narrow(r, s) BY Zenon, <1>2 DEF Narrow, Serving
<1> QED BY Zenon, <1>5, <1>6 DEF Keeps, s

\* fail_connection (stack.cpp:405).
LEMMA AbortKeeps ==
  ASSUME NEW t, NEW ds, All(t, ds), NEW h \in Handles, is_connection(t[h].state)
  PROVE  \E s : Abort(t, h) = [t EXCEPT ![h] = s] /\ Keeps(t[h], s)
<1>1. t \in Tables /\ t[h] \in Slot /\ Formed(t[h]) BY Zenon DEF All, Base, Tables
<1>2. CASE t[h].detached \/ ~t[h].accepted
  <2>1. Transport(t[h]) /\ t[h].state # "free"
    BY Zenon, <1>1, <1>2 DEF Transport, Formed, is_connection
  <2> QED BY Zenon, <1>2, <2>1, ReleaseTransport DEF Abort
<1>3. CASE ~(t[h].detached \/ ~t[h].accepted)
  <2>1. Abort(t, h) = [t EXCEPT ![h] = [t[h] EXCEPT !.state = "reset"]]
    BY Zenon, <1>1, <1>3 DEF Abort, Tables
  <2>2. Keeps(t[h], [t[h] EXCEPT !.state = "reset"]) BY Zenon, <1>1, StateKeeps
  <2> QED BY Zenon, <2>1, <2>2
<1> QED BY Zenon, <1>2, <1>3

\* A segment for a connection (stack.cpp:631).
LEMMA SegmentKeeps ==
  ASSUME NEW t, NEW ds, All(t, ds), NEW h \in Handles, is_connection(t[h].state),
         NEW kind \in Kinds
  PROVE  All(ConnectionSegment(t, h, kind), ds)
<1> DEFINE s == t[h]
           With(st) == [t EXCEPT ![h].state = st]
<1>1. t \in Tables /\ s \in Slot /\ Formed(s) BY Zenon DEF All, Base, Tables
<1>2. All(Abort(t, h), ds) BY AbortKeeps, KeptOne
<1>3. ASSUME NEW st \in {"established", "last_ack", "time_wait"} PROVE All(With(st), ds)
  <2>1. Keeps(s, [s EXCEPT !.state = st]) BY Zenon, <1>1, StateKeeps
  <2>2. All([t EXCEPT ![h] = [s EXCEPT !.state = st]], ds) BY Zenon, <2>1, KeptOne
  <2>3. With(st) = [t EXCEPT ![h] = [s EXCEPT !.state = st]] BY Zenon, <1>1 DEF Tables
  <2> QED BY Zenon, <2>2, <2>3
<1>4. ASSUME s.detached PROVE All(release(t, h), ds)
  <2>1. Transport(s) /\ s.state # "free" BY Zenon, <1>4 DEF Transport, is_connection
  <2>2. release(t, h) = [t EXCEPT ![h] = Free] /\ Keeps(s, Free)
    BY Zenon, <2>1, ReleaseTransport
  <2> QED BY Zenon, <2>2, KeptOne
<1>5. All(With("established"), ds) /\ All(With("last_ack"), ds) /\ All(With("time_wait"), ds)
  BY Zenon, <1>3
<1> HIDE DEF With
<1>6. ConnectionSegment(t, h, kind) \in
        {t, Abort(t, h), With("established"), With("last_ack"), With("time_wait")}
          \cup (IF s.detached THEN {release(t, h)} ELSE {})
  BY Zenon DEF ConnectionSegment, With
<1> QED BY Zenon, <1>2, <1>4, <1>5, <1>6

\* The time stamp of a slot is no part of the invariant.
LEMMA StampKeeps ==
  ASSUME NEW r \in Slot, Formed(r), r.state # "free", NEW n \in 0 .. Lifetime
  PROVE  Keeps(r, [r EXCEPT !.opened_at = n])
<1> DEFINE s == [r EXCEPT !.opened_at = n]
<1>1. s \in Slot BY Zenon DEF Slot
<1>2. /\ s.state = r.state /\ s.references = r.references /\ s.remote = r.remote
      /\ s.listener = r.listener /\ s.accepted = r.accepted /\ s.detached = r.detached
      /\ s.port = r.port /\ s.address = r.address
  BY Zenon DEF Slot
<1> HIDE DEF s
<1>3. Formed(s) BY Zenon, <1>2 DEF Formed
<1>4. Remains(r, s) /\ Narrow(r, s) BY Zenon, <1>1, <1>2, <1>3 DEF Transport, Remains, Narrow, Serving
<1> QED BY Zenon, <1>4 DEF Keeps, s

\* The slot of a new half-open connection.
HalfOpen(l, port, remote) ==
  [state |-> "syn_received", references |-> 1, address |-> "own", port |-> port,
   remote |-> remote, listener |-> l, accepted |-> FALSE, detached |-> FALSE,
   send_closed |-> FALSE, backlog |-> 0, opened_at |-> 0]

\* A connection whose endpoints no other one has takes a free slot.
LEMMA Opened ==
  ASSUME NEW t, NEW ds, All(t, ds), NEW h \in Handles, t[h].state = "free",
         NEW port \in Ports \cup EphemeralPorts, NEW remote \in Peers,
         NEW l \in listener(t, port), connection(t, port, remote) = {}
  PROVE  All([t EXCEPT ![h] = HalfOpen(l, port, remote)], ds)
<1> DEFINE s == HalfOpen(l, port, remote)
           u == [t EXCEPT ![h] = s]
<1>1. /\ t \in Tables /\ l \in Handles /\ t[l].state = "listening" /\ t[l].port = port
      /\ remote # NoPeer
  BY Zenon, SocketAssumption DEF All, Base, listener
<1>2. s \in Slot BY <1>1, HandleFacts DEF HalfOpen, Slot, States
<1>3. /\ s.state = "syn_received" /\ s.references = 1 /\ s.port = port
      /\ s.remote = remote /\ s.listener = l /\ ~s.accepted /\ ~s.detached
  BY Zenon DEF HalfOpen
<1> HIDE DEF s
<1>4. Formed(s) /\ Transport(s) /\ is_connection(s.state) /\ ~Serving(s)
  BY Zenon, <1>1, <1>3 DEF Formed, Transport, is_connection, Serving
<1>5. u \in Tables /\ \A g \in Handles : u[g] = IF g = h THEN s ELSE t[g]
  BY Zenon, <1>1, <1>2 DEF Tables
<1> HIDE DEF u
<1>6. Cardinality(NamesOf(ds, h)) = 0 /\ \A d \in 1 .. DescriptorCount : ds[d].socket # h
  BY Zenon, Unnamed DEF All
<1>7. Base(u, ds)
  <2>1. \A g \in Handles : Formed(u[g]) BY Zenon, <1>4, <1>5 DEF All, Base
  <2>2. \A g \in Handles : Counted(u[g], Cardinality(NamesOf(ds, g)))
    BY Zenon, <1>3, <1>4, <1>5, <1>6 DEF All, Base, Counted
  <2>3. \A d \in 1 .. DescriptorCount : ds[d].socket # invalid_socket =>
          u[ds[d].socket].state # "free" /\ u[ds[d].socket].remote = ds[d].remote
    <3>1. \A d \in 1 .. DescriptorCount : ds[d].socket # invalid_socket =>
            ds[d].socket \in Handles
      BY Zenon DEF All, Base, DescriptorTables, Descriptor
    <3> QED BY Zenon, <3>1, <1>5, <1>6 DEF All, Base
  <2> QED BY Zenon, <1>5, <2>1, <2>2, <2>3 DEF All, Base
<1>8. Attached(u)
  <2> SUFFICES ASSUME NEW g \in Handles, Waits(u[g])
               PROVE  /\ u[g].listener # invalid_socket
                      /\ u[u[g].listener].state = "listening"
                      /\ u[u[g].listener].port = u[g].port
    BY Zenon DEF Attached
  <2>1. CASE g = h BY Zenon, <2>1, <1>1, <1>3, <1>5, HandleFacts
  <2>2. CASE g # h
    <3>1. u[g] = t[g] BY Zenon, <2>2, <1>5
    <3>2. /\ t[g].listener \in Handles /\ t[t[g].listener].state = "listening"
          /\ t[t[g].listener].port = t[g].port
      BY Zenon, <3>1 DEF All, Base, Attached, Tables, Slot
    <3>3. t[g].listener # h BY Zenon, <3>2
    <3> QED BY Zenon, <3>1, <3>2, <3>3, <1>5, HandleFacts
  <2> QED BY Zenon, <2>1, <2>2
<1>9. Exclusive(u)
  <2>1. \A g \in Handles : ~(is_connection(t[g].state) /\ t[g].port = port
                              /\ t[g].remote = remote)
    BY Zenon DEF connection
  <2>2. \A g \in Handles : ~Same(s, t[g]) /\ ~Same(t[g], s)
    BY Zenon, <2>1, <1>3, <1>4 DEF Same
  <2> QED BY Zenon, <2>2, <1>5 DEF All, Exclusive
<1> QED BY Zenon, <1>7, <1>8, <1>9 DEF All, u, s

\* begin_connection (socket.hpp:315).
LEMMA BeginKeeps ==
  ASSUME NEW t, NEW ds, All(t, ds),
         NEW port \in Ports \cup EphemeralPorts, NEW remote \in Peers,
         NEW l \in listener(t, port), connection(t, port, remote) = {}
  PROVE  All(begin_connection(t, l, port, remote), ds)
<1> DEFINE known == {c \in Children(t, l) : t[c].remote = remote}
<1>1. t \in Tables /\ l \in Handles BY Zenon DEF All, Base, listener
<1>2. CASE known # {}
  <2> DEFINE c == Min(known)
  <2>1. known \in SUBSET Nat BY Zenon, HandleFacts DEF Children
  <2>2. c \in known BY Zenon, <1>2, <2>1, MinMember
  <2>3. c \in Handles /\ t[c].listener = l BY Zenon, <2>2 DEF Children
  <2> HIDE DEF c
  <2>4. t[c] \in Slot /\ Formed(t[c]) BY Zenon, <2>3 DEF All, Base, Tables
  <2>5. t[c].state # "free" BY <2>3, <2>4, <1>1, HandleFacts DEF Formed, Free
  <2>6. Keeps(t[c], [t[c] EXCEPT !.opened_at = 0])
    BY <2>4, <2>5, StampKeeps, HandleFacts
  <2>7. All([t EXCEPT ![c] = [t[c] EXCEPT !.opened_at = 0]], ds) BY Zenon, <2>3, <2>6, KeptOne
  <2>8. [t EXCEPT ![c].opened_at = 0] = [t EXCEPT ![c] = [t[c] EXCEPT !.opened_at = 0]]
    BY Zenon, <1>1, <2>3 DEF Tables
  <2>9. begin_connection(t, l, port, remote) = [t EXCEPT ![c].opened_at = 0]
    BY Zenon, <1>2 DEF begin_connection, c
  <2> QED BY Zenon, <2>7, <2>8, <2>9
<1>3. CASE known = {} /\ (pending(t, l) >= t[l].backlog \/ FreeHandles(t) = {})
  BY Zenon, <1>3 DEF begin_connection
<1>4. CASE known = {} /\ ~(pending(t, l) >= t[l].backlog \/ FreeHandles(t) = {})
  <2> DEFINE h == allocate(t)
  <2>1. FreeHandles(t) \in SUBSET Nat BY Zenon, HandleFacts DEF FreeHandles
  <2>2. h \in FreeHandles(t) BY Zenon, <1>4, <2>1, MinMember DEF allocate
  <2>3. h \in Handles /\ t[h].state = "free" BY Zenon, <2>2 DEF FreeHandles
  <2> HIDE DEF h
  <2>4. All([t EXCEPT ![h] = HalfOpen(l, port, remote)], ds) BY Zenon, <2>3, Opened
  <2>5. [Free EXCEPT !.state = "syn_received", !.address = "own", !.port = port,
                     !.remote = remote, !.references = 1, !.listener = l]
          = HalfOpen(l, port, remote)
    <3> DEFINE s == [Free EXCEPT !.state = "syn_received", !.address = "own", !.port = port,
                                 !.remote = remote, !.references = 1, !.listener = l]
    <3>1. s \in Slot BY Zenon, <1>1, FreeFormed DEF Slot, States
    <3>2. HalfOpen(l, port, remote) \in Slot
      BY <1>1, HandleFacts DEF HalfOpen, Slot, States
    <3>3. /\ s.state = "syn_received" /\ s.references = 1 /\ s.address = "own"
          /\ s.port = port /\ s.remote = remote /\ s.listener = l
          /\ s.accepted = FALSE /\ s.detached = FALSE /\ s.send_closed = FALSE
          /\ s.backlog = 0 /\ s.opened_at = 0
      BY Zenon DEF Free
    <3> HIDE DEF s
    <3>4. s = HalfOpen(l, port, remote) BY Zenon, <3>1, <3>2, <3>3, SlotEqual DEF HalfOpen
    <3> QED BY Zenon, <3>4 DEF s
  <2>6. begin_connection(t, l, port, remote) = [t EXCEPT ![h] = HalfOpen(l, port, remote)]
    BY Zenon, <1>4, <2>5 DEF begin_connection, h
  <2> QED BY Zenon, <2>4, <2>6
<1> QED BY Zenon, <1>2, <1>3, <1>4

\* Any segment (stack.cpp:574).
LEMMA HandleKeeps ==
  ASSUME NEW t, NEW ds, All(t, ds), NEW kind \in Kinds,
         NEW port \in Ports \cup EphemeralPorts, NEW remote \in Peers
  PROVE  All(handle_tcp(t, kind, port, remote), ds)
<1> DEFINE found == connection(t, port, remote)
           listening == listener(t, port)
<1>1. CASE found # {}
  <2>1. Min(found) \in found BY Zenon, <1>1, MinMember, HandleFacts DEF connection
  <2>2. Min(found) \in Handles /\ is_connection(t[Min(found)].state)
    BY Zenon, <2>1 DEF connection
  <2> QED BY Zenon, <1>1, <2>2, SegmentKeeps DEF handle_tcp
<1>2. CASE found = {} /\ kind = "syn" /\ listening # {}
  <2>1. Min(listening) \in listening BY Zenon, <1>2, MinMember, HandleFacts DEF listener
  <2> QED BY Zenon, <1>2, <2>1, BeginKeeps DEF handle_tcp
<1>3. CASE found = {} /\ ~(kind = "syn" /\ listening # {})
  BY Zenon, <1>3 DEF handle_tcp
<1> QED BY Zenon, <1>1, <1>2, <1>3

\* The timers (stack.cpp:453).
LEMMA TimersKeep ==
  ASSUME NEW t, NEW ds, All(t, ds), NEW expired \in SUBSET Timed(t)
  PROVE  All(flush_timers(t, expired), ds)
<1> DEFINE u == flush_timers(t, expired)
<1>1. u = [h \in Handles |-> u[h]] BY Zenon DEF flush_timers
<1>2. ASSUME NEW h \in Handles PROVE Keeps(t[h], u[h])
  <2>1. t \in Tables /\ t[h] \in Slot /\ Formed(t[h]) BY Zenon DEF All, Base, Tables
  <2>2. CASE t[h].state = "syn_received" /\ t[h].opened_at >= Lifetime
    <3>1. PICK s : Abort(t, h) = [t EXCEPT ![h] = s] /\ Keeps(t[h], s)
      BY Zenon, <2>2, AbortKeeps DEF is_connection
    <3>2. Abort(t, h)[h] = s BY Zenon, <3>1, <2>1 DEF Tables
    <3>3. u[h] = Abort(t, h)[h] BY Zenon, <2>2 DEF flush_timers
    <3> QED BY Zenon, <3>1, <3>2, <3>3
  <2>3. CASE t[h].state = "established" /\ h \in expired
    <3>1. PICK s : Abort(t, h) = [t EXCEPT ![h] = s] /\ Keeps(t[h], s)
      BY Zenon, <2>3, AbortKeeps DEF is_connection
    <3>2. Abort(t, h)[h] = s BY Zenon, <3>1, <2>1 DEF Tables
    <3>3. u[h] = Abort(t, h)[h] BY Zenon, <2>3 DEF flush_timers
    <3> QED BY Zenon, <3>1, <3>2, <3>3
  <2>4. CASE t[h].state = "time_wait" /\ h \in expired
    <3>1. u[h] = IF t[h].detached THEN Free ELSE [t[h] EXCEPT !.state = "closed"]
      BY Zenon, <2>4 DEF flush_timers
    <3>2. Keeps(t[h], [t[h] EXCEPT !.state = "closed"])
      BY Zenon, <2>1, <2>4, StateKeeps DEF is_connection
    <3>3. t[h].detached => Keeps(t[h], Free) BY Zenon, <2>4 DEF Keeps, Ends, Transport
    <3> QED BY Zenon, <3>1, <3>2, <3>3
  <2>5. CASE /\ ~(t[h].state = "syn_received" /\ t[h].opened_at >= Lifetime)
             /\ ~(t[h].state = "established" /\ h \in expired)
             /\ ~(t[h].state = "time_wait" /\ h \in expired)
    BY Zenon, <2>5 DEF flush_timers, Keeps
  <2> QED BY Zenon, <2>2, <2>3, <2>4, <2>5
<1> HIDE DEF u
<1>3. All(u, ds) BY Zenon, <1>1, <1>2, Kept
<1> QED BY Zenon, <1>3 DEF u

-----------------------------------------------------------------------------
(* Steps that change descriptors.                                          *)

\* A descriptor in use names a socket that is there, is not the stack's, and
\* counts it.
LEMMA Named ==
  ASSUME NEW t, NEW ds, Base(t, ds), NEW d \in 1 .. DescriptorCount, ds[d] # NoDescriptor
  PROVE  LET h == ds[d].socket
         IN  /\ h \in Handles /\ h # invalid_socket
             /\ t[h].state # "free" /\ t[h].remote = ds[d].remote
             /\ ~Transport(t[h])
             /\ t[h].references = Cardinality(NamesOf(ds, h)) /\ t[h].references > 0
<1> DEFINE h == ds[d].socket
<1>1. h # invalid_socket BY Zenon DEF Base
<1>2. h \in Handles BY Zenon, <1>1 DEF Base, DescriptorTables, Descriptor
<1>3. t[h].state # "free" /\ t[h].remote = ds[d].remote BY Zenon, <1>1 DEF Base
<1>4. ~Transport(t[h]) BY Zenon, <1>2, Unnamed
<1>5. Counted(t[h], Cardinality(NamesOf(ds, h))) BY Zenon, <1>2 DEF Base
<1> QED BY Zenon, <1>1, <1>2, <1>3, <1>4, <1>5 DEF Counted

\* A socket gains a descriptor: socket, accept and dup.
LEMMA Gained ==
  ASSUME NEW t, NEW ds, Base(t, ds), NEW h \in Handles, NEW s \in Slot, Formed(s),
         s.state # "free", ~Transport(s),
         t[h].state = "free" \/ Transport(t[h]) \/ s.remote = t[h].remote,
         s.references = Cardinality(NamesOf(ds, h)) + 1,
         NEW m \in 1 .. DescriptorCount, ds[m] = NoDescriptor,
         NEW e \in Descriptor, e.socket = h, e.remote = s.remote
  PROVE  Base([t EXCEPT ![h] = s], [ds EXCEPT ![m] = e])
<1> DEFINE u == [t EXCEPT ![h] = s]
           es == [ds EXCEPT ![m] = e]
<1>1. t \in Tables /\ ds \in DescriptorTables /\ ds[m].socket = invalid_socket
  BY DEF Base, NoDescriptor
<1>2. u \in Tables /\ \A g \in Handles : u[g] = IF g = h THEN s ELSE t[g]
  BY Zenon, <1>1 DEF Tables
<1>3. es \in DescriptorTables /\ \A d \in 1 .. DescriptorCount : es[d] = IF d = m THEN e ELSE ds[d]
  BY Zenon, <1>1 DEF DescriptorTables
<1>4. \A g \in Handles :
        Cardinality(NamesOf(es, g)) = IF g = h THEN Cardinality(NamesOf(ds, g)) + 1
                                      ELSE Cardinality(NamesOf(ds, g))
  <2> SUFFICES ASSUME NEW g \in Handles
               PROVE  Cardinality(NamesOf(es, g)) =
                        IF g = h THEN Cardinality(NamesOf(ds, g)) + 1
                        ELSE Cardinality(NamesOf(ds, g))
    BY Zenon
  <2>1. ds[m].socket # g BY Zenon, <1>1, HandleFacts
  <2> QED BY <1>1, <2>1, Renamed
<1> HIDE DEF u, es
<1>5. \A g \in Handles : Formed(u[g]) BY Zenon, <1>2 DEF Base
<1>6. \A g \in Handles : Counted(u[g], Cardinality(NamesOf(es, g)))
  <2>1. Cardinality(NamesOf(ds, h)) \in Nat BY Zenon, NamesFinite
  <2>2. Counted(s, Cardinality(NamesOf(ds, h)) + 1) BY <2>1 DEF Counted
  <2> QED BY Zenon, <1>2, <1>4, <2>2 DEF Base
<1>7. ASSUME NEW d \in 1 .. DescriptorCount
      PROVE  /\ es[d].socket = invalid_socket => es[d] = NoDescriptor
             /\ es[d].socket # invalid_socket =>
                  u[es[d].socket].state # "free" /\ u[es[d].socket].remote = es[d].remote
  <2>1. CASE d = m BY Zenon, <2>1, <1>2, <1>3, HandleFacts
  <2>2. CASE d # m /\ ds[d] = NoDescriptor BY <2>2, <1>3 DEF NoDescriptor
  <2>3. CASE d # m /\ ds[d] # NoDescriptor
    <3>1. /\ ds[d].socket \in Handles /\ ds[d].socket # invalid_socket
          /\ t[ds[d].socket].state # "free" /\ ~Transport(t[ds[d].socket])
          /\ t[ds[d].socket].remote = ds[d].remote
      BY <2>3, Named
    <3> QED BY Zenon, <2>3, <3>1, <1>2, <1>3
  <2> QED BY Zenon, <2>1, <2>2, <2>3
<1>8. Base(u, es) BY Zenon, <1>2, <1>3, <1>5, <1>6, <1>7 DEF Base
<1> QED BY Zenon, <1>8 DEF u, es

\* A socket loses a descriptor.  With the last one it goes, or is left to the
\* stack; others that the stack owns may go with it.
LEMMA Lost ==
  ASSUME NEW t, NEW ds, Base(t, ds), NEW d \in 1 .. DescriptorCount, ds[d] # NoDescriptor,
         NEW u, u = [g \in Handles |-> u[g]],
         NEW h, h = ds[d].socket,
         \A g \in Handles \ {h} : u[g] = t[g] \/ Ends(t[g], u[g]),
         u[h] \in Slot, Formed(u[h]),
         IF t[h].references > 1
         THEN /\ u[h].state # "free" /\ u[h].remote = t[h].remote /\ ~Transport(u[h])
              /\ u[h].references = t[h].references - 1
         ELSE u[h].state = "free" \/ (Transport(u[h]) /\ u[h].references = 1)
  PROVE  Base(u, [ds EXCEPT ![d] = NoDescriptor])
<1> DEFINE es == [ds EXCEPT ![d] = NoDescriptor]
           n(g) == Cardinality(NamesOf(ds, g))
<1>1. /\ h \in Handles /\ ~Transport(t[h]) /\ t[h].state # "free"
      /\ t[h].references = n(h) /\ n(h) > 0 /\ n(h) \in Nat
  BY Zenon, Named, NamesFinite
<1>2. NoDescriptor \in Descriptor /\ NoDescriptor.socket = invalid_socket
  BY Zenon DEF NoDescriptor, Descriptor, invalid_socket
<1>3. t \in Tables /\ ds \in DescriptorTables BY Zenon DEF Base
<1>4. es \in DescriptorTables
      /\ \A x \in 1 .. DescriptorCount : es[x] = IF x = d THEN NoDescriptor ELSE ds[x]
  BY Zenon, <1>2, <1>3 DEF DescriptorTables
<1>5. \A g \in Handles : Cardinality(NamesOf(es, g)) = IF g = h THEN n(g) - 1 ELSE n(g)
  <2> SUFFICES ASSUME NEW g \in Handles
               PROVE  Cardinality(NamesOf(es, g)) = IF g = h THEN n(g) - 1 ELSE n(g)
    BY Zenon
  <2>1. NoDescriptor.socket # g BY Zenon, <1>2, HandleFacts
  <2> QED BY <1>2, <1>3, <2>1, Renamed
<1>6. \A g \in Handles : u[g] \in Slot /\ Formed(u[g])
  BY Zenon, FreeFormed DEF Base, Tables, Ends
<1>7. u \in Tables BY Zenon, <1>6 DEF Tables
<1> HIDE DEF es, n
<1>8. ASSUME NEW g \in Handles PROVE Counted(u[g], Cardinality(NamesOf(es, g)))
  <2>1. CASE g = h
    <3>1. Cardinality(NamesOf(es, g)) = n(h) - 1 BY Zenon, <2>1, <1>5
    <3> QED BY <2>1, <3>1, <1>1 DEF Counted
  <2>2. CASE g # h
    <3>1. Cardinality(NamesOf(es, g)) = n(g) BY Zenon, <2>2, <1>5
    <3>2. Counted(t[g], n(g)) BY Zenon DEF Base, n
    <3>3. Free.state = "free" BY Zenon DEF Free
    <3> QED BY Zenon, <2>2, <3>1, <3>2, <3>3 DEF Ends, Counted
  <2> QED BY Zenon, <2>1, <2>2
<1>9. ASSUME NEW x \in 1 .. DescriptorCount
      PROVE  /\ es[x].socket = invalid_socket => es[x] = NoDescriptor
             /\ es[x].socket # invalid_socket =>
                  u[es[x].socket].state # "free" /\ u[es[x].socket].remote = es[x].remote
  <2>1. CASE x = d \/ ds[x] = NoDescriptor BY Zenon, <2>1, <1>2, <1>4
  <2>2. CASE x # d /\ ds[x] # NoDescriptor
    <3> DEFINE g == ds[x].socket
    <3>1. /\ g \in Handles /\ g # invalid_socket /\ ~Transport(t[g])
          /\ t[g].state # "free" /\ t[g].remote = ds[x].remote
      BY Zenon, <2>2, Named
    <3>2. es[x] = ds[x] BY Zenon, <2>2, <1>4
    <3>3. CASE g # h BY Zenon, <3>1, <3>2, <3>3 DEF Ends
    <3>4. CASE g = h
      <4>1. x \in NamesOf(es, h) BY Zenon, <3>2, <3>4 DEF NamesOf
      <4>2. Cardinality(NamesOf(es, h)) # 0 BY Zenon, <4>1, NamesFinite
      <4>3. Cardinality(NamesOf(es, h)) = n(h) - 1 BY Zenon, <1>1, <1>5
      <4>4. t[h].references > 1 BY <4>2, <4>3, <1>1
      <4> QED BY Zenon, <3>1, <3>2, <3>4, <4>4
    <3> QED BY Zenon, <3>3, <3>4
  <2> QED BY Zenon, <2>1, <2>2
<1>10. Base(u, es) BY Zenon, <1>4, <1>6, <1>7, <1>8, <1>9 DEF Base
<1> QED BY Zenon, <1>10 DEF es

\* Waiting connections stay attached when none appears and no listener leaves
\* one behind.
LEMMA StillAttached ==
  ASSUME NEW t \in Tables, Attached(t), NEW u,
         \A c \in Handles : Waits(u[c]) =>
           Waits(t[c]) /\ u[c].listener = t[c].listener /\ u[c].port = t[c].port,
         \A l \in Handles : t[l].state = "listening" =>
           \/ u[l].state = "listening" /\ u[l].port = t[l].port
           \/ \A c \in Handles : t[c].listener = l => ~Waits(u[c])
  PROVE  Attached(u)
<1> SUFFICES ASSUME NEW c \in Handles, Waits(u[c])
             PROVE  /\ u[c].listener # invalid_socket
                    /\ u[u[c].listener].state = "listening"
                    /\ u[u[c].listener].port = u[c].port
  BY Zenon DEF Attached
<1> DEFINE l == t[c].listener
<1>1. l \in Handles /\ l # invalid_socket /\ t[l].state = "listening" /\ t[l].port = t[c].port
  BY Zenon, HandleFacts DEF Attached, Tables, Slot
<1>2. u[l].state = "listening" /\ u[l].port = t[l].port BY Zenon, <1>1
<1> QED BY Zenon, <1>1, <1>2

-----------------------------------------------------------------------------
(* The actions.                                                            *)

\* The empty tables (socket.hpp:104).
LEMMA InitInv == Init => IInv
<1> SUFFICES ASSUME Init PROVE IInv BY Zenon
<1>1. slots_ \in Tables /\ \A h \in Handles : slots_[h] = Free
  BY Zenon, FreeFormed DEF Init, Tables
<1>2. NoDescriptor \in Descriptor /\ NoDescriptor.socket = invalid_socket
  BY Zenon DEF NoDescriptor, Descriptor, invalid_socket
<1>3. /\ descriptors \in DescriptorTables
      /\ \A d \in 1 .. DescriptorCount : descriptors[d] = NoDescriptor
  BY Zenon, <1>2 DEF Init, DescriptorTables
<1>4. Free.state = "free" BY Zenon DEF Free
<1>5. Base(slots_, descriptors) BY Zenon, <1>1, <1>2, <1>3, <1>4, FreeFormed DEF Base, Counted
<1>6. Attached(slots_) BY Zenon, <1>1, <1>4 DEF Attached, Waits, is_connection
<1>7. Exclusive(slots_) BY Zenon, <1>1, <1>4 DEF Exclusive, Same, Serving, is_connection
<1> QED BY Zenon, <1>5, <1>6, <1>7 DEF IInv, All

\* A descriptor is free, or names a socket.
LEMMA DescriptorFacts ==
  ASSUME IInv
  PROVE  /\ DOMAIN descriptors = 1 .. DescriptorCount
         /\ FreeDescriptors # {} =>
              Min(FreeDescriptors) \in 1 .. DescriptorCount
              /\ descriptors[Min(FreeDescriptors)] = NoDescriptor
<1>1. DOMAIN descriptors = 1 .. DescriptorCount
  BY Zenon DEF IInv, All, Base, DescriptorTables
<1>2. FreeDescriptors \in SUBSET Nat BY <1>1 DEF FreeDescriptors
<1>3. FreeDescriptors # {} => Min(FreeDescriptors) \in FreeDescriptors BY Zenon, <1>2, MinMember
<1> QED BY Zenon, <1>1, <1>3 DEF FreeDescriptors

\* socket (syscall.cpp:1679).
LEMMA SocketStep ==
  ASSUME IInv, NEW type \in {"stream", "datagram"}, socket(type)
  PROVE  IInv'
<1> DEFINE t == slots_
           ds == descriptors
           h == allocate(slots_)
           m == Min(FreeDescriptors)
           state == IF type = "datagram" THEN "control" ELSE "created"
           s == [Free EXCEPT !.state = state, !.references = 1]
           e == [socket |-> h, remote |-> NoPeer]
<1>1. /\ slots_' = [t EXCEPT ![h] = s] /\ descriptors' = [ds EXCEPT ![m] = e]
      /\ FreeHandles(t) # {} /\ FreeDescriptors # {}
  BY Zenon DEF socket, Install
<1>2. h \in Handles /\ t[h].state = "free"
  <2>1. FreeHandles(t) \in SUBSET Nat BY Zenon, HandleFacts DEF FreeHandles
  <2>2. h \in FreeHandles(t) BY Zenon, <1>1, <2>1, MinMember DEF allocate
  <2> QED BY Zenon, <2>2 DEF FreeHandles
<1>3. m \in 1 .. DescriptorCount /\ ds[m] = NoDescriptor BY Zenon, <1>1, DescriptorFacts
<1>4. s \in Slot BY Zenon, FreeFormed DEF Slot, States
<1>5. /\ s.state \in {"control", "created"} /\ s.references = 1 /\ s.remote = NoPeer
      /\ s.listener = invalid_socket /\ s.accepted = FALSE /\ s.detached = FALSE
  BY Zenon DEF Free
<1> HIDE DEF s, h, m
<1>6. Formed(s) /\ ~Transport(s) /\ ~is_connection(s.state) /\ ~Serving(s)
      /\ s.state # "free" /\ s.state # "listening"
  BY Zenon, <1>5 DEF Formed, Transport, is_connection, Serving
<1>7. e \in Descriptor /\ e.socket = h /\ e.remote = s.remote
  BY Zenon, <1>2, <1>5 DEF Descriptor
<1>8. Base(t, ds) /\ t \in Tables BY Zenon DEF IInv, All, Base
<1>9. Cardinality(NamesOf(ds, h)) = 0 BY Zenon, <1>2, <1>8, Unnamed
<1>10. s.references = Cardinality(NamesOf(ds, h)) + 1 BY <1>5, <1>9
<1> HIDE DEF e
<1>11. Base(slots_', descriptors')
  BY Zenon, <1>1, <1>2, <1>3, <1>4, <1>6, <1>7, <1>8, <1>10, Gained
<1>12. \A g \in Handles : slots_'[g] = IF g = h THEN s ELSE t[g] BY Zenon, <1>1, <1>8 DEF Tables
<1>13. Attached(slots_')
  BY Zenon, <1>2, <1>6, <1>8, <1>12, StillAttached DEF IInv, All, Waits
<1>14. Exclusive(slots_') BY Zenon, <1>6, <1>12, Narrowed DEF IInv, All, Narrow
<1> QED BY Zenon, <1>11, <1>13, <1>14 DEF IInv, All

\* A system call on a descriptor.
LEMMA CallFacts ==
  ASSUME IInv, NEW d \in DOMAIN descriptors \ FreeDescriptors
  PROVE  /\ d \in 1 .. DescriptorCount /\ descriptors[d] # NoDescriptor
         /\ Names(d) \in Handles /\ slots_ \in Tables
         /\ slots_[Names(d)] \in Slot /\ Formed(slots_[Names(d)])
         /\ slots_[Names(d)].state # "free" /\ ~Transport(slots_[Names(d)])
         /\ slots_[Names(d)].remote = descriptors[d].remote
         /\ slots_[Names(d)].references = Cardinality(NamesOf(descriptors, Names(d)))
         /\ slots_[Names(d)].references > 0
<1>1. d \in 1 .. DescriptorCount /\ descriptors[d] # NoDescriptor
  BY Zenon, DescriptorFacts DEF FreeDescriptors
<1>2. Base(slots_, descriptors) BY Zenon DEF IInv, All
<1>3. Names(d) \in Handles BY Zenon, <1>1, <1>2, Named DEF Names
<1>4. slots_ \in Tables /\ slots_[Names(d)] \in Slot /\ Formed(slots_[Names(d)])
  BY Zenon, <1>2, <1>3 DEF Base, Tables
<1> QED BY <1>1, <1>2, <1>3, <1>4, Named DEF Names

\* bind (socket.hpp:246).
LEMMA BindStep ==
  ASSUME IInv, NEW d \in DOMAIN descriptors \ FreeDescriptors,
         NEW address \in {"any", "own"}, NEW wanted \in Ports \cup {0},
         bind(d, address, wanted)
  PROVE  IInv'
<1> DEFINE t == slots_
           h == Names(d)
           port == IF wanted # 0 THEN wanted ELSE Min(FreePorts(slots_, address))
           s == [t[h] EXCEPT !.address = address, !.port = port, !.state = "bound"]
<1>1. h \in Handles /\ t \in Tables /\ t[h] \in Slot /\ Formed(t[h]) BY Zenon, CallFacts
<1>2. port \in Ports \cup EphemeralPorts
  <2>1. CASE wanted # 0 BY Zenon, <2>1
  <2>2. CASE wanted = 0
    <3>1. FreePorts(slots_, address) # {} BY Zenon, <2>2 DEF bind
    <3>2. FreePorts(slots_, address) \in SUBSET Nat BY Zenon, SocketAssumption DEF FreePorts
    <3>3. Min(FreePorts(slots_, address)) \in FreePorts(slots_, address)
      BY Zenon, <3>1, <3>2, MinMember
    <3> QED BY Zenon, <2>2, <3>3 DEF FreePorts
  <2> QED BY Zenon, <2>1, <2>2
<1>3. t[h].state = "created" /\ ~port_conflicts(t, h, address, port) /\ descriptors' = descriptors
  BY Zenon DEF bind
<1>4. slots_' = [t EXCEPT ![h].address = address, ![h].port = port, ![h].state = "bound"]
  BY Zenon DEF bind
<1> HIDE DEF port
<1>5. s \in Slot BY Zenon, <1>1, <1>2 DEF Slot, States
<1>6. /\ s.state = "bound" /\ s.address = address /\ s.port = port
      /\ s.references = t[h].references /\ s.remote = t[h].remote
      /\ s.listener = t[h].listener /\ s.accepted = t[h].accepted
      /\ s.detached = t[h].detached
  BY Zenon, <1>1 DEF Slot
<1>7. slots_' = [t EXCEPT ![h] = s] BY Zenon, <1>1, <1>4 DEF Tables
<1>8. slots_' = [g \in Handles |-> slots_'[g]]
      /\ \A g \in Handles : slots_'[g] = IF g = h THEN s ELSE t[g]
  BY Zenon, <1>1, <1>7 DEF Tables
<1> HIDE DEF s, h
<1>9. Formed(s) BY Zenon, <1>1, <1>3, <1>6 DEF Formed, is_connection
<1>10. Remains(t[h], s) BY Zenon, <1>3, <1>5, <1>6, <1>9 DEF Transport, Remains, is_connection
<1>11. Base(slots_', descriptors) /\ Attached(slots_')
  BY Zenon, <1>8, <1>10, Sweep DEF IInv, All
<1>12. Exclusive(slots_')
  <2>1. ASSUME NEW g \in Handles, g # h PROVE ~Same(s, t[g]) /\ ~Same(t[g], s)
    <3>1. ~(/\ t[g].state \notin {"free", "control"} /\ t[g].port = port
            /\ "any" \in {t[g].address, address} \/ t[g].address = address)
      BY Zenon, <1>3, <2>1 DEF port_conflicts
    <3> QED BY Zenon, <3>1, <1>6 DEF Same, Serving, is_connection
  <2> QED BY Zenon, <2>1, <1>8 DEF IInv, All, Exclusive
<1> QED BY Zenon, <1>3, <1>11, <1>12 DEF IInv, All

\* listen (socket.hpp:271).
LEMMA ListenStep ==
  ASSUME IInv, NEW d \in DOMAIN descriptors \ FreeDescriptors,
         NEW backlog \in 0 .. BacklogCapacity + 1, listen(d, backlog)
  PROVE  IInv'
<1> DEFINE t == slots_
           h == Names(d)
           clamped == IF backlog < 1 THEN 1
                      ELSE IF backlog > BacklogCapacity THEN BacklogCapacity ELSE backlog
           s == [t[h] EXCEPT !.backlog = clamped, !.state = "listening"]
<1>1. h \in Handles /\ t \in Tables /\ t[h] \in Slot /\ Formed(t[h]) BY Zenon, CallFacts
<1>2. clamped \in 0 .. BacklogCapacity BY HandleFacts
<1>3. t[h].state \in {"bound", "listening"} /\ descriptors' = descriptors BY Zenon DEF listen
<1>4. slots_' = [t EXCEPT ![h].backlog = clamped, ![h].state = "listening"]
  BY Zenon DEF listen
<1> HIDE DEF clamped
<1>5. s \in Slot BY Zenon, <1>1, <1>2 DEF Slot, States
<1>6. /\ s.state = "listening" /\ s.address = t[h].address /\ s.port = t[h].port
      /\ s.references = t[h].references /\ s.remote = t[h].remote
      /\ s.listener = t[h].listener /\ s.accepted = t[h].accepted
      /\ s.detached = t[h].detached
  BY Zenon, <1>1 DEF Slot
<1>7. slots_' = [t EXCEPT ![h] = s] BY Zenon, <1>1, <1>4 DEF Tables
<1> HIDE DEF s, h
<1>8. Formed(s) BY Zenon, <1>1, <1>3, <1>6 DEF Formed, is_connection
<1>9. Remains(t[h], s) /\ Narrow(t[h], s)
  BY Zenon, <1>3, <1>5, <1>6, <1>8 DEF Transport, Remains, Narrow, Serving, is_connection
<1>10. All(slots_', descriptors) BY Zenon, <1>1, <1>7, <1>9, KeptOne DEF IInv, Keeps
<1> QED BY Zenon, <1>3, <1>10 DEF IInv

\* shutdown (stack.cpp:173).
LEMMA ShutdownStep ==
  ASSUME IInv, NEW d \in DOMAIN descriptors \ FreeDescriptors, socket_shutdown(d)
  PROVE  IInv'
<1> DEFINE t == slots_
           h == Names(d)
           s == [t[h] EXCEPT !.send_closed = TRUE]
<1>1. h \in Handles /\ t \in Tables /\ t[h] \in Slot /\ Formed(t[h]) BY Zenon, CallFacts
<1>2. t[h].state = "established" /\ descriptors' = descriptors BY Zenon DEF socket_shutdown
<1>3. slots_' = [t EXCEPT ![h] = s] BY Zenon, <1>1 DEF Tables, socket_shutdown
<1>4. s \in Slot BY Zenon, <1>1 DEF Slot
<1>5. /\ s.state = t[h].state /\ s.address = t[h].address /\ s.port = t[h].port
      /\ s.references = t[h].references /\ s.remote = t[h].remote
      /\ s.listener = t[h].listener /\ s.accepted = t[h].accepted
      /\ s.detached = t[h].detached
  BY Zenon, <1>1 DEF Slot
<1> HIDE DEF s, h
<1>6. Formed(s) BY Zenon, <1>1, <1>2, <1>5 DEF Formed, is_connection
<1>7. Remains(t[h], s) /\ Narrow(t[h], s)
  BY Zenon, <1>2, <1>4, <1>5, <1>6 DEF Transport, Remains, Narrow, Serving, is_connection
<1>8. All(slots_', descriptors) BY Zenon, <1>1, <1>3, <1>7, KeptOne DEF IInv, Keeps
<1> QED BY Zenon, <1>2, <1>8 DEF IInv

\* dup, fcntl and fork (syscall.cpp:647).
LEMMA RetainStep ==
  ASSUME IInv, NEW d \in DOMAIN descriptors \ FreeDescriptors, retain_descriptor(d)
  PROVE  IInv'
<1> DEFINE t == slots_
           ds == descriptors
           h == Names(d)
           m == Min(FreeDescriptors)
           s == [t[h] EXCEPT !.references = @ + 1]
           e == [socket |-> h, remote |-> ds[d].remote]
<1>1. /\ h \in Handles /\ t \in Tables /\ t[h] \in Slot /\ Formed(t[h])
      /\ t[h].state # "free" /\ ~Transport(t[h]) /\ t[h].remote = ds[d].remote
      /\ t[h].references = Cardinality(NamesOf(ds, h)) /\ d \in 1 .. DescriptorCount
  BY Zenon, CallFacts
<1>2. m \in 1 .. DescriptorCount /\ ds[m] = NoDescriptor
  BY Zenon, DescriptorFacts DEF retain_descriptor
<1>3. slots_' = [t EXCEPT ![h] = s] BY Zenon, <1>1 DEF Tables, retain_descriptor
<1>4. descriptors' = [ds EXCEPT ![m] = e] BY Zenon DEF retain_descriptor, Install
<1>5. s \in Slot BY <1>1 DEF Slot
<1>6. /\ s.state = t[h].state /\ s.address = t[h].address /\ s.port = t[h].port
      /\ s.references = t[h].references + 1 /\ s.remote = t[h].remote
      /\ s.listener = t[h].listener /\ s.accepted = t[h].accepted
      /\ s.detached = t[h].detached
  BY Zenon, <1>1 DEF Slot
<1>7. e \in Descriptor /\ e.socket = h /\ e.remote = s.remote
  <2>1. ds[d].remote \in Peers \cup {NoPeer}
    BY Zenon, <1>1 DEF IInv, All, Base, DescriptorTables, Descriptor
  <2> QED BY Zenon, <2>1, <1>1, <1>6 DEF Descriptor
<1> HIDE DEF s, h, m, e
<1>8. Formed(s) /\ ~Transport(s) BY Zenon, <1>1, <1>6 DEF Formed, Transport
<1>9. Base(slots_', descriptors')
  BY Zenon, <1>1, <1>2, <1>3, <1>4, <1>5, <1>6, <1>7, <1>8, Gained DEF IInv, All
<1>10. \A g \in Handles : slots_'[g] = IF g = h THEN s ELSE t[g] BY Zenon, <1>1, <1>3 DEF Tables
<1>11. Attached(slots_')
  BY Zenon, <1>1, <1>6, <1>10, StillAttached DEF IInv, All, Waits
<1>12. Exclusive(slots_')
  BY Zenon, <1>6, <1>10, Narrowed DEF IInv, All, Narrow, Serving
<1> QED BY Zenon, <1>9, <1>11, <1>12 DEF IInv, All

\* close (syscall.cpp:663): one reference less, a connection left to the stack,
\* or the slot freed and with a listener its waiting children.
LEMMA ReleaseStep ==
  ASSUME IInv, NEW d \in DOMAIN descriptors \ FreeDescriptors, release_descriptor(d)
  PROVE  IInv'
<1> DEFINE t == slots_
           ds == descriptors
           h == Names(d)
           u == slots_'
<1>1. /\ h \in Handles /\ t \in Tables /\ t[h] \in Slot /\ Formed(t[h])
      /\ t[h].state # "free" /\ ~Transport(t[h])
      /\ t[h].references > 0 /\ d \in 1 .. DescriptorCount /\ ds[d] # NoDescriptor
      /\ h = ds[d].socket
  BY Zenon, CallFacts DEF Names
<1>2. descriptors' = [ds EXCEPT ![d] = NoDescriptor] /\ u = socket_close(t, h)
  BY Zenon DEF release_descriptor
<1>3. Base(t, ds) /\ Attached(t) /\ Exclusive(t) BY Zenon DEF IInv, All
<1>4. \A g \in Handles : t[g] \in Slot /\ Formed(t[g]) BY Zenon, <1>1, <1>3 DEF Base, Tables
<1>5. CASE t[h].references > 1
  <2> DEFINE s == [t[h] EXCEPT !.references = @ - 1]
  <2>1. t[h].references # 1 BY <1>1, <1>5 DEF Slot
  <2>2. u = [t EXCEPT ![h] = s]
    BY Zenon, <1>1, <1>2, <1>5, <2>1 DEF socket_close, release, Tables
  <2>3. s \in Slot BY <1>1, <1>5 DEF Slot
  <2>4. /\ s.state = t[h].state /\ s.address = t[h].address /\ s.port = t[h].port
        /\ s.references = t[h].references - 1 /\ s.remote = t[h].remote
        /\ s.listener = t[h].listener /\ s.accepted = t[h].accepted
        /\ s.detached = t[h].detached
    BY Zenon, <1>1 DEF Slot
  <2>5. u = [g \in Handles |-> u[g]] /\ \A g \in Handles : u[g] = IF g = h THEN s ELSE t[g]
    BY Zenon, <1>1, <2>2 DEF Tables
  <2> HIDE DEF s, h, u
  <2>6. Formed(s) /\ ~Transport(s) BY Zenon, <1>1, <2>4 DEF Formed, Transport
  <2>7. Base(u, descriptors')
    <3>1. \A g \in Handles \ {h} : u[g] = t[g] \/ Ends(t[g], u[g]) BY Zenon, <2>5
    <3>2. u[h] = s BY Zenon, <1>1, <2>5
    <3>3. IF t[h].references > 1
          THEN /\ u[h].state # "free" /\ u[h].remote = t[h].remote /\ ~Transport(u[h])
               /\ u[h].references = t[h].references - 1
          ELSE u[h].state = "free" \/ (Transport(u[h]) /\ u[h].references = 1)
      BY Zenon, <1>1, <1>5, <2>4, <2>6, <3>2
    <3> QED BY Zenon, <1>1, <1>2, <1>3, <2>3, <2>5, <2>6, <3>1, <3>2, <3>3, Lost
  <2>8. Attached(u) BY <1>1, <1>3, <2>4, <2>5, StillAttached DEF Waits
  <2>9. Exclusive(u) BY <1>3, <2>4, <2>5, Narrowed DEF Narrow, Serving
  <2> QED BY Zenon, <2>7, <2>8, <2>9 DEF IInv, All, u
<1>6. CASE t[h].references = 1 /\ t[h].state \in {"established", "time_wait"}
  <2> DEFINE s == [t[h] EXCEPT !.detached = TRUE, !.send_closed = TRUE]
  <2>1. u = [t EXCEPT ![h] = s] BY Zenon, <1>1, <1>2, <1>6 DEF socket_close, Tables
  <2>2. s \in Slot BY Zenon, <1>1 DEF Slot
  <2>3. /\ s.state = t[h].state /\ s.address = t[h].address /\ s.port = t[h].port
        /\ s.references = 1 /\ s.remote = t[h].remote
        /\ s.listener = t[h].listener /\ s.accepted = t[h].accepted /\ s.detached
    BY Zenon, <1>1, <1>6 DEF Slot
  <2>4. u = [g \in Handles |-> u[g]] /\ \A g \in Handles : u[g] = IF g = h THEN s ELSE t[g]
    BY Zenon, <1>1, <2>1 DEF Tables
  <2> HIDE DEF s, h, u
  <2>5. t[h].accepted BY Zenon, <1>1, <1>6 DEF Formed, Transport, is_connection
  <2>6. Formed(s) /\ Transport(s)
    BY Zenon, <1>1, <1>6, <2>3, <2>5 DEF Formed, Transport, is_connection
  <2>7. Base(u, descriptors')
    <3>1. \A g \in Handles \ {h} : u[g] = t[g] \/ Ends(t[g], u[g]) BY Zenon, <2>4
    <3>2. u[h] = s BY Zenon, <1>1, <2>4
    <3>3. ~(t[h].references > 1) BY <1>6
    <3> QED BY Zenon, <1>1, <1>2, <1>3, <2>2, <2>3, <2>4, <2>6, <3>1, <3>2, <3>3, Lost
  <2>8. Attached(u) BY <1>1, <1>3, <2>3, <2>4, StillAttached DEF Waits
  <2>9. Exclusive(u) BY <1>3, <2>3, <2>4, Narrowed DEF Narrow, Serving
  <2> QED BY Zenon, <2>7, <2>8, <2>9 DEF IInv, All, u
<1>7. CASE t[h].references = 1 /\ t[h].state \notin {"established", "time_wait"}
  <2> DEFINE gone(c) == c = h \/ (t[h].state = "listening" /\ c \in Children(t, h))
  <2>1. u = [c \in Handles |-> IF gone(c) THEN Free ELSE t[c]]
    BY <1>2, <1>7 DEF socket_close, release
  <2>2. u = [g \in Handles |-> u[g]] /\ \A g \in Handles : u[g] = IF gone(g) THEN Free ELSE t[g]
    BY Zenon, <2>1
  <2>3. Free.state = "free" /\ Free \in Slot /\ Formed(Free)
        /\ Free.listener = invalid_socket
    BY Zenon, FreeFormed DEF Free
  <2> HIDE DEF h, u
  <2>4. ASSUME NEW c \in Handles, gone(c), c # h
        PROVE  t[c].listener = h /\ t[c].state # "free" /\ Transport(t[c]) /\ t[c].remote # NoPeer
    <3>1. t[c].listener = h /\ ~t[c].accepted BY Zenon, <2>4 DEF Children
    <3>2. h # invalid_socket BY Zenon, <1>1, HandleFacts
    <3>3. Formed(t[c]) BY Zenon, <1>4
    <3> QED BY Zenon, <2>3, <3>1, <3>2, <3>3 DEF Formed, Transport
  <2>5. \A g \in Handles \ {h} : u[g] = t[g] \/ Ends(t[g], u[g])
    BY Zenon, <2>2, <2>4 DEF Ends
  <2>6. u[h] = Free BY Zenon, <1>1, <2>2
  <2>7. Base(u, descriptors')
    <3>1. ~(t[h].references > 1) BY <1>7
    <3> QED BY Zenon, <1>1, <1>2, <1>3, <2>2, <2>3, <2>5, <2>6, <3>1, Lost
  <2>8. ASSUME NEW l \in Handles, t[l].state = "listening"
        PROVE  \/ u[l].state = "listening" /\ u[l].port = t[l].port
               \/ \A c \in Handles : t[c].listener = l => ~Waits(u[c])
    <3>1. CASE l = h
      <4>1. ASSUME NEW c \in Handles, t[c].listener = l PROVE ~Waits(u[c])
        <5>1. CASE gone(c) BY Zenon, <5>1, <2>2, <2>3 DEF Waits, is_connection
        <5>2. CASE ~gone(c)
          <6>1. t[c].accepted BY Zenon, <5>2, <4>1, <3>1, <2>8 DEF Children
          <6> QED BY Zenon, <5>2, <6>1, <2>2 DEF Waits
        <5> QED BY Zenon, <5>1, <5>2
      <4> QED BY Zenon, <4>1
    <3>2. CASE l # h
      <4>1. t[l].remote = NoPeer BY Zenon, <1>4, <2>8 DEF Formed
      <4>2. ~gone(l) BY Zenon, <3>2, <4>1, <2>4
      <4> QED BY Zenon, <4>2, <2>2, <2>8
    <3> QED BY Zenon, <3>1, <3>2
  <2>9. \A c \in Handles : Waits(u[c]) => u[c] = t[c]
    BY Zenon, <2>2, <2>3 DEF Waits, is_connection
  <2>10. Attached(u) BY Zenon, <1>1, <1>3, <2>8, <2>9, StillAttached
  <2>11. \A g \in Handles : u[g] = t[g] \/ Narrow(t[g], u[g]) BY Zenon, <2>2, FreeNarrow
  <2>12. Exclusive(u) BY Zenon, <1>3, <2>11, Narrowed
  <2> QED BY Zenon, <2>7, <2>10, <2>12 DEF IInv, All, u
<1>8. t[h].references > 1 \/ t[h].references = 1 BY <1>1 DEF Slot
<1> QED BY Zenon, <1>5, <1>6, <1>7, <1>8

\* accept4 (syscall.cpp:1820): the connection gets its descriptor, or is closed
\* again when its peer's address cannot be written.
LEMMA AcceptStep ==
  ASSUME IInv, NEW d \in DOMAIN descriptors \ FreeDescriptors, NEW written \in BOOLEAN,
         accept(d, written)
  PROVE  IInv'
<1> DEFINE t == slots_
           ds == descriptors
           ready == {c \in Children(slots_, Names(d)) : slots_[c].state \in {"established", "reset"}}
           c == Min(ready)
           m == Min(FreeDescriptors)
           s == [t[c] EXCEPT !.accepted = TRUE]
           handed == [slots_ EXCEPT ![c].accepted = TRUE]
           e == [socket |-> c, remote |-> slots_[c].remote]
<1>1. /\ FreeDescriptors # {} /\ ready # {}
      /\ IF written THEN slots_' = handed /\ Install(c, slots_[c].remote)
         ELSE slots_' = socket_close(handed, c) /\ descriptors' = descriptors
  BY Zenon DEF accept
<1>2. /\ c \in Handles /\ t[c].listener = Names(d) /\ ~t[c].accepted
      /\ t[c].state \in {"established", "reset"}
  <2>1. ready \in SUBSET Nat BY Zenon, HandleFacts DEF Children
  <2>2. c \in ready BY Zenon, <1>1, <2>1, MinMember
  <2> QED BY Zenon, <2>2 DEF Children
<1>3. m \in 1 .. DescriptorCount /\ ds[m] = NoDescriptor BY Zenon, <1>1, DescriptorFacts
<1>4. Base(t, ds) /\ Attached(t) /\ Exclusive(t) /\ t \in Tables BY Zenon DEF IInv, All, Base
<1>5. t[c] \in Slot /\ Formed(t[c]) BY Zenon, <1>2, <1>4 DEF Base, Tables
<1>6. Transport(t[c]) /\ ~t[c].detached /\ t[c].remote # NoPeer
  BY Zenon, <1>2, <1>5 DEF Formed, Transport, is_connection
<1>7. t[c].references = 1 /\ Cardinality(NamesOf(ds, c)) = 0
  BY Zenon, <1>2, <1>4, <1>6 DEF Base, Counted
<1> HIDE DEF c, m
<1>8. handed = [t EXCEPT ![c] = s] BY Zenon, <1>2, <1>4 DEF Tables
<1>9. s \in Slot BY Zenon, <1>5 DEF Slot
<1>10. /\ s.state = t[c].state /\ s.address = t[c].address /\ s.port = t[c].port
       /\ s.references = t[c].references /\ s.remote = t[c].remote
       /\ s.listener = t[c].listener /\ s.accepted /\ s.detached = t[c].detached
  BY Zenon, <1>5 DEF Slot
<1>11. handed \in Tables /\ \A g \in Handles : handed[g] = IF g = c THEN s ELSE t[g]
  BY Zenon, <1>4, <1>8, <1>9 DEF Tables
<1> HIDE DEF s, handed
<1>12. CASE written
  <2>1. slots_' = handed /\ descriptors' = [ds EXCEPT ![m] = e]
    BY Zenon, <1>1, <1>12 DEF Install, m
  <2>2. e \in Descriptor /\ e.socket = c /\ e.remote = s.remote
    BY Zenon, <1>2, <1>5, <1>10 DEF Descriptor, Slot
  <2> HIDE DEF e
  <2>3. Formed(s) /\ ~Transport(s) /\ s.state # "free"
    BY Zenon, <1>2, <1>5, <1>6, <1>10 DEF Formed, Transport
  <2>4. s.references = Cardinality(NamesOf(ds, c)) + 1 BY <1>7, <1>10
  <2>5. Base(slots_', descriptors')
    BY Zenon, <1>2, <1>3, <1>4, <1>6, <1>8, <1>9, <2>1, <2>2, <2>3, <2>4, Gained
  <2>6. t[c].state # "listening" /\ ~Waits(s) BY Zenon, <1>2, <1>10 DEF Waits
  <2>7. Attached(handed) BY Zenon, <1>4, <1>11, <2>6, StillAttached
  <2>8. Exclusive(handed) BY <1>4, <1>10, <1>11, Narrowed DEF Narrow, Serving
  <2> QED BY Zenon, <2>1, <2>5, <2>7, <2>8 DEF IInv, All
<1>13. CASE ~written /\ t[c].state = "established"
  <2> DEFINE r == [s EXCEPT !.detached = TRUE, !.send_closed = TRUE]
  <2>1. slots_' = [handed EXCEPT ![c] = r]
    <3>1. handed[c] = s BY Zenon, <1>2, <1>11
    <3>2. socket_close(handed, c) = [handed EXCEPT ![c].detached = TRUE, ![c].send_closed = TRUE]
      BY Zenon, <1>7, <1>10, <1>13, <3>1 DEF socket_close
    <3> QED BY Zenon, <1>1, <1>2, <1>11, <1>13, <3>1, <3>2 DEF Tables
  <2>2. r \in Slot BY Zenon, <1>9 DEF Slot
  <2>3. /\ r.state = t[c].state /\ r.address = t[c].address /\ r.port = t[c].port
        /\ r.references = t[c].references /\ r.remote = t[c].remote
        /\ r.listener = t[c].listener /\ r.accepted /\ r.detached
    BY Zenon, <1>9, <1>10 DEF Slot
  <2> HIDE DEF r
  <2>4. slots_' = [t EXCEPT ![c] = r] BY Zenon, <1>4, <1>8, <2>1 DEF Tables
  <2>5. Formed(r) /\ Transport(r) BY Zenon, <1>6, <1>13, <2>3 DEF Formed, Transport
  <2>6. Remains(t[c], r) /\ Narrow(t[c], r)
    BY Zenon, <1>2, <1>6, <2>2, <2>3, <2>5 DEF Remains, Narrow, Serving
  <2>7. All(slots_', ds) BY Zenon, <1>2, <2>4, <2>6, KeptOne DEF IInv, Keeps
  <2> QED BY Zenon, <1>1, <1>13, <2>7 DEF IInv
<1>14. CASE ~written /\ t[c].state = "reset"
  <2>1. handed[c] = s BY Zenon, <1>2, <1>11
  <2>2. socket_close(handed, c) = [g \in Handles |-> IF g = c THEN Free ELSE handed[g]]
    BY <1>7, <1>10, <1>14, <2>1 DEF socket_close, release
  <2>3. slots_' = [t EXCEPT ![c] = Free] BY Zenon, <1>1, <1>4, <1>11, <1>14, <2>2 DEF Tables
  <2>4. Keeps(t[c], Free) BY Zenon, <1>6, <1>14 DEF Keeps, Ends
  <2>5. All(slots_', ds) BY Zenon, <1>2, <2>3, <2>4, KeptOne DEF IInv
  <2> QED BY Zenon, <1>1, <1>14, <2>5 DEF IInv
<1> QED BY Zenon, <1>2, <1>12, <1>13, <1>14

\* A frame and then the timers (stack.cpp:47).
LEMMA PollStep ==
  ASSUME IInv, poll
  PROVE  IInv'
<1>1. PICK frame \in {NoFrame} \cup (Kinds \X (Ports \cup EphemeralPorts) \X Peers) :
        LET handled == IF frame = NoFrame THEN slots_
                       ELSE handle_tcp(slots_, frame[1], frame[2], frame[3])
        IN  \E expired \in SUBSET Timed(handled) : slots_' = flush_timers(handled, expired)
  BY Zenon DEF poll
<1> DEFINE handled == IF frame = NoFrame THEN slots_
                      ELSE handle_tcp(slots_, frame[1], frame[2], frame[3])
<1>2. PICK expired \in SUBSET Timed(handled) : slots_' = flush_timers(handled, expired)
  BY Zenon, <1>1
<1>3. All(slots_, descriptors) BY Zenon DEF IInv
<1>4. All(handled, descriptors)
  <2>1. CASE frame = NoFrame BY Zenon, <2>1, <1>3
  <2>2. CASE frame # NoFrame
    <3>1. frame[1] \in Kinds /\ frame[2] \in Ports \cup EphemeralPorts /\ frame[3] \in Peers
      BY Zenon, <2>2
    <3> QED BY Zenon, <2>2, <3>1, <1>3, HandleKeeps
  <2> QED BY Zenon, <2>1, <2>2
<1> HIDE DEF handled
<1>5. All(slots_', descriptors) BY Zenon, <1>2, <1>4, TimersKeep
<1> QED BY Zenon, <1>5 DEF IInv, poll

\* Time passes for half-open connections.
LEMMA TickStep ==
  ASSUME IInv, Tick
  PROVE  IInv'
<1> DEFINE young == {h \in Handles : /\ slots_[h].state = "syn_received"
                                     /\ slots_[h].opened_at < Lifetime}
<1>1. /\ slots_' = [h \in Handles |-> IF h \in young THEN [slots_[h] EXCEPT !.opened_at = @ + 1]
                                       ELSE slots_[h]]
      /\ descriptors' = descriptors
  BY Zenon DEF Tick
<1>2. ASSUME NEW h \in Handles PROVE Keeps(slots_[h], slots_'[h])
  <2>1. slots_[h] \in Slot /\ Formed(slots_[h]) BY Zenon DEF IInv, All, Base, Tables
  <2>2. CASE h \in young
    <3>1. slots_[h].opened_at + 1 \in 0 .. Lifetime BY <2>1, <2>2, HandleFacts DEF Slot
    <3>2. Keeps(slots_[h], [slots_[h] EXCEPT !.opened_at = slots_[h].opened_at + 1])
      BY Zenon, <2>1, <2>2, <3>1, StampKeeps
    <3> QED BY Zenon, <1>1, <2>1, <2>2, <3>2
  <2>3. CASE h \notin young BY Zenon, <1>1, <2>3 DEF Keeps
  <2> QED BY Zenon, <2>2, <2>3
<1>3. slots_' = [h \in Handles |-> slots_'[h]] BY Zenon, <1>1
<1>4. All(slots_', descriptors) BY Zenon, <1>2, <1>3, Kept DEF IInv
<1> QED BY Zenon, <1>1, <1>4 DEF IInv

\* Every step keeps the invariant.
LEMMA StepInv == IInv /\ [Next]_vars => IInv'
<1> SUFFICES ASSUME IInv, [Next]_vars PROVE IInv' BY Zenon
<1>1. CASE \E type \in {"stream", "datagram"} : socket(type) BY Zenon, <1>1, SocketStep
<1>2. ASSUME NEW d \in DOMAIN descriptors \ FreeDescriptors,
             \/ \E address \in {"any", "own"}, port \in Ports \cup {0} : bind(d, address, port)
             \/ \E backlog \in 0 .. BacklogCapacity + 1 : listen(d, backlog)
             \/ \E written \in BOOLEAN : accept(d, written)
             \/ retain_descriptor(d)
             \/ release_descriptor(d)
             \/ socket_shutdown(d)
      PROVE  IInv'
  BY Zenon, <1>2, BindStep, ListenStep, AcceptStep, RetainStep, ReleaseStep, ShutdownStep
<1>3. CASE poll BY Zenon, <1>3, PollStep
<1>4. CASE Tick BY Zenon, <1>4, TickStep
<1>5. CASE UNCHANGED vars BY Zenon, <1>5 DEF vars, IInv
<1> QED BY Zenon, <1>1, <1>2, <1>3, <1>4, <1>5 DEF Next

-----------------------------------------------------------------------------
(* The theorems.                                                           *)

\* The invariant holds of every reachable state.
LEMMA InvHolds == Spec => []IInv
<1> QED BY InitInv, StepInv, PTL DEF Spec

\* For every size of the tables, each socket is referenced by exactly the
\* descriptors that name it, a descriptor names the socket it was made for, and
\* the stack alone owns a connection not accepted or left behind (socket.hpp:223,
\* syscall.cpp:647).
THEOREM SocketsCounted == Spec => []DescriptorsCounted
<1>1. IInv => DescriptorsCounted
  <2> SUFFICES ASSUME IInv PROVE DescriptorsCounted BY Zenon
  <2>1. Base(slots_, descriptors) /\ slots_ \in Tables /\ descriptors \in DescriptorTables
    BY Zenon DEF IInv, All, Base
  <2>2. DOMAIN descriptors = 1 .. DescriptorCount BY Zenon, <2>1 DEF DescriptorTables
  <2>3. ASSUME NEW h \in Handles
        PROVE  LET s == slots_[h]
                   names == Cardinality({d \in DOMAIN descriptors : Names(d) = h})
                   transport == s.detached \/ (s.remote # NoPeer /\ ~s.accepted)
               IN  s.state # "free" =>
                     IF transport THEN s.references = 1 /\ names = 0
                     ELSE s.references = names /\ names > 0
    <3>1. Counted(slots_[h], Cardinality(NamesOf(descriptors, h))) BY Zenon, <2>1 DEF Base
    <3>2. NamesOf(descriptors, h) = {d \in DOMAIN descriptors : Names(d) = h}
      BY Zenon, <2>2 DEF NamesOf, Names
    <3> QED BY Zenon, <3>1, <3>2 DEF Counted, Transport
  <2>4. \A d \in DOMAIN descriptors \ FreeDescriptors :
          LET s == slots_[Names(d)]
          IN  s.state # "free" /\ s.remote = descriptors[d].remote
    BY Zenon, CallFacts
  <2>5. ASSUME NEW h \in Handles PROVE slots_[h].references \in 0 .. DescriptorCount
    <3>1. Counted(slots_[h], Cardinality(NamesOf(descriptors, h))) /\ Formed(slots_[h])
      BY Zenon, <2>1 DEF Base
    <3>2. /\ Cardinality(NamesOf(descriptors, h)) \in Nat
          /\ Cardinality(NamesOf(descriptors, h)) <= DescriptorCount
      BY Zenon, NamesFinite
    <3>3. CASE slots_[h].state = "free"
      <4>1. slots_[h].references = 0 BY <3>1, <3>3 DEF Formed, Free
      <4> QED BY <4>1, HandleFacts
    <3>4. CASE slots_[h].state # "free" BY <3>1, <3>2, <3>4, HandleFacts DEF Counted
    <3> QED BY Zenon, <3>3, <3>4
  <2>6. \A h \in Handles :
          /\ slots_[h].state \in {"free", "control", "created", "bound", "listening", "closed"}
             \/ is_connection(slots_[h].state)
          /\ slots_[h].port \in Ports \cup EphemeralPorts \cup {0}
          /\ slots_[h].remote \in Peers \cup {NoPeer}
          /\ slots_[h].listener \in Handles \cup {invalid_socket}
          /\ slots_[h].backlog \in 0 .. BacklogCapacity
          /\ slots_[h].opened_at \in 0 .. Lifetime
          /\ slots_[h].state = "free" => slots_[h] = Free
    BY Zenon, <2>1 DEF Base, Tables, Slot, States, Formed, is_connection
  <2>7. \A d \in DOMAIN descriptors :
          /\ descriptors[d].socket \in Handles \cup {invalid_socket}
          /\ descriptors[d].remote \in Peers \cup {NoPeer}
    BY Zenon, <2>1 DEF DescriptorTables, Descriptor
  <2>8. TypeOK BY Zenon, <2>5, <2>6, <2>7 DEF TypeOK
  <2> QED BY Zenon, <2>3, <2>4, <2>8 DEF DescriptorsCounted
<1> QED BY <1>1, InvHolds, PTL

\* For every size of the tables, a connection nobody has accepted waits at an
\* open listener of its port: closing a listener strands none, however its slot
\* is used again (socket.hpp:233).
THEOREM NoChildStranded == Spec => []ChildrenHaveListener
<1>1. IInv => ChildrenHaveListener
  BY Zenon DEF IInv, All, Attached, Waits, ChildrenHaveListener
<1> QED BY <1>1, InvHolds, PTL

\* For every size of the tables, no two sockets claim the same segment: endpoints
\* are unique among connections and ports among the sockets that serve them
\* (socket.hpp:303, socket.hpp:580).
THEOREM EndpointsUnique == Spec => []EndpointsExclusive
<1>1. IInv => EndpointsExclusive
  BY Zenon DEF IInv, All, Exclusive, Same, Serving, EndpointsExclusive
<1> QED BY <1>1, InvHolds, PTL

=============================================================================
