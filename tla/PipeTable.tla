----------------------------- MODULE PipeTable -----------------------------
(***************************************************************************)
(* Anonymous pipes (include/mikos/process/pipe.hpp over                    *)
(* include/mikos/io/ring_buffer.hpp) as the kernel's descriptors use them: *)
(* pipe2 creates one, fork and dup retain an end, close and exit release   *)
(* it, read and write move bytes through the ring.                         *)
(*                                                                         *)
(* held is a history variable: how many descriptors of any process carry   *)
(* each handle and end.  result is what the last call returned.            *)
(***************************************************************************)
EXTENDS Integers, Sequences, FiniteSets

CONSTANTS
  TableCapacity, BufferCapacity, AtomicCapacity,
  GenerationMax,    \* largest u16
  Byte,             \* the values a byte takes
  MaxCount,         \* bound: bytes in one call
  MaxHeld           \* bound: descriptors on one end, below the u16 limit

ASSUME PipeAssumption ==
  /\ TableCapacity \in Nat \ {0} /\ BufferCapacity \in Nat \ {0}
  /\ AtomicCapacity \in 0..BufferCapacity
  /\ GenerationMax \in Nat \ {0}
  /\ MaxCount \in Nat /\ MaxHeld \in Nat \ {0}
  /\ Byte # {}

VARIABLES pipes_, held, result

vars == <<pipes_, held, result>>

Slot == 0..(TableCapacity - 1)

Cell == 0..(BufferCapacity - 1)

End == {"read", "write"}

Handle == [slot : Slot, generation : 1..GenerationMax]

Input == UNION {[1..n -> Byte] : n \in 0..MaxCount}

Fresh(generation) ==
  [used |-> FALSE, generation |-> generation, readers |-> 0, writers |-> 0,
   data |-> [c \in Cell |-> CHOOSE b \in Byte : TRUE], head |-> 0, size |-> 0]

-----------------------------------------------------------------------------

\* RingBuffer::write and ::read: as many bytes as there is room, or data, for.
Amount(count, bound) == IF count < bound THEN count ELSE bound

free_space(p) == BufferCapacity - p.size

\* Mutant: bytes are stored from the head instead of behind the tail.
WritesAtHead(p, input) ==
  LET amount == Amount(Len(input), free_space(p))
  IN  [p EXCEPT !.size = @ + amount,
                !.data = [c \in Cell |->
                  LET i == (c - p.head) % BufferCapacity
                  IN  IF i < amount THEN input[i + 1] ELSE @[c]]]

ring_write(p, input) ==
  LET amount == Amount(Len(input), free_space(p))
  IN  [p EXCEPT !.size = @ + amount,
                !.data = [c \in Cell |->
                  LET i == (c - p.head - p.size) % BufferCapacity
                  IN  IF i < amount THEN input[i + 1] ELSE @[c]]]

ring_read(p, count) ==
  LET amount == Amount(count, p.size)
  IN  [p EXCEPT !.size = @ - amount, !.head = (@ + amount) % BufferCapacity]

\* The bytes in the ring, oldest first.
contents(p) ==
  [i \in 1..p.size |-> p.data[(p.head + i - 1) % BufferCapacity]]

-----------------------------------------------------------------------------

Init ==
  /\ pipes_ = [s \in Slot |-> Fresh(0)]
  /\ held = [h \in Handle |-> [e \in End |-> 0]]
  /\ result = [status |-> "success", data |-> <<>>]

Returns(status, data) == result' = [status |-> status, data |-> data]

\* find: a handle names a pipe while its generation is the slot's.
find(h) == pipes_[h.slot].used /\ pipes_[h.slot].generation = h.generation

\* The lowest free slot, whose generation skips zero when it wraps.
create(s) ==
  LET g == (pipes_[s].generation % GenerationMax) + 1
  IN  /\ ~pipes_[s].used
      /\ \A t \in 0..(s - 1) : pipes_[t].used
      /\ pipes_' = [pipes_ EXCEPT ![s] =
                      [Fresh(g) EXCEPT !.used = TRUE, !.readers = 1, !.writers = 1]]
      /\ held' = [held EXCEPT ![[slot |-> s, generation |-> g]] =
                    [e \in End |-> @[e] + 1]]
      /\ Returns("success", <<>>)

create_no_space ==
  /\ \A s \in Slot : pipes_[s].used
  /\ Returns("no_space", <<>>)
  /\ UNCHANGED <<pipes_, held>>

Count(p, e) == IF e = "read" THEN p.readers ELSE p.writers

WithCount(p, e, n) ==
  IF e = "read" THEN [p EXCEPT !.readers = n] ELSE [p EXCEPT !.writers = n]

\* fork or dup of a descriptor: retain, and a failure leaves no new one.
retain(h, e) ==
  /\ held[h][e] \in 1..(MaxHeld - 1)
  /\ IF find(h)
     THEN /\ pipes_' = [pipes_ EXCEPT ![h.slot] = WithCount(@, e, Count(@, e) + 1)]
          /\ held' = [held EXCEPT ![h][e] = @ + 1]
          /\ Returns("success", <<>>)
     ELSE /\ Returns("bad_handle", <<>>)
          /\ UNCHANGED <<pipes_, held>>

\* Mutant: the slot is freed with the last writer although readers remain.
FreedByWriters(p, e) ==
  LET q == WithCount(p, e, Count(p, e) - 1)
  IN  IF q.writers = 0 THEN Fresh(p.generation) ELSE q

\* One reference less; the last one of both ends frees the slot and keeps its
\* generation.
Released(p, e) ==
  LET q == WithCount(p, e, Count(p, e) - 1)
  IN  IF q.readers = 0 /\ q.writers = 0 THEN Fresh(p.generation) ELSE q

release(h, e) ==
  /\ held[h][e] > 0
  /\ held' = [held EXCEPT ![h][e] = @ - 1]
  /\ IF find(h) /\ Count(pipes_[h.slot], e) # 0
     THEN /\ pipes_' = [pipes_ EXCEPT ![h.slot] = Released(@, e)]
          /\ Returns("success", <<>>)
     ELSE /\ Returns("bad_handle", <<>>)
          /\ UNCHANGED pipes_

\* Mutant: read looks for the other end's references.
ReadNeedsWriter(h, count) ==
  LET p == pipes_[h.slot]
  IN  /\ held[h]["read"] > 0
      /\ IF ~find(h) \/ p.writers = 0
         THEN Returns("bad_handle", <<>>) /\ UNCHANGED pipes_
         ELSE IF count = 0 \/ p.size # 0
         THEN /\ Returns("success", SubSeq(contents(p), 1, Amount(count, p.size)))
              /\ pipes_' = [pipes_ EXCEPT ![h.slot] = ring_read(@, count)]
         ELSE /\ Returns("would_block", <<>>)
              /\ UNCHANGED pipes_
      /\ UNCHANGED held

read(h, count) ==
  LET p == pipes_[h.slot]
  IN  /\ held[h]["read"] > 0
      /\ IF ~find(h) \/ p.readers = 0
         THEN Returns("bad_handle", <<>>) /\ UNCHANGED pipes_
         ELSE IF count = 0 \/ p.size # 0
         THEN /\ Returns("success", SubSeq(contents(p), 1, Amount(count, p.size)))
              /\ pipes_' = [pipes_ EXCEPT ![h.slot] = ring_read(@, count)]
         ELSE /\ Returns(IF p.writers = 0 THEN "end_of_file" ELSE "would_block", <<>>)
              /\ UNCHANGED pipes_
      /\ UNCHANGED held

\* Mutant: the atomicity test is dropped.
NeverFull(p, input) == free_space(p) = 0

\* A write of at most AtomicCapacity bytes goes in whole or not at all.
WouldBlock(p, input) ==
  \/ Len(input) <= AtomicCapacity /\ free_space(p) < Len(input)
  \/ free_space(p) = 0

write(h, input) ==
  LET p == pipes_[h.slot]
  IN  /\ held[h]["write"] > 0
      /\ IF ~find(h) \/ p.writers = 0
         THEN Returns("bad_handle", <<>>) /\ UNCHANGED pipes_
         ELSE IF Len(input) = 0
         THEN Returns("success", <<>>) /\ UNCHANGED pipes_
         ELSE IF p.readers = 0
         THEN Returns("broken_pipe", <<>>) /\ UNCHANGED pipes_
         ELSE IF WouldBlock(p, input)
         THEN Returns("would_block", <<>>) /\ UNCHANGED pipes_
         ELSE /\ Returns("success", SubSeq(input, 1, Amount(Len(input), free_space(p))))
              /\ pipes_' = [pipes_ EXCEPT ![h.slot] = ring_write(@, input)]
      /\ UNCHANGED held

Next ==
  \/ \E s \in Slot : create(s)
  \/ create_no_space
  \/ \E h \in Handle : \E e \in End : retain(h, e) \/ release(h, e)
  \/ \E h \in Handle : \E n \in 0..MaxCount : read(h, n)
  \/ \E h \in Handle : \E i \in Input : write(h, i)

Spec == Init /\ [][Next]_vars

-----------------------------------------------------------------------------

readable(h) ==
  find(h) /\ pipes_[h.slot].readers # 0
  /\ (pipes_[h.slot].size # 0 \/ pipes_[h.slot].writers = 0)

writable(h) ==
  find(h) /\ pipes_[h.slot].writers # 0 /\ pipes_[h.slot].readers # 0
  /\ pipes_[h.slot].size # BufferCapacity

Pipe ==
  [used : BOOLEAN, generation : 0..GenerationMax, readers : Nat, writers : Nat,
   data : [Cell -> Byte], head : Cell, size : 0..BufferCapacity]

\* Types: ring indices stay inside the buffer and counts never underflow.
TypeOK ==
  /\ pipes_ \in [Slot -> Pipe]
  /\ held \in [Handle -> [End -> Nat]]

\* Every descriptor still open names a live pipe, and each pipe counts exactly
\* the descriptors open on each of its ends: the two counts reach zero, and
\* EOF, EPIPE and slot reuse happen, exactly at the last close.  A slot is
\* never reused under a descriptor, even when generations wrap.
EndsCounted ==
  \A h \in Handle :
    /\ (\E e \in End : held[h][e] > 0) => find(h)
    /\ find(h) => \A e \in End : Count(pipes_[h.slot], e) = held[h][e]

\* A slot is in use exactly while some descriptor of it is open.
NoLeak ==
  \A s \in Slot :
    pipes_[s].used <=> (\E h \in Handle : h.slot = s /\ \E e \in End : held[h][e] > 0)

\* No call on an open descriptor is answered bad_handle.
HandlesResolve == result.status # "bad_handle"

\* The table between two calls: types, each pipe counting the descriptors open on
\* its ends, no slot leaked and none reused under a descriptor (release, create).
PipeInv ==
  /\ TypeOK /\ EndsCounted /\ NoLeak
  /\ \A s \in Slot : pipes_[s].used => pipes_[s].generation # 0

-----------------------------------------------------------------------------

\* The byte streams a pipe promises (PipeStream), read off the rings.
Streams == INSTANCE PipeStream WITH
  streams <- [s \in Slot |-> [readers |-> pipes_[s].readers,
                              writers |-> pipes_[s].writers,
                              bytes |-> contents(pipes_[s])]]

\* The rings implement first-in first-out byte streams: bytes come out once, in
\* the order they went in, small writes are atomic, end of file appears only
\* after the last writer and an empty stream, EPIPE only without readers.
ImplementsStreams == Streams!Spec

=============================================================================
