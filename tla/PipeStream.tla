----------------------------- MODULE PipeStream -----------------------------
(***************************************************************************)
(* What a pipe promises its users: a bounded first-in first-out stream of  *)
(* bytes per slot, with the number of open ends on each side.              *)
(***************************************************************************)
EXTENDS Integers, Sequences

CONSTANTS TableCapacity, BufferCapacity, AtomicCapacity, Byte, MaxCount

VARIABLES streams, result

Slot == 0..(TableCapacity - 1)

Input == UNION {[1..n -> Byte] : n \in 0..MaxCount}

Closed == [readers |-> 0, writers |-> 0, bytes |-> <<>>]

Init ==
  /\ streams = [s \in Slot |-> Closed]
  /\ result = [status |-> "success", data |-> <<>>]

Open(s) == streams[s].readers + streams[s].writers > 0

Create(s) ==
  /\ ~Open(s)
  /\ streams' = [streams EXCEPT ![s] = [readers |-> 1, writers |-> 1, bytes |-> <<>>]]
  /\ result' = [status |-> "success", data |-> <<>>]

Full ==
  /\ \A s \in Slot : Open(s)
  /\ result' = [status |-> "no_space", data |-> <<>>]
  /\ UNCHANGED streams

\* An end is opened or closed; the bytes go with the last one.
Reference(s, r, w) ==
  /\ Open(s)
  /\ streams[s].readers + r >= 0 /\ streams[s].writers + w >= 0
  /\ streams' = [streams EXCEPT ![s] =
       IF @.readers + r = 0 /\ @.writers + w = 0 THEN Closed
       ELSE [readers |-> @.readers + r, writers |-> @.writers + w, bytes |-> @.bytes]]
  /\ result' = [status |-> "success", data |-> <<>>]

\* A read takes the oldest bytes; it waits while there are writers.
Read(s, count) ==
  /\ streams[s].readers > 0
  /\ LET bytes == streams[s].bytes
         n == IF count < Len(bytes) THEN count ELSE Len(bytes)
     IN  /\ streams' = [streams EXCEPT ![s].bytes = SubSeq(bytes, n + 1, Len(bytes))]
         /\ result' =
              [status |-> IF count = 0 \/ bytes # <<>> THEN "success"
                          ELSE IF streams[s].writers = 0 THEN "end_of_file"
                          ELSE "would_block",
               data |-> SubSeq(bytes, 1, n)]

\* A write appends a prefix of its input: all of it when it is small, and
\* nothing only when there is nothing to write, no room or no reader.
Write(s, input) ==
  /\ streams[s].writers > 0
  /\ \E n \in 0..Len(input) :
       LET room == BufferCapacity - Len(streams[s].bytes)
       IN  /\ n <= room
           /\ n = 0 => Len(input) > room \/ input = <<>> \/ streams[s].readers = 0
           /\ Len(input) <= AtomicCapacity => n \in {0, Len(input)}
           /\ streams[s].readers = 0 => n = 0
           /\ streams' = [streams EXCEPT ![s].bytes = @ \o SubSeq(input, 1, n)]
           /\ result' = [status |-> IF input = <<>> \/ n > 0 THEN "success"
                                    ELSE IF streams[s].readers = 0 THEN "broken_pipe"
                                    ELSE "would_block",
                         data |-> SubSeq(input, 1, n)]

Next ==
  \/ Full
  \/ \E s \in Slot :
       \/ Create(s)
       \/ \E r, w \in {-1, 0, 1} : Reference(s, r, w)
       \/ \E n \in 0..MaxCount : Read(s, n)
       \/ \E i \in Input : Write(s, i)

Spec == Init /\ [][Next]_<<streams, result>>

=============================================================================
