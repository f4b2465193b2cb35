-------------------------- MODULE PipeTable_proofs --------------------------
(***************************************************************************)
(* For every table size, buffer size and generation range: pipe ends are   *)
(* counted exactly, slots are neither leaked nor reused early, no call on  *)
(* an open descriptor fails to find its pipe, and the rings implement the  *)
(* byte streams of PipeStream.                                             *)
(***************************************************************************)
EXTENDS PipeTable, TLAPS

\* The inductive invariant.
IInv == PipeInv /\ HandlesResolve

\* Remainders are cells: the ring's index arithmetic stays in range.
LEMMA ModRange ==
  ASSUME NEW a \in Int, NEW b \in Nat \ {0}
  PROVE  a % b \in 0..(b - 1)
OBVIOUS

\* Reading takes bytes away and leaves a well-formed ring (ring_buffer.hpp:27).
LEMMA RingRead ==
  ASSUME NEW p \in Pipe, NEW n \in Nat
  PROVE  ring_read(p, n) \in Pipe
<1> DEFINE amount == Amount(n, p.size)
<1>1. amount \in Nat /\ amount <= p.size BY DEF Amount, Pipe
<1>2. (p.head + amount) % BufferCapacity \in Cell
  <2>1. p.head + amount \in Int BY <1>1 DEF Cell, Pipe
  <2> HIDE DEF amount
  <2> QED BY Zenon, <2>1, ModRange, PipeAssumption DEF Cell
<1>3. p.size - amount \in 0..BufferCapacity
  BY <1>1, PipeAssumption DEF Pipe
<1> QED BY Zenon, <1>1, <1>2, <1>3 DEF ring_read, Pipe

\* Writing stores input bytes only and never exceeds the capacity
\* (ring_buffer.hpp:18).
LEMMA RingWrite ==
  ASSUME NEW p \in Pipe, NEW i \in Input
  PROVE  ring_write(p, i) \in Pipe
<1> DEFINE amount == Amount(Len(i), free_space(p))
           at(c) == (c - p.head - p.size) % BufferCapacity
<1>1. PICK n \in 0..MaxCount : i \in [1..n -> Byte] BY Zenon DEF Input
<1>2. i \in Seq(Byte) /\ Len(i) = n BY <1>1, PipeAssumption
<1>3. amount \in Nat /\ amount <= n /\ p.size + amount \in 0..BufferCapacity
  BY <1>2, PipeAssumption DEF Amount, free_space, Pipe
<1>4. ASSUME NEW c \in Cell, at(c) < amount PROVE i[at(c) + 1] \in Byte
  <2>1. c - p.head - p.size \in Int BY PipeAssumption DEF Cell, Pipe
  <2>2. at(c) \in 0..(BufferCapacity - 1) BY Zenon, <2>1, ModRange, PipeAssumption
  <2>3. at(c) + 1 \in 1..n BY <2>2, <1>3, <1>4, PipeAssumption
  <2> QED BY Zenon, <2>3, <1>1
<1>5. [c \in Cell |-> IF at(c) < amount THEN i[at(c) + 1] ELSE p.data[c]]
        \in [Cell -> Byte]
  BY Zenon, <1>4 DEF Pipe
<1> QED BY Zenon, <1>3, <1>5 DEF ring_write, Pipe

\* A pipe that nobody has opened is well formed (pipe.hpp:88).
LEMMA FreshType ==
  ASSUME NEW g \in 0..GenerationMax
  PROVE  Fresh(g) \in Pipe
<1>1. (CHOOSE b \in Byte : TRUE) \in Byte BY Zenon, PipeAssumption
<1>2. [c \in Cell |-> CHOOSE b \in Byte : TRUE] \in [Cell -> Byte] BY Zenon, <1>1
<1>3. 0 \in Cell /\ 0 \in 0..BufferCapacity BY PipeAssumption DEF Cell
<1> QED BY Zenon, <1>2, <1>3 DEF Fresh, Pipe

\* An empty table satisfies the invariant (pipe.hpp:193).
LEMMA InitInv == Init => IInv
<1> SUFFICES ASSUME Init PROVE IInv BY Zenon
<1>1. Fresh(0) \in Pipe BY FreshType, PipeAssumption
<1>2. \A s \in Slot : pipes_[s] = Fresh(0) BY Zenon DEF Init
<1>3. \A s \in Slot : ~pipes_[s].used
  <2>1. Fresh(0).used = FALSE BY Zenon DEF Fresh
  <2> QED BY Zenon, <1>2, <2>1
<1>4. TypeOK BY Zenon, <1>1 DEF Init, TypeOK
<1>5. \A h \in Handle : \A e \in End : held[h][e] = 0 BY Zenon DEF Init
<1>6. EndsCounted BY <1>3, <1>5 DEF EndsCounted, find, Handle
<1>7. NoLeak BY <1>3, <1>5 DEF NoLeak
<1>8. HandlesResolve BY Zenon DEF Init, HandlesResolve
<1> QED BY Zenon, <1>3, <1>4, <1>6, <1>7, <1>8 DEF IInv, PipeInv

\* Two handles of one slot that both name its pipe are the same handle.
LEMMA SameHandle ==
  ASSUME NEW h \in Handle, NEW k \in Handle, find(h), find(k), h.slot = k.slot
  PROVE  h = k
BY DEF find, Handle

\* A step that leaves the slots, ends and generations alone and answers
\* anything but bad_handle keeps the invariant: reads and writes.
LEMMA DataStep ==
  ASSUME IInv, NEW s \in Slot, NEW q \in Pipe,
         pipes_' = [pipes_ EXCEPT ![s] = q],
         q.used = pipes_[s].used, q.generation = pipes_[s].generation,
         q.readers = pipes_[s].readers, q.writers = pipes_[s].writers,
         held' = held, result'.status # "bad_handle"
  PROVE  IInv'
<1> USE DEF IInv, PipeInv
<1>1. TypeOK' BY Zenon DEF TypeOK
<1>2. \A t \in Slot : /\ pipes_'[t].used = pipes_[t].used
                      /\ pipes_'[t].generation = pipes_[t].generation
                      /\ pipes_'[t].readers = pipes_[t].readers
                      /\ pipes_'[t].writers = pipes_[t].writers
  BY Zenon DEF TypeOK
<1>3. \A h \in Handle : find(h)' <=> find(h) BY Zenon, <1>2 DEF find, Handle
<1>4. \A h \in Handle : \A e \in End :
        Count(pipes_[h.slot], e)' = Count(pipes_[h.slot], e)
  BY Zenon, <1>2 DEF Count, Handle
<1>5. EndsCounted' BY Zenon, <1>3, <1>4 DEF EndsCounted
<1>6. NoLeak' BY <1>2 DEF NoLeak
<1> QED BY Zenon, <1>1, <1>2, <1>5, <1>6 DEF HandlesResolve

\* A read keeps the invariant (pipe.hpp:94).
LEMMA ReadStep ==
  ASSUME IInv, NEW h \in Handle, NEW n \in 0..MaxCount, read(h, n)
  PROVE  IInv'
<1> DEFINE p == pipes_[h.slot]
<1>1. h.slot \in Slot /\ p \in Pipe BY Zenon DEF IInv, PipeInv, TypeOK, Handle
<1>2. find(h) /\ p.readers # 0
  <2>1. held[h]["read"] > 0 BY Zenon DEF read
  <2>2. find(h) BY Zenon, <2>1 DEF IInv, PipeInv, EndsCounted, End
  <2>3. Count(p, "read") = held[h]["read"]
    BY Zenon, <2>2 DEF IInv, PipeInv, EndsCounted, End
  <2> QED BY <2>1, <2>2, <2>3 DEF Count
<1>3. held' = held BY Zenon DEF read
<1>4. CASE n = 0 \/ p.size # 0
  <2>1. pipes_' = [pipes_ EXCEPT ![h.slot] = ring_read(p, n)]
        /\ result'.status = "success"
    BY <1>2, <1>4 DEF read, Returns
  <2>2. ring_read(p, n) \in Pipe BY <1>1, RingRead, PipeAssumption
  <2>3. /\ ring_read(p, n).used = p.used
        /\ ring_read(p, n).generation = p.generation
        /\ ring_read(p, n).readers = p.readers
        /\ ring_read(p, n).writers = p.writers
    BY Zenon, <1>1 DEF ring_read, Pipe
  <2> QED BY Zenon, <1>1, <1>3, <2>1, <2>2, <2>3, DataStep
<1>5. CASE ~(n = 0 \/ p.size # 0)
  <2>1. pipes_' = pipes_ /\ result'.status # "bad_handle"
    BY <1>2, <1>5 DEF read, Returns
  <2>2. pipes_' = [pipes_ EXCEPT ![h.slot] = p]
    BY Zenon, <2>1 DEF IInv, PipeInv, TypeOK
  <2> QED BY Zenon, <1>1, <1>3, <2>1, <2>2, DataStep
<1> QED BY Zenon, <1>4, <1>5

\* A write keeps the invariant (pipe.hpp:111).
LEMMA WriteStep ==
  ASSUME IInv, NEW h \in Handle, NEW i \in Input, write(h, i)
  PROVE  IInv'
<1> DEFINE p == pipes_[h.slot]
<1>1. h.slot \in Slot /\ p \in Pipe BY Zenon DEF IInv, PipeInv, TypeOK, Handle
<1>2. find(h) /\ p.writers # 0
  <2>1. held[h]["write"] > 0 BY Zenon DEF write
  <2>2. find(h) BY Zenon, <2>1 DEF IInv, PipeInv, EndsCounted, End
  <2>3. Count(p, "write") = held[h]["write"]
    BY Zenon, <2>2 DEF IInv, PipeInv, EndsCounted, End
  <2> QED BY <2>1, <2>2, <2>3 DEF Count
<1>3. held' = held BY Zenon DEF write
<1>4. CASE pipes_' = pipes_ /\ result'.status # "bad_handle"
  <2>2. pipes_' = [pipes_ EXCEPT ![h.slot] = p]
    BY Zenon, <1>4 DEF IInv, PipeInv, TypeOK
  <2> QED BY Zenon, <1>1, <1>3, <1>4, <2>2, DataStep
<1>5. CASE /\ pipes_' = [pipes_ EXCEPT ![h.slot] = ring_write(p, i)]
           /\ result'.status # "bad_handle"
  <2>2. ring_write(p, i) \in Pipe BY Zenon, <1>1, RingWrite
  <2>3. /\ ring_write(p, i).used = p.used
        /\ ring_write(p, i).generation = p.generation
        /\ ring_write(p, i).readers = p.readers
        /\ ring_write(p, i).writers = p.writers
    BY Zenon, <1>1 DEF ring_write, Pipe
  <2> QED BY Zenon, <1>1, <1>3, <1>5, <2>2, <2>3, DataStep
<1> QED BY <1>2, <1>4, <1>5 DEF write, Returns

\* Only the handle that names a slot's pipe is open on that slot.
LEMMA OneOpen ==
  ASSUME IInv, NEW h \in Handle, find(h), NEW k \in Handle, k # h, k.slot = h.slot,
         NEW e \in End
  PROVE  held[k][e] = 0
<1>1. ~find(k) BY Zenon, SameHandle
<1>2. held[k][e] \in Nat BY Zenon DEF IInv, PipeInv, TypeOK
<1>3. ~(held[k][e] > 0) BY Zenon, <1>1 DEF IInv, PipeInv, EndsCounted
<1> QED BY <1>2, <1>3

\* A slot that is free has no open descriptor.
LEMMA NoneOpen ==
  ASSUME IInv, NEW s \in Slot, ~pipes_[s].used, NEW k \in Handle, k.slot = s,
         NEW e \in End
  PROVE  held[k][e] = 0
<1>2. held[k][e] \in Nat BY Zenon DEF IInv, PipeInv, TypeOK
<1>3. ~(held[k][e] > 0) BY Zenon DEF IInv, PipeInv, NoLeak
<1> QED BY <1>2, <1>3

\* Opening or closing one end of h, when the slot's pipe stays and no other
\* handle of the slot is open.
LEMMA OpenStep ==
  ASSUME IInv, NEW h \in Handle, NEW q \in Pipe,
         q.used, q.generation = h.generation,
         pipes_' = [pipes_ EXCEPT ![h.slot] = q],
         NEW f \in [End -> Nat], held' = [held EXCEPT ![h] = f],
         \A k \in Handle : k # h /\ k.slot = h.slot => \A e \in End : held[k][e] = 0,
         \A e \in End : Count(q, e) = f[e],
         \E e \in End : f[e] > 0,
         result'.status # "bad_handle"
  PROVE  IInv'
<1>1. h.slot \in Slot /\ h.generation # 0 BY DEF Handle
<1>2. TypeOK' BY Zenon, <1>1 DEF IInv, PipeInv, TypeOK
<1>3. held'[h] = f /\ (\A k \in Handle : k # h => held'[k] = held[k])
  BY Zenon DEF IInv, PipeInv, TypeOK
<1>4. pipes_'[h.slot] = q /\ (\A t \in Slot : t # h.slot => pipes_'[t] = pipes_[t])
  BY Zenon, <1>1 DEF IInv, PipeInv, TypeOK
<1>5. find(h)' BY Zenon, <1>4 DEF find
<1>6. ASSUME NEW k \in Handle, k # h, k.slot = h.slot PROVE ~find(k)'
  BY <1>4, <1>6 DEF find, Handle
<1>7. ASSUME NEW k \in Handle, k.slot # h.slot
      PROVE  (find(k)' <=> find(k)) /\ pipes_'[k.slot] = pipes_[k.slot] /\ held'[k] = held[k]
  <2>1. k.slot \in Slot /\ k # h BY Zenon, <1>7 DEF Handle
  <2> QED BY Zenon, <2>1, <1>3, <1>4, <1>7 DEF find
<1>8. EndsCounted'
  <2> SUFFICES ASSUME NEW k \in Handle
               PROVE  /\ (\E e \in End : held'[k][e] > 0) => find(k)'
                      /\ find(k)' => \A e \in End : Count(pipes_'[k.slot], e) = held'[k][e]
    BY Zenon DEF EndsCounted, Count
  <2>1. CASE k = h BY <2>1, <1>3, <1>4, <1>5
  <2>2. CASE k # h /\ k.slot = h.slot
    <3>1. \A e \in End : held'[k][e] = 0 BY <2>2, <1>3
    <3> QED BY <2>2, <3>1, <1>6
  <2>3. CASE k.slot # h.slot
    BY <2>3, <1>7 DEF IInv, PipeInv, EndsCounted
  <2> QED BY Zenon, <2>1, <2>2, <2>3
<1>9. NoLeak'
  <2> SUFFICES ASSUME NEW t \in Slot
               PROVE  pipes_'[t].used <=>
                        (\E k \in Handle : k.slot = t /\ \E e \in End : held'[k][e] > 0)
    BY Zenon DEF NoLeak
  <2>1. CASE t = h.slot
    BY <2>1, <1>3, <1>4
  <2>2. CASE t # h.slot
    <3>1. \A k \in Handle : k.slot = t => held'[k] = held[k] BY Zenon, <2>2, <1>7
    <3>2. pipes_'[t] = pipes_[t] BY Zenon, <2>2, <1>4
    <3> QED BY <3>1, <3>2 DEF IInv, PipeInv, NoLeak
  <2> QED BY Zenon, <2>1, <2>2
<1>10. \A t \in Slot : pipes_'[t].used => pipes_'[t].generation # 0
  BY Zenon, <1>1, <1>4 DEF IInv, PipeInv
<1> QED BY Zenon, <1>2, <1>8, <1>9, <1>10 DEF IInv, PipeInv, HandlesResolve

\* Closing the last end of h, which frees its slot.
LEMMA FreeStep ==
  ASSUME IInv, NEW h \in Handle, find(h),
         pipes_' = [pipes_ EXCEPT ![h.slot] = Fresh(h.generation)],
         NEW f \in [End -> Nat], held' = [held EXCEPT ![h] = f],
         \A e \in End : f[e] = 0,
         result'.status # "bad_handle"
  PROVE  IInv'
<1>1. h.slot \in Slot BY Zenon DEF Handle
<1>2. Fresh(h.generation) \in Pipe BY FreshType, PipeAssumption DEF Handle
<1>3. TypeOK' BY Zenon, <1>1, <1>2 DEF IInv, PipeInv, TypeOK
<1>4. held'[h] = f /\ (\A k \in Handle : k # h => held'[k] = held[k])
  BY Zenon DEF IInv, PipeInv, TypeOK
<1>5. ~pipes_'[h.slot].used /\ (\A t \in Slot : t # h.slot => pipes_'[t] = pipes_[t])
  <2>1. Fresh(h.generation).used = FALSE BY Zenon DEF Fresh
  <2> QED BY Zenon, <1>1, <2>1 DEF IInv, PipeInv, TypeOK
<1>6. \A k \in Handle : k.slot = h.slot => \A e \in End : held'[k][e] = 0
  BY Zenon, <1>4, OneOpen
<1>7. ASSUME NEW k \in Handle, k.slot # h.slot
      PROVE  (find(k)' <=> find(k)) /\ pipes_'[k.slot] = pipes_[k.slot] /\ held'[k] = held[k]
  <2>1. k.slot \in Slot /\ k # h BY Zenon, <1>7 DEF Handle
  <2> QED BY Zenon, <2>1, <1>4, <1>5, <1>7 DEF find
<1>8. EndsCounted'
  <2> SUFFICES ASSUME NEW k \in Handle
               PROVE  /\ (\E e \in End : held'[k][e] > 0) => find(k)'
                      /\ find(k)' => \A e \in End : Count(pipes_'[k.slot], e) = held'[k][e]
    BY Zenon DEF EndsCounted, Count
  <2>1. CASE k.slot = h.slot
    <3>1. ~find(k)' BY Zenon, <2>1, <1>5 DEF find
    <3> QED BY <2>1, <3>1, <1>6
  <2>2. CASE k.slot # h.slot BY <2>2, <1>7 DEF IInv, PipeInv, EndsCounted
  <2> QED BY Zenon, <2>1, <2>2
<1>9. NoLeak'
  <2> SUFFICES ASSUME NEW t \in Slot
               PROVE  pipes_'[t].used <=>
                        (\E k \in Handle : k.slot = t /\ \E e \in End : held'[k][e] > 0)
    BY Zenon DEF NoLeak
  <2>1. CASE t = h.slot BY <2>1, <1>5, <1>6
  <2>2. CASE t # h.slot
    <3>1. \A k \in Handle : k.slot = t => held'[k] = held[k] BY Zenon, <2>2, <1>7
    <3>2. pipes_'[t] = pipes_[t] BY Zenon, <2>2, <1>5
    <3> QED BY <3>1, <3>2 DEF IInv, PipeInv, NoLeak
  <2> QED BY Zenon, <2>1, <2>2
<1>10. \A t \in Slot : pipes_'[t].used => pipes_'[t].generation # 0
  BY Zenon, <1>5 DEF IInv, PipeInv
<1> QED BY Zenon, <1>3, <1>8, <1>9, <1>10 DEF IInv, PipeInv, HandlesResolve

\* create takes a free slot and keeps the invariant (pipe.hpp:43).
LEMMA CreateStep ==
  ASSUME IInv, NEW s \in Slot, create(s)
  PROVE  IInv'
<1> DEFINE g == (pipes_[s].generation % GenerationMax) + 1
           h == [slot |-> s, generation |-> g]
           q == [Fresh(g) EXCEPT !.used = TRUE, !.readers = 1, !.writers = 1]
           f == [e \in End |-> held[h][e] + 1]
<1>1. g \in 1..GenerationMax
  <2>1. pipes_[s].generation \in Int BY DEF IInv, PipeInv, TypeOK, Pipe
  <2>2. pipes_[s].generation % GenerationMax \in 0..(GenerationMax - 1)
    BY Zenon, <2>1, ModRange, PipeAssumption
  <2> QED BY <2>2, PipeAssumption
<1> HIDE DEF g
<1>2. h \in Handle BY Zenon, <1>1 DEF Handle
<1>3. Fresh(g) \in Pipe BY <1>1, FreshType, PipeAssumption
<1>4. q \in Pipe /\ q.used /\ q.generation = g /\ q.readers = 1 /\ q.writers = 1
  BY Zenon, <1>1, <1>3 DEF Pipe, Fresh
<1>5. ~pipes_[s].used BY Zenon DEF create
<1>6. \A k \in Handle : k.slot = s => \A e \in End : held[k][e] = 0
  BY Zenon, <1>5, NoneOpen
<1>7. \A e \in End : f[e] = 1 BY <1>2, <1>6
<1>8. f \in [End -> Nat] BY <1>7
<1>9. pipes_' = [pipes_ EXCEPT ![s] = q] BY Zenon DEF create, g
<1>10. held' = [held EXCEPT ![h] = f] BY Zenon DEF create, g
<1>11. result'.status # "bad_handle" BY Zenon DEF create, Returns
<1>12. \A e \in End : Count(q, e) = f[e] BY Zenon, <1>4, <1>7 DEF Count
<1>13. \E e \in End : f[e] > 0 BY <1>7 DEF End
<1>14. h.slot = s /\ h.generation = g BY Zenon
<1> HIDE DEF h, q, f
<1>15. \A k \in Handle : k # h /\ k.slot = h.slot => \A e \in End : held[k][e] = 0
  BY Zenon, <1>6, <1>14
<1>16. q \in Pipe /\ q.used /\ q.generation = h.generation BY Zenon, <1>4, <1>14
<1>17. pipes_' = [pipes_ EXCEPT ![h.slot] = q] BY Zenon, <1>9, <1>14
<1> QED BY Zenon, <1>2, <1>8, <1>10, <1>11, <1>12, <1>13, <1>15, <1>16, <1>17, OpenStep

\* retain keeps the invariant (pipe.hpp:63).
LEMMA RetainStep ==
  ASSUME IInv, NEW h \in Handle, NEW e \in End, retain(h, e)
  PROVE  IInv'
<1> DEFINE p == pipes_[h.slot]
           q == WithCount(p, e, Count(p, e) + 1)
           f == [held[h] EXCEPT ![e] = @ + 1]
<1>1. find(h)
  <2>1. held[h][e] > 0 BY DEF retain
  <2> QED BY Zenon, <2>1 DEF IInv, PipeInv, EndsCounted
<1>2. p \in Pipe /\ held[h] \in [End -> Nat] BY Zenon DEF IInv, PipeInv, TypeOK, Handle
<1>3. \A d \in End : Count(p, d) = held[h][d] BY Zenon, <1>1 DEF IInv, PipeInv, EndsCounted
<1>4. p.used /\ p.generation = h.generation BY Zenon, <1>1 DEF find
<1> HIDE DEF p
<1>5. Count(p, e) + 1 \in Nat BY <1>2, <1>3
<1>6. q \in Pipe /\ q.used = p.used /\ q.generation = p.generation
  BY Zenon, <1>2, <1>5 DEF WithCount, Pipe
<1>7. \A d \in End : Count(q, d) = IF d = e THEN Count(p, e) + 1 ELSE Count(p, d)
  BY Zenon, <1>2 DEF WithCount, Count, Pipe, End
<1>8. f \in [End -> Nat] /\ f[e] > 0 /\ (\A d \in End : f[d] = IF d = e THEN held[h][e] + 1 ELSE held[h][d])
  BY <1>2
<1>9. \A d \in End : Count(q, d) = f[d] BY Zenon, <1>3, <1>7, <1>8
<1>10. pipes_' = [pipes_ EXCEPT ![h.slot] = q] /\ held' = [held EXCEPT ![h] = f]
       /\ result'.status # "bad_handle"
  BY <1>1 DEF retain, Returns, p
<1>11. \A k \in Handle : k # h /\ k.slot = h.slot => \A d \in End : held[k][d] = 0
  BY Zenon, <1>1, OneOpen
<1> HIDE DEF q, f
<1>12. q \in Pipe /\ q.used /\ q.generation = h.generation BY Zenon, <1>4, <1>6
<1>13. f \in [End -> Nat] /\ \E d \in End : f[d] > 0 BY Zenon, <1>8
<1> QED BY Zenon, <1>9, <1>10, <1>11, <1>12, <1>13, OpenStep

\* release keeps the invariant, freeing the slot or not (pipe.hpp:76).
LEMMA ReleaseStep ==
  ASSUME IInv, NEW h \in Handle, NEW e \in End, release(h, e)
  PROVE  IInv'
<1> DEFINE p == pipes_[h.slot]
           q == WithCount(p, e, Count(p, e) - 1)
           f == [held[h] EXCEPT ![e] = @ - 1]
<1>1. held[h][e] > 0 /\ find(h)
  <2>1. held[h][e] > 0 BY Zenon DEF release
  <2> QED BY Zenon, <2>1 DEF IInv, PipeInv, EndsCounted
<1>2. p \in Pipe /\ held[h] \in [End -> Nat] BY Zenon DEF IInv, PipeInv, TypeOK, Handle
<1>3. \A d \in End : Count(p, d) = held[h][d] BY Zenon, <1>1 DEF IInv, PipeInv, EndsCounted
<1>4. p.used /\ p.generation = h.generation BY Zenon, <1>1 DEF find
<1>0. pipes_' = [pipes_ EXCEPT ![h.slot] = Released(p, e)] /\ held' = [held EXCEPT ![h] = f]
       /\ result'.status # "bad_handle"
  <2>1. Count(p, e) # 0 BY <1>1, <1>2, <1>3
  <2> QED BY <1>1, <2>1 DEF release, Returns
<1> HIDE DEF p
<1>5. Count(p, e) - 1 \in Nat BY <1>1, <1>2, <1>3
<1>6. q \in Pipe /\ q.used = p.used /\ q.generation = p.generation
  BY Zenon, <1>2, <1>5 DEF WithCount, Pipe
<1>7. \A d \in End : Count(q, d) = IF d = e THEN Count(p, e) - 1 ELSE Count(p, d)
  BY Zenon, <1>2 DEF WithCount, Count, Pipe, End
<1>8. f \in [End -> Nat] /\ (\A d \in End : f[d] = IF d = e THEN held[h][e] - 1 ELSE held[h][d])
  BY <1>1, <1>2
<1>9. \A d \in End : Count(q, d) = f[d] BY Zenon, <1>3, <1>7, <1>8
<1>10. Released(p, e) = IF q.readers = 0 /\ q.writers = 0 THEN Fresh(h.generation) ELSE q
  BY Zenon, <1>4 DEF Released
<1>11. \A k \in Handle : k # h /\ k.slot = h.slot => \A d \in End : held[k][d] = 0
  BY Zenon, <1>1, OneOpen
<1>12. q.readers = f["read"] /\ q.writers = f["write"] BY Zenon, <1>9 DEF Count, End
<1> HIDE DEF q, f
<1>13. CASE q.readers = 0 /\ q.writers = 0
  <2>1. \A d \in End : f[d] = 0 BY Zenon, <1>12, <1>13 DEF End
  <2>2. pipes_' = [pipes_ EXCEPT ![h.slot] = Fresh(h.generation)] BY Zenon, <1>0, <1>10, <1>13
  <2> QED BY Zenon, <1>0, <1>1, <1>8, <2>1, <2>2, FreeStep
<1>14. CASE ~(q.readers = 0 /\ q.writers = 0)
  <2>1. \E d \in End : f[d] > 0 BY <1>8, <1>12, <1>14 DEF End
  <2>2. pipes_' = [pipes_ EXCEPT ![h.slot] = q] BY Zenon, <1>0, <1>10, <1>14
  <2>3. q \in Pipe /\ q.used /\ q.generation = h.generation BY Zenon, <1>4, <1>6
  <2>4. f \in [End -> Nat] BY Zenon, <1>8
  <2>5. held' = [held EXCEPT ![h] = f] /\ result'.status # "bad_handle" BY Zenon, <1>0
  <2> QED BY Zenon, <1>9, <1>11, <2>1, <2>2, <2>3, <2>4, <2>5, OpenStep
<1> QED BY Zenon, <1>13, <1>14

\* The inductive invariant holds in every reachable state.
THEOREM PipeInvariant == Spec => []IInv
<1>1. IInv /\ [Next]_vars => IInv'
  <2> SUFFICES ASSUME IInv, [Next]_vars PROVE IInv' BY Zenon
  <2>1. ASSUME NEW s \in Slot, create(s) PROVE IInv' BY Zenon, <2>1, CreateStep
  <2>2. CASE create_no_space
    BY <2>2 DEF create_no_space, Returns, IInv, PipeInv, TypeOK, EndsCounted,
                NoLeak, HandlesResolve, find, Count
  <2>3. ASSUME NEW h \in Handle, NEW e \in End, retain(h, e) PROVE IInv'
    BY Zenon, <2>3, RetainStep
  <2>4. ASSUME NEW h \in Handle, NEW e \in End, release(h, e) PROVE IInv'
    BY Zenon, <2>4, ReleaseStep
  <2>5. ASSUME NEW h \in Handle, NEW n \in 0..MaxCount, read(h, n) PROVE IInv'
    BY Zenon, <2>5, ReadStep
  <2>6. ASSUME NEW h \in Handle, NEW i \in Input, write(h, i) PROVE IInv'
    BY Zenon, <2>6, WriteStep
  <2>7. CASE UNCHANGED vars
    BY <2>7 DEF vars, IInv, PipeInv, TypeOK, EndsCounted, NoLeak, HandlesResolve,
                find, Count
  <2> QED BY Zenon, <2>1, <2>2, <2>3, <2>4, <2>5, <2>6, <2>7 DEF Next
<1> QED BY <1>1, InitInv, PTL DEF Spec

\* Pipe ends are counted exactly: EOF, EPIPE and slot reuse happen at the last
\* close of an end, no slot is reused under an open descriptor, whatever the
\* range of generations, and none stays used without one (pipe.hpp:63-92).
THEOREM PipeTableKept == Spec => []PipeInv
BY PipeInvariant, PTL DEF IInv

\* No call on an open descriptor answers bad_handle (pipe.hpp:175-191).
THEOREM PipeHandlesResolve == Spec => []HandlesResolve
BY PipeInvariant, PTL DEF IInv

-----------------------------------------------------------------------------

\* The refinement: the rings implement first-in first-out streams.

\* Which byte of a write lands in the cell of the i-th oldest byte: the index is
\* reduced twice, whatever the capacity.
LEMMA WriteIndex ==
  ASSUME NEW B \in Nat \ {0}, NEW h \in Int, NEW z \in Int, NEW i \in Int,
         0 <= h, h < B, 0 <= z, z <= B, 1 <= i, i <= B
  PROVE  (((h + i - 1) % B) - h - z) % B = IF i <= z THEN i - 1 - z + B ELSE i - 1 - z
<1>1. CASE h + i - 1 < B
  <2>1. (h + i - 1) % B = h + i - 1 BY <1>1
  <2>2. ((h + i - 1) % B) - h - z = i - 1 - z BY <2>1
  <2>3. i <= z => (i - 1 - z) % B = i - 1 - z + B OBVIOUS
  <2>4. ~(i <= z) => (i - 1 - z) % B = i - 1 - z OBVIOUS
  <2> QED BY Zenon, <2>2, <2>3, <2>4
<1>2. CASE ~(h + i - 1 < B)
  <2>1. (h + i - 1) % B = h + i - 1 - B BY <1>2
  <2>2. ((h + i - 1) % B) - h - z = i - 1 - z - B BY <2>1
  <2>3. i <= z => (i - 1 - z - B) % B = i - 1 - z + B OBVIOUS
  <2>4. ~(i <= z) => (i - 1 - z - B) % B = i - 1 - z OBVIOUS
  <2> QED BY Zenon, <2>2, <2>3, <2>4
<1> QED BY Zenon, <1>1, <1>2

\* The i-th oldest byte after m bytes are read is the (m + i)-th before.
LEMMA ReadIndex ==
  ASSUME NEW B \in Nat \ {0}, NEW h \in Int, NEW m \in Int, NEW i \in Int,
         0 <= h, h < B, 0 <= m, 1 <= i, m + i <= B
  PROVE  (((h + m) % B) + i - 1) % B = (h + (m + i) - 1) % B
<1>1. CASE h + m < B
  <2>1. (h + m) % B = h + m BY <1>1
  <2>2. ((h + m) % B) + i - 1 = h + (m + i) - 1 BY <2>1
  <2> QED BY Zenon, <2>2
<1>2. CASE ~(h + m < B)
  <2>1. (h + m) % B = h + m - B BY <1>2
  <2>2. ((h + m) % B) + i - 1 = h + (m + i) - 1 - B BY <2>1
  <2>3. (h + (m + i) - 1 - B) % B = h + (m + i) - 1 - B BY <1>2
  <2>4. (h + (m + i) - 1) % B = h + (m + i) - 1 - B BY <1>2
  <2> QED BY Zenon, <2>2, <2>3, <2>4
<1> QED BY Zenon, <1>1, <1>2

\* Where the i-th oldest byte of a ring is.
At(p, i) == (p.head + i - 1) % BufferCapacity

\* The bytes of a ring are a sequence as long as the ring is full.
LEMMA ContentsSeq ==
  ASSUME NEW p \in Pipe
  PROVE  /\ contents(p) \in Seq(Byte) /\ Len(contents(p)) = p.size
         /\ \A i \in 1..p.size : contents(p)[i] = p.data[At(p, i)] /\ At(p, i) \in Cell
<1>1. p.size \in Nat /\ p.data \in [Cell -> Byte] /\ p.head \in Int
  BY PipeAssumption DEF Pipe, Cell
<1>2. \A i \in 1..p.size : At(p, i) \in Cell
  <2> SUFFICES ASSUME NEW i \in 1..p.size PROVE At(p, i) \in Cell BY Zenon
  <2>1. p.head + i - 1 \in Int BY <1>1
  <2> QED BY Zenon, <2>1, ModRange, PipeAssumption DEF At, Cell
<1>3. contents(p) = [i \in 1..p.size |-> p.data[At(p, i)]] BY Zenon DEF contents, At
<1>4. \A i \in 1..p.size : p.data[At(p, i)] \in Byte BY Zenon, <1>1, <1>2
<1> QED BY <1>1, <1>2, <1>3, <1>4

\* The elements of a concatenation.
LEMMA Concat ==
  ASSUME NEW S, NEW a \in Seq(S), NEW b \in Seq(S)
  PROVE  /\ a \o b \in Seq(S) /\ Len(a \o b) = Len(a) + Len(b)
         /\ \A i \in 1..(Len(a) + Len(b)) :
              (a \o b)[i] = IF i <= Len(a) THEN a[i] ELSE b[i - Len(a)]
OBVIOUS

\* Sequences are equal that agree everywhere.
LEMMA SeqEqual ==
  ASSUME NEW S, NEW a \in Seq(S), NEW b \in Seq(S), Len(a) = Len(b),
         \A i \in 1..Len(a) : a[i] = b[i]
  PROVE  a = b
OBVIOUS

\* RingBuffer::read takes the oldest bytes and keeps the order of the others
\* (ring_buffer.hpp:27), also where the ring wraps.
LEMMA ReadContents ==
  ASSUME NEW p \in Pipe, NEW n \in Nat
  PROVE  contents(ring_read(p, n))
           = SubSeq(contents(p), Amount(n, p.size) + 1, p.size)
<1> DEFINE m == Amount(n, p.size)
           q == ring_read(p, n)
           c == contents(p)
<1>1. m \in Nat /\ m <= p.size /\ p.size \in Nat /\ p.size <= BufferCapacity
  BY PipeAssumption DEF Amount, Pipe
<1>2. q \in Pipe /\ q.size = p.size - m /\ q.head = (p.head + m) % BufferCapacity
      /\ q.data = p.data
  BY Zenon, RingRead DEF ring_read, Pipe
<1>3. p.head \in Int /\ 0 <= p.head /\ p.head < BufferCapacity
  BY PipeAssumption DEF Pipe, Cell
<1> HIDE DEF m, q, c
<1>4. /\ c \in Seq(Byte) /\ Len(c) = p.size
      /\ \A i \in 1..p.size : c[i] = p.data[At(p, i)]
  BY Zenon, ContentsSeq DEF c
<1>5. /\ contents(q) \in Seq(Byte) /\ Len(contents(q)) = p.size - m
      /\ \A i \in 1..(p.size - m) : contents(q)[i] = p.data[At(q, i)]
  BY Zenon, <1>2, ContentsSeq
<1>6. /\ SubSeq(c, m + 1, p.size) \in Seq(Byte)
      /\ Len(SubSeq(c, m + 1, p.size)) = p.size - m
      /\ \A i \in 1..(p.size - m) : SubSeq(c, m + 1, p.size)[i] = c[m + i]
  BY <1>1, <1>4
<1>7. ASSUME NEW i \in 1..(p.size - m) PROVE At(q, i) = At(p, m + i)
  <2>1. /\ BufferCapacity \in Nat \ {0} /\ m \in Int /\ i \in Int
        /\ 0 <= m /\ 1 <= i /\ m + i <= BufferCapacity
    BY <1>1, PipeAssumption
  <2>2. (((p.head + m) % BufferCapacity) + i - 1) % BufferCapacity
          = (p.head + (m + i) - 1) % BufferCapacity
    BY Zenon, <1>3, <2>1, ReadIndex
  <2> QED BY Zenon, <1>2, <2>2 DEF At
<1>8. \A i \in 1..(p.size - m) : m + i \in 1..p.size BY <1>1
<1>9. \A i \in 1..(p.size - m) : contents(q)[i] = SubSeq(c, m + 1, p.size)[i]
  BY Zenon, <1>4, <1>5, <1>6, <1>7, <1>8
<1>10. contents(q) = SubSeq(c, m + 1, p.size) BY Zenon, <1>5, <1>6, <1>9, SeqEqual
<1> QED BY Zenon, <1>10 DEF m, q, c

\* RingBuffer::write appends a prefix of the input and disturbs no byte in the
\* ring (ring_buffer.hpp:18), also where the ring wraps.
LEMMA WriteContents ==
  ASSUME NEW p \in Pipe, NEW in \in Input
  PROVE  contents(ring_write(p, in))
           = contents(p) \o SubSeq(in, 1, Amount(Len(in), free_space(p)))
<1> DEFINE m == Amount(Len(in), free_space(p))
           q == ring_write(p, in)
           c == contents(p)
           B == BufferCapacity
           at(d) == (d - p.head - p.size) % B
<1>1. in \in Seq(Byte) BY PipeAssumption DEF Input
<1>2. /\ m \in Nat /\ m <= Len(in) /\ p.size \in Nat /\ p.size + m <= B
      /\ B \in Nat \ {0} /\ Len(in) \in Nat
  BY <1>1, PipeAssumption DEF Amount, Pipe, free_space
<1>3. p.head \in Int /\ 0 <= p.head /\ p.head < B BY PipeAssumption DEF Pipe, Cell
<1>4. /\ q \in Pipe /\ q.size = p.size + m /\ q.head = p.head
      /\ q.data = [d \in Cell |-> IF at(d) < m THEN in[at(d) + 1] ELSE p.data[d]]
  BY Zenon, RingWrite DEF ring_write, Pipe
<1> HIDE DEF m, q, c
<1>5. /\ c \in Seq(Byte) /\ Len(c) = p.size
      /\ \A i \in 1..p.size : c[i] = p.data[At(p, i)]
  BY Zenon, ContentsSeq DEF c
<1>6. /\ contents(q) \in Seq(Byte) /\ Len(contents(q)) = p.size + m
      /\ \A i \in 1..(p.size + m) : contents(q)[i] = q.data[At(q, i)] /\ At(q, i) \in Cell
  BY Zenon, <1>4, ContentsSeq
<1> DEFINE t == SubSeq(in, 1, m)
<1>7. t \in Seq(Byte) /\ Len(t) = m /\ \A i \in 1..m : t[i] = in[i] BY <1>1, <1>2
<1> HIDE DEF t
<1>8. /\ c \o t \in Seq(Byte) /\ Len(c \o t) = p.size + m
      /\ \A i \in 1..(p.size + m) : (c \o t)[i] = IF i <= p.size THEN c[i] ELSE t[i - p.size]
  <2>1. c \in Seq(Byte) /\ t \in Seq(Byte) /\ Len(c) = p.size /\ Len(t) = m BY Zenon, <1>5, <1>7
  <2>2. /\ c \o t \in Seq(Byte) /\ Len(c \o t) = Len(c) + Len(t)
        /\ \A i \in 1..(Len(c) + Len(t)) :
             (c \o t)[i] = IF i <= Len(c) THEN c[i] ELSE t[i - Len(c)]
    BY Zenon, <2>1, Concat
  <2> QED BY <2>1, <2>2, Zenon
<1>9. \A i \in 1..(p.size + m) : At(q, i) = At(p, i) BY Zenon, <1>4 DEF At
<1>10. ASSUME NEW i \in 1..(p.size + m)
       PROVE  at(At(p, i)) = IF i <= p.size THEN i - 1 - p.size + B ELSE i - 1 - p.size
  <2>1. i \in Int /\ 1 <= i /\ i <= B /\ 0 <= p.size /\ p.size <= B /\ p.size \in Int
    BY <1>2
  <2>2. \A h, z, k \in Int :
          0 <= h /\ h < B /\ 0 <= z /\ z <= B /\ 1 <= k /\ k <= B =>
            (((h + k - 1) % B) - h - z) % B = IF k <= z THEN k - 1 - z + B ELSE k - 1 - z
    <3> TAKE h, z, k \in Int
    <3> HAVE 0 <= h /\ h < B /\ 0 <= z /\ z <= B /\ 1 <= k /\ k <= B
    <3> QED BY PipeAssumption, WriteIndex
  <2>3. (((p.head + i - 1) % B) - p.head - p.size) % B
          = IF i <= p.size THEN i - 1 - p.size + B ELSE i - 1 - p.size
    BY <1>3, <2>1, <2>2, Zenon
  <2> QED BY Zenon, <2>3 DEF At
<1> HIDE DEF at
<1>11. ASSUME NEW i \in 1..(p.size + m) PROVE contents(q)[i] = (c \o t)[i]
  <2>1. At(p, i) \in Cell
        /\ contents(q)[i] = IF at(At(p, i)) < m THEN in[at(At(p, i)) + 1]
                            ELSE p.data[At(p, i)]
    <3>1. At(q, i) = At(p, i) /\ At(q, i) \in Cell BY Zenon, <1>6, <1>9
    <3>2. \A d \in Cell : q.data[d] = IF at(d) < m THEN in[at(d) + 1] ELSE p.data[d]
      BY Zenon, <1>4 DEF at
    <3> QED BY Zenon, <1>6, <3>1, <3>2
  <2>2. CASE i <= p.size
    <3>1. ~(at(At(p, i)) < m) /\ i \in 1..p.size BY <1>2, <1>10, <2>2
    <3> QED BY <1>5, <1>8, <2>1, <3>1
  <2>3. CASE ~(i <= p.size)
    <3>1. i - p.size \in 1..m BY <1>2, <2>3
    <3>2. at(At(p, i)) < m /\ at(At(p, i)) + 1 = i - p.size BY <1>2, <1>10, <2>3
    <3>3. contents(q)[i] = in[i - p.size] BY Zenon, <2>1, <3>2
    <3>4. (c \o t)[i] = t[i - p.size] BY Zenon, <1>8, <2>3
    <3> QED BY Zenon, <1>7, <3>1, <3>3, <3>4
  <2> QED BY Zenon, <2>2, <2>3
<1>12. contents(q) = c \o t BY Zenon, <1>6, <1>8, <1>11, SeqEqual
<1> QED BY Zenon, <1>12 DEF m, q, c, t

-----------------------------------------------------------------------------

\* The stream a pipe stands for, and all of them: the refinement mapping.
Stream(p) == [readers |-> p.readers, writers |-> p.writers, bytes |-> contents(p)]

Mapped == [s \in Slot |-> Stream(pipes_[s])]

\* A slot not in use has no ends and no bytes.
Vacant == \A s \in Slot :
  ~pipes_[s].used => pipes_[s].readers = 0 /\ pipes_[s].writers = 0 /\ pipes_[s].size = 0

\* A step that replaces one pipe replaces one stream.
LEMMA MappedStep ==
  ASSUME IInv, NEW s \in Slot, NEW q, pipes_' = [pipes_ EXCEPT ![s] = q]
  PROVE  Mapped' = [Mapped EXCEPT ![s] = Stream(q)]
<1>1. pipes_ \in [Slot -> Pipe] BY Zenon DEF IInv, PipeInv, TypeOK
<1>2. \A t \in Slot : pipes_'[t] = IF t = s THEN q ELSE pipes_[t] BY Zenon, <1>1
<1>3. Mapped' = [t \in Slot |-> Stream(pipes_'[t])] BY Zenon DEF Mapped, Stream, contents
<1>4. \A t \in Slot : Stream(pipes_'[t]) = IF t = s THEN Stream(q) ELSE Stream(pipes_[t])
  BY <1>2
<1> HIDE DEF Stream
<1> QED BY Zenon, <1>3, <1>4 DEF Mapped

\* An empty ring is an empty stream.
LEMMA EmptyContents ==
  ASSUME NEW p \in Pipe, p.size = 0
  PROVE  contents(p) = <<>>
BY ContentsSeq

\* A pipe in use has an end open.
LEMMA UsedOpen ==
  ASSUME IInv, NEW s \in Slot, pipes_[s].used
  PROVE  pipes_[s].readers + pipes_[s].writers > 0
<1>1. PICK h \in Handle : h.slot = s /\ \E e \in End : held[h][e] > 0
  BY Zenon DEF IInv, PipeInv, NoLeak
<1>2. \A e \in End : Count(pipes_[s], e) = held[h][e]
  BY Zenon, <1>1 DEF IInv, PipeInv, EndsCounted
<1>3. pipes_[s].readers \in Nat /\ pipes_[s].writers \in Nat
  BY Zenon DEF IInv, PipeInv, TypeOK, Pipe
<1> QED BY <1>1, <1>2, <1>3 DEF Count, End

\* A free slot is cleaned before the next pipe gets it.
LEMMA VacantStep == IInv /\ Vacant /\ [Next]_vars => Vacant'
<1> SUFFICES ASSUME IInv, Vacant, [Next]_vars PROVE Vacant' BY Zenon
<1>1. pipes_ \in [Slot -> Pipe] BY Zenon DEF IInv, PipeInv, TypeOK
<1>2. ASSUME NEW t \in Slot, NEW q, pipes_' = [pipes_ EXCEPT ![t] = q],
             ~q.used => q.readers = 0 /\ q.writers = 0 /\ q.size = 0
      PROVE  Vacant'
  BY Zenon, <1>1, <1>2 DEF Vacant
<1>3. CASE UNCHANGED pipes_ BY Zenon, <1>3 DEF Vacant
<1>4. \A g : Fresh(g).readers = 0 /\ Fresh(g).writers = 0 /\ Fresh(g).size = 0
  BY Zenon DEF Fresh
<1>5. ASSUME NEW t \in Slot, create(t) PROVE Vacant'
  <2> DEFINE q == [Fresh((pipes_[t].generation % GenerationMax) + 1)
                     EXCEPT !.used = TRUE, !.readers = 1, !.writers = 1]
  <2>1. pipes_' = [pipes_ EXCEPT ![t] = q] BY Zenon, <1>5 DEF create
  <2>2. q.used BY Zenon DEF Fresh
  <2> QED BY Zenon, <1>2, <2>1, <2>2
<1>6. ASSUME NEW h \in Handle, NEW e \in End, NEW n,
             find(h) PROVE WithCount(pipes_[h.slot], e, n).used
  <2>1. pipes_[h.slot] \in Pipe /\ pipes_[h.slot].used BY Zenon, <1>1, <1>6 DEF find, Handle
  <2> QED BY Zenon, <2>1 DEF WithCount, Pipe
<1>7. ASSUME NEW h \in Handle, NEW e \in End, retain(h, e) PROVE Vacant'
  <2>1. h.slot \in Slot BY Zenon DEF Handle
  <2>2. CASE find(h)
    <3>1. pipes_' = [pipes_ EXCEPT ![h.slot] =
                       WithCount(pipes_[h.slot], e, Count(pipes_[h.slot], e) + 1)]
      BY Zenon, <1>7, <2>2 DEF retain
    <3> QED BY Zenon, <1>2, <1>6, <2>1, <2>2, <3>1
  <2>3. CASE ~find(h) BY Zenon, <1>3, <1>7, <2>3 DEF retain
  <2> QED BY Zenon, <2>2, <2>3
<1>8. ASSUME NEW h \in Handle, NEW e \in End, release(h, e) PROVE Vacant'
  <2>1. h.slot \in Slot BY Zenon DEF Handle
  <2>2. CASE find(h) /\ Count(pipes_[h.slot], e) # 0
    <3>1. pipes_' = [pipes_ EXCEPT ![h.slot] = Released(pipes_[h.slot], e)]
      BY Zenon, <1>8, <2>2 DEF release
    <3>2. \/ \E g : Released(pipes_[h.slot], e) = Fresh(g)
          \/ Released(pipes_[h.slot], e).used
      BY Zenon, <1>6, <2>2 DEF Released
    <3> QED BY Zenon, <1>2, <1>4, <2>1, <3>1, <3>2
  <2>3. CASE ~(find(h) /\ Count(pipes_[h.slot], e) # 0) BY Zenon, <1>3, <1>8, <2>3 DEF release
  <2> QED BY Zenon, <2>2, <2>3
<1>9. ASSUME NEW h \in Handle, NEW n \in 0..MaxCount, read(h, n) PROVE Vacant'
  <2>1. h.slot \in Slot /\ pipes_[h.slot] \in Pipe BY Zenon, <1>1 DEF Handle
  <2>2. \/ UNCHANGED pipes_
        \/ find(h) /\ pipes_' = [pipes_ EXCEPT ![h.slot] = ring_read(pipes_[h.slot], n)]
    BY Zenon, <1>9 DEF read
  <2>3. find(h) => ring_read(pipes_[h.slot], n).used BY Zenon, <2>1 DEF find, ring_read, Pipe
  <2> QED BY Zenon, <1>2, <1>3, <2>1, <2>2, <2>3
<1>10. ASSUME NEW h \in Handle, NEW i \in Input, write(h, i) PROVE Vacant'
  <2>1. h.slot \in Slot /\ pipes_[h.slot] \in Pipe BY Zenon, <1>1 DEF Handle
  <2>2. \/ UNCHANGED pipes_
        \/ find(h) /\ pipes_' = [pipes_ EXCEPT ![h.slot] = ring_write(pipes_[h.slot], i)]
    BY Zenon, <1>10 DEF write
  <2>3. find(h) => ring_write(pipes_[h.slot], i).used BY Zenon, <2>1 DEF find, ring_write, Pipe
  <2> QED BY Zenon, <1>2, <1>3, <2>1, <2>2, <2>3
<1>11. CASE create_no_space BY Zenon, <1>3, <1>11 DEF create_no_space
<1>12. CASE UNCHANGED vars BY Zenon, <1>3, <1>12 DEF vars
<1> QED BY Zenon, <1>5, <1>7, <1>8, <1>9, <1>10, <1>11, <1>12 DEF Next

\* Two pipes with the same ends differ in their bytes.
LEMMA StreamBytes ==
  ASSUME NEW p, NEW q, NEW b, q.readers = p.readers, q.writers = p.writers, contents(q) = b
  PROVE  Stream(q) = [Stream(p) EXCEPT !.bytes = b]
BY DEF Stream

\* read is Read: the oldest bytes, end of file or nothing.
LEMMA ReadRefines ==
  ASSUME IInv, NEW h \in Handle, NEW n \in 0..MaxCount, read(h, n)
  PROVE  Streams!Read(h.slot, n)
<1> DEFINE s == h.slot
           p == pipes_[s]
           b == contents(p)
           m == Amount(n, p.size)
<1>1. s \in Slot /\ p \in Pipe /\ n \in Nat
  BY PipeAssumption DEF IInv, PipeInv, TypeOK, Handle
<1>2. find(h) /\ p.readers # 0 /\ p.readers > 0
  <2>1. held[h]["read"] > 0 BY Zenon DEF read
  <2>2. find(h) BY Zenon, <2>1 DEF IInv, PipeInv, EndsCounted, End
  <2>3. Count(p, "read") = held[h]["read"]
    BY Zenon, <2>2 DEF IInv, PipeInv, EndsCounted, End
  <2> QED BY <2>1, <2>2, <2>3 DEF Count
<1>3. Mapped[s] = Stream(p) BY Zenon, <1>1 DEF Mapped
<1>4. b \in Seq(Byte) /\ Len(b) = p.size /\ p.size \in Nat BY <1>1, ContentsSeq DEF Pipe
<1>5. m = (IF n < Len(b) THEN n ELSE Len(b)) BY Zenon, <1>4 DEF Amount
<1>6. b # <<>> <=> p.size # 0 BY <1>4
<1>7. /\ Mapped' = [Mapped EXCEPT ![s] = [Mapped[s] EXCEPT !.bytes = SubSeq(b, m + 1, Len(b))]]
      /\ result' = [status |-> IF n = 0 \/ b # <<>> THEN "success"
                               ELSE IF p.writers = 0 THEN "end_of_file" ELSE "would_block",
                    data |-> SubSeq(b, 1, m)]
  <2>1. CASE n = 0 \/ p.size # 0
    <3>1. /\ pipes_' = [pipes_ EXCEPT ![s] = ring_read(p, n)]
          /\ result' = [status |-> "success", data |-> SubSeq(b, 1, m)]
      BY Zenon, <1>2, <2>1 DEF read, Returns
    <3>2. contents(ring_read(p, n)) = SubSeq(b, m + 1, Len(b)) BY Zenon, <1>1, <1>4, ReadContents
    <3>3. ring_read(p, n).readers = p.readers /\ ring_read(p, n).writers = p.writers
      BY Zenon, <1>1 DEF ring_read, Pipe
    <3>4. Stream(ring_read(p, n)) = [Stream(p) EXCEPT !.bytes = SubSeq(b, m + 1, Len(b))]
      <4> DEFINE q == ring_read(p, n)
                 c == SubSeq(b, m + 1, Len(b))
      <4> HIDE DEF q, c
      <4>1. contents(q) = c /\ q.readers = p.readers /\ q.writers = p.writers
        BY Zenon, <3>2, <3>3 DEF q, c
      <4>2. Stream(q) = [Stream(p) EXCEPT !.bytes = c] BY Zenon, <4>1, StreamBytes
      <4> QED BY Zenon, <4>2 DEF q, c
    <3>5. Mapped' = [Mapped EXCEPT ![s] = Stream(ring_read(p, n))]
      BY Zenon, <1>1, <3>1, MappedStep
    <3> QED BY Zenon, <1>3, <1>6, <2>1, <3>1, <3>4, <3>5
  <2>2. CASE ~(n = 0 \/ p.size # 0)
    <3>1. /\ pipes_' = pipes_
          /\ result' = [status |-> IF p.writers = 0 THEN "end_of_file" ELSE "would_block",
                        data |-> <<>>]
      BY Zenon, <1>2, <2>2 DEF read, Returns
    <3>2. b = <<>> /\ m = 0 BY <1>4, <1>5, <2>2
    <3>3. SubSeq(b, m + 1, Len(b)) = <<>> /\ SubSeq(b, 1, m) = <<>> BY <3>2
    <3>4. pipes_' = [pipes_ EXCEPT ![s] = p] BY Zenon, <3>1 DEF IInv, PipeInv, TypeOK
    <3>5. Mapped' = [Mapped EXCEPT ![s] = Stream(p)] BY Zenon, <1>1, <3>4, MappedStep
    <3>6. Stream(p) = [Stream(p) EXCEPT !.bytes = <<>>] BY <3>2 DEF Stream
    <3> QED BY Zenon, <1>3, <1>6, <2>2, <3>1, <3>3, <3>5, <3>6
  <2> QED BY Zenon, <2>1, <2>2
<1>8. Mapped[s].readers > 0 /\ Mapped[s].bytes = b /\ Mapped[s].writers = p.writers
  BY <1>2, <1>3 DEF Stream
<1> HIDE DEF b, m
<1>9. /\ Mapped[s].readers > 0
      /\ LET bytes == Mapped[s].bytes
             k == IF n < Len(bytes) THEN n ELSE Len(bytes)
         IN  /\ Mapped' = [Mapped EXCEPT ![s].bytes = SubSeq(bytes, k + 1, Len(bytes))]
             /\ result' = [status |-> IF n = 0 \/ bytes # <<>> THEN "success"
                                      ELSE IF Mapped[s].writers = 0 THEN "end_of_file"
                                      ELSE "would_block",
                           data |-> SubSeq(bytes, 1, k)]
  BY Zenon, <1>5, <1>7, <1>8
<1> QED BY Zenon, <1>9 DEF Streams!Read, Mapped, Stream

\* write is Write: all or nothing of a small write, a prefix of a large one.
LEMMA WriteRefines ==
  ASSUME IInv, NEW h \in Handle, NEW i \in Input, write(h, i)
  PROVE  Streams!Write(h.slot, i)
<1> DEFINE s == h.slot
           p == pipes_[s]
           b == contents(p)
           room == BufferCapacity - Len(b)
<1>1. s \in Slot /\ p \in Pipe BY Zenon DEF IInv, PipeInv, TypeOK, Handle
<1>2. find(h) /\ p.writers # 0 /\ p.writers > 0
  <2>1. held[h]["write"] > 0 BY Zenon DEF write
  <2>2. find(h) BY Zenon, <2>1 DEF IInv, PipeInv, EndsCounted, End
  <2>3. Count(p, "write") = held[h]["write"]
    BY Zenon, <2>2 DEF IInv, PipeInv, EndsCounted, End
  <2> QED BY <2>1, <2>2, <2>3 DEF Count
<1>3. Mapped[s] = Stream(p) BY Zenon, <1>1 DEF Mapped
<1>4. /\ b \in Seq(Byte) /\ Len(b) = p.size /\ p.size \in Nat
      /\ room = free_space(p) /\ room \in Nat /\ p.readers \in Nat
  <2>1. b \in Seq(Byte) /\ Len(b) = p.size BY Zenon, <1>1, ContentsSeq
  <2>2. p.size \in 0..BufferCapacity /\ p.readers \in Nat BY Zenon, <1>1 DEF Pipe
  <2> HIDE DEF b
  <2> QED BY <2>1, <2>2, PipeAssumption DEF free_space
<1>5. i \in Seq(Byte) /\ Len(i) \in Nat /\ (i = <<>> <=> Len(i) = 0)
  BY PipeAssumption DEF Input
<1>6. PICK n \in 0..Len(i) :
        /\ n <= room
        /\ n = 0 => Len(i) > room \/ i = <<>> \/ p.readers = 0
        /\ Len(i) <= AtomicCapacity => n \in {0, Len(i)}
        /\ p.readers = 0 => n = 0
        /\ Mapped' = [Mapped EXCEPT ![s] = [Mapped[s] EXCEPT !.bytes = b \o SubSeq(i, 1, n)]]
        /\ result' = [status |-> IF i = <<>> \/ n > 0 THEN "success"
                                 ELSE IF p.readers = 0 THEN "broken_pipe" ELSE "would_block",
                      data |-> SubSeq(i, 1, n)]
  <2>1. ASSUME pipes_' = pipes_
        PROVE  Mapped' = [Mapped EXCEPT ![s] = [Mapped[s] EXCEPT !.bytes = b \o SubSeq(i, 1, 0)]]
    <3>1. pipes_' = [pipes_ EXCEPT ![s] = p] BY Zenon, <2>1 DEF IInv, PipeInv, TypeOK
    <3>2. Mapped' = [Mapped EXCEPT ![s] = Stream(p)] BY Zenon, <1>1, <3>1, MappedStep
    <3>3. b = b \o SubSeq(i, 1, 0) BY <1>4, <1>5
    <3>4. Stream(p) = [Stream(p) EXCEPT !.bytes = b \o SubSeq(i, 1, 0)]
      BY Zenon, <3>3, StreamBytes
    <3> QED BY Zenon, <1>3, <3>2, <3>4
  <2>2. SubSeq(i, 1, 0) = <<>> /\ 0 \in 0..Len(i) BY <1>5
  <2>3. CASE i = <<>>
    <3>1. pipes_' = pipes_ /\ result' = [status |-> "success", data |-> <<>>]
      BY Zenon, <1>2, <1>5, <2>3 DEF write, Returns
    <3> WITNESS 0 \in 0..Len(i)
    <3> QED BY <1>4, <1>5, <2>1, <2>2, <2>3, <3>1
  <2>4. CASE i # <<>> /\ p.readers = 0
    <3>1. pipes_' = pipes_ /\ result' = [status |-> "broken_pipe", data |-> <<>>]
      BY Zenon, <1>2, <1>5, <2>4 DEF write, Returns
    <3> WITNESS 0 \in 0..Len(i)
    <3> QED BY <1>4, <1>5, <2>1, <2>2, <2>4, <3>1
  <2>5. CASE i # <<>> /\ p.readers # 0 /\ WouldBlock(p, i)
    <3>1. pipes_' = pipes_ /\ result' = [status |-> "would_block", data |-> <<>>]
      BY Zenon, <1>2, <1>5, <2>5 DEF write, Returns
    <3>2. Len(i) > room BY <1>4, <1>5, <2>5 DEF WouldBlock
    <3> WITNESS 0 \in 0..Len(i)
    <3> QED BY <1>4, <1>5, <2>1, <2>2, <2>5, <3>1, <3>2
  <2>6. CASE i # <<>> /\ p.readers # 0 /\ ~WouldBlock(p, i)
    <3> DEFINE m == Amount(Len(i), free_space(p))
               q == ring_write(p, i)
    <3>1. pipes_' = [pipes_ EXCEPT ![s] = q]
          /\ result' = [status |-> "success", data |-> SubSeq(i, 1, m)]
      BY Zenon, <1>2, <1>5, <2>6 DEF write, Returns
    <3>2. /\ m \in 0..Len(i) /\ m <= room /\ m > 0
          /\ Len(i) <= AtomicCapacity => m = Len(i)
      BY <1>4, <1>5, <2>6, PipeAssumption DEF WouldBlock, Amount
    <3>3. contents(q) = b \o SubSeq(i, 1, m) BY Zenon, <1>1, WriteContents
    <3>4. q.readers = p.readers /\ q.writers = p.writers BY Zenon, <1>1 DEF ring_write, Pipe
    <3>5. Stream(q) = [Stream(p) EXCEPT !.bytes = b \o SubSeq(i, 1, m)]
      BY <3>3, <3>4, StreamBytes, ZenonT(60)
    <3>6. Mapped' = [Mapped EXCEPT ![s] = Stream(q)] BY Zenon, <1>1, <3>1, MappedStep
    <3> HIDE DEF m, q
    <3> m \in 0..Len(i) BY Zenon, <3>2
    <3> WITNESS m \in 0..Len(i)
    <3> QED BY <1>3, <2>6, <3>1, <3>2, <3>5, <3>6
  <2> QED BY Zenon, <2>3, <2>4, <2>5, <2>6
<1>7. Mapped[s].writers > 0 /\ Mapped[s].bytes = b /\ Mapped[s].readers = p.readers
  BY <1>2, <1>3 DEF Stream
<1> HIDE DEF b
<1>8. /\ Mapped[s].writers > 0
      /\ \E k \in 0..Len(i) :
           LET rm == BufferCapacity - Len(Mapped[s].bytes)
           IN  /\ k <= rm
               /\ k = 0 => Len(i) > rm \/ i = <<>> \/ Mapped[s].readers = 0
               /\ Len(i) <= AtomicCapacity => k \in {0, Len(i)}
               /\ Mapped[s].readers = 0 => k = 0
               /\ Mapped' = [Mapped EXCEPT ![s].bytes = @ \o SubSeq(i, 1, k)]
               /\ result' = [status |-> IF i = <<>> \/ k > 0 THEN "success"
                                        ELSE IF Mapped[s].readers = 0 THEN "broken_pipe"
                                        ELSE "would_block",
                             data |-> SubSeq(i, 1, k)]
  BY Zenon, <1>6, <1>7
<1> QED BY Zenon, <1>8 DEF Streams!Write, Mapped, Stream

\* Opening or closing an end is Reference: the bytes go with the last one.
LEMMA ReferenceRefines ==
  ASSUME IInv, NEW h \in Handle, NEW e \in End, retain(h, e) \/ release(h, e)
  PROVE  \E r, w \in {-1, 0, 1} : Streams!Reference(h.slot, r, w)
<1> DEFINE s == h.slot
           p == pipes_[s]
<1>1. s \in Slot /\ p \in Pipe BY Zenon DEF IInv, PipeInv, TypeOK, Handle
<1>2. find(h) /\ Count(p, e) > 0
  <2>1. held[h][e] > 0 BY DEF retain, release
  <2>2. find(h) BY Zenon, <2>1 DEF IInv, PipeInv, EndsCounted
  <2> QED BY Zenon, <2>1, <2>2 DEF IInv, PipeInv, EndsCounted
<1>3. Mapped[s] = Stream(p) BY Zenon, <1>1 DEF Mapped
<1>4. p.readers \in Nat /\ p.writers \in Nat /\ p.readers + p.writers > 0
  BY Zenon, <1>1, <1>2, UsedOpen DEF Pipe, find
<1>5. PICK d \in {-1, 1} :
        LET q == WithCount(p, e, Count(p, e) + d)
        IN  /\ pipes_' = [pipes_ EXCEPT ![s] =
                            IF q.readers = 0 /\ q.writers = 0 THEN Fresh(p.generation) ELSE q]
            /\ result' = [status |-> "success", data |-> <<>>]
  <2>1. CASE retain(h, e)
    <3> DEFINE q == WithCount(p, e, Count(p, e) + 1)
    <3>1. /\ pipes_' = [pipes_ EXCEPT ![s] = q]
          /\ result' = [status |-> "success", data |-> <<>>]
      BY Zenon, <1>2, <2>1 DEF retain, Returns
    <3>2. ~(q.readers = 0 /\ q.writers = 0)
      BY <1>1, <1>2, <1>4 DEF WithCount, Count, End, Pipe
    <3> HIDE DEF q
    <3>3. pipes_' = [pipes_ EXCEPT ![s] =
                       IF q.readers = 0 /\ q.writers = 0 THEN Fresh(p.generation) ELSE q]
      BY Zenon, <3>1, <3>2
    <3> QED BY Zenon, <3>1, <3>3 DEF q
  <2>2. CASE release(h, e)
    <3>1. Count(p, e) # 0 /\ Count(p, e) - 1 = Count(p, e) + (-1)
      BY <1>2, <1>4 DEF Count
    <3>2. /\ pipes_' = [pipes_ EXCEPT ![s] = Released(p, e)]
          /\ result' = [status |-> "success", data |-> <<>>]
      BY Zenon, <1>2, <2>2, <3>1 DEF release, Returns
    <3> DEFINE q == WithCount(p, e, Count(p, e) + (-1))
    <3>3. Released(p, e) = IF q.readers = 0 /\ q.writers = 0 THEN Fresh(p.generation) ELSE q
      BY Zenon, <3>1 DEF Released
    <3> HIDE DEF q
    <3>4. pipes_' = [pipes_ EXCEPT ![s] =
                       IF q.readers = 0 /\ q.writers = 0 THEN Fresh(p.generation) ELSE q]
      BY Zenon, <3>2, <3>3
    <3> QED BY Zenon, <3>2, <3>4 DEF q
  <2> QED BY Zenon, <2>1, <2>2
<1> DEFINE q == WithCount(p, e, Count(p, e) + d)
           r == IF e = "read" THEN d ELSE 0
           w == IF e = "read" THEN 0 ELSE d
           t == [readers |-> p.readers + r, writers |-> p.writers + w, bytes |-> contents(p)]
           closed == [readers |-> 0, writers |-> 0, bytes |-> <<>>]
<1>6. r \in {-1, 0, 1} /\ w \in {-1, 0, 1} /\ r \in Int /\ w \in Int OBVIOUS
<1>7. /\ q.readers = p.readers + r /\ q.writers = p.writers + w
      /\ contents(q) = contents(p)
      /\ p.readers + r >= 0 /\ p.writers + w >= 0
  <2>1. CASE e = "read"
    <3>1. q = [p EXCEPT !.readers = p.readers + d] BY Zenon, <2>1 DEF WithCount, Count
    <3>2. q.data = p.data /\ q.head = p.head /\ q.size = p.size
          /\ q.readers = p.readers + d /\ q.writers = p.writers
      BY Zenon, <1>1, <3>1 DEF Pipe
    <3>3. Count(p, e) = p.readers BY Zenon, <2>1 DEF Count
    <3> HIDE DEF q
    <3>4. contents(q) = contents(p) BY Zenon, <3>2 DEF contents
    <3> QED BY <1>2, <1>4, <2>1, <3>2, <3>3, <3>4
  <2>2. CASE e = "write"
    <3>1. q = [p EXCEPT !.writers = p.writers + d] BY Zenon, <2>2 DEF WithCount, Count
    <3>2. q.data = p.data /\ q.head = p.head /\ q.size = p.size
          /\ q.readers = p.readers /\ q.writers = p.writers + d
      BY Zenon, <1>1, <3>1 DEF Pipe
    <3>3. Count(p, e) = p.writers BY Zenon, <2>2 DEF Count
    <3> HIDE DEF q
    <3>4. contents(q) = contents(p) BY Zenon, <3>2 DEF contents
    <3> QED BY <1>2, <1>4, <2>2, <3>2, <3>3, <3>4
  <2> QED BY Zenon, <2>1, <2>2 DEF End
<1>8. pipes_' = [pipes_ EXCEPT ![s] =
                   IF q.readers = 0 /\ q.writers = 0 THEN Fresh(p.generation) ELSE q]
      /\ result' = [status |-> "success", data |-> <<>>]
  BY Zenon, <1>5
<1> HIDE DEF q, r, w
<1>9. Stream(q) = t BY Zenon, <1>7 DEF Stream
<1>10. Stream(Fresh(p.generation)) = closed
  <2>1. p.generation \in 0..GenerationMax BY Zenon, <1>1 DEF Pipe
  <2>2. Fresh(p.generation) \in Pipe BY Zenon, <2>1, FreshType
  <2>3. Fresh(p.generation).readers = 0 /\ Fresh(p.generation).writers = 0
        /\ Fresh(p.generation).size = 0
    BY Zenon DEF Fresh
  <2>4. contents(Fresh(p.generation)) = <<>> BY Zenon, <2>2, <2>3, EmptyContents
  <2> QED BY Zenon, <2>3, <2>4 DEF Stream
<1>11. Mapped' = [Mapped EXCEPT ![s] = IF q.readers = 0 /\ q.writers = 0 THEN closed ELSE t]
  <2>1. CASE q.readers = 0 /\ q.writers = 0
    <3>1. pipes_' = [pipes_ EXCEPT ![s] = Fresh(p.generation)] BY Zenon, <1>8, <2>1
    <3> QED BY Zenon, <1>1, <1>10, <2>1, <3>1, MappedStep
  <2>2. CASE ~(q.readers = 0 /\ q.writers = 0)
    <3>1. pipes_' = [pipes_ EXCEPT ![s] = q] BY Zenon, <1>8, <2>2
    <3> QED BY Zenon, <1>1, <1>9, <2>2, <3>1, MappedStep
  <2> QED BY Zenon, <2>1, <2>2
<1>12. /\ Mapped[s].readers = p.readers /\ Mapped[s].writers = p.writers
       /\ Mapped[s].bytes = contents(p)
  BY <1>3 DEF Stream
<1>13. q.readers = 0 /\ q.writers = 0 <=> p.readers + r = 0 /\ p.writers + w = 0 BY Zenon, <1>7
<1>14. /\ p.readers + p.writers > 0 /\ p.readers + r >= 0 /\ p.writers + w >= 0 BY Zenon, <1>4, <1>7
<1> HIDE DEF p
<1>15. /\ Mapped[s].readers + Mapped[s].writers > 0
       /\ Mapped[s].readers + r >= 0 /\ Mapped[s].writers + w >= 0
       /\ Mapped' = [Mapped EXCEPT ![s] =
            IF Mapped[s].readers + r = 0 /\ Mapped[s].writers + w = 0 THEN closed
            ELSE [readers |-> Mapped[s].readers + r, writers |-> Mapped[s].writers + w,
                  bytes |-> Mapped[s].bytes]]
       /\ result' = [status |-> "success", data |-> <<>>]
  BY Zenon, <1>8, <1>11, <1>12, <1>13, <1>14
<1>16. Streams!Reference(s, r, w)
  BY Zenon, <1>15 DEF Streams!Reference, Streams!Open, Streams!Closed, Mapped, Stream
<1> QED BY Zenon, <1>6, <1>16

\* create is Create: the slot it takes is a closed stream.
LEMMA CreateRefines ==
  ASSUME IInv, Vacant, NEW s \in Slot, create(s)
  PROVE  Streams!Create(s)
<1> DEFINE g == (pipes_[s].generation % GenerationMax) + 1
           q == [Fresh(g) EXCEPT !.used = TRUE, !.readers = 1, !.writers = 1]
<1>1. pipes_[s] \in Pipe BY Zenon DEF IInv, PipeInv, TypeOK
<1>2. g \in 0..GenerationMax
  <2>1. pipes_[s].generation \in Int BY <1>1, PipeAssumption DEF Pipe
  <2>2. pipes_[s].generation % GenerationMax \in 0..(GenerationMax - 1)
    BY Zenon, <2>1, ModRange, PipeAssumption
  <2> QED BY <2>2, PipeAssumption
<1> HIDE DEF g
<1>3. Fresh(g) \in Pipe /\ Fresh(g).size = 0 BY Zenon, <1>2, FreshType DEF Fresh
<1>4. q \in Pipe /\ q.size = 0 /\ q.readers = 1 /\ q.writers = 1 BY Zenon, <1>3 DEF Pipe
<1>5. Stream(q) = [readers |-> 1, writers |-> 1, bytes |-> <<>>]
  BY Zenon, <1>4, EmptyContents DEF Stream
<1>6. pipes_' = [pipes_ EXCEPT ![s] = q] /\ result' = [status |-> "success", data |-> <<>>]
  BY Zenon DEF create, Returns, g
<1> HIDE DEF q
<1>7. Mapped' = [Mapped EXCEPT ![s] = [readers |-> 1, writers |-> 1, bytes |-> <<>>]]
  BY Zenon, <1>5, <1>6, MappedStep
<1>8. ~(Mapped[s].readers + Mapped[s].writers > 0)
  BY DEF create, Vacant, Mapped, Stream
<1> QED BY Zenon, <1>6, <1>7, <1>8 DEF Streams!Create, Streams!Open, Mapped, Stream

\* A create that finds no free slot is Full.
LEMMA FullRefines == ASSUME IInv, create_no_space PROVE Streams!Full
<1>1. \A s \in Slot : pipes_[s].readers + pipes_[s].writers > 0
  BY Zenon, UsedOpen DEF create_no_space
<1>2. \A s \in Slot : Mapped[s].readers + Mapped[s].writers > 0
  BY Zenon, <1>1 DEF Mapped, Stream
<1>3. Mapped' = Mapped BY Zenon DEF create_no_space, Mapped, Stream, contents
<1>4. result' = [status |-> "no_space", data |-> <<>>] BY Zenon DEF create_no_space, Returns
<1> QED BY Zenon, <1>2, <1>3, <1>4 DEF Streams!Full, Streams!Open, Streams!Slot, Slot, Mapped, Stream

\* For every table and buffer size, atomic size and interleaving of calls, the
\* rings implement byte streams: what is read is what was written, once and in
\* order, small writes are whole, end of file and EPIPE come at the right time
\* (pipe.hpp:94-173, ring_buffer.hpp:18-46).
THEOREM PipesAreStreams == Spec => ImplementsStreams
<1>1. Init => Streams!Init
  <2> SUFFICES ASSUME Init PROVE Streams!Init BY Zenon
  <2>1. 0 \in 0..GenerationMax BY PipeAssumption
  <2>2. Fresh(0) \in Pipe /\ Fresh(0).size = 0 /\ Fresh(0).readers = 0 /\ Fresh(0).writers = 0
    BY Zenon, <2>1, FreshType DEF Fresh
  <2>3. Stream(Fresh(0)) = [readers |-> 0, writers |-> 0, bytes |-> <<>>]
    BY Zenon, <2>2, EmptyContents DEF Stream
  <2>4. Mapped = [s \in Slot |-> [readers |-> 0, writers |-> 0, bytes |-> <<>>]]
    BY Zenon, <2>3 DEF Init, Mapped
  <2> QED BY Zenon, <2>4 DEF Init, Streams!Init, Streams!Closed, Streams!Slot, Slot, Mapped, Stream
<1>2. Init => Vacant BY DEF Init, Vacant, Fresh
<1>3. IInv /\ Vacant /\ [Next]_vars => [Streams!Next]_<<Mapped, result>>
  <2> SUFFICES ASSUME IInv, Vacant, [Next]_vars
               PROVE  Streams!Next \/ UNCHANGED <<Mapped, result>>
    BY Zenon
  <2>1. \A h \in Handle : h.slot \in Slot BY Zenon DEF Handle
  <2> USE DEF Streams!Next, Streams!Slot, Streams!Input, Slot, Input
  <2>2. ASSUME NEW s \in Slot, create(s) PROVE Streams!Next BY Zenon, <2>2, CreateRefines
  <2>3. CASE create_no_space BY Zenon, <2>3, FullRefines
  <2>4. ASSUME NEW h \in Handle, NEW e \in End, retain(h, e) \/ release(h, e)
        PROVE  Streams!Next
    BY Zenon, <2>1, <2>4, ReferenceRefines
  <2>5. ASSUME NEW h \in Handle, NEW n \in 0..MaxCount, read(h, n) PROVE Streams!Next
    BY Zenon, <2>1, <2>5, ReadRefines
  <2>6. ASSUME NEW h \in Handle, NEW i \in Input, write(h, i) PROVE Streams!Next
    BY Zenon, <2>1, <2>6, WriteRefines
  <2>7. CASE UNCHANGED vars BY Zenon, <2>7 DEF vars, Mapped, Stream, contents
  <2> QED BY Zenon, <2>2, <2>3, <2>4, <2>5, <2>6, <2>7 DEF Next
<1> QED BY <1>1, <1>2, <1>3, VacantStep, PipeInvariant, PTL
        DEF Spec, ImplementsStreams, Streams!Spec, Mapped, Stream

=============================================================================
