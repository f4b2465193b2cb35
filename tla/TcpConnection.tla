---------------------------- MODULE TcpConnection ----------------------------
(***************************************************************************)
(* One slot of the TCP socket table from the moment a connection is        *)
(* established and accepted until the slot is free again: the receive path *)
(* and the reassembly store of include/mikos/net/socket.hpp, and the       *)
(* sender, the close protocol and the timers of network/stack.cpp.         *)
(*                                                                         *)
(* The peer and the network are one environment that may deliver, at any   *)
(* poll, any segment the peer could have sent: any piece of its stream,    *)
(* any earlier or current acknowledgement, any window.  Loss, duplication, *)
(* delay and reordering are therefore all included.  A time stamp is the   *)
(* number of ticks since it was taken, saturated at Interval.              *)
(***************************************************************************)
EXTENDS Integers, Sequences, FiniteSets

CONSTANTS
  SequenceSpace,       \* 2^32 in the code
  Capacity,            \* socket_receive_capacity
  ReassemblyCapacity,  \* reassembly_capacity
  TransmitCapacity,    \* transmit_capacity
  Mss,                 \* the segment limit of this connection
  InitialReceive,      \* receive_next of an established connection
  InitialSend,         \* send_next of an established connection
  InboundLength,       \* bytes the peer's stream has before its FIN
  OutboundLength,      \* bytes the application has to write
  Windows,             \* the windows the peer advertises
  Interval,            \* the 120 s of tcp_user_timeout, tcp_time_wait, ...
  Clock,               \* whether time passes
  MaxReferences        \* descriptors the application may hold

ASSUME TcpAssumption ==
  /\ {Capacity, ReassemblyCapacity, TransmitCapacity, Mss, Interval,
      MaxReferences} \subseteq Nat \ {0}
  /\ {InboundLength, OutboundLength} \subseteq Nat
  /\ SequenceSpace \in Nat
  /\ \A n \in {InboundLength, OutboundLength, Capacity} : 2 * n + 4 < SequenceSpace
  /\ {InitialReceive, InitialSend} \subseteq 0 .. SequenceSpace - 1
  /\ Windows \subseteq Nat
  /\ Clock \in BOOLEAN

VARIABLES
  stack,       \* the socket slot, the reassembly store, the retransmission store
  delivered,   \* bytes the application has read from this connection
  unanswered   \* ticks since the oldest outstanding thing was sent or acknowledged

vars == <<stack, delivered, unanswered>>

-----------------------------------------------------------------------------
(* Sequence numbers.                                                       *)

Plus(a, n) == (a + n) % SequenceSpace

Minus(a, b) == (a - b) % SequenceSpace

\* static_cast<i32>(a - b)
Signed(a, b) ==
  IF Minus(a, b) * 2 < SequenceSpace THEN Minus(a, b)
  ELSE Minus(a, b) - SequenceSpace

Least(a, b) == IF a < b THEN a ELSE b

Inbound == [i \in 1 .. InboundLength |-> i]

Outbound == [i \in 1 .. OutboundLength |-> i]

-----------------------------------------------------------------------------
(* The slot.                                                               *)

Synchronized ==
  {"established", "close_wait", "fin_wait_1", "fin_wait_2", "closing",
   "last_ack", "time_wait"}

Free ==
  [state |-> "free", references |-> 0, send_next |-> 0,
   send_unacknowledged |-> 0, peer_window |-> 0, window_sequence |-> 0,
   window_acknowledgement |-> 0, receive_next |-> 0, receive_buffer |-> <<>>,
   receive_closed |-> FALSE, read_closed |-> FALSE, detached |-> FALSE,
   send_closed |-> FALSE, fin_sent |-> FALSE, fin_acked |-> FALSE,
   active_close |-> FALSE, persist_waiting |-> FALSE,
   acknowledgement_retries |-> 0, progress_at |-> 0, state_since |-> 0]

\* begin_connection, the handshake acknowledgement and accept.
Established(window) ==
  [Free EXCEPT
     !.state = "established", !.references = 1,
     !.send_next = InitialSend, !.send_unacknowledged = InitialSend,
     !.peer_window = window, !.window_sequence = InitialReceive,
     !.window_acknowledgement = InitialSend,
     !.receive_next = InitialReceive]

Window(s) == Capacity - Len(s.receive_buffer)

Told(s) == <<s.receive_next, Window(s)>>

\* Every segment carries the acknowledgement and the window of the moment.
send_segment(k) == [k EXCEPT !.told = Told(k.socket)]

clear_transmissions(k) == [k EXCEPT !.transmissions_ = {}]

\* SocketTable::release: only the last reference frees the slot.
release(k) ==
  IF k.socket.references > 1
  THEN [k EXCEPT !.socket.references = @ - 1]
  ELSE [k EXCEPT !.socket = Free, !.reassembly_ = {}]

reset(k) ==
  [k EXCEPT !.socket.state = "reset", !.socket.receive_buffer = <<>>,
            !.socket.receive_closed = FALSE, !.socket.persist_waiting = FALSE,
            !.reassembly_ = {}]

fail_connection(k, why) ==
  LET cleared == [clear_transmissions(k) EXCEPT !.blame = why]
  IN  IF k.socket.detached THEN release(cleared) ELSE reset(cleared)

-----------------------------------------------------------------------------
(* The receive path.                                                       *)

append_received(s, data, finish) ==
  LET accepted == Least(Len(data), Window(s))
      closes == finish /\ accepted = Len(data)
  IN  [s EXCEPT
         !.receive_buffer = @ \o SubSeq(data, 1, accepted),
         !.receive_next = Plus(@, accepted + IF closes THEN 1 ELSE 0),
         !.receive_closed = @ \/ closes,
         !.state = CASE ~closes -> @
                     [] closes /\ @ = "fin_wait_1" -> "closing"
                     [] closes /\ @ = "fin_wait_2" -> "time_wait"
                     [] OTHER -> "close_wait"]

store_reassembly(k, segment) ==
  IF \/ \E e \in k.reassembly_ : e.sequence = segment.sequence
     \/ Cardinality(k.reassembly_) = ReassemblyCapacity
  THEN k
  ELSE [k EXCEPT !.reassembly_ = @ \cup {segment}]

\* One turn of the loop in drain_reassembly: the closest entry at or before
\* receive_next is dropped when it is covered, appended when it fits.
DrainTurn(k) ==
  LET s == k.socket
      due == {e \in k.reassembly_ : Signed(e.sequence, s.receive_next) <= 0}
  IN  IF s.receive_closed THEN [k EXCEPT !.reassembly_ = {}]
      ELSE IF due = {} THEN k
      ELSE LET e == CHOOSE e \in due :
                      \A f \in due : Signed(f.sequence, e.sequence) <= 0
               covered == Minus(s.receive_next, e.sequence)
               rest == SubSeq(e.data, covered + 1, Len(e.data))
           IN  IF covered > Len(e.data) \/ (covered = Len(e.data) /\ ~e.finish)
               THEN [k EXCEPT !.reassembly_ = @ \ {e}]
               ELSE IF Len(rest) > Window(s) THEN k
               ELSE [k EXCEPT !.socket = append_received(s, rest, e.finish),
                              !.reassembly_ = @ \ {e}]

\* At most ReassemblyCapacity + 1 turns.
drain_reassembly(k) ==
  LET after[turn \in 0 .. ReassemblyCapacity + 1] ==
        IF turn = 0 THEN k ELSE DrainTurn(after[turn - 1])
  IN  after[ReassemblyCapacity + 1]

\* Mutant: the part of a segment that was received before is not cut off.
KeepsPrefix(k, segment) ==
  LET s == k.socket
      distance == Signed(segment.sequence, s.receive_next)
      available == Window(s) - (IF distance < 0 THEN 0 ELSE distance)
      finish == segment.finish /\ Len(segment.data) < available
      data == SubSeq(segment.data, 1, Least(Len(segment.data), available))
  IN  IF s.receive_closed \/ available <= 0 THEN k
      ELSE IF distance > 0
      THEN store_reassembly(k,
             [sequence |-> segment.sequence, data |-> data, finish |-> finish])
      ELSE drain_reassembly([k EXCEPT !.socket = append_received(s, data, finish)])

\* SocketTable::receive.
receive(k, segment) ==
  LET s == k.socket
      early == Signed(segment.sequence, s.receive_next)
      seen == IF early < 0 THEN Minus(s.receive_next, segment.sequence) ELSE 0
      distance == IF early < 0 THEN 0 ELSE early
      unseen == SubSeq(segment.data, seen + 1, Len(segment.data))
      available == Window(s) - distance
      finish == segment.finish /\ Len(unseen) < available
      data == SubSeq(unseen, 1, Least(Len(unseen), available))
      nothing == seen > Len(segment.data)
                   \/ (seen > 0 /\ seen = Len(segment.data) /\ ~segment.finish)
  IN  IF \/ s.receive_closed
         \/ nothing
         \/ available <= 0
      THEN k
      ELSE IF distance > 0
      THEN IF data = <<>> /\ ~finish THEN k
           ELSE store_reassembly(k,
                  [sequence |-> segment.sequence, data |-> data, finish |-> finish])
      ELSE drain_reassembly([k EXCEPT !.socket = append_received(s, data, finish)])

-----------------------------------------------------------------------------
(* The sender and the close protocol.  `io' is what the step meets outside *)
(* the stack: a busy driver, timers that are due, room in the rate limit.  *)

\* Mutant: the FIN does not wait for the data in flight.
FinAtOnce(k, io) ==
  IF io.busy \/ (~k.socket.fin_sent /\ k.socket.peer_window = 0) THEN k
  ELSE [send_segment(k) EXCEPT
          !.socket.send_next = IF k.socket.fin_sent THEN @ ELSE Plus(@, 1),
          !.socket.fin_sent = TRUE]

send_fin(k, io) ==
  LET s == k.socket
  IN  IF \/ ~s.fin_sent /\ (s.send_unacknowledged # s.send_next \/ s.peer_window = 0)
         \/ io.busy
      THEN k
      ELSE [send_segment(k) EXCEPT
              !.socket.send_next = IF s.fin_sent THEN @ ELSE Plus(@, 1),
              !.socket.fin_sent = TRUE]

\* Mutant: the closer counts as the first one even behind the peer's FIN.
AlwaysActive(k, io) ==
  IF k.socket.send_closed THEN k
  ELSE send_fin([k EXCEPT !.socket.send_closed = TRUE,
                          !.socket.active_close = TRUE,
                          !.socket.state = "fin_wait_1",
                          !.socket.state_since = 0], io)

request_fin(k, io) ==
  IF k.socket.send_closed THEN k
  ELSE send_fin([k EXCEPT
                   !.socket.send_closed = TRUE,
                   !.socket.active_close = ~k.socket.receive_closed,
                   !.socket.state = IF k.socket.receive_closed
                                    THEN "last_ack" ELSE "fin_wait_1",
                   !.socket.state_since = 0], io)

enter_time_wait(k) ==
  [k EXCEPT !.socket.state = "time_wait", !.socket.state_since = 0]

flush_acknowledgement(k, io) ==
  IF k.socket.acknowledgement_retries = 0 \/ k.socket.state \notin Synchronized
     \/ io.busy
  THEN k
  ELSE [send_segment(k) EXCEPT !.socket.acknowledgement_retries = @ - 1]

challenge_ack(k, io) ==
  IF ~io.allowed THEN k
  ELSE flush_acknowledgement([k EXCEPT !.socket.acknowledgement_retries = 1], io)

\* Mutant: a partly covered entry keeps its old number.
KeepsKey(transmissions, ack) ==
  {IF Signed(ack, e.sequence) <= 0 THEN e
   ELSE [e EXCEPT !.data = SubSeq(@, Minus(ack, e.sequence) + 1, Len(@))] :
     e \in {f \in transmissions : Signed(ack, f.sequence) < Len(f.data)}}

\* What a cumulative acknowledgement leaves of the retransmission store.
Uncovered(transmissions, ack) ==
  {IF Signed(ack, e.sequence) <= 0 THEN e
   ELSE [sequence |-> ack,
         data |-> SubSeq(e.data, Minus(ack, e.sequence) + 1, Len(e.data))] :
     e \in {f \in transmissions : Signed(ack, f.sequence) < Len(f.data)}}

acknowledge_transmissions(k, ack) ==
  IF Signed(ack, k.socket.send_unacknowledged) <= 0 THEN k
  ELSE [k EXCEPT !.transmissions_ = Uncovered(@, ack),
                 !.socket.send_unacknowledged = ack,
                 !.socket.progress_at = 0]

Acceptable(s, segment) ==
  LET distance == Signed(segment.sequence, s.receive_next)
      length == Len(segment.data) + IF segment.finish THEN 1 ELSE 0
  IN  IF length = 0 THEN distance = 0 \/ (distance > 0 /\ distance < Window(s))
      ELSE Window(s) # 0 /\ distance < Window(s) /\ distance + length > 0

\* Only the newest segment of the peer sets the window.
WindowUpdate(k, segment) ==
  LET s == k.socket
      newest == \/ Signed(segment.sequence, s.window_sequence) > 0
                \/ /\ segment.sequence = s.window_sequence
                   /\ Signed(segment.ack, s.window_acknowledgement) >= 0
      waiting == \/ s.persist_waiting
                 \/ segment.window = 0 /\ s.send_next # s.send_unacknowledged
  IN  IF ~newest THEN k
      ELSE [k EXCEPT
              !.socket.peer_window = segment.window,
              !.socket.window_sequence = segment.sequence,
              !.socket.window_acknowledgement = segment.ack,
              !.socket.progress_at = IF waiting THEN 0 ELSE @,
              !.socket.persist_waiting = waiting /\ segment.window = 0]

\* The acknowledgement field: the retransmission store, the window, our FIN.
AckArrives(k, segment) ==
  LET acked == IF Signed(segment.ack, k.socket.send_unacknowledged) < 0 THEN k
               ELSE WindowUpdate(acknowledge_transmissions(k, segment.ack), segment)
      s == acked.socket
      finished == [acked EXCEPT !.socket.fin_acked = TRUE]
  IN  IF ~s.fin_sent \/ segment.ack # s.send_next THEN acked
      ELSE CASE s.receive_closed /\ s.active_close -> enter_time_wait(finished)
             [] s.receive_closed /\ ~s.active_close /\ s.detached -> release(finished)
             [] ~s.receive_closed /\ s.state = "fin_wait_1" ->
                  [finished EXCEPT !.socket.state = "fin_wait_2",
                                   !.socket.state_since = 0]
             [] OTHER -> finished

\* The payload and the peer's FIN.
PayloadArrives(k, segment, io) ==
  IF segment.data = <<>> /\ ~segment.finish THEN k
  ELSE LET received == receive(k, segment)
           timed == IF /\ ~k.socket.receive_closed
                       /\ received.socket.receive_closed
                       /\ received.socket.fin_acked
                    THEN enter_time_wait(received) ELSE received
           kept == IF timed.socket.read_closed
                   THEN [timed EXCEPT !.socket.receive_buffer = <<>>] ELSE timed
       IN  flush_acknowledgement(
             [kept EXCEPT !.socket.acknowledgement_retries = 1], io)

\* handle_tcp for a segment of this connection.
handle_tcp(k, segment, io) ==
  LET s == k.socket
      distance == Signed(segment.sequence, s.receive_next)
  IN  IF s.state \notin Synchronized \/ segment.kind = "none" THEN k
      ELSE IF segment.kind = "rst"
      THEN CASE s.state = "time_wait" -> k
             [] s.state # "time_wait" /\ distance = 0 ->
                  IF s.detached THEN release(clear_transmissions(k))
                  ELSE reset(clear_transmissions(k))
             [] s.state # "time_wait" /\ distance > 0 /\ distance < Capacity ->
                  challenge_ack(k, io)
             [] OTHER -> k
      ELSE IF s.state = "time_wait"
      THEN IF /\ segment.finish
              /\ Plus(segment.sequence, Len(segment.data) + 1) = s.receive_next
           THEN challenge_ack([k EXCEPT !.socket.state_since = 0], io)
           ELSE k
      ELSE IF ~Acceptable(s, segment) \/ Signed(segment.ack, s.send_next) > 0
      THEN challenge_ack(k, io)
      ELSE LET acked == AckArrives(k, segment)
               received == PayloadArrives(acked, segment, io)
           IN  IF acked.socket.state = "free" THEN acked
               ELSE IF received.socket.send_closed /\ ~received.socket.fin_sent
               THEN send_fin(received, io) ELSE received

-----------------------------------------------------------------------------
(* The timers.                                                             *)

\* Something of ours waits for the peer: data, our FIN or a window query.
Outstanding(s) == s.send_unacknowledged # s.send_next \/ s.persist_waiting

\* Mutant: FIN_WAIT_2 has no time limit.
FinWaitForever(k, io) ==
  LET s == k.socket
      expired(since) == since >= Interval
  IN  CASE s.state \notin Synchronized -> k
        [] s.state = "time_wait" ->
             IF ~expired(s.state_since) THEN k
             ELSE IF s.detached THEN release(k)
             ELSE [k EXCEPT !.socket.state = "closed"]
        [] OTHER ->
             IF \/ Outstanding(s) /\ expired(s.progress_at)
                \/ s.send_closed /\ ~s.fin_acked /\ expired(s.state_since)
             THEN fail_connection(k, "silent")
             ELSE IF s.send_closed /\ ~s.fin_acked /\ io.due THEN send_fin(k, io)
             ELSE k

flush_timers(k, io) ==
  LET s == k.socket
      expired(since) == since >= Interval
  IN  CASE s.state \notin Synchronized -> k
        [] s.state = "time_wait" ->
             IF ~expired(s.state_since) THEN k
             ELSE IF s.detached THEN release(k)
             ELSE [k EXCEPT !.socket.state = "closed"]
        [] OTHER ->
             IF Outstanding(s) /\ expired(s.progress_at)
             THEN fail_connection(k, "silent")
             ELSE IF s.send_closed /\ ~s.fin_acked /\ expired(s.state_since)
             THEN fail_connection(k, "close")
             ELSE IF s.state = "fin_wait_2" /\ s.detached /\ expired(s.state_since)
             THEN fail_connection(k, "fin_wait")
             ELSE LET retried == IF s.send_closed /\ ~s.fin_acked /\ io.due
                                 THEN send_fin(k, io) ELSE k
                      queries == /\ retried.socket.persist_waiting
                                 /\ retried.socket.peer_window = 0
                                 /\ io.due /\ ~io.busy
                  IN  IF queries THEN send_segment(retried) ELSE retried

\* Entries of a slot that is free or reset are dropped; of the others only
\* the oldest is sent again.
flush_retransmission(k, io) ==
  IF k.socket.state \in {"free", "reset"} THEN clear_transmissions(k)
  ELSE IF /\ io.due /\ ~io.busy
          /\ \E e \in k.transmissions_ : e.sequence = k.socket.send_unacknowledged
       THEN send_segment(k)
       ELSE k

-----------------------------------------------------------------------------
(* The actions.                                                            *)

IO == [busy : BOOLEAN, due : BOOLEAN, allowed : BOOLEAN]

\* What the peer may send: a piece of its stream, with the FIN when the piece
\* ends it, an empty segment also after the FIN, a reset.  The acknowledgement
\* names anything sent so far, or one number more.
Segments ==
  LET sent == Minus(stack.socket.send_next, InitialSend)
      pieces == {p \in (0 .. InboundLength) \X (0 .. InboundLength) \X BOOLEAN :
                   p[1] <= p[2] /\ (p[3] => p[2] = InboundLength)}
                  \cup {<<InboundLength + 1, InboundLength + 1, FALSE>>}
  IN  {[kind |-> "segment", sequence |-> Plus(InitialReceive, p[1]),
        data |-> SubSeq(Inbound, p[1] + 1, p[2]), finish |-> p[3],
        ack |-> Plus(InitialSend, a), window |-> w] :
         p \in pieces, a \in 0 .. sent + 1, w \in Windows}

Resets ==
  {[kind |-> "rst", sequence |-> Plus(InitialReceive, n), data |-> <<>>,
    finish |-> FALSE, ack |-> InitialSend, window |-> 0] :
     n \in 0 .. InboundLength + 1}

NoFrame ==
  [kind |-> "none", sequence |-> 0, data |-> <<>>, finish |-> FALSE,
   ack |-> 0, window |-> 0]

\* The count of unanswered ticks goes on while the same thing is outstanding.
Waited(before, after) ==
  IF /\ before.state \in Synchronized /\ after.state \in Synchronized
     /\ Outstanding(before) /\ Outstanding(after)
     /\ before.send_unacknowledged = after.send_unacknowledged
  THEN unanswered ELSE 0

\* NetworkStack::poll, with the frame the driver had.  What a step leaves is
\* bound to its value, which TLC then computes once.
poll ==
  /\ \E frame \in Segments \cup Resets \cup {NoFrame}, io \in IO :
       \E acknowledged \in {flush_acknowledgement(stack, io)} :
         \E handled \in {handle_tcp(acknowledged, frame, io)} :
           \E timed \in {flush_timers(handled, io)} :
             stack' = flush_retransmission(timed, io)
  /\ unanswered' = Waited(stack.socket, stack'.socket)
  /\ UNCHANGED delivered

\* The application holds a descriptor of the socket.
Owned == stack.socket.references > 0 /\ ~stack.socket.detached

\* Segments of a write of n bytes of which the driver took the first m.
Queued(s, n, m) ==
  LET written == Minus(s.send_next, InitialSend)
  IN  {[sequence |-> Plus(s.send_next, i * Mss),
        data |-> SubSeq(Outbound, written + i * Mss + 1,
                        written + Least((i + 1) * Mss, n))] : i \in 0 .. m - 1}

\* The congestion window is any limit of at least one segment.
socket_write(size, cwnd) ==
  LET s == stack.socket
      flight == Minus(s.send_next, s.send_unacknowledged)
      limit == Least(s.peer_window, cwnd)
      available == IF flight < limit THEN limit - flight ELSE 0
      n == Least(size, available)
  IN  /\ Owned /\ s.state \in {"established", "close_wait"} /\ ~s.send_closed
      /\ Minus(s.send_next, InitialSend) + size <= OutboundLength
      /\ IF available = 0
         THEN /\ s.peer_window = 0 /\ ~s.persist_waiting
              /\ stack' = [stack EXCEPT !.socket.persist_waiting = TRUE,
                                        !.socket.progress_at = 0]
         ELSE \E m \in 1 .. (n + Mss - 1) \div Mss :
                LET new == Queued(s, n, m)
                IN  /\ Cardinality(stack.transmissions_) + m <= TransmitCapacity
                    /\ \A e \in new, f \in stack.transmissions_ :
                         e.sequence # f.sequence
                    /\ stack' = [send_segment(stack) EXCEPT
                         !.transmissions_ = @ \cup new,
                         !.socket.send_next = Plus(@, Least(m * Mss, n)),
                         !.socket.progress_at = IF flight = 0 THEN 0 ELSE @,
                         !.socket.acknowledgement_retries = 0]
      /\ unanswered' = Waited(s, stack'.socket)
      /\ UNCHANGED delivered

\* Mutant: reading opens the window and owes no update.
ReadsSilently(size) ==
  LET s == stack.socket
      taken == [stack EXCEPT
                  !.socket.receive_buffer = SubSeq(@, size + 1, Len(@))]
  IN  /\ Owned /\ ~s.read_closed /\ size <= Len(s.receive_buffer)
      /\ stack' = drain_reassembly(taken)
      /\ delivered' = delivered \o SubSeq(s.receive_buffer, 1, size)
      /\ UNCHANGED unanswered

socket_read(size) ==
  LET s == stack.socket
      taken == [stack EXCEPT
                  !.socket.receive_buffer = SubSeq(@, size + 1, Len(@))]
      drained == drain_reassembly(taken)
      ended == s.state # "time_wait" /\ drained.socket.state = "time_wait"
  IN  /\ Owned /\ ~s.read_closed /\ size <= Len(s.receive_buffer)
      /\ stack' = [drained EXCEPT
           !.socket.acknowledgement_retries = 1,
           !.socket.state_since = IF ended THEN 0 ELSE @]
      /\ delivered' = delivered \o SubSeq(s.receive_buffer, 1, size)
      /\ UNCHANGED unanswered

\* shutdown(): 0 ends reading, 1 writing, 2 both.
socket_shutdown(how) ==
  /\ Owned /\ stack.socket.state \in Synchronized
  /\ \E io \in IO :
       LET ending == IF how # 0 THEN request_fin(stack, io) ELSE stack
       IN  stack' = IF how = 1 THEN ending
                    ELSE [ending EXCEPT !.socket.read_closed = TRUE,
                                        !.socket.receive_buffer = <<>>,
                                        !.socket.acknowledgement_retries = 1]
  /\ unanswered' = Waited(stack.socket, stack'.socket)
  /\ UNCHANGED delivered

socket_retain ==
  /\ Owned /\ stack.socket.references < MaxReferences
  /\ stack' = [stack EXCEPT !.socket.references = @ + 1]
  /\ UNCHANGED <<delivered, unanswered>>

socket_close ==
  LET s == stack.socket
      last == s.references = 1
  IN  /\ Owned
      /\ \E io \in IO :
           stack' =
             IF last /\ s.fin_acked /\ s.receive_closed /\ s.state # "time_wait"
             THEN release(clear_transmissions(stack))
             ELSE IF last /\ s.state \in Synchronized
             THEN request_fin([stack EXCEPT !.socket.detached = TRUE], io)
             ELSE IF last THEN clear_transmissions(release(stack))
             ELSE release(stack)
      /\ unanswered' = Waited(s, stack'.socket)
      /\ UNCHANGED delivered

\* A new connection takes the slot, with the numbers of the old one.
connect ==
  /\ stack.socket.state = "free"
  /\ \E w \in Windows :
       stack' = [send_segment([stack EXCEPT !.socket = Established(w)])
                   EXCEPT !.blame = "none"]
  /\ delivered' = <<>>
  /\ UNCHANGED unanswered

Tick ==
  LET older(n) == Least(n + 1, Interval)
      s == stack.socket
  IN  /\ Clock /\ s.state \in Synchronized
      /\ stack' = [stack EXCEPT !.socket.progress_at = older(@),
                                !.socket.state_since = older(@)]
      /\ unanswered' = IF Outstanding(s) THEN older(unanswered) ELSE 0
      /\ UNCHANGED delivered

Init ==
  /\ stack = [socket |-> Free, reassembly_ |-> {}, transmissions_ |-> {},
              told |-> <<0, 0>>, blame |-> "none"]
  /\ delivered = <<>>
  /\ unanswered = 0

Next ==
  \/ connect
  \/ poll
  \/ \E size \in 1 .. OutboundLength, cwnd \in Mss .. OutboundLength + Mss :
       socket_write(size, cwnd)
  \/ \E size \in 1 .. Capacity : socket_read(size)
  \/ \E how \in 0 .. 2 : socket_shutdown(how)
  \/ socket_retain
  \/ socket_close
  \/ Tick

Spec == Init /\ [][Next]_vars

\* The kernel loop polls the stack again and again, and time passes.
FairSpec == Spec /\ WF_vars(poll) /\ WF_vars(Tick)

-----------------------------------------------------------------------------
(* Properties.                                                             *)

\* Stored numbers and buffers keep their ranges, and neither store nor buffer
\* exceeds its capacity.
TypeOK ==
  LET s == stack.socket
      number == 0 .. SequenceSpace - 1
  IN  /\ s.state \in Synchronized \cup {"free", "closed", "reset"}
      /\ {s.send_next, s.send_unacknowledged, s.window_sequence,
          s.window_acknowledgement, s.receive_next} \subseteq number
      /\ s.references \in 0 .. MaxReferences
      /\ {s.receive_buffer, delivered} \subseteq Seq(1 .. InboundLength)
      /\ Len(s.receive_buffer) <= Capacity /\ Len(delivered) <= InboundLength
      /\ {s.progress_at, s.state_since, unanswered} \subseteq 0 .. Interval
      /\ Cardinality(stack.reassembly_) <= ReassemblyCapacity
      /\ Cardinality(stack.transmissions_) <= TransmitCapacity

\* Every entry of the reassembly store lies behind a gap and inside the
\* receive window, so that it fits when the gap closes; it holds the peer's
\* bytes for its numbers; and it belongs to a live connection.  Stores and
\* buffers keep to their capacities.
ReassemblyFits ==
  LET s == stack.socket
  IN  /\ TypeOK
      /\ \A e \in stack.reassembly_ :
           LET from == Minus(e.sequence, InitialReceive)
               end == Signed(e.sequence, s.receive_next) + Len(e.data)
           IN  /\ s.state \in Synchronized /\ ~s.receive_closed
               /\ Signed(e.sequence, s.receive_next) > 0
               /\ end + (IF e.finish THEN 1 ELSE 0) <= Window(s)
               /\ e.data = SubSeq(Inbound, from + 1, from + Len(e.data))
               /\ e.finish => from + Len(e.data) = InboundLength

\* What the application has read and what waits in the buffer is the peer's
\* stream from its start, each byte once; receive_next stands exactly behind
\* it, and the end of the stream is reported only behind its last byte.
\* After shutdown(SHUT_RD) the bytes are dropped and nothing more is read.
StreamInOrder ==
  LET s == stack.socket
      got == Minus(s.receive_next, InitialReceive)
  IN  /\ ReassemblyFits
      /\ s.state \in Synchronized \cup {"closed"} =>
           /\ s.receive_closed <=> got = InboundLength + 1
           /\ delivered = SubSeq(Inbound, 1, Len(delivered))
           /\ ~s.read_closed =>
                delivered \o s.receive_buffer
                  = SubSeq(Inbound, 1, Least(got, InboundLength))

\* An acknowledgement or window the peer has not been told is always owed:
\* whatever the driver refused, acknowledgement_retries still asks for it.
AcknowledgementOwed ==
  LET s == stack.socket
  IN  s.state \in Synchronized /\ stack.told # Told(s)
        => s.acknowledgement_retries = 1

\* The retransmission store tiles the bytes in flight: every unacknowledged
\* byte the application wrote is there once, under its own number, and no
\* byte of an earlier connection or of an acknowledged prefix is.
FlightRetained ==
  LET s == stack.socket
      first == Minus(s.send_unacknowledged, InitialSend) + 1
      last == Minus(s.send_next, InitialSend) - (IF s.fin_sent THEN 1 ELSE 0)
      offset(e) == Minus(e.sequence, InitialSend)
  IN  s.state \in Synchronized =>
        /\ \A e \in stack.transmissions_ :
             /\ e.data # <<>>
             /\ \A i \in 1 .. Len(e.data) : e.data[i] = offset(e) + i
        /\ \A b \in first .. last :
             Cardinality({e \in stack.transmissions_ :
                            b \in offset(e) + 1 .. offset(e) + Len(e.data)}) = 1
        /\ \A e \in stack.transmissions_ :
             offset(e) + 1 >= first /\ offset(e) + Len(e.data) <= last

\* "All data survives close(), and is acknowledged before FIN is emitted":
\* once the FIN is out nothing but the FIN is unacknowledged.
FinAfterData ==
  LET s == stack.socket
  IN  s.state \in Synchronized /\ s.fin_sent =>
        /\ stack.transmissions_ = {}
        /\ Minus(s.send_next, s.send_unacknowledged) = IF s.fin_acked THEN 0 ELSE 1

\* The state of RFC 9293 that belongs to a history of FINs.
StateOfFins(s) ==
  CASE ~s.send_closed /\ ~s.receive_closed -> "established"
    [] ~s.send_closed /\ s.receive_closed -> "close_wait"
    [] s.send_closed /\ ~s.receive_closed /\ ~s.fin_acked -> "fin_wait_1"
    [] s.send_closed /\ ~s.receive_closed /\ s.fin_acked -> "fin_wait_2"
    [] s.send_closed /\ s.receive_closed /\ ~s.active_close -> "last_ack"
    [] s.send_closed /\ s.receive_closed /\ s.active_close /\ ~s.fin_acked -> "closing"
    [] OTHER -> "time_wait"

\* The connection state says exactly which FINs were sent, acknowledged and
\* received, and who closed first, whatever the order they came in.
StateMatchesFins ==
  LET s == stack.socket
  IN  s.state \in Synchronized => s.state = StateOfFins(s)

\* The peer repeats its FIN and TIME-WAIT starts again.
TimeWaitRestarts ==
  /\ stack.socket.state = "time_wait" /\ stack'.socket.state = "time_wait"
  /\ stack'.socket.state_since < stack.socket.state_since

\* A connection the application has closed gives its slot back, whatever the
\* peer does, unless the peer restarts TIME-WAIT forever.
SlotReclaimed ==
  (<>[][~TimeWaitRestarts]_vars)
    => (stack.socket.detached ~> stack.socket.state = "free")

-----------------------------------------------------------------------------

\* Promised by the documents and not kept by the code: see the findings in
\* the README.

\* "FIN remains available until ACK": the user timeout ends a connection only
\* when what is outstanding, or the close, has waited for the whole interval.
PeerWasSilent ==
  [][stack.blame # "silent" /\ stack'.blame = "silent"
       => \/ unanswered = Interval
          \/ stack.socket.send_closed /\ stack.socket.state_since = Interval]_vars

\* "Zero-window persist: window queries back off": a sender that has something
\* to send and meets a closed window asks the peer again.
ClosedWindowQueried ==
  LET s == stack.socket
  IN  /\ s.state \in Synchronized
      /\ s.send_closed /\ ~s.fin_sent /\ s.peer_window = 0
      => s.persist_waiting \/ stack.transmissions_ # {}

=============================================================================
