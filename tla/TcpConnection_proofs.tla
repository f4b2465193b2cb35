------------------------ MODULE TcpConnection_proofs ------------------------
(***************************************************************************)
(* For every size of the stores and windows, every sequence space and every*)
(* pair of streams: the application reads the peer's bytes once and in     *)
(* order, whatever the network does to the segments; a byte that is in     *)
(* flight is kept until it is acknowledged; the FIN waits for it; the      *)
(* state of the connection says which FINs passed; and an acknowledgement  *)
(* the driver refused stays owed.                                          *)
(***************************************************************************)
EXTENDS TcpStack_proofs

(* A payload.                                                              *)

\* Bytes nobody will read are dropped (stack.cpp:752, stack.cpp:184).
LEMMA DropSound ==
  ASSUME NEW k, NEW d, Sound(k, d), NEW m \in Stack, NEW s, s = k.socket,
         NEW t, t = m.socket, t.state = s.state, t.receive_next = s.receive_next,
         t.receive_closed = s.receive_closed, t.receive_buffer = <<>>, t.read_closed,
         SameSend(s, t), SameClose(s, t),
         m.reassembly_ = k.reassembly_, m.transmissions_ = k.transmissions_
  PROVE  Sound(m, d)
<1>0. s \in Socket /\ t \in Socket BY Zenon DEF Sound, Stack
<1>1. Got(t) = Got(s) /\ InOrder(t) = InOrder(s) BY Zenon DEF Got, InOrder
<1>2. Got(s) \in Nat /\ InOrder(s) \in Nat /\ Window(s) \in Int /\ Window(t) = Capacity
      /\ Window(s) <= Capacity /\ Capacity \in Nat
  <2>1. Got(s) \in Number /\ Len(s.receive_buffer) \in Nat /\ Capacity \in Nat
        /\ InboundLength \in Nat
    BY Zenon, <1>0, Places, Constants
  <2>2. Len(t.receive_buffer) = 0 BY Zenon
  <2> QED BY <2>1, <2>2 DEF InOrder, Least, Number, Window
<1>3. ASSUME Reads(s, d) PROVE Reads(t, d)
  <2>1. Len(t.receive_buffer) = 0 BY Zenon
  <2>2. Piece(InOrder(s) - 0, InOrder(s)) = <<>> BY <1>2, PieceEmpty
  <2> QED BY <1>1, <1>2, <1>3, <2>1, <2>2 DEF Reads
<1>4. ASSUME NEW e \in k.reassembly_ PROVE Stored(e, t)
  <2>1. e \in Ahead /\ Stored(e, s) BY Zenon DEF Sound, Receives, Stack
  <2>2. From(e) \in Number /\ Len(e.data) \in Nat /\ Bit(e.finish) \in {0, 1}
    BY Zenon, <2>1, EntryPlaces
  <2> DEFINE z == (From(e) + Len(e.data)) + Bit(e.finish)
  <2>3. z \in Int BY <2>2 DEF Number
  <2>4. z <= Got(s) + Window(s) BY Zenon, <2>1 DEF Stored
  <2> HIDE DEF z
  <2>5. z <= Got(t) + Window(t) BY <1>1, <1>2, <2>3, <2>4
  <2> QED BY Zenon, <2>1, <2>5 DEF Stored, z
<1>5. Receives(m, d) BY Zenon, <1>1, <1>3, <1>4 DEF Sound, Receives
<1>6. Sends(m) BY Zenon, SendsKept DEF Sound, SameState
<1>7. Closes(t) BY Zenon DEF Sound, Closes, SameSend, SameClose, StateOfFins
<1> QED BY Zenon, <1>5, <1>6, <1>7 DEF Sound

\* The payload of a segment: received, timed, dropped or kept, acknowledged
\* (stack.cpp:744).
LEMMA PayloadSound ==
  ASSUME NEW k, NEW d, NEW io, Sound(k, d), k.socket.state \in Synchronized, NEW g,
         Heard(g) \/ (g.data = <<>> /\ ~g.finish)
  PROVE  LET m == PayloadArrives(k, g, io)
         IN  Sound(m, d) /\ (Owes(k) => Owes(m))
<1> DEFINE m == PayloadArrives(k, g, io)
           r == receive(k, g)
           t == IF ~k.socket.receive_closed /\ r.socket.receive_closed /\ r.socket.fin_acked
                THEN enter_time_wait(r) ELSE r
           p == IF t.socket.read_closed
                THEN [t EXCEPT !.socket.receive_buffer = <<>>] ELSE t
           q == [p EXCEPT !.socket.acknowledgement_retries = 1]
<1>1. CASE g.data = <<>> /\ ~g.finish BY Zenon, <1>1 DEF PayloadArrives
<1>2. CASE ~(g.data = <<>> /\ ~g.finish)
  <2>0. m = flush_acknowledgement(q, io) BY Zenon, <1>2 DEF PayloadArrives
  <2>1. Sound(r, d) /\ r.socket.state \in Synchronized /\ Drains(k, r)
    BY Zenon, <1>2, ReceiveSound
  <2> HIDE DEF r, m
  <2>2. Sound(t, d)
    <3>1. CASE ~k.socket.receive_closed /\ r.socket.receive_closed /\ r.socket.fin_acked
      <4>1. k.socket.send_closed /\ k.socket.active_close
        BY Zenon, <2>1, <3>1 DEF Sound, Closes, Drains, SameSend
      <4>2. r.socket.state = "time_wait"
        <5>1. r.socket.send_closed /\ r.socket.active_close
          BY Zenon, <2>1, <4>1 DEF Drains, SameClose
        <5>2. r.socket.state = StateOfFins(r.socket) BY Zenon, <2>1 DEF Sound, Closes
        <5> QED BY Zenon, <3>1, <5>1, <5>2 DEF StateOfFins
      <4> DEFINE w == [r.socket EXCEPT !.state = "time_wait", !.state_since = 0]
      <4>3. r \in Stack /\ r.socket \in Socket /\ 0 \in 0 .. Interval
        <5>1. r \in Stack BY Zenon, <2>1 DEF Sound
        <5>2. r.socket \in Socket BY Zenon, <5>1 DEF Stack
        <5>3. 0 \in 0 .. Interval BY Constants
        <5> QED BY Zenon, <5>1, <5>2, <5>3
      <4>4. w \in Socket /\ SameStreams(r.socket, w)
        BY Zenon, <4>2, <4>3 DEF Socket, SameStreams, SameReceive, SameSend
      <4>5. t = [r EXCEPT !.socket = w] BY Zenon, <3>1, <4>3 DEF enter_time_wait, Stack
      <4> HIDE DEF t, w
      <4>6. Keeps(r, t) BY Zenon, <4>3, <4>4, <4>5, SocketPut DEF Keeps
      <4> QED BY Zenon, <2>1, <4>6, KeptSound
    <3>2. CASE ~(~k.socket.receive_closed /\ r.socket.receive_closed /\ r.socket.fin_acked)
      BY Zenon, <2>1, <3>2
    <3> QED BY Zenon, <3>1, <3>2
  <2> HIDE DEF t
  <2>3. Sound(p, d)
    <3>1. CASE t.socket.read_closed
      <4> DEFINE w == [t.socket EXCEPT !.receive_buffer = <<>>]
      <4>1. t \in Stack /\ t.socket \in Socket /\ <<>> \in Seq(1 .. InboundLength)
        BY <2>2 DEF Sound, Stack
      <4>2. /\ w \in Socket /\ w.receive_buffer = <<>> /\ w.read_closed
            /\ w.state = t.socket.state /\ w.receive_next = t.socket.receive_next
            /\ w.receive_closed = t.socket.receive_closed
            /\ SameSend(t.socket, w) /\ SameClose(t.socket, w)
        BY Zenon, <3>1, <4>1 DEF Socket, SameSend, SameClose
      <4>3. p = [t EXCEPT !.socket = w] BY Zenon, <3>1, <4>1 DEF Stack
      <4> HIDE DEF p, w
      <4>4. /\ p \in Stack /\ p.socket = w /\ p.reassembly_ = t.reassembly_
            /\ p.transmissions_ = t.transmissions_
        BY Zenon, <4>1, <4>2, <4>3, SocketPut
      <4> QED BY Zenon, <2>2, <4>2, <4>4, DropSound
    <3>2. CASE ~t.socket.read_closed BY Zenon, <2>2, <3>2
    <3> QED BY Zenon, <3>1, <3>2
  <2> HIDE DEF p
  <2>4. Keeps(p, q) /\ Owes(q) BY Zenon, <2>3, OwedKeeps DEF Sound
  <2> HIDE DEF q
  <2>5. q \in Stack BY Zenon, <2>4 DEF Keeps
  <2>6. Keeps(q, m) /\ Owes(m) BY Zenon, <2>0, <2>4, <2>5, FlushKeeps
  <2>7. Sound(m, d) BY Zenon, <2>3, <2>4, <2>6, KeptSound
  <2> QED BY Zenon, <2>6, <2>7 DEF m
<1> QED BY Zenon, <1>1, <1>2

-----------------------------------------------------------------------------
(* A segment, the timers, a poll.                                          *)

LEMMA Touched ==
  ASSUME NEW k \in Stack, NEW t \in Socket, SameStreams(k.socket, t),
         t.acknowledgement_retries = k.socket.acknowledgement_retries
  PROVE  LET m == [k EXCEPT !.socket = t]
         IN  Keeps(k, m) /\ (Owes(k) => Owes(m))
<1> DEFINE m == [k EXCEPT !.socket = t]
<1>1. /\ m \in Stack /\ m.socket = t /\ m.told = k.told
      /\ m.reassembly_ = k.reassembly_ /\ m.transmissions_ = k.transmissions_
  BY Zenon, SocketPut
<1> HIDE DEF m
<1>2. Keeps(k, m) BY Zenon, <1>1 DEF Keeps
<1>3. Told(t) = Told(k.socket) BY Zenon DEF SameStreams, SameReceive, Told, Window
<1>4. Owes(k) => Owes(m) BY Zenon, <1>1, <1>3 DEF SameStreams, Owes
<1> QED BY Zenon, <1>2, <1>4 DEF m

\* Any segment the peer may have sent, at any time.
Arrives(g, s) ==
  /\ g \in Segment
  /\ g.kind = "segment" =>
       /\ Heard(g) \/ (g.data = <<>> /\ ~g.finish)
       /\ Minus(g.ack, InitialSend) <= Written(s) + 1

\* handle_tcp (stack.cpp:631).
LEMMA HandleSound ==
  ASSUME NEW k, NEW d, NEW io, Sound(k, d), Owes(k), NEW g, Arrives(g, k.socket)
  PROVE  Sound(handle_tcp(k, g, io), d) /\ Owes(handle_tcp(k, g, io))
<1> DEFINE m == handle_tcp(k, g, io)
           s == k.socket
           distance == Signed(g.sequence, s.receive_next)
           c == clear_transmissions(k)
<1>0. k \in Stack /\ s \in Socket /\ g \in Segment /\ 0 \in 0 .. Interval
  BY Constants DEF Sound, Stack, Arrives
<1>1. Sound(challenge_ack(k, io), d) /\ Owes(challenge_ack(k, io))
  BY Zenon, <1>0, ChallengeKeeps, KeptSound
<1>2. CASE s.state \notin Synchronized \/ g.kind = "none" BY Zenon, <1>2 DEF handle_tcp
<1>3. CASE s.state \in Synchronized /\ g.kind = "rst"
  <2>1. c \in Stack /\ c.socket = s /\ c.transmissions_ = {} BY Zenon, <1>0, ClearType
  <2> HIDE DEF c
  <2>2. CASE s.detached
    <3>1. s.references <= 1 BY <2>2, Constants DEF Sound, Closes
    <3>2. Sound(release(c), d) /\ Owes(release(c)) BY Zenon, <2>1, <3>1, ReleaseLast
    <3>3. m \in {k, challenge_ack(k, io), release(c)}
      <4>1. s.state = "time_wait" => m = k BY Zenon, <1>3 DEF handle_tcp
      <4>2. s.state # "time_wait" /\ distance = 0 => m = release(c)
        BY <1>3, <2>2 DEF handle_tcp, c
      <4>3. s.state # "time_wait" /\ distance # 0 /\ distance > 0 /\ distance < Capacity
              => m = challenge_ack(k, io)
        BY Zenon, <1>3 DEF handle_tcp
      <4>4. s.state # "time_wait" /\ distance # 0 /\ ~(distance > 0 /\ distance < Capacity)
              => m = k
        BY Zenon, <1>3 DEF handle_tcp
      <4> HIDE DEF m, distance
      <4> QED BY Zenon, <4>1, <4>2, <4>3, <4>4
    <3> HIDE DEF m
    <3> QED BY Zenon, <1>1, <3>2, <3>3 DEF m
  <2>3. CASE ~s.detached
    <3>2. Sound(reset(c), d) /\ Owes(reset(c)) BY Zenon, <2>1, <2>3, ResetEnds
    <3>3. m \in {k, challenge_ack(k, io), reset(c)}
      <4>1. s.state = "time_wait" => m = k BY Zenon, <1>3 DEF handle_tcp
      <4>2. s.state # "time_wait" /\ distance = 0 => m = reset(c)
        BY <1>3, <2>3 DEF handle_tcp, c
      <4>3. s.state # "time_wait" /\ distance # 0 /\ distance > 0 /\ distance < Capacity
              => m = challenge_ack(k, io)
        BY Zenon, <1>3 DEF handle_tcp
      <4>4. s.state # "time_wait" /\ distance # 0 /\ ~(distance > 0 /\ distance < Capacity)
              => m = k
        BY Zenon, <1>3 DEF handle_tcp
      <4> HIDE DEF m, distance
      <4> QED BY Zenon, <4>1, <4>2, <4>3, <4>4
    <3> HIDE DEF m
    <3> QED BY Zenon, <1>1, <3>2, <3>3 DEF m
  <2> QED BY Zenon, <2>2, <2>3
<1>4. CASE s.state \in Synchronized /\ g.kind = "segment" /\ s.state = "time_wait"
  <2> DEFINE t == [s EXCEPT !.state_since = 0]
             l == [k EXCEPT !.socket = t]
  <2>1. t \in Socket /\ SameStreams(s, t)
        /\ t.acknowledgement_retries = s.acknowledgement_retries
    BY Zenon, <1>0 DEF Socket, SameStreams, SameReceive, SameSend
  <2>2. l = [k EXCEPT !.socket.state_since = 0] BY Zenon, <1>0 DEF Stack
  <2>3. m = k \/ m = challenge_ack(l, io) BY Zenon, <1>4, <2>2 DEF handle_tcp
  <2> HIDE DEF t
  <2>4. Keeps(k, l) /\ Owes(l) BY Zenon, <1>0, <2>1, Touched
  <2> HIDE DEF l
  <2>5. Sound(l, d) BY Zenon, <2>4, KeptSound
  <2>6. Sound(challenge_ack(l, io), d) /\ Owes(challenge_ack(l, io))
    BY Zenon, <2>4, <2>5, ChallengeKeeps, KeptSound DEF Sound
  <2> HIDE DEF m
  <2> QED BY Zenon, <2>3, <2>6 DEF m
<1>5. CASE s.state \in Synchronized /\ g.kind = "segment" /\ s.state # "time_wait"
  <2> DEFINE a == AckArrives(k, g)
             p == PayloadArrives(a, g, io)
  <2>1. CASE ~Acceptable(s, g) \/ Signed(g.ack, s.send_next) > 0
    <3>1. m = challenge_ack(k, io) BY Zenon, <1>5, <2>1 DEF handle_tcp
    <3> HIDE DEF m
    <3> QED BY Zenon, <1>1, <3>1 DEF m
  <2>2. CASE ~(~Acceptable(s, g) \/ Signed(g.ack, s.send_next) > 0)
    <3>1. m = IF a.socket.state = "free" THEN a
              ELSE IF p.socket.send_closed /\ ~p.socket.fin_sent THEN send_fin(p, io) ELSE p
      BY Zenon, <1>5, <2>2 DEF handle_tcp
    <3>2. Minus(g.ack, InitialSend) <= Written(s)
      <4> DEFINE b == Minus(g.ack, InitialSend)
                 w == Written(s)
      <4>1. b \in Number /\ w \in Number /\ g.ack \in Number /\ s.send_next \in Number
        BY Zenon, <1>0, Places, PlaceOfNumber, Constants DEF Segment, Socket
      <4>2. b <= w + 1 /\ w <= OutboundLength + 1
        <5>1. Bit(s.fin_sent) \in {0, 1} BY Zenon DEF Bit
        <5>2. w - Bit(s.fin_sent) <= OutboundLength BY Zenon, <1>5 DEF Sound, Sends
        <5>3. b <= w + 1 BY Zenon, <1>5 DEF Arrives
        <5> HIDE DEF w, b
        <5> QED BY <4>1, <5>1, <5>2, <5>3, Constants DEF Number
      <4>3. 2 * (b - w) < SequenceSpace /\ 2 * (w - b) < SequenceSpace
        <5> HIDE DEF w, b
        <5> QED BY <4>1, <4>2, Constants DEF Number
      <4>4. Signed(g.ack, s.send_next) = b - w
        BY <4>1, <4>3, SignedPlaces, Constants DEF Written
      <4>5. ~(b - w > 0) BY Zenon, <2>2, <4>4
      <4> HIDE DEF w, b
      <4>6. b <= w BY <4>1, <4>5 DEF Number
      <4> QED BY Zenon, <4>6 DEF w, b
    <3>3. /\ Sound(a, d) /\ Owes(a)
          /\ a.socket.state # "free" => a.socket.state \in Synchronized
      BY Zenon, <1>0, <1>5, <3>2, AckArrivesSound
    <3> HIDE DEF a, m
    <3>4. CASE a.socket.state = "free" BY Zenon, <3>1, <3>3, <3>4 DEF m
    <3>5. CASE a.socket.state # "free"
      <4>1. Sound(p, d) /\ Owes(p)
        BY Zenon, <1>5, <3>3, <3>5, PayloadSound DEF Arrives
      <4> HIDE DEF p
      <4>2. p.socket.send_closed => Sound(send_fin(p, io), d) /\ Owes(send_fin(p, io))
        BY Zenon, <4>1, FinSound
      <4> QED BY Zenon, <3>1, <3>5, <4>1, <4>2 DEF m
    <3> QED BY Zenon, <3>4, <3>5
  <2> QED BY Zenon, <2>1, <2>2
<1> QED BY Zenon, <1>0, <1>2, <1>3, <1>4, <1>5 DEF Segment

\* TIME-WAIT ends with everything acknowledged and received (stack.cpp:458).
LEMMA TimeWaitEnds ==
  ASSUME NEW k, NEW d, Sound(k, d), k.socket.state = "time_wait"
  PROVE  /\ k.transmissions_ = {} /\ k.reassembly_ = {}
         /\ k.socket.receive_closed /\ k.socket.fin_acked
<1>0. k.socket \in Socket /\ k \in Stack BY Zenon DEF Sound, Stack
<1>1. k.socket.state \in Synchronized BY Zenon DEF Synchronized
<1>2. k.socket.receive_closed /\ k.socket.fin_acked /\ k.socket.fin_sent
  <2>1. StateOfFins(k.socket) = "time_wait" BY Zenon, <1>1 DEF Sound, Closes
  <2>2. k.socket.receive_closed /\ k.socket.fin_acked BY Zenon, <2>1 DEF StateOfFins
  <2> QED BY Zenon, <1>1, <2>2 DEF Sound, Closes
<1>3. k.transmissions_ = {} BY Zenon, <1>0, <1>1, <1>2, FlightEmpty DEF Sound
<1>4. k.reassembly_ = {} BY Zenon, <1>2 DEF Sound, Receives
<1> QED BY Zenon, <1>2, <1>3, <1>4

\* flush_timers (stack.cpp:453).
LEMMA TimersSound ==
  ASSUME NEW k, NEW d, NEW io, Sound(k, d), Owes(k)
  PROVE  Sound(flush_timers(k, io), d) /\ Owes(flush_timers(k, io))
<1> DEFINE m == flush_timers(k, io)
           s == k.socket
<1>0. k \in Stack /\ s \in Socket BY Zenon DEF Sound, Stack
<1>1. CASE s.state \notin Synchronized
  <2>1. s.state # "time_wait" BY Zenon, <1>1 DEF Synchronized
  <2>2. m = k BY Zenon, <1>1, <2>1 DEF flush_timers
  <2> HIDE DEF m
  <2> QED BY Zenon, <2>2 DEF m
<1>2. CASE s.state = "time_wait"
  <2>0. s.state \in Synchronized BY Zenon, <1>2 DEF Synchronized
  <2>1. k.transmissions_ = {} /\ k.reassembly_ = {} /\ s.receive_closed
    BY Zenon, <1>2, TimeWaitEnds
  <2> DEFINE t == [s EXCEPT !.state = "closed"]
             l == [k EXCEPT !.socket = t]
  <2>2. l = [k EXCEPT !.socket.state = "closed"] BY Zenon, <1>0 DEF Stack
  <2>3. m \in {k, l} \/ (s.detached /\ m = release(k))
    BY Zenon, <1>2, <2>0, <2>2 DEF flush_timers
  <2>4. ASSUME s.detached PROVE Sound(release(k), d) /\ Owes(release(k))
    <3>1. s.references <= 1 BY <2>4, Constants DEF Sound, Closes
    <3> QED BY Zenon, <1>0, <2>1, <3>1, ReleaseLast
  <2>5. /\ t \in Socket /\ t.state = "closed" /\ SameReceive(s, t) /\ SameSend(s, t)
        /\ t.detached = s.detached /\ t.references = s.references
    BY Zenon, <1>0 DEF Socket, States, SameReceive, SameSend
  <2> HIDE DEF t
  <2>6. /\ l \in Stack /\ l.socket = t
        /\ l.reassembly_ = {} /\ l.transmissions_ = {}
    BY Zenon, <1>0, <2>1, <2>5, SocketPut
  <2> HIDE DEF l
  <2>7. t.state \notin Synchronized BY Zenon, <2>5 DEF Synchronized
  <2>8. Reads(t, d)
    <3>1. Reads(s, d) BY Zenon, <1>2 DEF Sound, Receives
    <3>2. Got(t) = Got(s) /\ InOrder(t) = InOrder(s) BY Zenon, <2>5 DEF SameReceive, Got, InOrder
    <3> QED BY Zenon, <2>5, <3>1, <3>2 DEF SameReceive, Reads
  <2>9. IsFiniteSet({}) /\ Cardinality({}) = 0 BY Zenon, FS_EmptySet
  <2>10. Receives(l, d)
    BY Zenon, <2>1, <2>5, <2>6, <2>8, <2>9, Constants DEF Sound, Receives, SameReceive
  <2>11. Sends(l) BY <2>6, <2>7, <2>9, Constants DEF Sends
  <2>12. Sound(l, d) /\ Owes(l)
    BY Zenon, <2>5, <2>6, <2>7, <2>10, <2>11 DEF Sound, Closes, Owes
  <2> HIDE DEF m
  <2> QED BY Zenon, <2>3, <2>4, <2>12 DEF m
<1>3. CASE s.state \in Synchronized /\ s.state # "time_wait"
  <2> DEFINE r == IF s.send_closed /\ ~s.fin_acked /\ io.due THEN send_fin(k, io) ELSE k
             q == r.socket.persist_waiting /\ r.socket.peer_window = 0 /\ io.due /\ ~io.busy
  <2>1. \/ \E why \in {"silent", "close", "fin_wait"} : m = fail_connection(k, why)
        \/ m = IF q THEN send_segment(r) ELSE r
    BY Zenon, <1>3 DEF flush_timers
  <2>2. Sound(r, d) /\ Owes(r) BY Zenon, FinSound
  <2> HIDE DEF r
  <2>3. Sound(send_segment(r), d) /\ Owes(send_segment(r))
    BY Zenon, <2>2, SegmentKeeps, KeptSound DEF Sound
  <2>4. \A why \in {"silent", "close", "fin_wait"} :
          Sound(fail_connection(k, why), d) /\ Owes(fail_connection(k, why))
    BY Zenon, FailSound
  <2> HIDE DEF m, q
  <2> QED BY Zenon, <2>1, <2>2, <2>3, <2>4 DEF m
<1> QED BY Zenon, <1>1, <1>2, <1>3

\* flush_retransmission (stack.cpp:516).
LEMMA RetransmissionSound ==
  ASSUME NEW k, NEW d, NEW io, Sound(k, d), Owes(k)
  PROVE  Sound(flush_retransmission(k, io), d) /\ Owes(flush_retransmission(k, io))
<1> DEFINE m == flush_retransmission(k, io)
           c == clear_transmissions(k)
<1>0. k \in Stack BY Zenon DEF Sound
<1>1. CASE k.socket.state \in {"free", "reset"}
  <2>1. k.transmissions_ = {} BY Zenon, <1>1 DEF Sound, Sends, Synchronized
  <2>2. c = k BY Zenon, <1>0, <2>1 DEF clear_transmissions, Stack
  <2> QED BY Zenon, <1>1, <2>2 DEF flush_retransmission
<1>2. CASE k.socket.state \notin {"free", "reset"}
  <2>1. m = k \/ m = send_segment(k) BY Zenon, <1>2 DEF flush_retransmission
  <2>2. Sound(send_segment(k), d) /\ Owes(send_segment(k))
    BY Zenon, <1>0, SegmentKeeps, KeptSound
  <2> HIDE DEF m
  <2> QED BY Zenon, <2>1, <2>2 DEF m
<1> QED BY Zenon, <1>1, <1>2

\* What the peer's stream and the driver hand to the stack.
LEMMA FrameArrives ==
  ASSUME IInv, NEW g \in Segments \cup Resets \cup {NoFrame},
         stack.socket.state \in Synchronized
  PROVE  Arrives(g, stack.socket)
<1> DEFINE s == stack.socket
<1>0. stack \in Stack /\ s \in Socket BY Zenon DEF IInv, Sound, Stack
<1>1. CASE g \in Segments
  <2> DEFINE pieces == {p \in (0 .. InboundLength) \X (0 .. InboundLength) \X BOOLEAN :
                          p[1] <= p[2] /\ (p[3] => p[2] = InboundLength)}
                         \cup {<<InboundLength + 1, InboundLength + 1, FALSE>>}
  <2>1. PICK p \in pieces, a \in 0 .. Written(s) + 1, w \in Windows :
          g = [kind |-> "segment", sequence |-> Plus(InitialReceive, p[1]),
               data |-> SubSeq(Inbound, p[1] + 1, p[2]), finish |-> p[3],
               ack |-> Plus(InitialSend, a), window |-> w]
    <3> DEFINE G(p, a, w) ==
                 [kind |-> "segment", sequence |-> Plus(InitialReceive, p[1]),
                  data |-> SubSeq(Inbound, p[1] + 1, p[2]), finish |-> p[3],
                  ack |-> Plus(InitialSend, a), window |-> w]
    <3>1. Segments = {G(p, a, w) : p \in pieces, a \in 0 .. Written(s) + 1, w \in Windows}
      BY DEF Segments, Written
    <3> HIDE DEF G, pieces
    <3>2. \E p \in pieces, a \in 0 .. Written(s) + 1, w \in Windows : g = G(p, a, w)
      BY <1>1, <3>1
    <3> QED BY <3>2, Zenon DEF G
  <2>2. g.sequence = Plus(InitialReceive, p[1]) /\ g.data = SubSeq(Inbound, p[1] + 1, p[2])
        /\ g.finish = p[3] /\ g.ack = Plus(InitialSend, a) /\ g.window = w
        /\ g.kind = "segment"
        /\ g = [kind |-> g.kind, sequence |-> g.sequence, data |-> g.data,
                finish |-> g.finish, ack |-> g.ack, window |-> g.window]
    BY Zenon, <2>1
  <2>3. w \in Nat BY Zenon, Constants
  <2>4. a \in Number /\ a <= Written(s) + 1
    <3>1. Written(s) \in Number BY Zenon, <1>0, Places
    <3>2. Written(s) - Bit(s.fin_sent) <= OutboundLength BY Zenon DEF IInv, Sound, Sends
    <3>3. Bit(s.fin_sent) \in {0, 1} BY Zenon DEF Bit
    <3> QED BY <3>1, <3>2, <3>3, Constants DEF Number
  <2>5. g.ack \in Number /\ Minus(g.ack, InitialSend) = a
    BY Zenon, <2>2, <2>4, NumberOfPlace, Constants
  <2>6. /\ p[1] \in Number /\ p[2] \in Nat /\ p[3] \in BOOLEAN /\ p[1] <= p[2]
        /\ \/ p[2] <= InboundLength /\ (p[3] => p[2] = InboundLength)
           \/ p[1] = InboundLength + 1 /\ p[2] = InboundLength + 1 /\ ~p[3]
    <3>1. CASE p \in (0 .. InboundLength) \X (0 .. InboundLength) \X BOOLEAN
               /\ p[1] <= p[2] /\ (p[3] => p[2] = InboundLength)
      BY <3>1, Constants DEF Number
    <3>2. CASE p = <<InboundLength + 1, InboundLength + 1, FALSE>>
      BY <3>2, Constants DEF Number
    <3> QED BY Zenon, <3>1, <3>2
  <2>7. g.sequence \in Number /\ From(g) = p[1]
    <3>1. Plus(InitialReceive, p[1]) \in Number
          /\ Minus(Plus(InitialReceive, p[1]), InitialReceive) = p[1]
      BY Zenon, <2>6, NumberOfPlace, Constants
    <3> QED BY Zenon, <2>2, <3>1 DEF From
  <2> DEFINE x == p[1]
             y == p[2]
  <2> HIDE DEF pieces, x, y
  <2>8. x \in Int /\ y \in Int /\ 0 <= x /\ x <= y BY <2>6 DEF Number, x, y
  <2>9. CASE y <= InboundLength /\ (p[3] => y = InboundLength)
    <3>1. g.data = Piece(x, y) BY Zenon, <2>2, <2>8, <2>9, StreamPiece DEF x, y
    <3>2. g.data \in Seq(1 .. InboundLength) /\ Len(g.data) = y - x
      <4>1. Piece(x, y) \in Seq(1 .. InboundLength) /\ Len(Piece(x, y)) = y - x
        BY Zenon, <2>8, <2>9, PieceSeq, Constants
      <4> QED BY Zenon, <3>1, <4>1
    <3>3. From(g) + Len(g.data) = y /\ From(g) = x BY <2>7, <2>8, <3>2 DEF x
    <3>4. g \in Segment BY Zenon, <2>2, <2>3, <2>5, <2>6, <2>7, <3>2 DEF Segment
    <3>5. x <= InboundLength BY <2>8, <2>9, Constants
    <3>6. Heard(g) BY Zenon, <2>2, <2>9, <3>1, <3>3, <3>4, <3>5 DEF Heard
    <3> QED BY Zenon, <2>4, <2>5, <3>4, <3>6 DEF Arrives
  <2>10. CASE x = InboundLength + 1 /\ y = InboundLength + 1 /\ ~p[3]
    <3>1. g.data = <<>>
      <4>1. Len(Inbound) = InboundLength /\ Inbound \in Seq(1 .. InboundLength)
        <5>1. Inbound = Piece(0, InboundLength) BY Constants DEF Inbound, Piece
        <5> QED BY <5>1, PieceSeq, Constants
      <4>2. x + 1 > y BY <2>8, <2>10
      <4>3. SubSeq(Inbound, x + 1, y) = <<>> BY <2>8, <4>1, <4>2, SubSeqEmpty
      <4> QED BY Zenon, <2>2, <4>3 DEF x, y
    <3>2. g.data \in Seq(1 .. InboundLength) BY <3>1
    <3>3. g \in Segment BY Zenon, <2>2, <2>3, <2>5, <2>6, <2>7, <3>2 DEF Segment
    <3> QED BY Zenon, <2>2, <2>4, <2>5, <2>10, <3>1, <3>3 DEF Arrives
  <2> QED BY Zenon, <2>6, <2>9, <2>10 DEF x, y
<1>2. CASE g \in Resets
  <2>1. PICK n \in 0 .. InboundLength + 1 :
          g = [kind |-> "rst", sequence |-> Plus(InitialReceive, n), data |-> <<>>,
               finish |-> FALSE, ack |-> InitialSend, window |-> 0]
    BY Zenon, <1>2 DEF Resets
  <2>2. n \in Number BY Constants DEF Number
  <2>3. Plus(InitialReceive, n) \in Number /\ InitialSend \in Number
    BY Zenon, <2>2, NumberOfPlace, Constants
  <2>4. <<>> \in Seq(1 .. InboundLength) OBVIOUS
  <2>5. g \in Segment BY Zenon, <2>1, <2>3, <2>4 DEF Segment
  <2> QED BY Zenon, <2>1, <2>5 DEF Arrives
<1>3. CASE g = NoFrame
  <2>1. 0 \in Number /\ <<>> \in Seq(1 .. InboundLength) BY Constants DEF Number
  <2> QED BY Zenon, <1>3, <2>1 DEF NoFrame, Segment, Arrives
<1> QED BY Zenon, <1>1, <1>2, <1>3

LEMMA WaitedType ==
  ASSUME unanswered \in 0 .. Interval, NEW r, NEW s
  PROVE  Waited(r, s) \in 0 .. Interval
BY Constants DEF Waited

LEMMA PollSound == ASSUME IInv, poll PROVE IInv'
<1>1. PICK g \in Segments \cup Resets \cup {NoFrame}, io \in IO :
        stack' = flush_retransmission(
                   flush_timers(handle_tcp(flush_acknowledgement(stack, io), g, io), io), io)
  BY Zenon DEF poll
<1>2. unanswered' = Waited(stack.socket, stack'.socket) /\ delivered' = delivered
  BY Zenon DEF poll
<1> DEFINE a == flush_acknowledgement(stack, io)
           h == handle_tcp(a, g, io)
           t == flush_timers(h, io)
           m == flush_retransmission(t, io)
<1>3. Keeps(stack, a) /\ Sound(a, delivered) /\ Owes(a)
  BY Zenon, FlushKeeps, KeptSound DEF IInv, Sound
<1>4. Sound(h, delivered) /\ Owes(h)
  <2>1. CASE stack.socket.state \in Synchronized
    <3>1. Arrives(g, stack.socket) BY Zenon, <2>1, FrameArrives
    <3>2. Written(a.socket) = Written(stack.socket)
      BY Zenon, <1>3 DEF Keeps, SameStreams, SameSend, Written
    <3>3. Arrives(g, a.socket) BY Zenon, <3>1, <3>2 DEF Arrives
    <3> HIDE DEF a
    <3> QED BY Zenon, <1>3, <3>3, HandleSound
  <2>2. CASE stack.socket.state \notin Synchronized
    <3>1. a.socket.state \notin Synchronized BY Zenon, <1>3, <2>2 DEF Keeps, SameStreams
    <3> HIDE DEF a
    <3>2. h = a BY Zenon, <3>1 DEF handle_tcp
    <3> QED BY Zenon, <1>3, <3>2
  <2> QED BY Zenon, <2>1, <2>2
<1> HIDE DEF h
<1>5. Sound(t, delivered) /\ Owes(t) BY Zenon, <1>4, TimersSound
<1> HIDE DEF t
<1>6. Sound(m, delivered) /\ Owes(m) BY Zenon, <1>5, RetransmissionSound
<1>7. stack' = m BY Zenon, <1>1 DEF a, h, t
<1>8. unanswered' \in 0 .. Interval BY Zenon, <1>2, WaitedType DEF IInv
<1> HIDE DEF m
<1> QED BY Zenon, <1>2, <1>6, <1>7, <1>8 DEF IInv

-----------------------------------------------------------------------------
(* The socket calls.                                                       *)

LEMMA DrainFixed ==
  ASSUME NEW k, DrainTurn(k) = k
  PROVE  drain_reassembly(k) = k
<1> DEFINE N == ReassemblyCapacity + 1
<1>0. N \in Nat /\ N = ReassemblyCapacity + 1 BY Constants
<1> HIDE DEF N
<1>1. PICK f : /\ f[0] = k
               /\ \A n \in 1 .. N : f[n] = DrainTurn(f[n - 1])
               /\ drain_reassembly(k) = f[N]
  BY Zenon, <1>0, DrainTurns
<1> DEFINE Bad == {n \in 0 .. N : f[n] # k}
<1>2. Bad = {}
  <2> SUFFICES ASSUME Bad # {} PROVE FALSE BY Zenon
  <2>1. Bad \in SUBSET Nat /\ Bad \in SUBSET (0 .. N) BY <1>0
  <2>2. PICK n \in Bad : \A y \in Bad : n <= y
    <3> HIDE DEF Bad
    <3> QED BY Zenon, <2>1, LeastNat
  <2>3. n # 0 /\ f[n] # k BY Zenon, <1>1, <2>2
  <2>4. n \in 1 .. N /\ n - 1 \in 0 .. N /\ n - 1 \notin Bad
    <3>1. n \in 0 .. N BY Zenon, <2>1
    <3> HIDE DEF Bad
    <3> QED BY <1>0, <2>2, <2>3, <3>1
  <2>5. f[n - 1] = k BY Zenon, <2>4
  <2> QED BY Zenon, <1>1, <2>3, <2>4, <2>5
<1> QED BY <1>0, <1>1, <1>2

\* The first bytes of the buffer go to the application, which had everything
\* before them (socket.hpp:469).
LEMMA TakenSound ==
  ASSUME NEW k, NEW d, Sound(k, d), NEW s, s = k.socket, ~s.read_closed,
         NEW size \in Nat, size > 0, size <= Len(s.receive_buffer)
  PROVE  LET t == [s EXCEPT !.receive_buffer = SubSeq(@, size + 1, Len(@))]
             c == d \o SubSeq(s.receive_buffer, 1, size)
         IN  /\ t \in Socket /\ Reads(t, c) /\ Window(t) = Window(s) + size
             /\ c \in Seq(1 .. InboundLength) /\ c = Piece(0, Len(c))
             /\ Len(c) <= InboundLength /\ s.state \notin {"free", "reset"}
<1> DEFINE t == [s EXCEPT !.receive_buffer = SubSeq(@, size + 1, Len(@))]
           c == d \o SubSeq(s.receive_buffer, 1, size)
           q == Len(s.receive_buffer)
           y == InOrder(s)
           x == y - q
           z == x + size
           b == SubSeq(s.receive_buffer, size + 1, q)
<1>0. s \in Socket /\ s.receive_buffer \in Seq(1 .. InboundLength) BY Zenon DEF Sound, Stack, Socket
<1>1. q \in Nat /\ Got(s) \in Nat /\ InboundLength \in Nat /\ Capacity \in Nat
  <2>1. Got(s) \in Number BY Zenon, <1>0, Places
  <2>2. q \in Nat BY Zenon, <1>0, LenProperties
  <2> QED BY <2>1, <2>2, Constants DEF Number
<1>2. y \in Nat /\ y <= InboundLength BY <1>1 DEF InOrder, Least
<1>3. s.state \notin {"free", "reset"}
  <2>1. Len(<<>>) = 0 BY Zenon
  <2>2. s.receive_buffer # <<>> BY <1>1, <2>1
  <2> QED BY Zenon, <2>2 DEF Sound, Receives
<1>4. Reads(s, d) /\ d \in Seq(1 .. InboundLength) /\ d = Piece(0, Len(d))
  BY Zenon, <1>3 DEF Sound, Receives
<1>5. /\ q <= y /\ q <= Capacity /\ s.receive_buffer = Piece(x, y) /\ Len(d) + q = y
      /\ Len(d) \in Nat
  BY Zenon, <1>4, LenProperties DEF Reads
<1> HIDE DEF q, y
<1>a. size <= q BY Zenon DEF q
<1> HIDE DEF t, c
<1>6. x \in Int /\ 0 <= x /\ x <= z /\ z <= y /\ z \in Int /\ y \in Int /\ x <= y
  BY <1>1, <1>2, <1>5, <1>a
<1>b. x = Len(d) /\ z - x = size /\ y - x = q /\ x + size = z /\ x + q = y
  BY <1>1, <1>2, <1>5, <1>a
<1>7. SubSeq(s.receive_buffer, 1, size) = Piece(x, z)
  <2>1. 0 \in Int /\ size \in Int /\ 0 <= 0 /\ 0 <= size /\ size <= y - x
    BY <1>1, <1>a, <1>b
  <2>2. SubSeq(Piece(x, y), 1, size) = Piece(x, x + size)
    <3> HIDE DEF x, z
    <3> QED BY <1>6, <2>1, PieceSplit
  <2> QED BY Zenon, <1>5, <1>b, <2>2
<1>8. b = Piece(z, y)
  <2>1. size \in Int /\ q \in Int /\ 0 <= size /\ size <= q /\ q <= y - x
    BY <1>1, <1>2, <1>a, <1>b
  <2>2. SubSeq(Piece(x, y), size + 1, y - x) = Piece(x + size, y)
    <3> HIDE DEF x, z
    <3>1. size <= y - x BY <1>6, <2>1
    <3> QED BY <1>6, <2>1, <3>1, PieceSplit
  <2> QED BY Zenon, <1>5, <1>b, <2>2
<1> HIDE DEF x, z, b
<1>9. c = Piece(0, z)
  <2>1. 0 \in Int /\ 0 <= 0 OBVIOUS
  <2>2. Piece(0, x) \o Piece(x, z) = Piece(0, z) BY Zenon, <1>6, <2>1, PieceJoin
  <2> QED BY Zenon, <1>4, <1>7, <1>b, <2>2 DEF c
<1>10. c \in Seq(1 .. InboundLength) /\ Len(c) = z
  <2>1. 0 \in Int /\ 0 <= 0 /\ 0 <= z /\ z <= InboundLength /\ z - 0 = z BY <1>1, <1>2, <1>6
  <2>2. Piece(0, z) \in Seq(1 .. InboundLength) /\ Len(Piece(0, z)) = z - 0
    BY Zenon, <1>1, <1>6, <2>1, PieceSeq
  <2> QED BY Zenon, <1>9, <2>1, <2>2
<1>11. b \in Seq(1 .. InboundLength) /\ Len(b) = y - z
  <2>1. 0 <= z BY <1>6
  <2>2. Piece(z, y) \in Seq(1 .. InboundLength) /\ Len(Piece(z, y)) = y - z
    BY Zenon, <1>1, <1>2, <1>6, <2>1, PieceSeq
  <2> QED BY Zenon, <1>8, <2>2
<1>12. t = [s EXCEPT !.receive_buffer = b] BY Zenon, <1>0 DEF b, q, t, Socket
<1>13. /\ t \in Socket /\ t.receive_buffer = b /\ t.receive_next = s.receive_next
       /\ t.receive_closed = s.receive_closed /\ t.read_closed = s.read_closed
  BY Zenon, <1>0, <1>11, <1>12 DEF Socket
<1>14. Got(t) = Got(s) /\ InOrder(t) = y BY Zenon, <1>13 DEF Got, InOrder, y
<1>15. Window(t) = Window(s) + size
  <2>1. Window(s) = Capacity - q /\ Window(t) = Capacity - (y - z)
    BY Zenon, <1>11, <1>13 DEF Window, q
  <2> QED BY <1>1, <1>2, <1>6, <1>b, <2>1
<1>16. Reads(t, c)
  <2>1. y - (y - z) = z /\ y - z <= y /\ y - z <= Capacity /\ z <= y /\ z + (y - z) = y
    <3>1. q \in Nat /\ q <= Capacity /\ y - z <= q BY <1>1, <1>5, <1>6, <1>b
    <3>2. y - z \in Int /\ 0 <= z BY <1>6
    <3> QED BY <1>1, <1>2, <1>6, <3>1, <3>2
  <2>2. b = Piece(y - (y - z), y) BY Zenon, <1>8, <2>1
  <2> QED BY Zenon, <1>4, <1>10, <1>11, <1>13, <1>14, <2>1, <2>2 DEF Reads
<1>17. Len(c) <= InboundLength BY <1>1, <1>2, <1>6, <1>10
<1> QED BY Zenon, <1>3, <1>9, <1>10, <1>13, <1>15, <1>16, <1>17 DEF t, c

\* A stored piece stays inside a window that grows.
LEMMA StoredWider ==
  ASSUME NEW e \in Ahead, NEW s \in Socket, NEW t \in Socket, Stored(e, s),
         Got(t) = Got(s), Window(s) <= Window(t)
  PROVE  Stored(e, t)
<1>1. From(e) \in Number /\ Len(e.data) \in Nat /\ Bit(e.finish) \in {0, 1}
  BY Zenon, EntryPlaces
<1>2. Got(s) \in Number /\ Window(s) \in Int /\ Window(t) \in Int BY Zenon, Places
<1> DEFINE z == (From(e) + Len(e.data)) + Bit(e.finish)
<1>3. z \in Int BY <1>1 DEF Number
<1>4. z <= Got(s) + Window(s) BY Zenon DEF Stored
<1> HIDE DEF z
<1>5. z <= Got(t) + Window(t) BY <1>2, <1>3, <1>4 DEF Number
<1> QED BY Zenon, <1>5 DEF Stored, z

\* socket_read (socket.hpp:469).
LEMMA ReadSound ==
  ASSUME IInv, NEW size \in 1 .. Capacity, socket_read(size)
  PROVE  IInv'
<1> DEFINE s == stack.socket
           t == [s EXCEPT !.receive_buffer = SubSeq(@, size + 1, Len(@))]
           c == delivered \o SubSeq(s.receive_buffer, 1, size)
           k == [stack EXCEPT !.socket = t]
           r == drain_reassembly(k)
           since == IF s.state # "time_wait" /\ r.socket.state = "time_wait"
                    THEN 0 ELSE r.socket.state_since
           u == [r.socket EXCEPT !.acknowledgement_retries = 1, !.state_since = since]
<1>0. /\ stack \in Stack /\ s \in Socket /\ Sound(stack, delivered)
      /\ size \in Nat /\ size > 0 /\ 0 \in 0 .. Interval
  BY Constants DEF IInv, Sound, Stack
<1>1. /\ ~s.read_closed /\ size <= Len(s.receive_buffer)
      /\ delivered' = c /\ unanswered' = unanswered
      /\ stack' = [r EXCEPT !.socket.acknowledgement_retries = 1,
                            !.socket.state_since = since]
  <2>1. k = [stack EXCEPT !.socket.receive_buffer = SubSeq(@, size + 1, Len(@))]
    BY Zenon, <1>0 DEF Stack
  <2>2. /\ ~s.read_closed /\ size <= Len(s.receive_buffer)
        /\ delivered' = c /\ unanswered' = unanswered
    BY Zenon DEF socket_read
  <2> HIDE DEF k
  <2>3. stack' = [r EXCEPT !.socket.acknowledgement_retries = 1,
                           !.socket.state_since = IF s.state # "time_wait"
                                /\ r.socket.state = "time_wait" THEN 0 ELSE @]
    BY Zenon, <2>1 DEF socket_read
  <2> HIDE DEF r
  <2> QED BY Zenon, <2>2, <2>3
<1>2. /\ t \in Socket /\ Reads(t, c) /\ Window(t) = Window(s) + size
      /\ c \in Seq(1 .. InboundLength) /\ c = Piece(0, Len(c)) /\ Len(c) <= InboundLength
      /\ s.state \notin {"free", "reset"}
  BY Zenon, <1>0, <1>1, TakenSound
<1>3. /\ t.receive_next = s.receive_next /\ t.receive_closed = s.receive_closed
      /\ t.state = s.state /\ SameSend(s, t) /\ SameClose(s, t)
  BY Zenon, <1>0 DEF Socket, SameSend, SameClose
<1> HIDE DEF t, c
<1>4. /\ k \in Stack /\ k.socket = t /\ k.reassembly_ = stack.reassembly_
      /\ k.transmissions_ = stack.transmissions_
  BY Zenon, <1>0, <1>2, SocketPut
<1> HIDE DEF k
<1>5. Sends(k) BY Zenon, <1>0, <1>3, <1>4, SendsKept DEF Sound, SameState
<1>6. Closes(t)
  BY Zenon, <1>0, <1>3 DEF Sound, Closes, SameSend, SameClose, StateOfFins
<1>7. ASSUME NEW e \in k.reassembly_ PROVE ~t.receive_closed /\ Stored(e, t)
  <2>1. e \in Ahead /\ ~s.receive_closed /\ Stored(e, s)
    BY Zenon, <1>0, <1>4 DEF Sound, Receives, Stack
  <2>2. Got(t) = Got(s) BY Zenon, <1>3 DEF Got
  <2>3. Window(s) <= Window(t)
    <3>1. Window(s) \in Int BY Zenon, <1>0, Places
    <3> QED BY <1>0, <1>2, <3>1
  <2> QED BY Zenon, <1>0, <1>2, <1>3, <2>1, <2>2, <2>3, StoredWider
<1>8. Sound(r, c) /\ r.socket.state # "free"
  <2>1. CASE s.state \in Synchronized
    <3>1. Draining(k, c)
      <4>1. IsFiniteSet(k.reassembly_) /\ Cardinality(k.reassembly_) <= ReassemblyCapacity
        BY Zenon, <1>0, <1>4 DEF Sound, Receives
      <4> QED BY Zenon, <1>2, <1>3, <1>4, <1>5, <1>6, <1>7, <2>1, <4>1 DEF Draining
    <3>2. Draining(r, c) /\ Settled(r) BY Zenon, <3>1, DrainSound
    <3> HIDE DEF r
    <3>3. Sound(r, c) /\ r.socket.state \in Synchronized BY Zenon, <3>2, DrainedSound
    <3> QED BY Zenon, <3>3 DEF Synchronized
  <2>2. CASE s.state \notin Synchronized
    <3>1. s.state = "closed" BY Zenon, <1>0, <1>2, <2>2 DEF Socket, States
    <3>2. s.receive_closed BY Zenon, <1>0, <3>1 DEF Sound, Receives
    <3>3. k.reassembly_ = {} BY Zenon, <1>3, <1>7, <3>2
    <3>4. DrainTurn(k) = k BY Zenon, <1>3, <1>4, <3>2, <3>3 DEF DrainTurn, Stack
    <3>5. r = k BY Zenon, <3>4, DrainFixed
    <3> HIDE DEF r
    <3>6. IsFiniteSet({}) /\ Cardinality({}) = 0 BY Zenon, FS_EmptySet
    <3>7. Receives(k, c)
      <4>1. IsFiniteSet(k.reassembly_) /\ Cardinality(k.reassembly_) <= ReassemblyCapacity
        BY <3>3, <3>6, Constants
      <4>2. k.socket.state = "closed" /\ k.socket.receive_closed BY Zenon, <1>3, <1>4, <3>1, <3>2
      <4> QED BY Zenon, <1>2, <1>4, <3>3, <4>1, <4>2 DEF Receives
    <3> QED BY Zenon, <1>3, <1>4, <1>5, <1>6, <3>1, <3>5, <3>7 DEF Sound
  <2> QED BY Zenon, <2>1, <2>2
<1> HIDE DEF r
<1>9. r \in Stack /\ r.socket \in Socket BY Zenon, <1>8 DEF Sound, Stack
<1>10. since \in 0 .. Interval BY Zenon, <1>0, <1>9 DEF Socket
<1> HIDE DEF since
<1>11. stack' = [r EXCEPT !.socket = u] BY Zenon, <1>1, <1>9 DEF Stack
<1>12. u \in Socket /\ SameStreams(r.socket, u) /\ u.acknowledgement_retries = 1
  BY Zenon, <1>9, <1>10 DEF Socket, SameStreams, SameReceive, SameSend
<1> HIDE DEF u
<1> DEFINE m == [r EXCEPT !.socket = u]
<1>13. /\ m \in Stack /\ m.socket = u
       /\ m.reassembly_ = r.reassembly_ /\ m.transmissions_ = r.transmissions_
  BY Zenon, <1>9, <1>12, SocketPut
<1> HIDE DEF m
<1>14. Keeps(r, m) /\ Owes(m) BY Zenon, <1>12, <1>13 DEF Keeps, Owes
<1>15. Sound(m, c) BY Zenon, <1>8, <1>14, KeptSound
<1>16. stack' = m BY Zenon, <1>11 DEF m
<1> QED BY Zenon, <1>1, <1>14, <1>15, <1>16 DEF IInv

\* socket_shutdown (stack.cpp:173).
LEMMA ShutdownSound ==
  ASSUME IInv, NEW how \in 0 .. 2, socket_shutdown(how)
  PROVE  IInv'
<1> DEFINE d == delivered
<1>1. PICK io \in IO :
        stack' = LET l == IF how # 0 THEN request_fin(stack, io) ELSE stack
                 IN  IF how = 1 THEN l
                     ELSE [l EXCEPT !.socket.read_closed = TRUE,
                                    !.socket.receive_buffer = <<>>,
                                    !.socket.acknowledgement_retries = 1]
  BY Zenon DEF socket_shutdown
<1>2. /\ stack.socket.state \in Synchronized /\ delivered' = d
      /\ unanswered' = Waited(stack.socket, stack'.socket)
  BY Zenon DEF socket_shutdown
<1>3. unanswered' \in 0 .. Interval BY Zenon, <1>2, WaitedType DEF IInv
<1> DEFINE l == IF how # 0 THEN request_fin(stack, io) ELSE stack
           t == [l.socket EXCEPT !.read_closed = TRUE, !.receive_buffer = <<>>,
                                 !.acknowledgement_retries = 1]
           m == [l EXCEPT !.socket = t]
<1>4. Sound(l, d) /\ Owes(l) BY Zenon, <1>2, RequestSound DEF IInv
<1>5. stack' = IF how = 1 THEN l
               ELSE [l EXCEPT !.socket.read_closed = TRUE, !.socket.receive_buffer = <<>>,
                              !.socket.acknowledgement_retries = 1]
  BY Zenon, <1>1
<1> HIDE DEF l
<1>6. CASE how = 1 BY Zenon, <1>2, <1>3, <1>4, <1>5, <1>6 DEF IInv
<1>7. CASE how # 1
  <2>1. l \in Stack /\ l.socket \in Socket /\ <<>> \in Seq(1 .. InboundLength)
    BY <1>4 DEF Sound, Stack
  <2>2. stack' = m BY Zenon, <1>5, <1>7, <2>1 DEF Stack
  <2>3. /\ t \in Socket /\ t.state = l.socket.state
        /\ t.receive_next = l.socket.receive_next
        /\ t.receive_closed = l.socket.receive_closed
        /\ t.receive_buffer = <<>> /\ t.read_closed /\ t.acknowledgement_retries = 1
        /\ SameSend(l.socket, t) /\ SameClose(l.socket, t)
    BY Zenon, <2>1 DEF Socket, SameSend, SameClose
  <2> HIDE DEF t
  <2>4. /\ m \in Stack /\ m.socket = t
        /\ m.reassembly_ = l.reassembly_ /\ m.transmissions_ = l.transmissions_
    BY Zenon, <2>1, <2>3, SocketPut
  <2> HIDE DEF m
  <2>5. Sound(m, d) BY Zenon, <1>4, <2>3, <2>4, DropSound
  <2>6. Owes(m) BY Zenon, <2>3, <2>4 DEF Owes
  <2> QED BY Zenon, <1>2, <1>3, <2>2, <2>5, <2>6 DEF IInv
<1> QED BY Zenon, <1>6, <1>7

\* socket_retain (socket.hpp:214).
LEMMA RetainSound == ASSUME IInv, socket_retain PROVE IInv'
<1> DEFINE s == stack.socket
           t == [s EXCEPT !.references = s.references + 1]
           m == [stack EXCEPT !.socket = t]
<1>0. stack \in Stack /\ s \in Socket /\ Sound(stack, delivered)
  BY Zenon DEF IInv, Sound, Stack
<1>1. /\ ~s.detached /\ s.references < MaxReferences
      /\ stack' = [stack EXCEPT !.socket.references = @ + 1]
      /\ delivered' = delivered /\ unanswered' = unanswered
  BY Zenon DEF socket_retain, Owned
<1>2. s.references + 1 \in 0 .. MaxReferences
  <2>1. s.references \in 0 .. MaxReferences BY Zenon, <1>0 DEF Socket
  <2> QED BY <1>1, <2>1, Constants
<1>3. stack' = m BY Zenon, <1>0, <1>1 DEF Stack
<1>4. t \in Socket /\ SameStreams(s, t)
      /\ t.acknowledgement_retries = s.acknowledgement_retries
  BY Zenon, <1>0, <1>1, <1>2 DEF Socket, SameStreams, SameReceive, SameSend
<1> HIDE DEF t
<1>5. Keeps(stack, m) /\ Owes(m) BY Zenon, <1>0, <1>4, Touched DEF IInv
<1> HIDE DEF m
<1>6. Sound(m, delivered) BY Zenon, <1>0, <1>5, KeptSound
<1> QED BY Zenon, <1>1, <1>3, <1>5, <1>6 DEF IInv

\* The last descriptor of a live connection goes: the slot stays until the
\* peer has everything (stack.cpp:87).
LEMMA DetachSound ==
  ASSUME NEW k, NEW d, Sound(k, d), Owes(k), k.socket.references = 1
  PROVE  LET m == [k EXCEPT !.socket.detached = TRUE]
         IN  Sound(m, d) /\ Owes(m) /\ m.socket.state = k.socket.state
<1> DEFINE s == k.socket
           t == [s EXCEPT !.detached = TRUE]
           m == [k EXCEPT !.socket = t]
<1>0. k \in Stack /\ s \in Socket BY Zenon DEF Sound, Stack
<1>1. m = [k EXCEPT !.socket.detached = TRUE] BY Zenon, <1>0 DEF Stack
<1>2. /\ t \in Socket /\ t.state = s.state /\ SameReceive(s, t) /\ SameSend(s, t)
      /\ t.references = 1 /\ t.send_closed = s.send_closed
      /\ t.active_close = s.active_close
      /\ t.acknowledgement_retries = s.acknowledgement_retries
  BY Zenon, <1>0 DEF Socket, SameReceive, SameSend
<1> HIDE DEF t
<1>3. /\ m \in Stack /\ m.socket = t /\ m.told = k.told
      /\ m.reassembly_ = k.reassembly_ /\ m.transmissions_ = k.transmissions_
  BY Zenon, <1>0, <1>2, SocketPut
<1> HIDE DEF m
<1>4. SameState(s, t) BY Zenon, <1>2 DEF SameState
<1>5. Receives(m, d) BY Zenon, <1>2, <1>3, <1>4, ReceivesKept DEF Sound
<1>6. Sends(m) BY Zenon, <1>2, <1>3, <1>4, SendsKept DEF Sound
<1>7. Closes(t) BY Zenon, <1>2 DEF Sound, Closes, StateOfFins, SameReceive, SameSend
<1>8. Told(t) = Told(s) BY Zenon, <1>2 DEF SameReceive, Told, Window
<1>9. Sound(m, d) /\ Owes(m) /\ m.socket.state = s.state
  BY Zenon, <1>2, <1>3, <1>5, <1>6, <1>7, <1>8 DEF Sound, Owes
<1> QED BY Zenon, <1>1, <1>9

\* socket_close (stack.cpp:76).
LEMMA CloseSound == ASSUME IInv, socket_close PROVE IInv'
<1> DEFINE s == stack.socket
           d == delivered
           c == clear_transmissions(stack)
           f == release(stack)
           l == [stack EXCEPT !.socket.detached = TRUE]
<1>0. stack \in Stack /\ s \in Socket /\ Sound(stack, d) /\ Owes(stack)
  BY Zenon DEF IInv, Sound, Stack
<1>1. /\ s.references > 0 /\ ~s.detached /\ d' = d
      /\ unanswered' = Waited(s, stack'.socket)
  BY Zenon DEF socket_close, Owned
<1>2. unanswered' \in 0 .. Interval BY Zenon, <1>1, WaitedType DEF IInv
<1>3. PICK io \in IO :
        stack' = IF s.references = 1 /\ s.fin_acked /\ s.receive_closed
                      /\ s.state # "time_wait" THEN release(c)
                 ELSE IF s.references = 1 /\ s.state \in Synchronized
                 THEN request_fin(l, io)
                 ELSE IF s.references = 1 THEN clear_transmissions(f) ELSE f
  BY Zenon DEF socket_close
<1>4. CASE s.references = 1
  <2>1. s.references <= 1 BY <1>4
  <2>2. c \in Stack /\ c.socket = s /\ c.transmissions_ = {} BY Zenon, <1>0, ClearType
  <2> HIDE DEF c
  <2>3. Sound(release(c), d) /\ Owes(release(c)) BY Zenon, <1>0, <2>1, <2>2, ReleaseLast
  <2>4. ASSUME s.state \in Synchronized
        PROVE  Sound(request_fin(l, io), d) /\ Owes(request_fin(l, io))
    <3>1. Sound(l, d) /\ Owes(l) /\ l.socket.state = s.state BY Zenon, <1>0, <1>4, DetachSound
    <3> HIDE DEF l
    <3> QED BY Zenon, <2>4, <3>1, RequestSound
  <2>5. ASSUME s.state \notin Synchronized
        PROVE  Sound(clear_transmissions(f), d) /\ Owes(clear_transmissions(f))
    <3>1. stack.transmissions_ = {} BY Zenon, <1>0, <2>5 DEF Sound, Sends
    <3>2. Sound(f, d) /\ Owes(f) /\ f.socket = Free
      BY Zenon, <1>0, <2>1, <3>1, ReleaseLast
    <3> HIDE DEF f
    <3>3. f \in Stack /\ f.transmissions_ = {} BY Zenon, <3>2, FreeType DEF Sound, Sends
    <3>4. clear_transmissions(f) = f BY Zenon, <3>3 DEF clear_transmissions, Stack
    <3> QED BY Zenon, <3>2, <3>4
  <2> HIDE DEF l, f
  <2> QED BY Zenon, <1>1, <1>2, <1>3, <1>4, <2>3, <2>4, <2>5 DEF IInv
<1>5. CASE s.references # 1
  <2> DEFINE t == [s EXCEPT !.references = s.references - 1]
             m == [stack EXCEPT !.socket = t]
  <2>1. s.references \in 0 .. MaxReferences /\ MaxReferences \in Nat
    BY Zenon, <1>0, Constants DEF Socket
  <2>2. s.references > 1 /\ s.references - 1 \in 0 .. MaxReferences BY <1>1, <1>5, <2>1
  <2>3. stack' = m
    <3>1. stack' = f BY Zenon, <1>3, <1>5
    <3>2. f = [stack EXCEPT !.socket.references = @ - 1] BY Zenon, <2>2 DEF release
    <3> QED BY Zenon, <1>0, <3>1, <3>2 DEF Stack
  <2>4. t \in Socket /\ SameStreams(s, t)
        /\ t.acknowledgement_retries = s.acknowledgement_retries
    BY Zenon, <1>0, <1>1, <2>2 DEF Socket, SameStreams, SameReceive, SameSend
  <2> HIDE DEF t
  <2>5. Keeps(stack, m) /\ Owes(m) BY Zenon, <1>0, <2>4, Touched
  <2> HIDE DEF m
  <2>6. Sound(m, d) BY Zenon, <1>0, <2>5, KeptSound
  <2> QED BY Zenon, <1>1, <1>2, <2>3, <2>5, <2>6 DEF IInv
<1> QED BY Zenon, <1>4, <1>5

\* A new connection finds an empty slot (socket.hpp:355).
LEMMA ConnectSound == ASSUME IInv, connect PROVE IInv'
<1>1. PICK w \in Windows :
        stack' = [send_segment([stack EXCEPT !.socket = Established(w)])
                    EXCEPT !.blame = "none"]
  BY Zenon DEF connect
<1>2. stack.socket.state = "free" /\ delivered' = <<>> /\ unanswered' = unanswered
  BY Zenon DEF connect
<1> DEFINE t == Established(w)
           k == [stack EXCEPT !.socket = t]
           g == send_segment(k)
           m == [g EXCEPT !.blame = "none"]
<1>0. stack \in Stack /\ Sound(stack, delivered) BY Zenon DEF IInv, Sound
<1>3. /\ InitialSend \in Number /\ InitialReceive \in Number /\ w \in Nat
      /\ 0 \in 0 .. Interval /\ 1 \in 0 .. MaxReferences
      /\ <<>> \in Seq(1 .. InboundLength)
  BY Constants
<1>4. /\ Free \in Socket /\ Free.receive_buffer = <<>> /\ ~Free.receive_closed
      /\ ~Free.detached /\ ~Free.send_closed /\ ~Free.fin_sent /\ ~Free.fin_acked
      /\ ~Free.active_close /\ ~Free.read_closed
  BY Zenon, FreeType DEF Free
<1>5. /\ t \in Socket /\ t.state = "established" /\ t.receive_buffer = <<>>
      /\ t.send_next = InitialSend /\ t.send_unacknowledged = InitialSend
      /\ t.receive_next = InitialReceive /\ ~t.receive_closed /\ ~t.detached
      /\ ~t.send_closed /\ ~t.fin_sent /\ ~t.fin_acked /\ ~t.active_close /\ ~t.read_closed
  BY Zenon, <1>3, <1>4 DEF Established, Socket, States, Synchronized
<1> HIDE DEF t
<1>6. /\ k \in Stack /\ k.socket = t /\ k.reassembly_ = stack.reassembly_
      /\ k.transmissions_ = stack.transmissions_
  BY Zenon, <1>0, <1>5, SocketPut
<1> HIDE DEF k
<1>7. Keeps(k, g) /\ Owes(g) BY Zenon, <1>6, SegmentKeeps
<1> HIDE DEF g
<1>8. /\ m \in Stack /\ m.socket = g.socket /\ m.told = g.told
      /\ m.reassembly_ = g.reassembly_ /\ m.transmissions_ = g.transmissions_
  BY Zenon, <1>7 DEF Keeps, Stack
<1>9. stack' = m BY Zenon, <1>1 DEF g, k, t
<1> HIDE DEF m
<1>10. Keeps(k, m) /\ Owes(m)
  BY Zenon, <1>7, <1>8 DEF Keeps, SameStreams, SameReceive, SameSend, Owes
<1>11. Sound(k, <<>>)
  <2>1. Got(t) = 0 /\ Acked(t) = 0 /\ Written(t) = 0
    <3>1. \A i \in Number : Minus(i, i) = 0 BY Constants DEF Minus, Number
    <3> QED BY Zenon, <1>3, <1>5, <3>1 DEF Got, Acked, Written
  <2>2. stack.reassembly_ = {} /\ stack.transmissions_ = {}
    BY Zenon, <1>0, <1>2 DEF Sound, Receives, Sends, Synchronized
  <2>3. Len(<<>>) = 0 /\ Piece(0, 0) = <<>> BY PieceEmpty
  <2>4. Reads(t, <<>>)
    <3>1. InOrder(t) = 0 BY <2>1, Constants DEF InOrder, Least
    <3>2. 0 <= InboundLength + 1 /\ 0 # InboundLength + 1 /\ 0 <= Capacity BY Constants
    <3>3. Piece(0 - 0, 0) = <<>> BY <2>3
    <3> QED BY <1>5, <2>1, <2>3, <3>1, <3>2, <3>3 DEF Reads
  <2>5. IsFiniteSet({}) /\ Cardinality({}) = 0 BY Zenon, FS_EmptySet
  <2>6. 0 <= ReassemblyCapacity /\ 0 <= TransmitCapacity /\ 0 <= OutboundLength
        /\ 0 <= InboundLength
    BY Constants
  <2>7. Receives(k, <<>>)
    BY Zenon, <1>3, <1>5, <1>6, <2>2, <2>3, <2>4, <2>5, <2>6 DEF Receives
  <2>8. Tiles({}, 0, 0) BY DEF Tiles
  <2>9. Sends(k)
    <3>1. Bit(t.fin_sent) = 0 /\ 0 - 0 = 0 /\ 0 <= 0 BY <1>5 DEF Bit
    <3> QED BY Zenon, <1>5, <1>6, <2>1, <2>2, <2>5, <2>6, <2>8, <3>1 DEF Sends
  <2>10. Closes(t) BY Zenon, <1>5 DEF Closes, StateOfFins
  <2> QED BY Zenon, <1>6, <2>7, <2>9, <2>10 DEF Sound
<1>12. Sound(m, <<>>) BY Zenon, <1>10, <1>11, KeptSound
<1> QED BY Zenon, <1>2, <1>9, <1>10, <1>12 DEF IInv

LEMMA TickSound == ASSUME IInv, Tick PROVE IInv'
<1> DEFINE s == stack.socket
           older(n) == Least(n + 1, Interval)
           a == older(s.progress_at)
           b == older(s.state_since)
           t == [s EXCEPT !.progress_at = a, !.state_since = b]
           m == [stack EXCEPT !.socket = t]
<1>0. stack \in Stack /\ s \in Socket /\ Sound(stack, delivered)
      /\ unanswered \in 0 .. Interval
  BY Zenon DEF IInv, Sound, Stack
<1>1. ASSUME NEW n \in 0 .. Interval PROVE older(n) \in 0 .. Interval
  BY Constants DEF Least
<1>2. s.progress_at \in 0 .. Interval /\ s.state_since \in 0 .. Interval BY Zenon, <1>0 DEF Socket
<1>3. a \in 0 .. Interval /\ b \in 0 .. Interval BY Zenon, <1>1, <1>2
<1>4. /\ stack' = [stack EXCEPT !.socket.progress_at = older(@),
                                !.socket.state_since = older(@)]
      /\ unanswered' = IF Outstanding(s) THEN older(unanswered) ELSE 0
      /\ delivered' = delivered
  BY Zenon DEF Tick
<1>5. unanswered' \in 0 .. Interval
  <2>1. older(unanswered) \in 0 .. Interval BY Zenon, <1>0, <1>1
  <2>2. 0 \in 0 .. Interval BY Constants
  <2> HIDE DEF older
  <2> QED BY Zenon, <1>4, <2>1, <2>2
<1>6. stack' = m BY Zenon, <1>0, <1>4 DEF Stack
<1> HIDE DEF a, b
<1>7. t \in Socket /\ SameStreams(s, t)
      /\ t.acknowledgement_retries = s.acknowledgement_retries
  BY Zenon, <1>0, <1>3 DEF Socket, SameStreams, SameReceive, SameSend
<1> HIDE DEF t
<1>8. Keeps(stack, m) /\ Owes(m) BY Zenon, <1>0, <1>7, Touched DEF IInv
<1> HIDE DEF m
<1>9. Sound(m, delivered) BY Zenon, <1>0, <1>8, KeptSound
<1> QED BY Zenon, <1>4, <1>5, <1>6, <1>8, <1>9 DEF IInv

LEMMA InitSound == ASSUME Init PROVE IInv
<1>1. /\ stack.socket = Free /\ stack.reassembly_ = {} /\ stack.transmissions_ = {}
      /\ stack.told = <<0, 0>> /\ stack.blame = "none" /\ delivered = <<>> /\ unanswered = 0
      /\ stack = [socket |-> Free, reassembly_ |-> {}, transmissions_ |-> {},
                  told |-> <<0, 0>>, blame |-> "none"]
  BY Zenon DEF Init
<1>2. stack \in Stack BY <1>1, FreeType DEF Stack
<1>3. IsFiniteSet({}) /\ Cardinality({}) = 0 BY Zenon, FS_EmptySet
<1>4. 0 <= ReassemblyCapacity /\ 0 <= TransmitCapacity /\ 0 <= InboundLength
      /\ 0 \in 0 .. Interval
  BY Constants
<1>5. Free.state = "free" /\ Free.receive_buffer = <<>> /\ ~Free.detached BY Zenon DEF Free
<1>6. Len(<<>>) = 0 /\ Piece(0, 0) = <<>> /\ <<>> \in Seq(1 .. InboundLength) BY PieceEmpty
<1>7. Receives(stack, delivered)
  BY Zenon, <1>1, <1>3, <1>4, <1>5, <1>6 DEF Receives
<1>8. Sends(stack) BY Zenon, <1>1, <1>3, <1>4, FreeType DEF Sends
<1>9. Closes(Free) BY Zenon, <1>5, FreeType DEF Closes
<1> QED BY Zenon, <1>1, <1>2, <1>4, <1>7, <1>8, <1>9, FreeType DEF IInv, Sound, Owes

-----------------------------------------------------------------------------
(* A write queues segments behind the flight.                              *)

LEMMA Multiples ==
  ASSUME NEW M \in Nat, M > 0
  PROVE  /\ \A a \in Int : a * M \in Int /\ (a + 1) * M = a * M + M
         /\ \A a, b \in Int : a <= b => a * M <= b * M
         /\ \A x \in Nat : /\ x \div M \in Nat
                           /\ (x \div M) * M <= x /\ x < (x \div M) * M + M
<1>1. \A a \in Int : a * M \in Int /\ (a + 1) * M = a * M + M OBVIOUS
<1>2. ASSUME NEW a \in Int, NEW b \in Int, a <= b PROVE a * M <= b * M
  <2>1. b - a >= 0 /\ b - a \in Int BY <1>2
  <2>2. (b - a) * M >= 0 BY <2>1
  <2>3. (b - a) * M = b * M - a * M OBVIOUS
  <2> QED BY <2>2, <2>3
<1>3. ASSUME NEW x \in Nat
      PROVE  x \div M \in Nat /\ (x \div M) * M <= x /\ x < (x \div M) * M + M
  OBVIOUS
<1> QED BY Zenon, <1>1, <1>2, <1>3

LEMMA TilesJoin ==
  ASSUME NEW T \in SUBSET Sent, NEW V \in SUBSET Sent, NEW a \in Int, NEW b \in Int,
         NEW c \in Int, a <= b, b <= c, Tiles(T, a, b), Tiles(V, b, c)
  PROVE  Tiles(T \cup V, a, c)
<1>1. \A e \in T \cup V : Place(e) \in Int /\ Len(e.data) \in Int
  BY EntryPlaces DEF Number
<1>2. ASSUME NEW e \in T \cup V
      PROVE  /\ e.data = Piece(Place(e), Place(e) + Len(e.data)) /\ Len(e.data) > 0
             /\ a <= Place(e) /\ Place(e) + Len(e.data) <= c
  <2>1. CASE e \in T
    <3>1. /\ e.data = Piece(Place(e), Place(e) + Len(e.data)) /\ Len(e.data) > 0
          /\ a <= Place(e) /\ Place(e) + Len(e.data) <= b
      BY Zenon, <2>1 DEF Tiles
    <3> QED BY <1>1, <3>1
  <2>2. CASE e \in V
    <3>1. /\ e.data = Piece(Place(e), Place(e) + Len(e.data)) /\ Len(e.data) > 0
          /\ b <= Place(e) /\ Place(e) + Len(e.data) <= c
      BY Zenon, <2>2 DEF Tiles
    <3> QED BY <1>1, <3>1
  <2> QED BY Zenon, <2>1, <2>2
<1>3. ASSUME NEW x \in a + 1 .. c PROVE \E e \in T \cup V : Covers(e, x)
  <2>1. CASE x <= b
    <3>1. x \in a + 1 .. b BY <2>1
    <3> QED BY Zenon, <3>1 DEF Tiles
  <2>2. CASE ~(x <= b)
    <3>1. x \in b + 1 .. c BY <2>2
    <3> QED BY Zenon, <3>1 DEF Tiles
  <2> QED BY Zenon, <2>1, <2>2
<1>4. ASSUME NEW e \in T \cup V, NEW f \in T \cup V, NEW x \in 1 .. OutboundLength,
             Covers(e, x), Covers(f, x)
      PROVE  e = f
  <2>1. \A g \in T : Covers(g, x) => x <= b
    <3> TAKE g \in T
    <3>1. Place(g) + Len(g.data) <= b BY Zenon DEF Tiles
    <3> QED BY <1>1, <3>1 DEF Covers
  <2>2. \A g \in V : Covers(g, x) => b < x
    <3> TAKE g \in V
    <3>1. b <= Place(g) BY Zenon DEF Tiles
    <3> QED BY <1>1, <3>1 DEF Covers
  <2>3. \/ e \in T /\ f \in T
        \/ e \in V /\ f \in V
    BY <1>4, <2>1, <2>2
  <2> QED BY Zenon, <1>4, <2>3 DEF Tiles
<1> QED BY Zenon, <1>2, <1>3, <1>4 DEF Tiles

\* The segments of one write tile the bytes it takes (stack.cpp:294).
LEMMA QueuedTiles ==
  ASSUME NEW s \in Socket, NEW n \in Nat, n > 0, Written(s) + n <= OutboundLength,
         NEW m \in 1 .. (n + Mss - 1) \div Mss
  PROVE  LET V == Queued(s, n, m)
             b == Least(m * Mss, n)
         IN  /\ V \in SUBSET Sent /\ IsFiniteSet(V) /\ Cardinality(V) <= m
             /\ b \in Nat /\ b <= n
             /\ Tiles(V, Written(s), Written(s) + b)
<1> DEFINE V == Queued(s, n, m)
           b == Least(m * Mss, n)
           w == Written(s)
           at(i) == i * Mss
           till(i) == Least((i + 1) * Mss, n)
           Entry(i) == [sequence |-> Plus(s.send_next, i * Mss),
                        data |-> SubSeq(Outbound, w + i * Mss + 1, w + till(i))]
           q == (n + Mss - 1) \div Mss
<1>0. /\ Mss \in Nat /\ Mss > 0 /\ OutboundLength \in Nat /\ w \in Nat /\ w \in Number
      /\ s.send_next \in Number /\ InitialSend \in Number
  <2>1. w \in Number BY Zenon, Places
  <2> QED BY <2>1, Constants DEF Number, Socket
<1>1. /\ \A i \in Int : at(i) \in Int /\ at(i + 1) = at(i) + Mss
      /\ \A i, j \in Int : i <= j => at(i) <= at(j)
      /\ \A x \in Nat : /\ x \div Mss \in Nat
                        /\ at(x \div Mss) <= x /\ x < at(x \div Mss) + Mss
  BY Zenon, <1>0, Multiples
<1>2. at(0) = 0 BY <1>0
<1>3. till(0) = till(0) /\ \A i : till(i) = Least(at(i + 1), n) BY Zenon
<1>4. b = Least(at(m), n) BY Zenon
<1>5. V = {Entry(i) : i \in 0 .. m - 1} BY Zenon DEF Queued, Written
<1>6. \A i : /\ Entry(i).sequence = Plus(s.send_next, at(i))
             /\ Entry(i).data = SubSeq(Outbound, (w + at(i)) + 1, w + till(i))
             /\ Entry(i) = [sequence |-> Entry(i).sequence, data |-> Entry(i).data]
  BY Zenon
<1>7. m \in Nat /\ m >= 1 /\ at(m) <= n + Mss - 1
  <2>1. n + Mss - 1 \in Nat BY <1>0
  <2>2. q \in Nat /\ at(q) <= n + Mss - 1 BY Zenon, <1>1, <2>1
  <2> HIDE DEF q, at
  <2>3. m \in Int /\ 1 <= m /\ m <= q BY <2>2 DEF q
  <2>4. at(m) <= at(q) /\ at(m) \in Int /\ at(q) \in Int BY <1>1, <2>2, <2>3
  <2> QED BY <1>0, <2>2, <2>3, <2>4
<1> HIDE DEF V, at, q, Entry
<1>8. ASSUME NEW i \in 0 .. m - 1
      PROVE  /\ 0 <= at(i) /\ at(i) < n /\ at(i) \in Int /\ at(i) + Mss <= at(m)
             /\ at(i + 1) = at(i) + Mss
  <2>1. i \in Int /\ i + 1 \in Int /\ 0 \in Int /\ m \in Int /\ 0 <= i /\ i + 1 <= m
    BY <1>7
  <2>2. at(0) <= at(i) /\ at(i + 1) <= at(m) /\ at(i + 1) = at(i) + Mss
    BY Zenon, <1>1, <2>1
  <2>3. at(i) \in Int /\ at(m) \in Int BY Zenon, <1>1, <2>1
  <2> QED BY <1>0, <1>2, <1>7, <2>2, <2>3
<1>9. ASSUME NEW i \in 0 .. m - 1
      PROVE  /\ till(i) \in Int /\ at(i) < till(i) /\ till(i) <= n /\ till(i) <= b
             /\ till(i) <= at(i) + Mss
             /\ (\A x \in Int : x <= b /\ x <= at(i) + Mss => x <= till(i))
  <2>1. till(i) = Least(at(i) + Mss, n) BY Zenon, <1>3, <1>8
  <2>2. at(m) \in Int BY <1>1, <1>7
  <2> HIDE DEF till
  <2> QED BY <1>0, <1>4, <1>8, <2>1, <2>2 DEF Least
<1>10. b \in Nat /\ b <= n
  <2>1. at(m) \in Int /\ at(0) <= at(m) BY <1>1, <1>7
  <2> QED BY <1>2, <1>4, <2>1 DEF Least
<1> HIDE DEF till, b
<1>11. ASSUME NEW i \in 0 .. m - 1
       PROVE  /\ Entry(i) \in Sent /\ Place(Entry(i)) = w + at(i)
              /\ Len(Entry(i).data) = till(i) - at(i)
              /\ Entry(i).data = Piece(w + at(i), w + till(i))
  <2> DEFINE x == w + at(i)
             y == w + till(i)
  <2>1. /\ x \in Int /\ y \in Int /\ 0 <= x /\ x <= y /\ y <= OutboundLength
        /\ y - x = till(i) - at(i) /\ at(i) \in Nat /\ w + at(i) < SequenceSpace
    BY <1>0, <1>8, <1>9, Constants
  <2>2. Entry(i).data = SubSeq(Outbound, x + 1, y) BY Zenon, <1>6
  <2>3. Entry(i).sequence \in Number /\ Place(Entry(i)) = w + at(i)
    <3>1. Plus(s.send_next, at(i)) \in Number
          /\ Minus(Plus(s.send_next, at(i)), InitialSend) = Minus(s.send_next, InitialSend) + at(i)
      BY Zenon, <1>0, <2>1, PlusPlace DEF Written
    <3>2. Entry(i).sequence = Plus(s.send_next, at(i)) BY Zenon, <1>6
    <3> QED BY Zenon, <3>1, <3>2 DEF Place, Written
  <2> HIDE DEF x, y
  <2>4. SubSeq(Outbound, x + 1, y) = Piece(x, y) BY Zenon, <2>1, StreamPiece
  <2>5. Piece(x, y) \in Seq(1 .. OutboundLength) /\ Len(Piece(x, y)) = y - x
    BY Zenon, <1>0, <2>1, PieceSeq
  <2>6. Entry(i) \in Sent
    <3>1. Entry(i) = [sequence |-> Entry(i).sequence, data |-> Entry(i).data] BY Zenon, <1>6
    <3>2. Entry(i).data \in Seq(1 .. OutboundLength) BY Zenon, <2>2, <2>4, <2>5
    <3> QED BY Zenon, <2>3, <3>1, <3>2 DEF Sent
  <2> QED BY Zenon, <2>1, <2>2, <2>3, <2>4, <2>5, <2>6 DEF x, y
<1>12. V \in SUBSET Sent BY Zenon, <1>5, <1>11
<1>13. IsFiniteSet(V) /\ Cardinality(V) <= m
  <2> DEFINE S == 0 .. m - 1
             f == [i \in S |-> Entry(i)]
  <2>1. IsFiniteSet(S) /\ Cardinality(S) = m
    <3>1. 0 \in Int /\ m - 1 \in Int BY <1>7
    <3>2. IsFiniteSet(S) /\ Cardinality(S) = IF 0 > m - 1 THEN 0 ELSE (m - 1) - 0 + 1
      BY Zenon, <3>1, FS_Interval
    <3> QED BY <1>7, <3>2
  <2>2. V = {f[i] : i \in S} BY Zenon, <1>5
  <2> HIDE DEF S
  <2>3. DOMAIN f = S BY Zenon
  <2> HIDE DEF f
  <2> QED BY Zenon, <2>1, <2>2, <2>3, FiniteImage
<1>14. Tiles(V, w, w + b)
  <2> HIDE DEF w
  <2>1. ASSUME NEW e \in V
        PROVE  /\ e.data = Piece(Place(e), Place(e) + Len(e.data)) /\ Len(e.data) > 0
               /\ w <= Place(e) /\ Place(e) + Len(e.data) <= w + b
    <3>1. PICK i \in 0 .. m - 1 : e = Entry(i) BY Zenon, <1>5
    <3>2. /\ Place(e) = w + at(i) /\ Len(e.data) = till(i) - at(i)
          /\ e.data = Piece(w + at(i), w + till(i))
      BY Zenon, <1>11, <3>1
    <3>3. /\ at(i) \in Int /\ 0 <= at(i) /\ till(i) \in Int /\ at(i) < till(i) /\ till(i) <= b
      BY Zenon, <1>8, <1>9
    <3>4. (w + at(i)) + (till(i) - at(i)) = w + till(i) BY <1>0, <3>3
    <3> QED BY <1>0, <1>10, <3>2, <3>3, <3>4
  <2>2. ASSUME NEW x \in w + 1 .. w + b PROVE \E e \in V : Covers(e, x)
    <3> DEFINE c == x - w - 1
               i == c \div Mss
    <3>1. c \in Nat /\ c < b /\ x = w + c + 1 BY <1>0, <1>10
    <3>2. i \in Nat /\ at(i) <= c /\ c < at(i) + Mss BY Zenon, <1>1, <3>1
    <3> HIDE DEF i
    <3>3. i \in 0 .. m - 1
      <4> SUFFICES ASSUME ~(i <= m - 1) PROVE FALSE BY <1>7, <3>2
      <4>1. at(m) <= at(i) /\ at(m) \in Int /\ at(i) \in Int BY <1>1, <1>7, <3>2
      <4>2. b <= at(m) BY <1>4, <1>10, <4>1 DEF Least, b
      <4> HIDE DEF c
      <4> QED BY <1>10, <3>1, <3>2, <4>1, <4>2
    <3>4. Entry(i) \in V BY Zenon, <1>5, <3>3
    <3>5. /\ Place(Entry(i)) = w + at(i) /\ Len(Entry(i).data) = till(i) - at(i)
      BY Zenon, <1>11, <3>3
    <3>6. c + 1 <= till(i) /\ till(i) \in Int /\ at(i) \in Int
      <4>1. \A z \in Int : z <= b /\ z <= at(i) + Mss => z <= till(i) BY Zenon, <1>9, <3>3
      <4>2. at(i) \in Int /\ till(i) \in Int BY Zenon, <1>8, <1>9, <3>3
      <4> DEFINE z == c + 1
      <4>3. z \in Int /\ z <= b /\ z <= at(i) + Mss BY <1>0, <1>10, <3>1, <3>2, <4>2
      <4> HIDE DEF z, c
      <4>4. z <= till(i) BY Zenon, <4>1, <4>3
      <4> QED BY Zenon, <4>2, <4>4 DEF z
    <3> HIDE DEF c
    <3>7. w + at(i) < x /\ x <= (w + at(i)) + (till(i) - at(i)) BY <1>0, <3>1, <3>2, <3>6
    <3> QED BY Zenon, <3>4, <3>5, <3>7 DEF Covers
  <2>3. ASSUME NEW e \in V, NEW f \in V, NEW x \in 1 .. OutboundLength,
               Covers(e, x), Covers(f, x)
        PROVE  e = f
    <3>1. PICK i \in 0 .. m - 1 : e = Entry(i) BY Zenon, <1>5
    <3>2. PICK j \in 0 .. m - 1 : f = Entry(j) BY Zenon, <1>5
    <3>3. \A h \in 0 .. m - 1 : Covers(Entry(h), x) => w + at(h) < x /\ x <= w + at(h) + Mss
      <4> TAKE h \in 0 .. m - 1
      <4>1. Place(Entry(h)) = w + at(h) /\ Len(Entry(h).data) = till(h) - at(h) BY Zenon, <1>11
      <4>2. at(h) \in Int /\ till(h) \in Int /\ till(h) <= at(h) + Mss BY Zenon, <1>8, <1>9
      <4> QED BY <1>0, <4>1, <4>2 DEF Covers
    <3>4. ASSUME NEW g \in 0 .. m - 1, NEW h \in 0 .. m - 1, g < h,
                 Covers(Entry(g), x), Covers(Entry(h), x)
          PROVE  FALSE
      <4>1. w + at(h) < x /\ x <= w + at(g) + Mss BY Zenon, <3>3, <3>4
      <4>2. g \in Int /\ h \in Int /\ g + 1 \in Int /\ g + 1 <= h BY <1>7, <3>4
      <4>3. at(g + 1) <= at(h) /\ at(g + 1) = at(g) + Mss BY Zenon, <1>1, <4>2
      <4>4. at(g) \in Int /\ at(h) \in Int BY Zenon, <1>1, <4>2
      <4> QED BY <1>0, <4>1, <4>3, <4>4
    <3>5. ~(i < j) /\ ~(j < i) BY Zenon, <2>3, <3>1, <3>2, <3>4
    <3>6. i = j BY <1>7, <3>5
    <3> QED BY Zenon, <3>1, <3>2, <3>6
  <2> QED BY Zenon, <2>1, <2>2, <2>3 DEF Tiles
<1> QED BY Zenon, <1>10, <1>12, <1>13, <1>14 DEF V, b

\* socket_write (stack.cpp:131).
LEMMA WriteSound ==
  ASSUME IInv, NEW size \in 1 .. OutboundLength,
         NEW cwnd \in Mss .. OutboundLength + Mss, socket_write(size, cwnd)
  PROVE  IInv'
<1> DEFINE s == stack.socket
           d == delivered
           flight == Minus(s.send_next, s.send_unacknowledged)
           limit == Least(s.peer_window, cwnd)
           available == IF flight < limit THEN limit - flight ELSE 0
           n == Least(size, available)
           w == Written(s)
<1>0. stack \in Stack /\ s \in Socket /\ Sound(stack, d) /\ Owes(stack) /\ 0 \in 0 .. Interval
  BY Constants DEF IInv, Sound, Stack
<1>1. /\ s.state \in {"established", "close_wait"} /\ ~s.send_closed
      /\ w + size <= OutboundLength /\ d' = d
      /\ unanswered' = Waited(s, stack'.socket)
  BY Zenon DEF socket_write, Written
<1>2. unanswered' \in 0 .. Interval BY Zenon, <1>1, WaitedType DEF IInv
<1>3. s.state \in Synchronized /\ ~s.fin_sent
  <2>1. s.state \in Synchronized BY Zenon, <1>1 DEF Synchronized
  <2> QED BY Zenon, <1>0, <1>1, <2>1 DEF Sound, Closes
<1>4. CASE available = 0
  <2> DEFINE t == [s EXCEPT !.persist_waiting = TRUE, !.progress_at = 0]
             m == [stack EXCEPT !.socket = t]
  <2>1. stack' = [stack EXCEPT !.socket.persist_waiting = TRUE, !.socket.progress_at = 0]
    BY Zenon, <1>4 DEF socket_write
  <2>2. stack' = m BY Zenon, <1>0, <2>1 DEF Stack
  <2>3. t \in Socket /\ SameStreams(s, t)
        /\ t.acknowledgement_retries = s.acknowledgement_retries
    BY Zenon, <1>0 DEF Socket, SameStreams, SameReceive, SameSend
  <2> HIDE DEF t
  <2>4. Keeps(stack, m) /\ Owes(m) BY Zenon, <1>0, <2>3, Touched
  <2> HIDE DEF m
  <2>5. Sound(m, d) BY Zenon, <1>0, <2>4, KeptSound
  <2> QED BY Zenon, <1>1, <1>2, <2>2, <2>4, <2>5 DEF IInv
<1>5. CASE available # 0
  <2>1. PICK m \in 1 .. (n + Mss - 1) \div Mss :
          /\ Cardinality(stack.transmissions_) + m <= TransmitCapacity
          /\ stack' = [send_segment(stack) EXCEPT
               !.transmissions_ = @ \cup Queued(s, n, m),
               !.socket.send_next = Plus(@, Least(m * Mss, n)),
               !.socket.progress_at = IF flight = 0 THEN 0 ELSE @,
               !.socket.acknowledgement_retries = 0]
    BY Zenon, <1>5 DEF socket_write
  <2>2. n \in Nat /\ n > 0 /\ n <= size
    <3>1. flight \in Int /\ limit \in Int
      <4>1. /\ s.peer_window \in Nat /\ s.send_next \in Number
            /\ s.send_unacknowledged \in Number
        BY Zenon, <1>0 DEF Socket
      <4>2. flight \in Int BY <4>1, PlaceOfNumber DEF Number
      <4>3. limit \in Int BY <4>1, Constants DEF Least
      <4> QED BY Zenon, <4>2, <4>3
    <3> HIDE DEF flight, limit
    <3>2. available \in Nat /\ available > 0 BY <1>5, <3>1
    <3> HIDE DEF available
    <3> QED BY <3>2, Constants DEF Least
  <2> DEFINE V == Queued(s, n, m)
             b == Least(m * Mss, n)
             T == stack.transmissions_
             g == send_segment(stack)
             at == IF flight = 0 THEN 0 ELSE s.progress_at
             next == Plus(s.send_next, b)
             t == [s EXCEPT !.send_next = next, !.progress_at = at,
                            !.acknowledgement_retries = 0]
             k == [g EXCEPT !.transmissions_ = T \cup V, !.socket = t]
  <2>3. at \in 0 .. Interval
    <3>1. s.progress_at \in 0 .. Interval BY Zenon, <1>0 DEF Socket
    <3> QED BY Zenon, <1>0, <3>1
  <2> HIDE DEF at, flight, n
  <2>4. w \in Number /\ w \in Nat /\ s.send_next \in Number
    <3>1. w \in Number BY Zenon, <1>0, Places
    <3>2. w \in Nat BY <3>1 DEF Number
    <3>3. s.send_next \in Number BY Zenon, <1>0 DEF Socket
    <3> QED BY Zenon, <3>1, <3>2, <3>3
  <2>5. w + n <= OutboundLength /\ OutboundLength \in Nat
    <3> HIDE DEF w
    <3> QED BY <1>1, <2>2, <2>4, Constants
  <2>6. /\ V \in SUBSET Sent /\ IsFiniteSet(V) /\ Cardinality(V) <= m
        /\ b \in Nat /\ b <= n /\ Tiles(V, w, w + b)
    BY Zenon, <1>0, <2>2, <2>5, QueuedTiles
  <2>7. /\ g = [stack EXCEPT !.told = Told(s)] /\ g \in Stack /\ g.socket = s
        /\ g.transmissions_ = T /\ g.reassembly_ = stack.reassembly_ /\ g.told = Told(s)
    BY Zenon, <1>0, ToldType DEF send_segment, Stack
  <2>8. stack' = k
    <3> HIDE DEF g, V, b
    <3>1. stack' = [g EXCEPT !.transmissions_ = @ \cup V,
               !.socket.send_next = Plus(@, b),
               !.socket.progress_at = IF flight = 0 THEN 0 ELSE @,
               !.socket.acknowledgement_retries = 0]
      BY Zenon, <2>1 DEF g, V, b
    <3>2. DOMAIN s = DOMAIN s /\ s = [f \in DOMAIN s |-> s[f]] BY Zenon, <1>0 DEF Socket
    <3> QED BY Zenon, <2>7, <3>1, <3>2 DEF Stack, at
  <2> HIDE DEF V, b
  <2>9. next \in Number /\ Minus(next, InitialSend) = w + b
    <3>1. w + b < SequenceSpace
      <4> HIDE DEF w
      <4> QED BY <2>2, <2>4, <2>5, <2>6, Constants
    <3> QED BY Zenon, <2>4, <2>6, <3>1, PlusPlace, Constants DEF Written
  <2> HIDE DEF next
  <2>10. /\ t \in Socket /\ t.state = s.state /\ SameReceive(s, t) /\ t.send_next = next
         /\ t.send_unacknowledged = s.send_unacknowledged
         /\ t.fin_sent = s.fin_sent /\ t.fin_acked = s.fin_acked /\ SameClose(s, t)
    BY Zenon, <1>0, <2>3, <2>9 DEF Socket, SameReceive, SameClose
  <2> HIDE DEF t, g
  <2>11. /\ k \in Stack /\ k.socket = t /\ k.transmissions_ = T \cup V
         /\ k.reassembly_ = stack.reassembly_ /\ k.told = Told(s)
    <3>1. T \cup V \in SUBSET Sent BY Zenon, <1>0, <2>6 DEF Stack
    <3> HIDE DEF T
    <3> QED BY Zenon, <2>7, <2>10, <3>1 DEF Stack
  <2> HIDE DEF k
  <2>12. Owes(k)
    <3>1. Told(t) = Told(s) BY Zenon, <2>10 DEF SameReceive, Told, Window
    <3> QED BY Zenon, <2>11, <3>1 DEF Owes
  <2>13. SameState(s, t) BY Zenon, <2>10 DEF SameState
  <2>14. Receives(k, d) BY Zenon, <1>0, <2>10, <2>11, <2>13, ReceivesKept DEF Sound
  <2>15. Closes(t)
    BY Zenon, <1>0, <2>10 DEF Sound, Closes, StateOfFins, SameReceive, SameClose
  <2>16. Sends(k)
    <3>1. /\ IsFiniteSet(T) /\ Acked(s) <= w /\ Tiles(T, Acked(s), w - Bit(s.fin_sent))
      BY Zenon, <1>0, <1>3 DEF Sound, Sends
    <3>2. Bit(s.fin_sent) = 0 /\ Acked(s) \in Number BY Zenon, <1>0, <1>3, Places DEF Bit
    <3>3. Acked(t) = Acked(s) /\ Written(t) = w + b BY Zenon, <2>9, <2>10 DEF Acked, Written
    <3> HIDE DEF w
    <3>4. Tiles(T, Acked(s), w)
      <4>1. w - 0 = w BY <2>4
      <4> QED BY Zenon, <3>1, <3>2, <4>1
    <3>5. Tiles(T \cup V, Acked(s), w + b)
      <4>1. /\ Acked(s) \in Int /\ w \in Int /\ w + b \in Int /\ w <= w + b
            /\ T \in SUBSET Sent
        BY <1>0, <2>4, <2>6, <3>2 DEF Number, Stack
      <4> HIDE DEF T
      <4> QED BY Zenon, <2>6, <3>1, <3>4, <4>1, TilesJoin
    <3>6. IsFiniteSet(T \cup V) /\ Cardinality(T \cup V) <= TransmitCapacity
      <4> HIDE DEF T
      <4>1. /\ IsFiniteSet(T \cup V)
            /\ Cardinality(T \cup V)
                 = Cardinality(T) + Cardinality(V) - Cardinality(T \cap V)
        BY Zenon, <2>6, <3>1, FS_Union
      <4>2. IsFiniteSet(T \cap V) BY Zenon, <2>6, <3>1, FS_Intersection
      <4>3. /\ Cardinality(T) \in Nat /\ Cardinality(V) \in Nat
            /\ Cardinality(T \cap V) \in Nat
        BY Zenon, <2>6, <3>1, <4>2, FS_CardinalityType
      <4>4. Cardinality(T) + m <= TransmitCapacity /\ m \in Int BY <2>1 DEF T
      <4> QED BY <2>6, <4>1, <4>3, <4>4, Constants
    <3>7. Acked(t) <= Written(t) /\ Written(t) - Bit(t.fin_sent) = w + b
          /\ w + b <= OutboundLength
      <4>1. Bit(t.fin_sent) = 0 BY Zenon, <2>10, <3>2
      <4>2. w + b \in Int BY <2>4, <2>6
      <4> QED BY <2>2, <2>4, <2>5, <2>6, <3>1, <3>2, <3>3, <4>1, <4>2 DEF Number
    <3> HIDE DEF T
    <3> QED BY Zenon, <1>3, <2>10, <2>11, <3>3, <3>5, <3>6, <3>7 DEF Sends
  <2>17. Sound(k, d) BY Zenon, <2>11, <2>14, <2>15, <2>16 DEF Sound
  <2> QED BY Zenon, <1>1, <1>2, <2>8, <2>12, <2>17 DEF IInv
<1> QED BY Zenon, <1>4, <1>5

-----------------------------------------------------------------------------
(* The theorems.                                                           *)

LEMMA StepSound == ASSUME IInv, [Next]_vars PROVE IInv'
<1>1. CASE connect BY Zenon, <1>1, ConnectSound
<1>2. CASE poll BY Zenon, <1>2, PollSound
<1>3. CASE \E size \in 1 .. OutboundLength, cwnd \in Mss .. OutboundLength + Mss :
             socket_write(size, cwnd)
  BY Zenon, <1>3, WriteSound
<1>4. CASE \E size \in 1 .. Capacity : socket_read(size) BY Zenon, <1>4, ReadSound
<1>5. CASE \E how \in 0 .. 2 : socket_shutdown(how) BY Zenon, <1>5, ShutdownSound
<1>6. CASE socket_retain BY Zenon, <1>6, RetainSound
<1>7. CASE socket_close BY Zenon, <1>7, CloseSound
<1>8. CASE Tick BY Zenon, <1>8, TickSound
<1>9. CASE UNCHANGED vars
  BY Zenon, <1>9 DEF vars, IInv, Sound, Receives, Sends, Closes, Owes
<1> QED BY Zenon, <1>1, <1>2, <1>3, <1>4, <1>5, <1>6, <1>7, <1>8, <1>9 DEF Next

\* Whatever the peer, the network and the application do, the buffer continues
\* what was read, the reassembly store holds pieces of the peer's stream ahead
\* of a gap and inside the window, the retransmission store tiles the flight,
\* and the state follows the FINs (socket.hpp:396, stack.cpp:631).
THEOREM ConnectionInvariant == Spec => []IInv
<1>1. Init => IInv BY Zenon, InitSound
<1>2. IInv /\ [Next]_vars => IInv' BY Zenon, StepSound
<1> QED BY <1>1, <1>2, PTL DEF Spec

LEMMA SoundFits == ASSUME IInv PROVE ReassemblyFits
<1> DEFINE s == stack.socket
<1>0. stack \in Stack /\ s \in Socket /\ Receives(stack, delivered)
  BY Zenon DEF IInv, Sound, Stack
<1>1. TypeOK
  <2>1. /\ s.state \in States /\ s.references \in 0 .. MaxReferences
        /\ {s.send_next, s.send_unacknowledged, s.window_sequence,
            s.window_acknowledgement, s.receive_next} \subseteq Number
        /\ s.receive_buffer \in Seq(1 .. InboundLength)
        /\ s.progress_at \in 0 .. Interval /\ s.state_since \in 0 .. Interval
    BY Zenon, <1>0 DEF Socket
  <2>2. Len(s.receive_buffer) <= Capacity
    <3>1. CASE s.state \in {"free", "reset"}
      <4>1. s.receive_buffer = <<>> /\ Len(<<>>) = 0 BY Zenon, <1>0, <3>1 DEF Receives
      <4> QED BY <4>1, Constants
    <3>2. CASE s.state \notin {"free", "reset"} BY Zenon, <1>0, <3>2 DEF Receives, Reads
    <3> QED BY Zenon, <3>1, <3>2
  <2>3. /\ delivered \in Seq(1 .. InboundLength) /\ Len(delivered) <= InboundLength
        /\ Cardinality(stack.reassembly_) <= ReassemblyCapacity
    BY Zenon, <1>0 DEF Receives
  <2>4. Cardinality(stack.transmissions_) <= TransmitCapacity /\ unanswered \in 0 .. Interval
    BY Zenon DEF IInv, Sound, Sends
  <2> QED BY Zenon, <2>1, <2>2, <2>3, <2>4 DEF TypeOK, States, Number
<1>2. ASSUME NEW e \in stack.reassembly_
      PROVE  LET from == Minus(e.sequence, InitialReceive)
                 end == Signed(e.sequence, s.receive_next) + Len(e.data)
             IN  /\ s.state \in Synchronized /\ ~s.receive_closed
                 /\ Signed(e.sequence, s.receive_next) > 0
                 /\ end + (IF e.finish THEN 1 ELSE 0) <= Window(s)
                 /\ e.data = SubSeq(Inbound, from + 1, from + Len(e.data))
                 /\ e.finish => from + Len(e.data) = InboundLength
  <2> DEFINE p == From(e)
             n == Len(e.data)
             x == Got(s)
             v == Signed(e.sequence, s.receive_next)
  <2>1. /\ e \in Ahead /\ ~s.receive_closed /\ p > x /\ Stored(e, s)
        /\ s.state \notin {"free", "reset", "closed"}
    BY Zenon, <1>0 DEF Receives, Stack
  <2>2. s.state \in Synchronized BY Zenon, <1>0, <2>1 DEF Socket, States
  <2>3. /\ p \in Number /\ n \in Nat /\ x \in Number /\ Window(s) \in Int
        /\ Bit(e.finish) \in {0, 1} /\ e.sequence \in Number /\ s.receive_next \in Number
        /\ InboundLength \in Nat
    BY Zenon, <1>0, <2>1, EntryPlaces, Places, Constants DEF Ahead, Socket
  <2>4. /\ p + n <= InboundLength /\ e.data = Piece(p, p + n)
        /\ (e.finish => p + n = InboundLength)
        /\ p + n + Bit(e.finish) <= x + Window(s)
    BY Zenon, <2>1 DEF Stored
  <2>5. v = p - x
    <3>1. 2 * (p - x) < SequenceSpace /\ 2 * (x - p) < SequenceSpace
      <4> HIDE DEF p, x, n
      <4>1. p + n <= InboundLength /\ p > x BY Zenon, <2>1, <2>4
      <4> QED BY <2>3, <4>1, Constants DEF Number
    <3> QED BY <2>3, <3>1, SignedPlaces, Constants DEF From, Got
  <2> HIDE DEF v
  <2>6. e.data = SubSeq(Inbound, p + 1, p + n)
    <3> DEFINE y == p + n
    <3> HIDE DEF p, n
    <3>1. p \in Int /\ y \in Int /\ 0 <= p /\ p <= y /\ y <= InboundLength
      BY <2>3, <2>4 DEF Number
    <3>2. e.data = Piece(p, y) BY Zenon, <2>4
    <3> HIDE DEF y
    <3>3. e.data = SubSeq(Inbound, p + 1, y) BY Zenon, <3>1, <3>2, StreamPiece
    <3> QED BY Zenon, <3>3 DEF y
  <2>7. v > 0 /\ (v + n) + Bit(e.finish) <= Window(s)
    <3> HIDE DEF p, n, x
    <3>1. p > x /\ p + n + Bit(e.finish) <= x + Window(s) BY Zenon, <2>1, <2>4
    <3> QED BY <2>3, <2>5, <3>1 DEF Number
  <2> QED BY Zenon, <2>1, <2>2, <2>4, <2>6, <2>7 DEF v, From, Bit
<1> QED BY Zenon, <1>1, <1>2 DEF ReassemblyFits

LEMMA SoundStream == ASSUME IInv PROVE StreamInOrder
<1> DEFINE s == stack.socket
           got == Minus(s.receive_next, InitialReceive)
<1>1. ReassemblyFits BY Zenon, SoundFits
<1>2. ASSUME s.state \in Synchronized \cup {"closed"}
      PROVE  /\ s.receive_closed <=> got = InboundLength + 1
             /\ delivered = SubSeq(Inbound, 1, Len(delivered))
             /\ ~s.read_closed =>
                  delivered \o s.receive_buffer
                    = SubSeq(Inbound, 1, Least(got, InboundLength))
  <2>0. s.state \notin {"free", "reset"} BY Zenon, <1>2 DEF Synchronized
  <2>1. /\ Reads(s, delivered) /\ delivered \in Seq(1 .. InboundLength)
        /\ delivered = Piece(0, Len(delivered)) /\ Len(delivered) <= InboundLength
        /\ s \in Socket
    BY Zenon, <2>0 DEF IInv, Sound, Receives, Stack
  <2> DEFINE x == Len(delivered)
             y == InOrder(s)
             q == Len(s.receive_buffer)
  <2>2. /\ x \in Nat /\ q \in Nat /\ Got(s) \in Nat /\ InboundLength \in Nat
    <3>1. Got(s) \in Number BY Zenon, <2>1, Places
    <3>2. x \in Nat /\ q \in Nat BY Zenon, <2>1, LenProperties DEF Socket
    <3> QED BY <3>1, <3>2, Constants DEF Number
  <2>3. y \in Nat /\ y <= InboundLength BY <2>2 DEF InOrder, Least
  <2>4. s.receive_closed <=> got = InboundLength + 1 BY Zenon, <2>1 DEF Reads, Got
  <2>5. delivered = SubSeq(Inbound, 1, x)
    <3>1. 0 \in Int /\ x \in Int /\ 0 <= 0 /\ 0 <= x /\ x <= InboundLength BY <2>1, <2>2
    <3> HIDE DEF x
    <3>2. SubSeq(Inbound, 0 + 1, x) = Piece(0, x) BY Zenon, <3>1, StreamPiece
    <3> QED BY <2>1, <3>2 DEF x
  <2>6. ASSUME ~s.read_closed
        PROVE  delivered \o s.receive_buffer = SubSeq(Inbound, 1, y)
    <3>1. x + q = y /\ s.receive_buffer = Piece(y - q, y) BY Zenon, <2>1, <2>6 DEF Reads
    <3>2. delivered = Piece(0, x) BY Zenon, <2>1
    <3> HIDE DEF x, y, q
    <3>3. y - q = x /\ 0 \in Int /\ 0 <= 0 /\ 0 <= x /\ x <= y /\ x \in Int /\ y \in Int
          /\ 0 <= y
      BY <2>2, <2>3, <3>1
    <3>4. Piece(0, x) \o Piece(x, y) = Piece(0, y) BY Zenon, <3>3, PieceJoin
    <3>5. SubSeq(Inbound, 0 + 1, y) = Piece(0, y) BY Zenon, <2>3, <3>3, StreamPiece
    <3> QED BY <3>1, <3>2, <3>3, <3>4, <3>5
  <2> QED BY Zenon, <2>4, <2>5, <2>6 DEF InOrder, Got
<1> QED BY Zenon, <1>1, <1>2 DEF StreamInOrder

LEMMA SoundFlight == ASSUME IInv PROVE FlightRetained
<1> DEFINE s == stack.socket
           T == stack.transmissions_
           last == Written(s) - Bit(s.fin_sent)
<1> SUFFICES ASSUME s.state \in Synchronized
             PROVE  /\ \A e \in T :
                         /\ e.data # <<>>
                         /\ \A i \in 1 .. Len(e.data) : e.data[i] = Place(e) + i
                    /\ \A b \in Acked(s) + 1 .. last :
                         Cardinality({e \in T :
                           b \in Place(e) + 1 .. Place(e) + Len(e.data)}) = 1
                    /\ \A e \in T : /\ Place(e) + 1 >= Acked(s) + 1
                                    /\ Place(e) + Len(e.data) <= last
  BY Zenon DEF FlightRetained, Place, Acked, Written, Bit
<1>0. stack \in Stack /\ s \in Socket /\ T \subseteq Sent BY Zenon DEF IInv, Sound, Stack
<1>1. Tiles(T, Acked(s), last) /\ last <= OutboundLength BY Zenon DEF IInv, Sound, Sends
<1>2. Acked(s) \in Nat /\ last \in Int
  <2>1. Acked(s) \in Number /\ Written(s) \in Number BY Zenon, <1>0, Places
  <2>2. Bit(s.fin_sent) \in {0, 1} BY Zenon DEF Bit
  <2> QED BY <2>1, <2>2 DEF Number
<1> HIDE DEF last
<1>3. \A e \in T : Place(e) \in Int /\ Len(e.data) \in Nat BY <1>0, EntryPlaces DEF Number
<1>4. \A e \in T : /\ e.data = Piece(Place(e), Place(e) + Len(e.data)) /\ Len(e.data) > 0
                   /\ Acked(s) <= Place(e) /\ Place(e) + Len(e.data) <= last
  BY Zenon, <1>1 DEF Tiles
<1>5. ASSUME NEW e \in T
      PROVE  /\ e.data # <<>>
             /\ \A i \in 1 .. Len(e.data) : e.data[i] = Place(e) + i
  <2> DEFINE p == Place(e)
             n == Len(e.data)
             y == p + n
  <2>1. e.data = Piece(p, y) /\ n > 0 BY Zenon, <1>4
  <2>2. p \in Int /\ n \in Nat /\ y - p = n BY <1>3
  <2>3. Len(<<>>) = 0 BY Zenon
  <2>4. e.data # <<>> BY <2>1, <2>2, <2>3
  <2> HIDE DEF p, n, y
  <2>5. \A i \in 1 .. n : Piece(p, y)[i] = p + i BY Zenon, <2>2 DEF Piece
  <2> QED BY Zenon, <2>1, <2>4, <2>5 DEF p, n
<1>6. ASSUME NEW b \in Acked(s) + 1 .. last
      PROVE  Cardinality({e \in T : b \in Place(e) + 1 .. Place(e) + Len(e.data)}) = 1
  <2>1. PICK e \in T : Covers(e, b) BY Zenon, <1>1 DEF Tiles
  <2>2. b \in 1 .. OutboundLength BY <1>1, <1>2, Constants
  <2>3. \A f \in T : b \in Place(f) + 1 .. Place(f) + Len(f.data) <=> Covers(f, b)
    BY <1>2, <1>3 DEF Covers
  <2>4. \A f \in T : Covers(f, b) => f = e BY Zenon, <1>1, <2>1, <2>2 DEF Tiles
  <2>5. {f \in T : b \in Place(f) + 1 .. Place(f) + Len(f.data)} = {e}
    BY Zenon, <2>1, <2>3, <2>4
  <2> QED BY Zenon, <2>5, FS_Singleton
<1>7. ASSUME NEW e \in T
      PROVE  Place(e) + 1 >= Acked(s) + 1 /\ Place(e) + Len(e.data) <= last
  BY <1>2, <1>3, <1>4
<1> QED BY Zenon, <1>5, <1>6, <1>7

\* The application reads the peer's bytes once, in order, without a gap, and
\* sees the end only behind the last one, however segments are lost, repeated,
\* cut or reordered; what is stored ahead of a gap always fits into the buffer
\* when the gap closes, and no store exceeds its capacity (socket.hpp:396,
\* socket.hpp:450, socket.hpp:639).
THEOREM StreamStaysInOrder == Spec => []StreamInOrder
<1>1. IInv => StreamInOrder BY Zenon, SoundStream
<1> QED BY <1>1, ConnectionInvariant, PTL

\* An acknowledgement or window the driver refused to send stays owed
\* (stack.cpp:556).
THEOREM AcknowledgementStaysOwed == Spec => []AcknowledgementOwed
<1>1. IInv => AcknowledgementOwed BY Zenon DEF IInv, Owes, AcknowledgementOwed
<1> QED BY <1>1, ConnectionInvariant, PTL

\* Every byte in flight is in the retransmission store exactly once, under its
\* own number, until the peer acknowledges it (stack.cpp:329, stack.cpp:294).
THEOREM FlightStaysRetained == Spec => []FlightRetained
<1>1. IInv => FlightRetained BY Zenon, SoundFlight
<1> QED BY <1>1, ConnectionInvariant, PTL

\* The state names the FINs sent, acknowledged and received, and who closed
\* first, in every order these may come (stack.cpp:418, stack.cpp:730).
THEOREM StateFollowsFins == Spec => []StateMatchesFins
<1>1. IInv => StateMatchesFins BY Zenon DEF IInv, Sound, Closes, StateMatchesFins
<1> QED BY <1>1, ConnectionInvariant, PTL

\* The FIN goes out when every byte before it is acknowledged, and nothing is
\* written behind it (stack.cpp:430).
THEOREM FinWaitsForData == Spec => []FinAfterData
<1>1. ASSUME IInv PROVE FinAfterData
  <2> DEFINE s == stack.socket
  <2> SUFFICES ASSUME s.state \in Synchronized, s.fin_sent
               PROVE  /\ stack.transmissions_ = {}
                      /\ Minus(s.send_next, s.send_unacknowledged)
                           = IF s.fin_acked THEN 0 ELSE 1
    BY Zenon DEF FinAfterData
  <2>0. stack \in Stack /\ s \in Socket /\ Sends(stack) BY Zenon, <1>1 DEF IInv, Sound, Stack
  <2>1. stack.transmissions_ = {} BY Zenon, <2>0, FlightEmpty
  <2>2. Written(s) - Acked(s) = Bit(~s.fin_acked) BY Zenon, <2>0 DEF Sends
  <2>3. /\ Written(s) \in Number /\ Acked(s) \in Number
        /\ s.send_next \in Number /\ s.send_unacknowledged \in Number
    BY Zenon, <2>0, Places DEF Socket
  <2>4. Bit(~s.fin_acked) = IF s.fin_acked THEN 0 ELSE 1 BY Zenon DEF Bit
  <2>5. /\ Written(s) >= Acked(s) /\ 2 * (Written(s) - Acked(s)) < SequenceSpace
        /\ 2 * (Acked(s) - Written(s)) < SequenceSpace
    BY <2>2, <2>3, <2>4, Constants DEF Number
  <2>6. Minus(s.send_next, s.send_unacknowledged) = Written(s) - Acked(s)
    BY <2>3, <2>5, SignedPlaces, Constants DEF Written, Acked
  <2> QED BY Zenon, <2>1, <2>2, <2>4, <2>6
<1> QED BY <1>1, ConnectionInvariant, PTL

=============================================================================
