-------------------------- MODULE TcpStack_proofs --------------------------
(***************************************************************************)
(* The invariant of TcpConnection, as a predicate of the stack's record,   *)
(* and the proof that the steps of segment handling keep it: sending and   *)
(* owing acknowledgements, FIN and reset, an acknowledgement that arrives, *)
(* bytes appended to the receive buffer, the reassembly store and the loop *)
(* that drains it.  TcpConnection_proofs puts them together into actions.  *)
(***************************************************************************)
EXTENDS TcpConnection, FiniteSetTheorems, TLAPS

Number == 0 .. SequenceSpace - 1

States == Synchronized \cup {"free", "closed", "reset"}

Socket ==
  [state : States, references : 0 .. MaxReferences, send_next : Number,
   send_unacknowledged : Number, peer_window : Nat, window_sequence : Number,
   window_acknowledgement : Number, receive_next : Number,
   receive_buffer : Seq(1 .. InboundLength),
   receive_closed : BOOLEAN, read_closed : BOOLEAN, detached : BOOLEAN,
   send_closed : BOOLEAN, fin_sent : BOOLEAN, fin_acked : BOOLEAN,
   active_close : BOOLEAN, persist_waiting : BOOLEAN,
   acknowledgement_retries : {0, 1}, progress_at : 0 .. Interval,
   state_since : 0 .. Interval]

\* A stored piece of the peer's stream, and of our own.
Ahead == [sequence : Number, data : Seq(1 .. InboundLength), finish : BOOLEAN]

Sent == [sequence : Number, data : Seq(1 .. OutboundLength)]

Stack ==
  [socket : Socket, reassembly_ : SUBSET Ahead, transmissions_ : SUBSET Sent,
   told : Int \X Int, blame : {"none", "silent", "close", "fin_wait"}]

\* The bytes a + 1 to b of a stream.
Piece(a, b) == [i \in 1 .. b - a |-> a + i]

\* Sequence numbers as positions in the two streams.
Got(s) == Minus(s.receive_next, InitialReceive)

InOrder(s) == Least(Got(s), InboundLength)

From(e) == Minus(e.sequence, InitialReceive)

Acked(s) == Minus(s.send_unacknowledged, InitialSend)

Written(s) == Minus(s.send_next, InitialSend)

Place(e) == Minus(e.sequence, InitialSend)

Bit(b) == IF b THEN 1 ELSE 0

-----------------------------------------------------------------------------
(* The inductive invariant.                                                *)

\* A stored piece holds the peer's bytes and ends inside the window.
Stored(e, s) ==
  /\ From(e) + Len(e.data) <= InboundLength
  /\ e.data = Piece(From(e), From(e) + Len(e.data))
  /\ e.finish => From(e) + Len(e.data) = InboundLength
  /\ From(e) + Len(e.data) + Bit(e.finish) <= Got(s) + Window(s)

\* The buffer ends where receive_next stands, and what was read before ends
\* where the buffer starts.
Reads(s, d) ==
  /\ Got(s) <= InboundLength + 1
  /\ s.receive_closed <=> Got(s) = InboundLength + 1
  /\ Len(s.receive_buffer) <= InOrder(s)
  /\ Len(s.receive_buffer) <= Capacity
  /\ s.receive_buffer = Piece(InOrder(s) - Len(s.receive_buffer), InOrder(s))
  /\ Len(d) <= InOrder(s)
  /\ ~s.read_closed => Len(d) + Len(s.receive_buffer) = InOrder(s)

Receives(k, d) ==
  LET s == k.socket
  IN  /\ d \in Seq(1 .. InboundLength)
      /\ d = Piece(0, Len(d)) /\ Len(d) <= InboundLength
      /\ IsFiniteSet(k.reassembly_)
      /\ Cardinality(k.reassembly_) <= ReassemblyCapacity
      /\ s.state \in {"free", "reset"} =>
           s.receive_buffer = <<>> /\ k.reassembly_ = {}
      /\ s.state \notin {"free", "reset"} => Reads(s, d)
      /\ s.state = "closed" => s.receive_closed
      /\ \A e \in k.reassembly_ :
           ~s.receive_closed /\ From(e) > Got(s) /\ Stored(e, s)

Covers(e, b) == Place(e) < b /\ b <= Place(e) + Len(e.data)

\* Every byte behind `from' up to `to' is in exactly one piece of T.
Tiles(T, from, to) ==
  /\ \A e \in T :
       /\ e.data = Piece(Place(e), Place(e) + Len(e.data)) /\ Len(e.data) > 0
       /\ from <= Place(e) /\ Place(e) + Len(e.data) <= to
  /\ \A b \in from + 1 .. to : \E e \in T : Covers(e, b)
  /\ \A e, f \in T :
       (\E b \in 1 .. OutboundLength : Covers(e, b) /\ Covers(f, b)) => e = f

\* The retransmission store tiles the flight; before the FIN everything is
\* acknowledged.
Sends(k) ==
  LET s == k.socket
      last == Written(s) - Bit(s.fin_sent)
  IN  /\ IsFiniteSet(k.transmissions_)
      /\ Cardinality(k.transmissions_) <= TransmitCapacity
      /\ s.state \notin Synchronized => k.transmissions_ = {}
      /\ s.state \in Synchronized =>
           /\ Acked(s) <= Written(s) /\ last <= OutboundLength
           /\ s.fin_sent => Written(s) - Acked(s) = Bit(~s.fin_acked)
           /\ Tiles(k.transmissions_, Acked(s), last)

Closes(s) ==
  /\ s.detached => s.references = 1
  /\ s.state \in Synchronized =>
       /\ s.state = StateOfFins(s)
       /\ s.fin_acked => s.fin_sent
       /\ s.fin_sent => s.send_closed
       /\ s.active_close => s.send_closed
       /\ s.send_closed /\ ~s.receive_closed => s.active_close

Owes(k) ==
  k.socket.state \in Synchronized /\ k.told # Told(k.socket)
    => k.socket.acknowledgement_retries = 1

Sound(k, d) == k \in Stack /\ Receives(k, d) /\ Sends(k) /\ Closes(k.socket)

IInv ==
  /\ Sound(stack, delivered) /\ Owes(stack)
  /\ unanswered \in 0 .. Interval

-----------------------------------------------------------------------------
(* Sequence numbers and pieces of a stream.                                *)

LEMMA Constants ==
  /\ Capacity \in Nat /\ ReassemblyCapacity \in Nat /\ TransmitCapacity \in Nat
  /\ Mss \in Nat /\ Mss > 0 /\ Interval \in Nat /\ Interval > 0
  /\ MaxReferences \in Nat /\ MaxReferences > 0
  /\ InboundLength \in Nat /\ OutboundLength \in Nat /\ SequenceSpace \in Nat
  /\ 2 * InboundLength + 4 < SequenceSpace
  /\ 2 * OutboundLength + 4 < SequenceSpace
  /\ InitialReceive \in Number /\ InitialSend \in Number
  /\ Windows \subseteq Nat
BY TcpAssumption DEF Number

\* Every number is at some place behind the first one (socket.hpp:415).
LEMMA PlaceOfNumber ==
  ASSUME NEW x \in Number, NEW i \in Number
  PROVE  Minus(x, i) \in Number /\ Plus(i, Minus(x, i)) = x
<1> DEFINE S == SequenceSpace
<1>0. S \in Nat /\ S > 0 BY Constants
<1>1. CASE x >= i
  <2>1. (x - i) % S = x - i BY <1>0, <1>1 DEF Number
  <2>2. (i + (x - i)) % S = x BY <1>0, <1>1 DEF Number
  <2> QED BY <1>0, <1>1, <2>1, <2>2 DEF Number, Minus, Plus
<1>2. CASE x < i
  <2>1. (x - i) % S = x - i + S BY <1>0, <1>2 DEF Number
  <2>2. (i + (x - i + S)) % S = x BY <1>0, <1>2 DEF Number
  <2> QED BY <1>0, <1>2, <2>1, <2>2 DEF Number, Minus, Plus
<1> QED BY <1>1, <1>2 DEF Number

\* The number n places behind the first one is at place n.
LEMMA NumberOfPlace ==
  ASSUME NEW i \in Number, NEW n \in Number
  PROVE  Plus(i, n) \in Number /\ Minus(Plus(i, n), i) = n
<1> DEFINE S == SequenceSpace
<1>0. S \in Nat /\ S > 0 BY Constants
<1>1. CASE i + n < S
  <2>1. (i + n) % S = i + n BY <1>0, <1>1 DEF Number
  <2>2. (i + n - i) % S = n BY <1>0, <1>1 DEF Number
  <2> QED BY <1>0, <1>1, <2>1, <2>2 DEF Number, Minus, Plus
<1>2. CASE i + n >= S
  <2>1. (i + n) % S = i + n - S BY <1>0, <1>2 DEF Number
  <2>2. (i + n - S - i) % S = n BY <1>0, <1>2 DEF Number
  <2> QED BY <1>0, <1>2, <2>1, <2>2 DEF Number, Minus, Plus
<1> QED BY <1>0, <1>1, <1>2 DEF Number

LEMMA PlusType ==
  ASSUME NEW x \in Number, NEW n \in Nat
  PROVE  Plus(x, n) \in Number
<1>1. x + n \in Nat /\ SequenceSpace \in Nat /\ SequenceSpace > 0 BY Constants DEF Number
<1>2. (x + n) % SequenceSpace \in 0 .. SequenceSpace - 1 BY <1>1
<1> QED BY Zenon, <1>2 DEF Plus, Number

\* Adding to a number moves its place (socket.hpp:419).
LEMMA PlusPlace ==
  ASSUME NEW x \in Number, NEW i \in Number, NEW n \in Nat,
         Minus(x, i) + n < SequenceSpace
  PROVE  Plus(x, n) \in Number /\ Minus(Plus(x, n), i) = Minus(x, i) + n
<1> DEFINE S == SequenceSpace
           p == Minus(x, i)
<1>0. S \in Nat /\ S > 0 BY Constants
<1>1. p \in Number /\ Plus(i, p) = x BY Zenon, PlaceOfNumber
<1>2. p + n \in Number BY <1>0, <1>1 DEF Number
<1>3. Plus(i, p + n) \in Number /\ Minus(Plus(i, p + n), i) = p + n
  BY Zenon, <1>2, NumberOfPlace
<1> HIDE DEF p
<1>4. Plus(Plus(i, p), n) = Plus(i, p + n)
  <2>1. CASE i + p < S
    <3>1. (i + p) % S = i + p BY <1>0, <1>1, <2>1 DEF Number
    <3>2. (i + p) + n = i + (p + n) BY <1>1 DEF Number
    <3> QED BY Zenon, <3>1, <3>2 DEF Plus
  <2>2. CASE i + p >= S
    <3>1. (i + p) % S = i + p - S BY <1>0, <1>1, <2>2 DEF Number
    <3>2. (i + p - S + n) % S = i + p - S + n BY <1>0, <1>1, <1>2, <2>2 DEF Number
    <3>3. (i + (p + n)) % S = i + p - S + n BY <1>0, <1>1, <1>2, <2>2 DEF Number
    <3> QED BY Zenon, <3>1, <3>2, <3>3 DEF Plus
  <2> QED BY <1>0, <1>1, <2>1, <2>2 DEF Number
<1> QED BY Zenon, <1>1, <1>3, <1>4 DEF p

\* The signed distance of two numbers is the distance of their places, when
\* these are less than half the space apart (socket.hpp:410).
LEMMA SignedPlaces ==
  ASSUME NEW x \in Number, NEW y \in Number, NEW i \in Number,
         2 * (Minus(x, i) - Minus(y, i)) < SequenceSpace,
         2 * (Minus(y, i) - Minus(x, i)) < SequenceSpace
  PROVE  /\ Signed(x, y) = Minus(x, i) - Minus(y, i)
         /\ Minus(x, i) >= Minus(y, i) => Minus(x, y) = Minus(x, i) - Minus(y, i)
<1> DEFINE S == SequenceSpace
           a == Minus(x, i)
           b == Minus(y, i)
<1>0. S \in Nat /\ S > 0 BY Constants
<1>1. a \in Number /\ Plus(i, a) = x /\ b \in Number /\ Plus(i, b) = y BY Zenon, PlaceOfNumber
<1>2. 2 * (a - b) < S /\ 2 * (b - a) < S BY Zenon
<1>3. \A c \in Number : Plus(i, c) = IF i + c < S THEN i + c ELSE i + c - S
  <2> TAKE c \in Number
  <2>1. i + c < S => (i + c) % S = i + c BY <1>0 DEF Number
  <2>2. ~(i + c < S) => (i + c) % S = i + c - S BY <1>0 DEF Number
  <2> QED BY Zenon, <2>1, <2>2 DEF Plus
<1> HIDE DEF a, b
<1>4. x = (IF i + a < S THEN i + a ELSE i + a - S) /\ y = (IF i + b < S THEN i + b ELSE i + b - S)
  BY Zenon, <1>1, <1>3
<1>5. Minus(x, y) = IF a >= b THEN a - b ELSE a - b + S
  <2>1. x - y \in {a - b, a - b + S, a - b - S} BY <1>0, <1>1, <1>4 DEF Number
  <2>2. a - b \in Int BY <1>1 DEF Number
  <2>3. a >= b => /\ (a - b) % S = a - b
                  /\ (a - b + S) % S = a - b
                  /\ (a - b - S) % S = a - b
    BY <1>0, <1>1 DEF Number
  <2>4. ~(a >= b) => /\ (a - b) % S = a - b + S
                     /\ (a - b + S) % S = a - b + S
                     /\ (a - b - S) % S = a - b + S
    BY <1>0, <1>1 DEF Number
  <2> QED BY Zenon, <2>1, <2>3, <2>4 DEF Minus
<1>6. Signed(x, y) = a - b
  BY <1>0, <1>1, <1>2, <1>5 DEF Signed, Number
<1> QED BY Zenon, <1>5, <1>6 DEF a, b

\* Sequences, as the buffers and the data of a segment use them.
LEMMA LenProperties ==
  ASSUME NEW S, NEW s \in Seq(S)
  PROVE  Len(s) \in Nat /\ s \in [1 .. Len(s) -> S] /\ DOMAIN s = 1 .. Len(s)
OBVIOUS

LEMMA SeqEqual ==
  ASSUME NEW S, NEW s \in Seq(S), NEW t \in Seq(S), Len(s) = Len(t),
         \A i \in 1 .. Len(s) : s[i] = t[i]
  PROVE  s = t
OBVIOUS

LEMMA ConcatProperties ==
  ASSUME NEW S, NEW s \in Seq(S), NEW t \in Seq(S)
  PROVE  /\ s \o t \in Seq(S) /\ Len(s \o t) = Len(s) + Len(t)
         /\ \A i \in 1 .. Len(s) + Len(t) :
              (s \o t)[i] = IF i <= Len(s) THEN s[i] ELSE t[i - Len(s)]
OBVIOUS

LEMMA SubSeqProperties ==
  ASSUME NEW S, NEW s \in Seq(S), NEW m \in 1 .. Len(s) + 1, NEW n \in m - 1 .. Len(s)
  PROVE  /\ SubSeq(s, m, n) \in Seq(S) /\ Len(SubSeq(s, m, n)) = n - m + 1
         /\ \A i \in 1 .. n - m + 1 : SubSeq(s, m, n)[i] = s[m + i - 1]
OBVIOUS

LEMMA SubSeqEmpty ==
  ASSUME NEW s, NEW m \in Int, NEW n \in Int, n < m
  PROVE  SubSeq(s, m, n) = <<>>
OBVIOUS

LEMMA SubSeqFull ==
  ASSUME NEW S, NEW s \in Seq(S)
  PROVE  SubSeq(s, 1, Len(s)) = s
OBVIOUS

\* A piece is a sequence of its length.
LEMMA PieceSeq ==
  ASSUME NEW L \in Nat, NEW a \in Int, NEW b \in Int, 0 <= a, a <= b, b <= L
  PROVE  /\ Piece(a, b) \in Seq(1 .. L)
         /\ Len(Piece(a, b)) = b - a
         /\ \A i \in 1 .. b - a : Piece(a, b)[i] = a + i
<1>1. Piece(a, b) \in [1 .. b - a -> 1 .. L] BY DEF Piece
<1>2. b - a \in Nat OBVIOUS
<1> QED BY <1>1, <1>2 DEF Piece

\* Part of a piece is a piece.
LEMMA PieceCut ==
  ASSUME NEW a \in Int, NEW b \in Int, 0 <= a, a <= b,
         NEW i \in Int, NEW j \in Int, 0 <= i, i <= j, j <= b - a
  PROVE  SubSeq(Piece(a, b), i + 1, j) = Piece(a + i, a + j)
<1> DEFINE L == b
<1>0. L \in Nat /\ b <= L OBVIOUS
<1> HIDE DEF L
<1>1. /\ Piece(a, b) \in Seq(1 .. L) /\ Len(Piece(a, b)) = b - a
      /\ \A n \in 1 .. b - a : Piece(a, b)[n] = a + n
  BY Zenon, <1>0, PieceSeq
<1>2. /\ Piece(a + i, a + j) \in Seq(1 .. L) /\ Len(Piece(a + i, a + j)) = j - i
      /\ \A n \in 1 .. j - i : Piece(a + i, a + j)[n] = a + i + n
  <2> DEFINE x == a + i
             y == a + j
  <2>1. x \in Int /\ y \in Int /\ 0 <= x /\ x <= y /\ y <= L /\ y - x = j - i BY <1>0
  <2> HIDE DEF x, y
  <2>2. /\ Piece(x, y) \in Seq(1 .. L) /\ Len(Piece(x, y)) = y - x
        /\ \A n \in 1 .. y - x : Piece(x, y)[n] = x + n
    BY Zenon, <1>0, <2>1, PieceSeq
  <2> QED BY Zenon, <2>1, <2>2 DEF x, y
<1>3. \A n \in i + 1 .. j : Piece(a, b)[n] \in 1 .. L BY <1>0, <1>1
<1> DEFINE p == Piece(a, b)
           q == Piece(a + i, a + j)
           t == SubSeq(p, i + 1, j)
<1> HIDE DEF p, q, t
<1>4. /\ t \in Seq(1 .. L)
      /\ Len(t) = IF i + 1 <= j THEN j - (i + 1) + 1 ELSE 0
      /\ \A n \in 1 .. j - (i + 1) + 1 : t[n] = p[(i + 1) + n - 1]
  BY <1>3, SubSeqProperties, SMTT(60) DEF p, t
<1>5. Len(t) = j - i /\ \A n \in 1 .. j - i : t[n] = a + i + n
  BY <1>1, <1>4 DEF p
<1>6. t = q BY <1>2, <1>4, <1>5, SeqEqual DEF q
<1> QED BY Zenon, <1>6 DEF p, q, t

\* Pieces that meet join to one.
LEMMA PieceJoin ==
  ASSUME NEW a \in Int, NEW b \in Int, NEW c \in Int, 0 <= a, a <= b, b <= c
  PROVE  Piece(a, b) \o Piece(b, c) = Piece(a, c)
<1> DEFINE L == c
<1>0. L \in Nat /\ b <= L /\ c <= L /\ a <= c /\ 0 <= b OBVIOUS
<1> HIDE DEF L
<1>1. /\ Piece(a, b) \in Seq(1 .. L) /\ Len(Piece(a, b)) = b - a
      /\ \A n \in 1 .. b - a : Piece(a, b)[n] = a + n
  BY Zenon, <1>0, PieceSeq
<1>2. /\ Piece(b, c) \in Seq(1 .. L) /\ Len(Piece(b, c)) = c - b
      /\ \A n \in 1 .. c - b : Piece(b, c)[n] = b + n
  BY Zenon, <1>0, PieceSeq
<1>3. /\ Piece(a, c) \in Seq(1 .. L) /\ Len(Piece(a, c)) = c - a
      /\ \A n \in 1 .. c - a : Piece(a, c)[n] = a + n
  BY Zenon, <1>0, PieceSeq
<1> DEFINE p == Piece(a, b)
           q == Piece(b, c)
           r == Piece(a, c)
<1> HIDE DEF p, q, r
<1>4. /\ p \o q \in Seq(1 .. L) /\ Len(p \o q) = Len(p) + Len(q)
      /\ \A i \in 1 .. Len(p) + Len(q) :
           (p \o q)[i] = IF i <= Len(p) THEN p[i] ELSE q[i - Len(p)]
  BY Zenon, <1>1, <1>2, ConcatProperties DEF p, q
<1>5. Len(p) = b - a /\ Len(q) = c - b /\ Len(p \o q) = c - a BY <1>1, <1>2, <1>4 DEF p, q
<1>6. ASSUME NEW i \in 1 .. c - a PROVE (p \o q)[i] = r[i]
  <2>1. r[i] = a + i BY Zenon, <1>3 DEF r
  <2>2. CASE i <= b - a
    <3>1. (p \o q)[i] = p[i] BY Zenon, <1>4, <1>5, <2>2
    <3> QED BY <1>1, <2>1, <2>2, <3>1 DEF p
  <2>3. CASE ~(i <= b - a)
    <3>1. (p \o q)[i] = q[i - (b - a)] BY Zenon, <1>4, <1>5, <2>3
    <3>2. i - (b - a) \in 1 .. c - b BY <2>3
    <3> QED BY <1>2, <2>1, <3>1, <3>2 DEF q
  <2> QED BY Zenon, <2>2, <2>3
<1>7. r \in Seq(1 .. L) /\ Len(r) = c - a BY Zenon, <1>3 DEF r
<1>8. p \o q = r BY Zenon, <1>4, <1>5, <1>6, <1>7, SeqEqual
<1> QED BY Zenon, <1>8 DEF p, q, r

LEMMA PieceEmpty ==
  ASSUME NEW a \in Int
  PROVE  Piece(a, a) = <<>>
<1>1. a - a = 0 OBVIOUS
<1> QED BY <1>1 DEF Piece

LEMMA PieceSplit ==
  ASSUME NEW a \in Int, NEW b \in Int, 0 <= a, a <= b, NEW n \in Int, 0 <= n, n <= b - a
  PROVE  /\ SubSeq(Piece(a, b), 1, n) = Piece(a, a + n)
         /\ SubSeq(Piece(a, b), n + 1, b - a) = Piece(a + n, b)
<1>0. 0 \in Int /\ 0 <= 0 OBVIOUS
<1>1. SubSeq(Piece(a, b), 0 + 1, n) = Piece(a + 0, a + n) BY <1>0, PieceCut, ZenonT(60)
<1> DEFINE m == b - a
<1>2. m \in Int /\ n <= m /\ m <= b - a OBVIOUS
<1> HIDE DEF m
<1>3. SubSeq(Piece(a, b), n + 1, m) = Piece(a + n, a + m) BY <1>2, PieceCut, ZenonT(60)
<1>4. a + m = b BY DEF m
<1> QED BY <1>1, <1>3, <1>4 DEF m

\* The peer's bytes and ours are pieces of the streams.
LEMMA StreamPiece ==
  /\ \A a, b \in Int : 0 <= a /\ a <= b /\ b <= InboundLength
       => SubSeq(Inbound, a + 1, b) = Piece(a, b)
  /\ \A a, b \in Int : 0 <= a /\ a <= b /\ b <= OutboundLength
       => SubSeq(Outbound, a + 1, b) = Piece(a, b)
<1>1. Inbound = Piece(0, InboundLength) BY Constants DEF Inbound, Piece
<1>2. Outbound = Piece(0, OutboundLength) BY Constants DEF Outbound, Piece
<1>3. ASSUME NEW L \in Nat, NEW a \in Int, NEW b \in Int, 0 <= a, a <= b, b <= L
      PROVE  SubSeq(Piece(0, L), a + 1, b) = Piece(a, b)
  <2>1. SubSeq(Piece(0, L), a + 1, b) = Piece(0 + a, 0 + b) BY <1>3, PieceCut
  <2> QED BY <2>1
<1>4. /\ \A a, b \in Int : 0 <= a /\ a <= b /\ b <= InboundLength
           => SubSeq(Piece(0, InboundLength), a + 1, b) = Piece(a, b)
      /\ \A a, b \in Int : 0 <= a /\ a <= b /\ b <= OutboundLength
           => SubSeq(Piece(0, OutboundLength), a + 1, b) = Piece(a, b)
  BY Zenon, <1>3, Constants
<1> QED BY Zenon, <1>1, <1>2, <1>4

-----------------------------------------------------------------------------
(* What the helpers of the stack leave as it was.                          *)

\* The fields of the two directions, and of the close protocol.
SameState(r, s) == r.state = s.state \/ {r.state, s.state} \subseteq Synchronized

SameReceive(r, s) ==
  /\ r.receive_next = s.receive_next /\ r.receive_buffer = s.receive_buffer
  /\ r.receive_closed = s.receive_closed /\ r.read_closed = s.read_closed

SameSend(r, s) ==
  /\ r.send_next = s.send_next /\ r.send_unacknowledged = s.send_unacknowledged
  /\ r.fin_sent = s.fin_sent /\ r.fin_acked = s.fin_acked

SameStreams(r, s) ==
  /\ SameReceive(r, s) /\ SameSend(r, s) /\ r.state = s.state
  /\ r.detached = s.detached /\ (r.detached => r.references = s.references)
  /\ r.send_closed = s.send_closed /\ r.active_close = s.active_close

Keeps(k, m) ==
  /\ m \in Stack /\ SameStreams(k.socket, m.socket)
  /\ m.reassembly_ = k.reassembly_ /\ m.transmissions_ = k.transmissions_

LEMMA ReceivesKept ==
  ASSUME NEW k, NEW m, NEW d, Receives(k, d), m.reassembly_ = k.reassembly_,
         SameState(k.socket, m.socket), SameReceive(k.socket, m.socket)
  PROVE  Receives(m, d)
<1> DEFINE s == k.socket
           r == m.socket
<1>1. Got(r) = Got(s) /\ InOrder(r) = InOrder(s) /\ Window(r) = Window(s)
  BY Zenon DEF SameReceive, Got, InOrder, Window
<1>2. Reads(s, d) => Reads(r, d) BY Zenon, <1>1 DEF SameReceive, Reads
<1>3. \A e : Stored(e, s) => Stored(e, r) BY Zenon, <1>1 DEF Stored
<1>4. /\ r.state \in {"free", "reset"} => r.state = s.state
      /\ s.state \in {"free", "reset"} => r.state = s.state
      /\ r.state = "closed" => r.state = s.state
  BY Zenon DEF SameState, Synchronized
<1> QED BY Zenon, <1>1, <1>2, <1>3, <1>4 DEF SameReceive, Receives

LEMMA SendsKept ==
  ASSUME NEW k, NEW m, Sends(k), m.transmissions_ = k.transmissions_,
         SameState(k.socket, m.socket), SameSend(k.socket, m.socket)
  PROVE  Sends(m)
<1>1. Acked(m.socket) = Acked(k.socket) /\ Written(m.socket) = Written(k.socket)
  BY Zenon DEF SameSend, Acked, Written
<1>2. m.socket.state \in Synchronized <=> k.socket.state \in Synchronized
  BY Zenon DEF SameState
<1> QED BY Zenon, <1>1, <1>2 DEF SameSend, Sends

LEMMA KeptSound ==
  ASSUME NEW k, NEW m, NEW d, Sound(k, d), Keeps(k, m)
  PROVE  Sound(m, d)
<1> DEFINE s == k.socket
           r == m.socket
<1>0. SameState(s, r) BY Zenon DEF Keeps, SameStreams, SameState
<1>1. Receives(m, d) BY Zenon, <1>0, ReceivesKept DEF Keeps, SameStreams, Sound
<1>2. Sends(m) BY Zenon, <1>0, SendsKept DEF Keeps, SameStreams, Sound
<1>3. StateOfFins(r) = StateOfFins(s)
  BY Zenon DEF Keeps, SameStreams, SameReceive, SameSend, StateOfFins
<1>4. Closes(r) BY Zenon, <1>3 DEF Sound, Keeps, SameStreams, SameReceive, SameSend, Closes
<1> QED BY Zenon, <1>1, <1>2, <1>4 DEF Keeps, Sound

LEMMA ToldType ==
  ASSUME NEW s \in Socket
  PROVE  Told(s) \in Int \X Int /\ s.receive_next \in Int /\ Window(s) \in Int
BY Constants, LenProperties DEF Told, Window, Socket, Number

\* Every segment tells the acknowledgement and the window (stack.cpp:263).
LEMMA SegmentKeeps ==
  ASSUME NEW k \in Stack
  PROVE  Keeps(k, send_segment(k)) /\ Owes(send_segment(k))
BY Zenon, ToldType DEF send_segment, Keeps, SameStreams, SameReceive, SameSend, Stack, Owes

\* An acknowledgement is sent once more, or stays owed (stack.cpp:556).
LEMMA FlushKeeps ==
  ASSUME NEW k \in Stack, NEW io
  PROVE  /\ Keeps(k, flush_acknowledgement(k, io))
         /\ Owes(k) => Owes(flush_acknowledgement(k, io))
<1> DEFINE m == flush_acknowledgement(k, io)
<1>1. CASE m = k BY Zenon, <1>1 DEF Keeps, SameStreams, SameReceive, SameSend
<1>2. CASE m # k
  <2>1. /\ k.socket.acknowledgement_retries # 0 /\ k.socket.state \in Synchronized
        /\ m = [send_segment(k) EXCEPT !.socket.acknowledgement_retries = @ - 1]
    BY Zenon, <1>2 DEF flush_acknowledgement
  <2> DEFINE t == [k.socket EXCEPT !.acknowledgement_retries = 0]
  <2>2. k.socket \in Socket BY Zenon DEF Stack
  <2>3. k.socket.acknowledgement_retries = 1 BY Zenon, <2>1, <2>2 DEF Socket
  <2>4. t \in Socket /\ SameStreams(k.socket, t) BY Zenon, <2>2 DEF Socket, SameStreams, SameReceive, SameSend
  <2>5. Told(t) = Told(k.socket) BY Zenon, <2>4 DEF SameStreams, SameReceive, SameSend, Told, Window
  <2> DEFINE u == send_segment(k)
  <2>6. u \in Stack /\ u.socket = k.socket /\ u.told = Told(k.socket)
        /\ u.reassembly_ = k.reassembly_ /\ u.transmissions_ = k.transmissions_
    BY Zenon, <2>2, ToldType DEF send_segment, Stack
  <2> HIDE DEF u
  <2>7. m = [u EXCEPT !.socket = t] BY <2>1, <2>2, <2>3, <2>6 DEF Stack, u
  <2> HIDE DEF t, m
  <2>8. m \in Stack /\ m.socket = t /\ m.told = Told(t) /\ m.reassembly_ = k.reassembly_
        /\ m.transmissions_ = k.transmissions_
    BY Zenon, <2>4, <2>5, <2>6, <2>7 DEF Stack
  <2> QED BY Zenon, <2>4, <2>8 DEF Keeps, Owes, m
<1> QED BY Zenon, <1>1, <1>2

\* A slot of the stack is replaced as a whole.
LEMMA SocketPut ==
  ASSUME NEW k \in Stack, NEW t \in Socket
  PROVE  LET m == [k EXCEPT !.socket = t]
         IN  /\ m \in Stack /\ m.socket = t /\ m.told = k.told /\ m.blame = k.blame
             /\ m.reassembly_ = k.reassembly_ /\ m.transmissions_ = k.transmissions_
BY Zenon DEF Stack

LEMMA KeepsAgain ==
  ASSUME NEW k, NEW l, NEW m, Keeps(k, l), Keeps(l, m)
  PROVE  Keeps(k, m)
BY Zenon DEF Keeps, SameStreams, SameReceive, SameSend

LEMMA KeepsSelf == ASSUME NEW k \in Stack PROVE Keeps(k, k)
BY Zenon DEF Keeps, SameStreams, SameReceive, SameSend

\* A request to acknowledge again (stack.cpp:759).
LEMMA OwedKeeps ==
  ASSUME NEW k \in Stack
  PROVE  LET m == [k EXCEPT !.socket.acknowledgement_retries = 1]
         IN  Keeps(k, m) /\ Owes(m)
<1> DEFINE t == [k.socket EXCEPT !.acknowledgement_retries = 1]
           m == [k EXCEPT !.socket.acknowledgement_retries = 1]
<1>1. k.socket \in Socket BY Zenon DEF Stack
<1>2. t \in Socket /\ SameStreams(k.socket, t) /\ t.acknowledgement_retries = 1
  BY Zenon, <1>1 DEF Socket, SameStreams, SameReceive, SameSend
<1>3. m = [k EXCEPT !.socket = t] BY Zenon, <1>1 DEF Stack
<1> HIDE DEF t, m
<1>4. m \in Stack /\ m.socket = t /\ m.reassembly_ = k.reassembly_
      /\ m.transmissions_ = k.transmissions_
  BY Zenon, <1>2, <1>3, SocketPut
<1>5. Keeps(k, m) /\ Owes(m) BY Zenon, <1>2, <1>4 DEF Keeps, Owes
<1> QED BY Zenon, <1>5 DEF m

LEMMA ChallengeKeeps ==
  ASSUME NEW k \in Stack, NEW io
  PROVE  /\ Keeps(k, challenge_ack(k, io))
         /\ Owes(k) => Owes(challenge_ack(k, io))
<1> DEFINE l == [k EXCEPT !.socket.acknowledgement_retries = 1]
<1>1. Keeps(k, l) /\ Owes(l) BY Zenon, OwedKeeps
<1> HIDE DEF l
<1>2. l \in Stack BY Zenon, <1>1 DEF Keeps
<1>3. Keeps(l, flush_acknowledgement(l, io)) /\ Owes(flush_acknowledgement(l, io))
  BY Zenon, <1>1, <1>2, FlushKeeps
<1>4. Keeps(k, flush_acknowledgement(l, io)) BY Zenon, <1>1, <1>3, KeepsAgain
<1> QED BY Zenon, <1>3, <1>4, KeepsSelf DEF challenge_ack, l

-----------------------------------------------------------------------------
(* The end of a connection.                                                *)

LEMMA FreeType == Free \in Socket /\ ~(Free.state \in Synchronized)
<1>1. 0 \in Number /\ 0 \in 0 .. MaxReferences /\ 0 \in 0 .. Interval
  BY Constants DEF Number
<1>2. <<>> \in Seq(1 .. InboundLength) OBVIOUS
<1> QED BY Zenon, <1>1, <1>2 DEF Free, Socket, States, Synchronized

\* A slot that is given back holds nothing of its connection (socket.hpp:223).
LEMMA FreedSound ==
  ASSUME NEW k, NEW m, NEW d, Sound(k, d), m \in Stack, m.socket = Free,
         m.reassembly_ = {}, m.transmissions_ = {}
  PROVE  Sound(m, d) /\ Owes(m)
<1>1. Free.state = "free" /\ Free.receive_buffer = <<>> /\ ~Free.detached BY Zenon DEF Free
<1>2. IsFiniteSet({}) /\ Cardinality({}) = 0 BY Zenon, FS_EmptySet
<1>3. Receives(m, d) BY <1>1, <1>2, Constants DEF Sound, Receives
<1>4. Sends(m) BY <1>1, <1>2, FreeType, Constants DEF Sends
<1>5. Closes(m.socket) BY Zenon, <1>1, FreeType DEF Closes
<1> QED BY Zenon, <1>3, <1>4, <1>5, FreeType DEF Sound, Owes

\* So does one that was reset (socket.hpp:497).
LEMMA ResetSound ==
  ASSUME NEW k, NEW m, NEW d, Sound(k, d), m \in Stack, m.socket.state = "reset",
         m.socket.receive_buffer = <<>>, ~m.socket.detached,
         m.reassembly_ = {}, m.transmissions_ = {}
  PROVE  Sound(m, d) /\ Owes(m)
<1>1. m.socket.state \notin Synchronized BY Zenon DEF Synchronized
<1>2. IsFiniteSet({}) /\ Cardinality({}) = 0 BY Zenon, FS_EmptySet
<1>3. Receives(m, d) BY <1>1, <1>2, Constants DEF Sound, Receives
<1>4. Sends(m) BY <1>1, <1>2, Constants DEF Sends
<1>5. Closes(m.socket) BY Zenon, <1>1 DEF Closes
<1> QED BY Zenon, <1>1, <1>3, <1>4, <1>5 DEF Sound, Owes

\* The last reference frees the slot (socket.hpp:223).
LEMMA ReleaseLast ==
  ASSUME NEW k \in Stack, NEW d, NEW l, Sound(l, d),
         k.socket.references <= 1, k.transmissions_ = {}
  PROVE  Sound(release(k), d) /\ Owes(release(k)) /\ release(k).socket = Free
<1> DEFINE m == release(k)
<1>0. k.socket.references \in Int BY Constants DEF Stack, Socket
<1>1. m = [k EXCEPT !.socket = Free, !.reassembly_ = {}] BY <1>0 DEF release
<1> HIDE DEF m
<1>2. m \in Stack /\ m.socket = Free /\ m.reassembly_ = {} /\ m.transmissions_ = {}
  BY Zenon, <1>1, FreeType DEF Stack
<1>3. Sound(m, d) /\ Owes(m) BY Zenon, <1>2, FreedSound
<1> QED BY Zenon, <1>2, <1>3 DEF m

LEMMA ResetEnds ==
  ASSUME NEW k \in Stack, NEW d, NEW l, Sound(l, d),
         ~k.socket.detached, k.transmissions_ = {}
  PROVE  Sound(reset(k), d) /\ Owes(reset(k)) /\ reset(k).socket.state = "reset"
<1> DEFINE m == reset(k)
           t == [k.socket EXCEPT !.state = "reset", !.receive_buffer = <<>>,
                   !.receive_closed = FALSE, !.persist_waiting = FALSE]
<1>1. k.socket \in Socket /\ <<>> \in Seq(1 .. InboundLength) BY DEF Stack
<1>2. /\ t \in Socket /\ t.state = "reset" /\ t.receive_buffer = <<>>
      /\ t.detached = k.socket.detached
  BY Zenon, <1>1 DEF Socket, States
<1>3. m = [k EXCEPT !.socket = t, !.reassembly_ = {}] BY Zenon, <1>1 DEF reset, Stack
<1> HIDE DEF m, t
<1>4. m \in Stack /\ m.socket = t /\ m.reassembly_ = {} /\ m.transmissions_ = {}
  BY Zenon, <1>2, <1>3 DEF Stack
<1>5. Sound(m, d) /\ Owes(m) BY Zenon, <1>2, <1>4, ResetSound
<1> QED BY Zenon, <1>2, <1>4, <1>5 DEF m

LEMMA ClearType ==
  ASSUME NEW k \in Stack
  PROVE  LET m == clear_transmissions(k)
         IN  /\ m \in Stack /\ m.socket = k.socket /\ m.transmissions_ = {}
             /\ m.reassembly_ = k.reassembly_ /\ m.told = k.told
BY Zenon DEF clear_transmissions, Stack

\* A connection that failed is freed when nobody holds it and reset otherwise
\* (stack.cpp:405).
LEMMA FailSound ==
  ASSUME NEW k, NEW d, Sound(k, d), NEW why \in {"silent", "close", "fin_wait"}
  PROVE  Sound(fail_connection(k, why), d) /\ Owes(fail_connection(k, why))
<1> DEFINE c == clear_transmissions(k)
           b == [c EXCEPT !.blame = why]
<1>1. k \in Stack /\ (k.socket.detached => k.socket.references = 1)
  BY Zenon DEF Sound, Closes
<1>2. c \in Stack /\ c.socket = k.socket /\ c.transmissions_ = {} BY Zenon, <1>1, ClearType
<1> HIDE DEF c
<1>3. b \in Stack /\ b.socket = k.socket /\ b.transmissions_ = {} BY Zenon, <1>2 DEF Stack
<1>4. fail_connection(k, why) = IF k.socket.detached THEN release(b) ELSE reset(b)
  BY Zenon DEF fail_connection, c, b
<1> HIDE DEF b
<1>5. CASE k.socket.detached BY <1>1, <1>3, <1>4, <1>5, ReleaseLast
<1>6. CASE ~k.socket.detached BY Zenon, <1>1, <1>3, <1>4, <1>6, ResetEnds
<1> QED BY Zenon, <1>5, <1>6

-----------------------------------------------------------------------------
(* The sender and the close protocol.                                      *)

LEMMA Places ==
  ASSUME NEW s \in Socket
  PROVE  /\ Acked(s) \in Number /\ Written(s) \in Number /\ Got(s) \in Number
         /\ Len(s.receive_buffer) \in Nat /\ Window(s) \in Int
         /\ Plus(InitialSend, Acked(s)) = s.send_unacknowledged
         /\ Plus(InitialSend, Written(s)) = s.send_next
         /\ Plus(InitialReceive, Got(s)) = s.receive_next
<1>1. s.send_unacknowledged \in Number /\ s.send_next \in Number /\ s.receive_next \in Number
  BY Zenon DEF Socket
<1>2. s.receive_buffer \in Seq(1 .. InboundLength) BY Zenon DEF Socket
<1>3. Len(s.receive_buffer) \in Nat BY Zenon, <1>2, LenProperties
<1> QED BY <1>1, <1>3, PlaceOfNumber, Constants DEF Acked, Written, Got, Window

LEMMA EntryPlaces ==
  /\ \A e \in Sent : /\ Place(e) \in Number /\ Len(e.data) \in Nat
                     /\ Plus(InitialSend, Place(e)) = e.sequence
  /\ \A e \in Ahead : /\ From(e) \in Number /\ Len(e.data) \in Nat
                      /\ Plus(InitialReceive, From(e)) = e.sequence
                      /\ Bit(e.finish) \in {0, 1}
<1>1. ASSUME NEW e \in Sent
      PROVE  /\ Place(e) \in Number /\ Len(e.data) \in Nat
             /\ Plus(InitialSend, Place(e)) = e.sequence
  <2>1. e.sequence \in Number /\ e.data \in Seq(1 .. OutboundLength) BY Zenon DEF Sent
  <2> QED BY Zenon, <2>1, PlaceOfNumber, LenProperties, Constants DEF Place
<1>2. ASSUME NEW e \in Ahead
      PROVE  /\ From(e) \in Number /\ Len(e.data) \in Nat
             /\ Plus(InitialReceive, From(e)) = e.sequence
             /\ Bit(e.finish) \in {0, 1}
  <2>1. e.sequence \in Number /\ e.data \in Seq(1 .. InboundLength) BY Zenon DEF Ahead
  <2> QED BY Zenon, <2>1, PlaceOfNumber, LenProperties, Constants DEF From, Bit
<1> QED BY Zenon, <1>1, <1>2

\* With the FIN out, or everything acknowledged, nothing is in flight.
LEMMA FlightEmpty ==
  ASSUME NEW k, k \in Stack, Sends(k), k.socket.state \in Synchronized,
         k.socket.fin_sent \/ k.socket.send_next = k.socket.send_unacknowledged
  PROVE  k.transmissions_ = {}
<1> DEFINE s == k.socket
<1>1. s \in Socket /\ k.transmissions_ \subseteq Sent BY Zenon DEF Stack
<1>2. Acked(s) \in Number /\ Written(s) \in Number BY Zenon, <1>1, Places
<1>3. Written(s) - Bit(s.fin_sent) <= Acked(s)
  <2>1. s.fin_sent => Written(s) - Acked(s) = Bit(~s.fin_acked) BY Zenon DEF Sends
  <2>2. CASE s.fin_sent BY <1>2, <2>1, <2>2 DEF Bit, Number
  <2>3. CASE ~s.fin_sent BY <1>2, <2>3 DEF Bit, Number, Acked, Written
  <2> QED BY Zenon, <2>2, <2>3
<1>4. \A e \in k.transmissions_ :
        /\ Len(e.data) > 0 /\ Acked(s) <= Place(e)
        /\ Place(e) + Len(e.data) <= Written(s) - Bit(s.fin_sent)
  BY Zenon DEF Sends, Tiles
<1>5. \A e \in k.transmissions_ : Place(e) \in Int /\ Len(e.data) \in Int
  BY <1>1, EntryPlaces DEF Number
<1>6. Acked(s) \in Int /\ Written(s) \in Int /\ Bit(s.fin_sent) \in Int
  BY <1>2 DEF Number, Bit
<1> QED BY <1>3, <1>4, <1>5, <1>6

\* The FIN goes out behind the last acknowledged byte (stack.cpp:430).
LEMMA FinSound ==
  ASSUME NEW k, NEW d, NEW io, Sound(k, d), k.socket.send_closed
  PROVE  /\ Sound(send_fin(k, io), d)
         /\ Owes(k) => Owes(send_fin(k, io))
<1> DEFINE m == send_fin(k, io)
           s == k.socket
           u == send_segment(k)
           t == [s EXCEPT !.send_next = IF s.fin_sent THEN @ ELSE Plus(@, 1),
                          !.fin_sent = TRUE]
<1>0. k \in Stack /\ s \in Socket BY Zenon DEF Sound, Stack
<1>1. CASE m = k BY Zenon, <1>1
<1>2. CASE m # k
  <2>1. /\ s.fin_sent \/ s.send_unacknowledged = s.send_next
        /\ m = [u EXCEPT !.socket.send_next = IF s.fin_sent THEN @ ELSE Plus(@, 1),
                         !.socket.fin_sent = TRUE]
    BY Zenon, <1>2 DEF send_fin
  <2>2. u \in Stack /\ u.socket = s /\ u.told = Told(s)
        /\ u.reassembly_ = k.reassembly_ /\ u.transmissions_ = k.transmissions_
    BY Zenon, <1>0, ToldType DEF send_segment, Stack
  <2>3. m = [u EXCEPT !.socket = t] BY Zenon, <1>0, <2>1, <2>2 DEF Stack
  <2> HIDE DEF u
  <2>4. s.send_next \in Number /\ Plus(s.send_next, 1) \in Number
    BY Zenon, <1>0, PlusType DEF Socket
  <2>5. /\ t \in Socket /\ t.fin_sent = TRUE /\ SameReceive(s, t)
        /\ t.state = s.state /\ t.detached = s.detached /\ t.references = s.references
        /\ t.send_closed = s.send_closed /\ t.active_close = s.active_close
        /\ t.fin_acked = s.fin_acked /\ t.send_unacknowledged = s.send_unacknowledged
        /\ t.send_next = IF s.fin_sent THEN s.send_next ELSE Plus(s.send_next, 1)
    BY Zenon, <1>0, <2>4 DEF Socket, SameReceive
  <2> HIDE DEF t, m
  <2>6. /\ m \in Stack /\ m.socket = t /\ m.told = Told(s)
        /\ m.reassembly_ = k.reassembly_ /\ m.transmissions_ = k.transmissions_
    BY Zenon, <2>2, <2>3, <2>5, SocketPut
  <2>7. SameState(s, t) BY Zenon, <2>5 DEF SameState
  <2>8. Receives(m, d) BY Zenon, <2>5, <2>6, <2>7, ReceivesKept DEF Sound
  <2>9. Closes(t)
    <3>1. StateOfFins(t) = StateOfFins(s) BY Zenon, <2>5 DEF StateOfFins, SameReceive
    <3> QED BY Zenon, <2>5, <3>1 DEF Closes, Sound, SameReceive
  <2>10. Sends(m)
    <3>1. CASE s.fin_sent \/ s.state \notin Synchronized
      <4>1. CASE s.fin_sent
        <5>1. SameSend(s, t) BY Zenon, <2>5, <4>1 DEF SameSend
        <5> QED BY Zenon, <2>6, <2>7, <5>1, SendsKept DEF Sound
      <4>2. CASE s.state \notin Synchronized BY Zenon, <2>5, <2>6, <4>2 DEF Sends, Sound
      <4> QED BY Zenon, <3>1, <4>1, <4>2
    <3>2. CASE ~s.fin_sent /\ s.state \in Synchronized
      <4>1. k.transmissions_ = {} BY Zenon, <1>0, <2>1, <3>2, FlightEmpty DEF Sound
      <4>2. Written(s) = Acked(s) /\ Acked(t) = Acked(s)
        BY Zenon, <2>1, <2>5, <3>2 DEF Written, Acked
      <4>3. Written(s) <= OutboundLength
        BY <1>0, <3>2, Places DEF Sound, Sends, Bit, Number
      <4>4. Written(t) = Written(s) + 1
        <5>1. Written(s) + 1 < SequenceSpace BY <1>0, <4>3, Places, Constants DEF Number
        <5>2. Minus(Plus(s.send_next, 1), InitialSend) = Written(s) + 1
          BY <2>4, <5>1, PlusPlace, Constants DEF Written
        <5> QED BY Zenon, <2>5, <3>2, <5>2 DEF Written
      <4>5. ~s.fin_acked BY Zenon, <3>2 DEF Sound, Closes
      <4>6. Written(t) \in Int /\ Written(s) \in Int /\ OutboundLength \in Int
        BY <1>0, <4>4, Places, Constants DEF Number
      <4>7. Bit(t.fin_sent) = 1 /\ Bit(~t.fin_acked) = 1 BY Zenon, <2>5, <4>5 DEF Bit
      <4>8. \A b \in Acked(t) + 1 .. Written(t) - 1 : FALSE BY <4>2, <4>4, <4>6
      <4> QED BY <2>5, <2>6, <4>1, <4>2, <4>3, <4>4, <4>6, <4>7, <4>8 DEF Sends, Tiles, Sound
    <3> QED BY Zenon, <3>1, <3>2
  <2>11. Owes(m)
    <3>1. Told(t) = Told(s) BY Zenon, <2>5 DEF SameReceive, Told, Window
    <3> QED BY Zenon, <2>6, <3>1 DEF Owes
  <2> QED BY Zenon, <2>6, <2>8, <2>9, <2>10, <2>11 DEF Sound, m
<1> QED BY Zenon, <1>1, <1>2

\* The application or the last close ends our stream: who is first says which
\* states follow (stack.cpp:418).
LEMMA RequestSound ==
  ASSUME NEW k, NEW d, NEW io, Sound(k, d), k.socket.state \in Synchronized
  PROVE  /\ Sound(request_fin(k, io), d)
         /\ Owes(k) => Owes(request_fin(k, io))
<1> DEFINE s == k.socket
           t == [s EXCEPT !.send_closed = TRUE, !.active_close = ~s.receive_closed,
                          !.state = IF s.receive_closed THEN "last_ack" ELSE "fin_wait_1",
                          !.state_since = 0]
           l == [k EXCEPT !.socket = t]
<1>0. k \in Stack /\ s \in Socket BY Zenon DEF Sound, Stack
<1>1. CASE s.send_closed BY Zenon, <1>1 DEF request_fin
<1>2. CASE ~s.send_closed
  <2>1. request_fin(k, io) = send_fin(l, io)
    <3>1. [k EXCEPT !.socket.send_closed = TRUE,
                    !.socket.active_close = ~k.socket.receive_closed,
                    !.socket.state = IF k.socket.receive_closed
                                     THEN "last_ack" ELSE "fin_wait_1",
                    !.socket.state_since = 0] = l
      BY Zenon, <1>0 DEF Stack
    <3> QED BY Zenon, <1>2, <3>1 DEF request_fin
  <2>2. /\ t \in Socket /\ SameReceive(s, t) /\ SameSend(s, t)
        /\ t.detached = s.detached /\ t.references = s.references
        /\ t.acknowledgement_retries = s.acknowledgement_retries
        /\ t.send_closed = TRUE /\ t.active_close = ~s.receive_closed
        /\ t.state = IF s.receive_closed THEN "last_ack" ELSE "fin_wait_1"
    <3>1. 0 \in 0 .. Interval BY Constants
    <3>2. CASE s.receive_closed
      <4>1. t = [s EXCEPT !.send_closed = TRUE, !.active_close = FALSE,
                          !.state = "last_ack", !.state_since = 0]
        BY Zenon, <1>0, <3>2 DEF Socket
      <4> HIDE DEF t
      <4> QED BY Zenon, <1>0, <3>1, <3>2, <4>1 DEF Socket, SameReceive, SameSend, States, Synchronized
    <3>3. CASE ~s.receive_closed
      <4>1. t = [s EXCEPT !.send_closed = TRUE, !.active_close = TRUE,
                          !.state = "fin_wait_1", !.state_since = 0]
        BY Zenon, <1>0, <3>3 DEF Socket
      <4> HIDE DEF t
      <4> QED BY Zenon, <1>0, <3>1, <3>3, <4>1 DEF Socket, SameReceive, SameSend, States, Synchronized
    <3> QED BY Zenon, <3>2, <3>3
  <2> HIDE DEF t
  <2>3. /\ l \in Stack /\ l.socket = t /\ l.told = k.told
        /\ l.reassembly_ = k.reassembly_ /\ l.transmissions_ = k.transmissions_
    BY Zenon, <1>0, <2>2, SocketPut
  <2> HIDE DEF l
  <2>4. SameState(s, t) BY Zenon, <2>2 DEF SameState, Synchronized
  <2>5. Receives(l, d) BY Zenon, <2>2, <2>3, <2>4, ReceivesKept DEF Sound
  <2>6. Sends(l) BY Zenon, <2>2, <2>3, <2>4, SendsKept DEF Sound
  <2>7. ~s.fin_sent /\ ~s.fin_acked BY Zenon, <1>2 DEF Sound, Closes
  <2>8. Closes(t)
    BY Zenon, <2>2, <2>7 DEF Sound, Closes, StateOfFins, SameReceive, SameSend
  <2>9. Owes(k) => Owes(l)
    <3>1. Told(t) = Told(s) BY Zenon, <2>2 DEF SameReceive, Told, Window
    <3> QED BY Zenon, <2>2, <2>3, <3>1 DEF Owes
  <2>10. Sound(l, d) BY Zenon, <2>3, <2>5, <2>6, <2>8 DEF Sound
  <2> QED BY Zenon, <2>1, <2>2, <2>3, <2>9, <2>10, FinSound
<1> QED BY Zenon, <1>1, <1>2

-----------------------------------------------------------------------------
(* Acknowledgements.                                                       *)

LEMMA FiniteImage ==
  ASSUME NEW S, IsFiniteSet(S), NEW f, DOMAIN f = S
  PROVE  LET T == {f[x] : x \in S}
         IN  IsFiniteSet(T) /\ Cardinality(T) <= Cardinality(S)
<1> DEFINE T == {f[x] : x \in S}
           g == [x \in S |-> f[x]]
<1>1. g \in Surjection(S, T) BY Zenon DEF Surjection
<1> QED BY Zenon, <1>1, FS_Surjection

\* The new acknowledgement cuts the store where it stands: what it covers is
\* dropped, and the rest keeps its bytes under their numbers (stack.cpp:357).
LEMMA UncoveredTiles ==
  ASSUME NEW T \in SUBSET Sent, IsFiniteSet(T), NEW u \in Number, NEW to \in Nat,
         to <= OutboundLength, Tiles(T, u, to),
         NEW ack \in Number, NEW a, a = Minus(ack, InitialSend), u < a, a <= to
  PROVE  /\ Uncovered(T, ack) \in SUBSET Sent
         /\ IsFiniteSet(Uncovered(T, ack))
         /\ Cardinality(Uncovered(T, ack)) <= Cardinality(T)
         /\ Tiles(Uncovered(T, ack), a, to)
<1> DEFINE Left == {f \in T : Signed(ack, f.sequence) < Len(f.data)}
           Cut(e) == IF Signed(ack, e.sequence) <= 0 THEN e
                     ELSE [sequence |-> ack,
                           data |-> SubSeq(e.data, Minus(ack, e.sequence) + 1, Len(e.data))]
           g == [e \in Left |-> Cut(e)]
           V == {g[e] : e \in Left}
<1>0. a \in Int /\ u \in Int /\ 0 <= u /\ OutboundLength \in Nat /\ InitialSend \in Number
  BY PlaceOfNumber, Constants DEF Number
<1>1. Uncovered(T, ack) = V
  BY Zenon DEF Uncovered
<1>2. IsFiniteSet(Left) /\ Cardinality(Left) <= Cardinality(T) BY Zenon, FS_Subset
<1>3. IsFiniteSet(V) /\ Cardinality(V) <= Cardinality(Left) BY Zenon, <1>2, FiniteImage
<1>4. Cardinality(V) <= Cardinality(T)
  BY <1>2, <1>3, FS_CardinalityType
<1>5. ASSUME NEW e \in T
      PROVE  /\ e \in Sent /\ Place(e) \in Int /\ Len(e.data) \in Int
             /\ e.data = Piece(Place(e), Place(e) + Len(e.data)) /\ Len(e.data) > 0
             /\ u <= Place(e) /\ Place(e) + Len(e.data) <= to
             /\ Signed(ack, e.sequence) = a - Place(e)
             /\ a >= Place(e) => Minus(ack, e.sequence) = a - Place(e)
  <2>1. e \in Sent /\ Place(e) \in Number /\ Len(e.data) \in Nat /\ e.sequence \in Number
    BY Zenon, EntryPlaces DEF Sent
  <2>2. /\ e.data = Piece(Place(e), Place(e) + Len(e.data)) /\ Len(e.data) > 0
        /\ u <= Place(e) /\ Place(e) + Len(e.data) <= to
    BY Zenon DEF Tiles
  <2>3. 2 * (a - Place(e)) < SequenceSpace /\ 2 * (Place(e) - a) < SequenceSpace
    BY <1>0, <2>1, <2>2, Constants, SMTT(60) DEF Number
  <2>4. /\ Signed(ack, e.sequence) = a - Place(e)
        /\ a >= Place(e) => Minus(ack, e.sequence) = a - Place(e)
    BY Zenon, <1>0, <2>1, <2>3, SignedPlaces DEF Place
  <2> QED BY <2>1, <2>2, <2>4 DEF Number
<1>6. ASSUME NEW e \in Left
      PROVE  /\ g[e] \in Sent
             /\ g[e].data = Piece(Place(g[e]), Place(g[e]) + Len(g[e].data))
             /\ Len(g[e].data) > 0
             /\ a <= Place(g[e])
             /\ Place(g[e]) + Len(g[e].data) = Place(e) + Len(e.data)
             /\ Place(g[e]) = IF a <= Place(e) THEN Place(e) ELSE a
  <2>0. e \in T /\ g[e] = Cut(e) /\ Signed(ack, e.sequence) < Len(e.data) BY Zenon
  <2>3. /\ e \in Sent /\ Place(e) \in Int /\ Len(e.data) \in Int
        /\ e.data = Piece(Place(e), Place(e) + Len(e.data)) /\ Len(e.data) > 0
        /\ u <= Place(e) /\ Place(e) + Len(e.data) <= to
        /\ Signed(ack, e.sequence) = a - Place(e)
        /\ a >= Place(e) => Minus(ack, e.sequence) = a - Place(e)
    BY Zenon, <1>5, <2>0
  <2>1. CASE a <= Place(e)
    <3>1. g[e] = e BY <1>0, <2>0, <2>1, <2>3
    <3> HIDE DEF g
    <3> QED BY Zenon, <1>0, <2>1, <2>3, <3>1
  <2>2. CASE ~(a <= Place(e))
    <3> DEFINE p == Place(e)
               n == Len(e.data)
               q == p + n
               i == a - p
    <3>1. g[e] = [sequence |-> ack, data |-> SubSeq(e.data, i + 1, n)]
      <4>1. ~(Signed(ack, e.sequence) <= 0) /\ Minus(ack, e.sequence) = i
        BY <1>0, <2>2, <2>3
      <4>2. g[e] = [sequence |-> ack,
                    data |-> SubSeq(e.data, Minus(ack, e.sequence) + 1, Len(e.data))]
        BY Zenon, <2>0, <4>1
      <4> HIDE DEF i, g
      <4> QED BY Zenon, <4>1, <4>2
    <3> HIDE DEF g
    <3>2. i < n BY Zenon, <2>0, <2>3
    <3>3. /\ p \in Int /\ q \in Int /\ i \in Int /\ 0 <= p /\ p <= q /\ q <= OutboundLength
          /\ 0 <= i /\ i <= n /\ n <= q - p /\ n \in Int
          /\ p + i = a /\ p + n = q /\ a < q /\ 0 <= a
      <4>1. p \in Int /\ n \in Int /\ u <= p /\ p + n <= to /\ ~(a <= p) BY Zenon, <2>2, <2>3
      <4> HIDE DEF p, n, Left, Cut, g, V
      <4> QED BY <1>0, <3>2, <4>1
    <3>4. e.data = Piece(p, q) BY Zenon, <2>3
    <3> HIDE DEF p, q, i, n
    <3>5. SubSeq(Piece(p, q), i + 1, n) = Piece(p + i, p + n)
      <4>1. /\ p \in Int /\ q \in Int /\ 0 <= p /\ p <= q /\ i \in Int /\ n \in Int
            /\ 0 <= i /\ i <= n /\ n <= q - p
        BY Zenon, <3>3
      <4> QED BY ZenonT(60), <4>1, PieceCut
    <3>6. Piece(a, q) \in Seq(1 .. OutboundLength) /\ Len(Piece(a, q)) = q - a
      <4>1. a <= q BY <1>0, <3>3
      <4> QED BY Zenon, <1>0, <3>3, <4>1, PieceSeq
    <3>7. g[e] = [sequence |-> ack, data |-> Piece(a, q)] BY Zenon, <3>3, <3>1, <3>4, <3>5
    <3>8. g[e] \in Sent /\ g[e].data = Piece(a, q) /\ g[e].sequence = ack
      BY <3>6, <3>7 DEF Sent
    <3>9. Place(g[e]) = a BY Zenon, <3>8 DEF Place
    <3>10. a + Len(g[e].data) = q /\ Len(g[e].data) > 0
      <4>1. Len(g[e].data) = q - a BY Zenon, <3>6, <3>8
      <4>2. q \in Int /\ a \in Int /\ a < q BY Zenon, <1>0, <3>3
      <4> HIDE DEF g
      <4> QED BY <4>1, <4>2
    <3>11. g[e].data = Piece(Place(g[e]), Place(g[e]) + Len(g[e].data))
      BY Zenon, <3>8, <3>9, <3>10
    <3>12. Place(e) + Len(e.data) = q BY Zenon DEF p, q, n
    <3> QED BY <1>0, <2>2, <3>8, <3>9, <3>10, <3>11, <3>12
  <2> QED BY Zenon, <2>1, <2>2
<1> HIDE DEF g
<1>7. V \in SUBSET Sent BY <1>6
<1>8. Tiles(V, a, to)
  <2>1. ASSUME NEW v \in V
        PROVE  /\ v.data = Piece(Place(v), Place(v) + Len(v.data)) /\ Len(v.data) > 0
               /\ a <= Place(v) /\ Place(v) + Len(v.data) <= to
    BY <1>5, <1>6
  <2>2. ASSUME NEW b \in a + 1 .. to PROVE \E v \in V : Covers(v, b)
    <3>1. b \in u + 1 .. to BY <1>0
    <3>2. PICK e \in T : Covers(e, b) BY Zenon, <3>1 DEF Tiles
    <3>3. e \in Left BY <1>0, <1>5, <3>2 DEF Covers
    <3>4. Covers(g[e], b) BY <1>0, <1>5, <1>6, <3>2, <3>3 DEF Covers
    <3> QED BY Zenon, <3>3, <3>4
  <2>3. ASSUME NEW v \in V, NEW w \in V, NEW b \in 1 .. OutboundLength,
               Covers(v, b), Covers(w, b)
        PROVE  v = w
    <3>1. PICK e \in Left : v = g[e] BY Zenon
    <3>2. PICK f \in Left : w = g[f] BY Zenon
    <3>0. ASSUME NEW h \in Left, Covers(g[h], b) PROVE Covers(h, b)
      <4>1. /\ Place(g[h]) + Len(g[h].data) = Place(h) + Len(h.data)
            /\ Place(g[h]) = IF a <= Place(h) THEN Place(h) ELSE a
            /\ Place(h) \in Int
        BY Zenon, <1>5, <1>6
      <4> QED BY <1>0, <3>0, <4>1 DEF Covers
    <3>3. Covers(e, b) /\ Covers(f, b) BY Zenon, <2>3, <3>0, <3>1, <3>2
    <3>4. e = f BY Zenon, <2>3, <3>3 DEF Tiles
    <3> QED BY Zenon, <3>1, <3>2, <3>4
  <2> QED BY Zenon, <2>1, <2>2, <2>3 DEF Tiles
<1> QED BY Zenon, <1>1, <1>3, <1>4, <1>7, <1>8

Segment ==
  [kind : {"segment", "rst", "none"}, sequence : Number,
   data : Seq(1 .. InboundLength), finish : BOOLEAN, ack : Number, window : Nat]

\* The peer's window changes neither stream (stack.cpp:710).
LEMMA WindowKeeps ==
  ASSUME NEW k \in Stack, NEW g \in Segment
  PROVE  /\ Keeps(k, WindowUpdate(k, g))
         /\ Owes(k) => Owes(WindowUpdate(k, g))
<1> DEFINE m == WindowUpdate(k, g)
           s == k.socket
           waiting == s.persist_waiting \/ (g.window = 0 /\ s.send_next # s.send_unacknowledged)
           at == IF waiting THEN 0 ELSE s.progress_at
           still == waiting /\ g.window = 0
           t == [s EXCEPT !.peer_window = g.window, !.window_sequence = g.sequence,
                          !.window_acknowledgement = g.ack, !.progress_at = at,
                          !.persist_waiting = still]
<1>0. s \in Socket BY Zenon DEF Stack
<1>1. CASE m = k BY Zenon, <1>1, KeepsSelf
<1>2. CASE m # k
  <2>1. m = [k EXCEPT !.socket = t] BY Zenon, <1>0, <1>2 DEF WindowUpdate, Stack
  <2>2. at \in 0 .. Interval BY <1>0, Constants DEF Socket
  <2>3. still \in BOOLEAN BY Zenon
  <2> HIDE DEF at, still, m, waiting
  <2>4. /\ t \in Socket /\ SameStreams(s, t)
        /\ t.acknowledgement_retries = s.acknowledgement_retries
    BY Zenon, <1>0, <2>2, <2>3 DEF Socket, Segment, SameStreams, SameReceive, SameSend
  <2> HIDE DEF t
  <2>5. /\ m \in Stack /\ m.socket = t /\ m.told = k.told
        /\ m.reassembly_ = k.reassembly_ /\ m.transmissions_ = k.transmissions_
    BY Zenon, <2>1, <2>4, SocketPut
  <2>6. Told(t) = Told(s) BY Zenon, <2>4 DEF SameStreams, SameReceive, Told, Window
  <2>7. Keeps(k, m) /\ (Owes(k) => Owes(m))
    BY Zenon, <2>4, <2>5, <2>6 DEF Keeps, Owes, SameStreams
  <2> QED BY Zenon, <2>7 DEF m
<1> QED BY Zenon, <1>1, <1>2

\* A new acknowledgement before the FIN (stack.cpp:329).
LEMMA AckedSound ==
  ASSUME NEW k, NEW d, Sound(k, d), k.socket.state \in Synchronized,
         ~k.socket.fin_sent, NEW ack \in Number,
         Minus(ack, InitialSend) <= Written(k.socket)
  PROVE  LET m == acknowledge_transmissions(k, ack)
         IN  /\ Sound(m, d) /\ (Owes(k) => Owes(m)) /\ ~m.socket.fin_sent
             /\ m.socket.state = k.socket.state /\ m.reassembly_ = k.reassembly_
             /\ SameReceive(k.socket, m.socket)
<1> DEFINE m == acknowledge_transmissions(k, ack)
           s == k.socket
           a == Minus(ack, InitialSend)
           T == Uncovered(k.transmissions_, ack)
           t == [s EXCEPT !.send_unacknowledged = ack, !.progress_at = 0]
<1>0. k \in Stack /\ s \in Socket BY Zenon DEF Sound, Stack
<1>1. CASE m = k BY Zenon, <1>1 DEF SameReceive
<1>2. CASE m # k
  <2>1. /\ m = [k EXCEPT !.transmissions_ = T, !.socket.send_unacknowledged = ack,
                         !.socket.progress_at = 0]
        /\ ~(Signed(ack, s.send_unacknowledged) <= 0)
    BY Zenon, <1>2 DEF acknowledge_transmissions
  <2>2. a \in Number /\ Acked(s) \in Number /\ Written(s) \in Number
    BY Zenon, <1>0, Places, PlaceOfNumber, Constants
  <2>3. Acked(s) <= Written(s) /\ Written(s) <= OutboundLength
        /\ Tiles(k.transmissions_, Acked(s), Written(s))
        /\ IsFiniteSet(k.transmissions_) /\ Cardinality(k.transmissions_) <= TransmitCapacity
    <3>1. Bit(s.fin_sent) = 0 /\ Written(s) - 0 = Written(s) BY <2>2 DEF Bit, Number
    <3> QED BY Zenon, <3>1 DEF Sound, Sends
  <2>4. Signed(ack, s.send_unacknowledged) = a - Acked(s)
    <3>1. 2 * (a - Acked(s)) < SequenceSpace /\ 2 * (Acked(s) - a) < SequenceSpace
      BY <2>2, <2>3, Constants DEF Number
    <3>2. s.send_unacknowledged \in Number BY Zenon, <1>0 DEF Socket
    <3> QED BY Zenon, <3>1, <3>2, SignedPlaces, Constants DEF Acked
  <2>5. Acked(s) < a BY <2>1, <2>2, <2>4 DEF Number
  <2>6. T \in SUBSET Sent /\ IsFiniteSet(T) /\ Cardinality(T) <= Cardinality(k.transmissions_)
        /\ Tiles(T, a, Written(s))
    <3>1. k.transmissions_ \in SUBSET Sent BY Zenon, <1>0 DEF Stack
    <3>2. Written(s) \in Nat BY <2>2 DEF Number
    <3> HIDE DEF T
    <3> QED BY Zenon, <2>2, <2>3, <2>5, <3>1, <3>2, UncoveredTiles DEF T
  <2> HIDE DEF T
  <2>7. /\ t \in Socket /\ SameReceive(s, t) /\ t.state = s.state
        /\ t.detached = s.detached /\ t.references = s.references
        /\ t.acknowledgement_retries = s.acknowledgement_retries
        /\ t.send_closed = s.send_closed /\ t.active_close = s.active_close
        /\ t.fin_sent = s.fin_sent /\ t.fin_acked = s.fin_acked
        /\ t.send_next = s.send_next /\ t.send_unacknowledged = ack
    <3>1. 0 \in 0 .. Interval BY Constants
    <3> QED BY Zenon, <1>0, <3>1 DEF Socket, SameReceive
  <2>8. /\ m \in Stack /\ m.socket = t /\ m.told = k.told
        /\ m.reassembly_ = k.reassembly_ /\ m.transmissions_ = T
    <3>1. m = [k EXCEPT !.transmissions_ = T, !.socket = t] BY Zenon, <1>0, <2>1 DEF Stack
    <3> HIDE DEF m, t
    <3> QED BY Zenon, <1>0, <2>6, <2>7, <3>1 DEF Stack
  <2> HIDE DEF t, m
  <2>9. SameState(s, t) BY Zenon, <2>7 DEF SameState
  <2>10. Receives(m, d) BY Zenon, <2>7, <2>8, <2>9, ReceivesKept DEF Sound
  <2>11. Closes(t)
    <3>1. StateOfFins(t) = StateOfFins(s) BY Zenon, <2>7 DEF StateOfFins, SameReceive
    <3> QED BY Zenon, <2>7, <3>1 DEF Closes, Sound, SameReceive
  <2>12. Sends(m)
    <3>1. Acked(t) = a /\ Written(t) = Written(s) BY Zenon, <2>7 DEF Acked, Written
    <3>2. Bit(t.fin_sent) = 0 /\ ~t.fin_sent BY Zenon, <2>7 DEF Bit
    <3>3. Written(s) - 0 = Written(s) /\ Cardinality(T) <= TransmitCapacity
      BY <2>2, <2>3, <2>6, FS_CardinalityType, Constants DEF Number
    <3> QED BY Zenon, <2>3, <2>6, <2>7, <2>8, <3>1, <3>2, <3>3 DEF Sends
  <2>13. Owes(k) => Owes(m)
    <3>1. Told(t) = Told(s) BY Zenon, <2>7 DEF SameReceive, Told, Window
    <3> QED BY Zenon, <2>7, <2>8, <3>1 DEF Owes
  <2>14. Sound(m, d) BY Zenon, <2>8, <2>10, <2>11, <2>12 DEF Sound
  <2> QED BY Zenon, <2>7, <2>8, <2>13, <2>14 DEF m
<1> QED BY Zenon, <1>1, <1>2

\* With the FIN acknowledged nothing is outstanding (stack.cpp:730).
LEMMA FinAckedSound ==
  ASSUME NEW k, NEW d, Sound(k, d), k.socket.state \in Synchronized, k.socket.fin_sent,
         NEW m \in Stack, NEW s, s = k.socket, NEW t, t = m.socket,
         t.state \in Synchronized, t.state = StateOfFins(t), SameReceive(s, t),
         t.detached => t.references = 1, t.send_closed = s.send_closed,
         t.active_close = s.active_close, t.fin_sent, t.fin_acked,
         t.send_next = s.send_next, t.send_unacknowledged = s.send_next,
         m.reassembly_ = k.reassembly_, m.transmissions_ = {}
  PROVE  Sound(m, d)
<1>1. SameState(s, t) BY Zenon DEF SameState
<1>2. Receives(m, d) BY Zenon, <1>1, ReceivesKept DEF Sound
<1>3. Closes(t) BY Zenon DEF Closes, Sound, SameReceive
<1>4. Sends(m)
  <2>0. s \in Socket /\ k \in Stack BY Zenon DEF Sound, Stack
  <2>1. Written(t) = Written(s) /\ Acked(t) = Written(s) BY Zenon DEF Written, Acked
  <2>2. Written(s) \in Int /\ OutboundLength \in Int BY <2>0, Places, Constants DEF Number
  <2>3. Bit(t.fin_sent) = 1 /\ Bit(~t.fin_acked) = 0 /\ Bit(s.fin_sent) = 1 BY Zenon DEF Bit
  <2>4. Written(s) - 1 <= OutboundLength BY Zenon, <2>3 DEF Sound, Sends
  <2>5. Tiles({}, Written(s), Written(s) - 1)
    <3>1. ASSUME NEW b \in Written(s) + 1 .. Written(s) - 1 PROVE FALSE BY <2>2
    <3> QED BY Zenon, <3>1 DEF Tiles
  <2>6. IsFiniteSet({}) /\ Cardinality({}) <= TransmitCapacity BY FS_EmptySet, Constants
  <2>7. Written(s) - Written(s) = 0 /\ Written(s) <= Written(s) BY <2>2
  <2> QED BY Zenon, <2>1, <2>3, <2>4, <2>5, <2>6, <2>7 DEF Sends
<1> QED BY Zenon, <1>2, <1>3, <1>4 DEF Sound

\* An acknowledgement of anything sent so far, new or old (stack.cpp:687).
LEMMA AckArrivesSound ==
  ASSUME NEW k, NEW d, Sound(k, d), k.socket.state \in Synchronized, NEW g \in Segment,
         Minus(g.ack, InitialSend) <= Written(k.socket)
  PROVE  LET m == AckArrives(k, g)
         IN  /\ Sound(m, d) /\ (Owes(k) => Owes(m))
             /\ m.socket.state # "free" =>
                  /\ m.socket.state \in Synchronized /\ m.reassembly_ = k.reassembly_
                  /\ SameReceive(k.socket, m.socket)
<1> DEFINE m == AckArrives(k, g)
           s == k.socket
           a == Minus(g.ack, InitialSend)
           l == acknowledge_transmissions(k, g.ack)
           w == WindowUpdate(l, g)
<1>0. k \in Stack /\ s \in Socket /\ g.ack \in Number BY Zenon DEF Sound, Stack, Segment
<1>1. /\ a \in Number /\ Acked(s) \in Number /\ Written(s) \in Number
      /\ Acked(s) <= Written(s) /\ Written(s) <= OutboundLength + 1
      /\ Plus(InitialSend, a) = g.ack /\ Plus(InitialSend, Acked(s)) = s.send_unacknowledged
      /\ Plus(InitialSend, Written(s)) = s.send_next
  <2>1. /\ a \in Number /\ Acked(s) \in Number /\ Written(s) \in Number
        /\ Plus(InitialSend, a) = g.ack /\ Plus(InitialSend, Acked(s)) = s.send_unacknowledged
        /\ Plus(InitialSend, Written(s)) = s.send_next
    BY Zenon, <1>0, Places, PlaceOfNumber, Constants
  <2>2. Acked(s) <= Written(s) /\ Written(s) - Bit(s.fin_sent) <= OutboundLength
    BY Zenon DEF Sound, Sends
  <2>3. Bit(s.fin_sent) \in {0, 1} BY Zenon DEF Bit
  <2> QED BY <2>1, <2>2, <2>3, Constants DEF Number
<1>2. Signed(g.ack, s.send_unacknowledged) = a - Acked(s)
  <2>1. 2 * (a - Acked(s)) < SequenceSpace /\ 2 * (Acked(s) - a) < SequenceSpace
    BY <1>1, Constants DEF Number
  <2>2. s.send_unacknowledged \in Number BY Zenon, <1>0 DEF Socket
  <2> QED BY Zenon, <1>0, <2>1, <2>2, SignedPlaces, Constants DEF Acked
<1>3. CASE a < Acked(s)
  <2>1. g.ack # s.send_next BY <1>1, <1>3 DEF Number, Written
  <2>2. m = k BY <1>1, <1>2, <1>3, <2>1 DEF AckArrives, Number
  <2> QED BY Zenon, <2>2 DEF SameReceive
<1>4. CASE ~(a < Acked(s)) /\ ~s.fin_sent
  <2>1. /\ Sound(l, d) /\ (Owes(k) => Owes(l)) /\ ~l.socket.fin_sent
        /\ l.socket.state = s.state /\ l.reassembly_ = k.reassembly_
        /\ SameReceive(s, l.socket)
    BY Zenon, <1>0, <1>4, AckedSound
  <2> HIDE DEF l
  <2>2. Keeps(l, w) /\ (Owes(l) => Owes(w)) BY Zenon, <2>1, WindowKeeps DEF Sound
  <2>3. Sound(w, d) BY Zenon, <2>1, <2>2, KeptSound
  <2>4. m = w
    <3>1. ~w.socket.fin_sent BY Zenon, <2>1, <2>2 DEF Keeps, SameStreams, SameSend
    <3>2. ~(Signed(g.ack, k.socket.send_unacknowledged) < 0) BY <1>1, <1>2, <1>4 DEF Number
    <3> QED BY Zenon, <3>1, <3>2 DEF AckArrives, l
  <2> HIDE DEF m, w
  <2>5. w.socket.state = s.state /\ w.reassembly_ = k.reassembly_ /\ SameReceive(s, w.socket)
    BY Zenon, <2>1, <2>2 DEF Keeps, SameStreams, SameReceive
  <2> QED BY Zenon, <2>1, <2>2, <2>3, <2>4, <2>5 DEF m
<1>5. CASE ~(a < Acked(s)) /\ s.fin_sent
  <2>0. ~(Signed(g.ack, k.socket.send_unacknowledged) < 0) BY <1>1, <1>2, <1>5 DEF Number
  <2>1. k.transmissions_ = {} BY Zenon, <1>0, <1>5, FlightEmpty DEF Sound
  <2>2. CASE g.ack # s.send_next
    <3>1. a # Written(s) BY Zenon, <1>1, <2>2
    <3>2. a = Acked(s)
      <4>1. Written(s) - Acked(s) <= 1 BY <1>5 DEF Sound, Sends, Bit
      <4> QED BY <1>1, <1>5, <3>1, <4>1 DEF Number
    <3>3. l = k BY <1>1, <1>2, <3>2 DEF acknowledge_transmissions, Number
    <3>4. Keeps(k, w) /\ (Owes(k) => Owes(w)) BY Zenon, <1>0, <3>3, WindowKeeps
    <3>5. Sound(w, d) BY Zenon, <3>4, KeptSound
    <3>6. m = w
      <4>1. w.socket.send_next = s.send_next BY Zenon, <3>4 DEF Keeps, SameStreams, SameSend
      <4> QED BY Zenon, <2>0, <2>2, <4>1 DEF AckArrives
    <3> HIDE DEF m, w, l
    <3>7. w.socket.state = s.state /\ w.reassembly_ = k.reassembly_ /\ SameReceive(s, w.socket)
      BY Zenon, <3>4 DEF Keeps, SameStreams, SameReceive
    <3> QED BY Zenon, <3>4, <3>5, <3>6, <3>7 DEF m
  <2>3. CASE g.ack = s.send_next
    <3> DEFINE u == [s EXCEPT !.send_unacknowledged = g.ack, !.progress_at = 0]
    <3>1. /\ l \in Stack /\ l.told = k.told /\ l.reassembly_ = k.reassembly_
          /\ l.transmissions_ = {} /\ l.socket.send_unacknowledged = s.send_next
          /\ l.socket.send_next = s.send_next /\ l.socket.fin_sent
          /\ SameReceive(s, l.socket) /\ l.socket.state = s.state
          /\ l.socket.detached = s.detached /\ l.socket.references = s.references
          /\ l.socket.acknowledgement_retries = s.acknowledgement_retries
          /\ l.socket.send_closed = s.send_closed /\ l.socket.active_close = s.active_close
          /\ l.socket.fin_acked = s.fin_acked
      <4>1. CASE l = k
        <5>1. a = Written(s) BY Zenon, <2>3 DEF Written
        <5>2. s.send_unacknowledged = s.send_next
          <6>1. CASE Signed(g.ack, s.send_unacknowledged) <= 0
            <7>1. a = Acked(s) BY <1>1, <1>2, <1>5, <6>1 DEF Number
            <7> QED BY Zenon, <1>1, <5>1, <7>1
          <6>2. CASE ~(Signed(g.ack, s.send_unacknowledged) <= 0)
            <7>1. l.socket.send_unacknowledged = g.ack
              BY Zenon, <1>0, <6>2 DEF acknowledge_transmissions, Stack, Socket
            <7> QED BY Zenon, <2>3, <4>1, <7>1
          <6> QED BY Zenon, <6>1, <6>2
        <5> HIDE DEF l
        <5> QED BY Zenon, <1>0, <1>5, <2>1, <4>1, <5>2 DEF SameReceive
      <4>2. CASE l # k
        <5>1. l = [k EXCEPT !.transmissions_ = Uncovered({}, g.ack),
                            !.socket.send_unacknowledged = g.ack, !.socket.progress_at = 0]
          BY Zenon, <2>1, <4>2 DEF acknowledge_transmissions, Stack
        <5>2. Uncovered({}, g.ack) = {} BY Zenon DEF Uncovered
        <5>3. l = [k EXCEPT !.transmissions_ = {}, !.socket = u] BY Zenon, <1>0, <5>1, <5>2 DEF Stack
        <5>4. 0 \in 0 .. Interval BY Constants
        <5>5. /\ u \in Socket /\ u.send_unacknowledged = g.ack
              /\ u.send_next = s.send_next /\ u.fin_sent = s.fin_sent
              /\ SameReceive(s, u) /\ u.state = s.state
              /\ u.detached = s.detached /\ u.references = s.references
              /\ u.acknowledgement_retries = s.acknowledgement_retries
              /\ u.send_closed = s.send_closed /\ u.active_close = s.active_close
              /\ u.fin_acked = s.fin_acked
          BY Zenon, <1>0, <5>4 DEF Socket, SameReceive
        <5> HIDE DEF l, u
        <5>6. /\ l \in Stack /\ l.told = k.told /\ l.reassembly_ = k.reassembly_
              /\ l.transmissions_ = {} /\ l.socket = u
          BY Zenon, <1>0, <5>3, <5>5 DEF Stack
        <5> QED BY Zenon, <1>5, <2>3, <5>5, <5>6
      <4> QED BY Zenon, <4>1, <4>2
    <3> HIDE DEF l, u
    <3>2. Keeps(l, w) BY Zenon, <3>1, WindowKeeps
    <3>3. Owes(k) => Owes(w)
      <4>1. Told(l.socket) = Told(s) BY Zenon, <3>1 DEF Told, Window, SameReceive
      <4>2. Owes(k) => Owes(l) BY Zenon, <3>1, <4>1 DEF Owes
      <4> QED BY Zenon, <3>1, <4>2, WindowKeeps
    <3> DEFINE r == w.socket
               f == [w EXCEPT !.socket.fin_acked = TRUE]
               v == [r EXCEPT !.fin_acked = TRUE]
    <3>4. /\ w \in Stack /\ r \in Socket /\ w.reassembly_ = k.reassembly_
          /\ w.transmissions_ = {} /\ r.send_unacknowledged = s.send_next
          /\ r.send_next = s.send_next /\ r.fin_sent /\ SameReceive(s, r)
          /\ r.state = s.state /\ r.detached = s.detached
          /\ (r.detached => r.references = s.references)
          /\ r.send_closed = s.send_closed /\ r.active_close = s.active_close
      BY Zenon, <3>1, <3>2 DEF Keeps, SameStreams, SameReceive, SameSend, Stack
    <3> HIDE DEF w
    <3>5. m = CASE r.receive_closed /\ r.active_close -> enter_time_wait(f)
                [] r.receive_closed /\ ~r.active_close /\ r.detached -> release(f)
                [] ~r.receive_closed /\ r.state = "fin_wait_1" ->
                     [f EXCEPT !.socket.state = "fin_wait_2", !.socket.state_since = 0]
                [] OTHER -> f
      BY Zenon, <2>0, <2>3, <3>4 DEF AckArrives, w, l
    <3>6. /\ v \in Socket /\ v.send_unacknowledged = s.send_next
          /\ v.send_next = s.send_next /\ v.fin_sent = r.fin_sent /\ SameReceive(s, v)
          /\ v.state = s.state /\ v.detached = s.detached
          /\ v.references = r.references /\ v.fin_acked = TRUE
          /\ v.send_closed = s.send_closed /\ v.active_close = s.active_close
          /\ v.acknowledgement_retries = r.acknowledgement_retries
      BY Zenon, <3>4 DEF Socket, SameReceive
    <3>7. f = [w EXCEPT !.socket = v] BY Zenon, <3>4 DEF Stack
    <3> HIDE DEF f, v
    <3>8. /\ f \in Stack /\ f.socket = v /\ f.told = w.told
          /\ f.reassembly_ = k.reassembly_ /\ f.transmissions_ = {}
      BY Zenon, <3>4, <3>6, <3>7, SocketPut
    <3>9. s.state = StateOfFins(s) /\ s.send_closed /\ (s.detached => s.references = 1)
          /\ (~s.receive_closed => s.active_close)
      BY Zenon, <1>5 DEF Sound, Closes
    <3>10. ASSUME NEW t \in Socket, t.send_unacknowledged = s.send_next,
                  t.send_next = s.send_next, t.fin_sent = r.fin_sent, SameReceive(s, t),
                  t.detached = s.detached, t.references = r.references, t.fin_acked = TRUE,
                  t.send_closed = s.send_closed, t.active_close = s.active_close,
                  t.acknowledgement_retries = r.acknowledgement_retries,
                  t.state \in Synchronized, t.state = StateOfFins(t),
                  m = [f EXCEPT !.socket = t]
           PROVE  /\ Sound(m, d) /\ (Owes(k) => Owes(m))
                  /\ m.socket.state \in Synchronized /\ m.reassembly_ = k.reassembly_
                  /\ SameReceive(k.socket, m.socket)
      <4> HIDE DEF m
      <4>1. /\ m \in Stack /\ m.socket = t /\ m.told = f.told
            /\ m.reassembly_ = k.reassembly_ /\ m.transmissions_ = {}
        BY Zenon, <3>8, <3>10, SocketPut
      <4>2. t.detached => t.references = 1 BY Zenon, <3>4, <3>9, <3>10
      <4>3. Sound(m, d) BY Zenon, <1>5, <3>4, <3>10, <4>1, <4>2, FinAckedSound
      <4>4. Told(t) = Told(r) BY Zenon, <3>4, <3>10 DEF Told, Window, SameReceive
      <4>5. Owes(w) => Owes(m) BY Zenon, <3>4, <3>8, <3>10, <4>1, <4>4 DEF Owes
      <4> QED BY Zenon, <3>3, <3>10, <4>1, <4>3, <4>5
    <3>11. CASE r.receive_closed /\ r.active_close
      <4> DEFINE t == [v EXCEPT !.state = "time_wait", !.state_since = 0]
      <4>0. 0 \in 0 .. Interval BY Constants
      <4>1. m = [f EXCEPT !.socket = t]
        <5>1. m = enter_time_wait(f) BY Zenon, <3>5, <3>11
        <5> HIDE DEF m
        <5> QED BY Zenon, <3>6, <3>8, <5>1 DEF enter_time_wait, Stack
      <4>2. /\ t \in Socket /\ t.send_unacknowledged = v.send_unacknowledged
            /\ t.send_next = v.send_next /\ t.fin_sent = v.fin_sent /\ SameReceive(v, t)
            /\ t.detached = v.detached /\ t.references = v.references
            /\ t.fin_acked = v.fin_acked
            /\ t.send_closed = v.send_closed /\ t.active_close = v.active_close
            /\ t.acknowledgement_retries = v.acknowledgement_retries
            /\ t.state = "time_wait"
        BY Zenon, <3>6, <4>0 DEF Socket, SameReceive, States, Synchronized
      <4> HIDE DEF t, m
      <4>3. SameReceive(s, t) BY Zenon, <3>6, <4>2 DEF SameReceive
      <4>4. t.receive_closed /\ t.active_close
        BY Zenon, <3>4, <3>6, <3>11, <4>2, <4>3 DEF SameReceive
      <4>5. t.state = StateOfFins(t) BY Zenon, <3>6, <3>9, <4>2, <4>4 DEF StateOfFins
      <4>6. t.state \in Synchronized BY Zenon, <4>2 DEF Synchronized
      <4> QED BY Zenon, <3>6, <3>10, <4>1, <4>2, <4>3, <4>5, <4>6 DEF m
    <3>12. CASE r.receive_closed /\ ~r.active_close /\ r.detached
      <4>1. m = release(f) BY Zenon, <3>5, <3>12
      <4> HIDE DEF m
      <4>2. f.socket.references <= 1
        <5>1. f.socket.references = 1 BY Zenon, <3>4, <3>6, <3>8, <3>9, <3>12
        <5> QED BY <5>1
      <4>3. Sound(m, d) /\ Owes(m) /\ m.socket = Free
        BY Zenon, <3>8, <4>1, <4>2, ReleaseLast
      <4>4. m.socket.state = "free" BY <4>3 DEF Free
      <4> QED BY Zenon, <4>3, <4>4 DEF m
    <3>13. CASE ~r.receive_closed /\ r.state = "fin_wait_1"
      <4> DEFINE t == [v EXCEPT !.state = "fin_wait_2", !.state_since = 0]
      <4>0. 0 \in 0 .. Interval BY Constants
      <4>1. m = [f EXCEPT !.socket = t]
        <5>1. m = [f EXCEPT !.socket.state = "fin_wait_2", !.socket.state_since = 0]
          BY Zenon, <3>5, <3>13
        <5> HIDE DEF m
        <5> QED BY Zenon, <3>6, <3>8, <5>1 DEF Stack
      <4>2. /\ t \in Socket /\ t.send_unacknowledged = v.send_unacknowledged
            /\ t.send_next = v.send_next /\ t.fin_sent = v.fin_sent /\ SameReceive(v, t)
            /\ t.detached = v.detached /\ t.references = v.references
            /\ t.fin_acked = v.fin_acked
            /\ t.send_closed = v.send_closed /\ t.active_close = v.active_close
            /\ t.acknowledgement_retries = v.acknowledgement_retries
            /\ t.state = "fin_wait_2"
        BY Zenon, <3>6, <4>0 DEF Socket, SameReceive, States, Synchronized
      <4> HIDE DEF t, m
      <4>3. SameReceive(s, t) BY Zenon, <3>6, <4>2 DEF SameReceive
      <4>4. ~t.receive_closed BY Zenon, <3>4, <3>13, <4>3 DEF SameReceive
      <4>5. t.state = StateOfFins(t) BY Zenon, <3>6, <3>9, <4>2, <4>4 DEF StateOfFins
      <4>6. t.state \in Synchronized BY Zenon, <4>2 DEF Synchronized
      <4> QED BY Zenon, <3>6, <3>10, <4>1, <4>2, <4>3, <4>5, <4>6 DEF m
    <3>14. CASE /\ ~(r.receive_closed /\ r.active_close)
                /\ ~(r.receive_closed /\ ~r.active_close /\ r.detached)
                /\ ~(~r.receive_closed /\ r.state = "fin_wait_1")
      <4>1. m = f BY Zenon, <3>5, <3>14
      <4> HIDE DEF m
      <4>2. m = [f EXCEPT !.socket = v] BY Zenon, <3>8, <4>1 DEF Stack
      <4>3. v.state = StateOfFins(v)
        BY Zenon, <3>4, <3>6, <3>9, <3>14 DEF StateOfFins, SameReceive
      <4> QED BY Zenon, <3>6, <3>10, <4>2, <4>3 DEF m
    <3> QED BY Zenon, <3>11, <3>12, <3>13, <3>14
  <2> QED BY Zenon, <2>2, <2>3
<1> QED BY Zenon, <1>3, <1>4, <1>5

-----------------------------------------------------------------------------
(* The receive path.                                                       *)

SameClose(r, s) ==
  /\ r.detached = s.detached /\ r.references = s.references
  /\ r.send_closed = s.send_closed /\ r.active_close = s.active_close

\* n bytes that continue the stream and fit, with or without the FIN.
Continues(s, d, data, n, finish) ==
  /\ s \in Socket /\ s.state \in Synchronized /\ Reads(s, d) /\ Closes(s)
  /\ ~s.receive_closed /\ Len(d) \in Nat /\ finish \in BOOLEAN
  /\ n \in Nat /\ n = Len(data) /\ data = Piece(Got(s), Got(s) + n)
  /\ Got(s) + n <= InboundLength /\ n <= Window(s)
  /\ finish => Got(s) + n = InboundLength

\* The socket t is s with n more bytes, and the FIN if there is one, received.
Extended(s, t, d, n, finish) ==
  /\ t \in Socket /\ Reads(t, d) /\ Closes(t) /\ t.state \in Synchronized
  /\ t.receive_closed = finish
  /\ Got(t) = (Got(s) + n) + Bit(finish) /\ Window(t) = Window(s) - n
  /\ SameSend(s, t) /\ SameClose(s, t)
  /\ t.acknowledgement_retries = s.acknowledgement_retries
  /\ s.fin_acked /\ finish => t.state = "time_wait"

\* They go behind the buffer, and the FIN moves the state (socket.hpp:450).
LEMMA Appended ==
  ASSUME NEW s, NEW d, NEW data, NEW n, NEW finish, Continues(s, d, data, n, finish)
  PROVE  Extended(s, append_received(s, data, finish), d, n, finish)
<1> DEFINE t == append_received(s, data, finish)
           b == s.receive_buffer
           B == Len(b)
           D == Len(d)
           W == Window(s)
           x == Got(s)
           y == Got(s) + n
           f == Bit(finish)
           to == IF ~finish THEN s.state
                 ELSE IF s.state = "fin_wait_1" THEN "closing"
                 ELSE IF s.state = "fin_wait_2" THEN "time_wait" ELSE "close_wait"
<1>a. /\ s \in Socket /\ finish \in BOOLEAN /\ s.state \in Synchronized
      /\ ~s.receive_closed /\ Closes(s) /\ Reads(s, d) /\ Len(data) = n
      /\ data = Piece(x, y)
  BY Zenon DEF Continues
<1>b. x \in Nat /\ B \in Nat /\ W \in Int BY <1>a, Places DEF Number
<1>c. n \in Nat /\ D \in Nat /\ y <= InboundLength /\ n <= W BY Zenon DEF Continues
<1>d. finish => y = InboundLength BY Zenon DEF Continues
<1>e. y = x + n BY Zenon
<1>f. f \in {0, 1} /\ (finish => f = 1) /\ (~finish => f = 0) BY Zenon DEF Bit
<1>g. W = Capacity - B BY Zenon DEF Window
<1> HIDE DEF x, y, B, D, W, b, f
<1>0. /\ y \in Nat /\ x <= y /\ 0 <= x /\ x \in Int /\ y \in Int
      /\ InboundLength \in Nat /\ Capacity \in Nat
  BY <1>b, <1>c, <1>e, Constants
<1>1. InOrder(s) = x
  <2>1. x < InboundLength \/ x = InboundLength BY <1>0, <1>c
  <2> QED BY Zenon, <2>1 DEF InOrder, Least, x
<1>2. B <= x /\ B <= Capacity /\ b = Piece(x - B, x) /\ D <= x
      /\ (~s.read_closed => D + B = x)
  BY Zenon, <1>a, <1>1 DEF Reads, b, B, D
<1>3. Least(Len(data), Window(s)) = n
  <2>1. n < W \/ n = W BY <1>b, <1>c
  <2> QED BY Zenon, <1>a, <2>1 DEF Least, W
<1>4. SubSeq(data, 1, n) = data
  <2>1. data \in Seq(1 .. InboundLength) BY Zenon, <1>a, <1>0, <1>c, PieceSeq
  <2> QED BY Zenon, <1>a, <2>1, SubSeqFull
<1>5. t = [s EXCEPT !.receive_buffer = b \o data,
                    !.receive_next = Plus(s.receive_next, n + f),
                    !.receive_closed = finish, !.state = to]
  <2>1. (s.receive_closed \/ finish) = finish BY Zenon, <1>a
  <2>2. (finish /\ Least(Len(data), Window(s)) = Len(data)) = finish BY Zenon, <1>a, <1>3
  <2> QED BY Zenon, <1>3, <1>4, <2>1, <2>2 DEF append_received, Bit, f, b
<1>6. b \o data = Piece(x - B, y)
  <2> DEFINE a == x - B
  <2>1. a \in Int /\ 0 <= a /\ a <= x BY <1>0, <1>b, <1>2
  <2>2. b = Piece(a, x) BY Zenon, <1>2
  <2> HIDE DEF a
  <2>3. Piece(a, x) \o Piece(x, y) = Piece(a, y) BY Zenon, <1>0, <2>1, PieceJoin
  <2> QED BY Zenon, <1>a, <2>2, <2>3 DEF a
<1>7. b \o data \in Seq(1 .. InboundLength) /\ Len(b \o data) = B + n
  <2> DEFINE a == x - B
  <2>1. a \in Int /\ 0 <= a /\ a <= y /\ y - a = B + n BY <1>0, <1>b, <1>c, <1>e, <1>2
  <2>2. b \o data = Piece(a, y) BY Zenon, <1>6
  <2> HIDE DEF a
  <2>3. Piece(a, y) \in Seq(1 .. InboundLength) /\ Len(Piece(a, y)) = y - a
    BY Zenon, <1>0, <1>c, <2>1, PieceSeq
  <2> QED BY Zenon, <2>1, <2>2, <2>3
<1>8. n + f \in Nat BY <1>c, <1>f
<1>9. /\ Plus(s.receive_next, n + f) \in Number
      /\ Minus(Plus(s.receive_next, n + f), InitialReceive) = y + f
  <2> DEFINE z == n + f
  <2>1. s.receive_next \in Number BY Zenon, <1>a DEF Socket
  <2>2. x + z < SequenceSpace /\ x + z = y + f
    BY <1>0, <1>b, <1>c, <1>e, <1>f, Constants
  <2>3. z \in Nat BY Zenon, <1>8
  <2> HIDE DEF z
  <2>4. Plus(s.receive_next, z) \in Number
        /\ Minus(Plus(s.receive_next, z), InitialReceive) = x + z
    BY Zenon, <2>1, <2>2, <2>3, PlusPlace, Constants DEF Got, x
  <2> QED BY Zenon, <2>2, <2>4 DEF z
<1>10. to \in Synchronized BY Zenon, <1>a DEF Synchronized
<1> HIDE DEF t, to
<1>11. /\ t \in Socket /\ t.receive_buffer = b \o data /\ t.state = to
       /\ t.receive_next = Plus(s.receive_next, n + f)
       /\ t.receive_closed = finish /\ t.read_closed = s.read_closed
       /\ SameSend(s, t) /\ SameClose(s, t)
       /\ t.acknowledgement_retries = s.acknowledgement_retries
  BY ZenonT(60), <1>a, <1>5, <1>7, <1>9, <1>10 DEF Socket, SameSend, SameClose, States
<1>12. Got(t) = y + f BY Zenon, <1>9, <1>11 DEF Got
<1>13. Window(t) = W - n
  <2>1. Window(t) = Capacity - (B + n) BY Zenon, <1>7, <1>11 DEF Window
  <2> QED BY <1>0, <1>b, <1>c, <1>g, <2>1
<1>14. Reads(t, d)
  <2>2. InOrder(t) = y
    <3>1. CASE finish
      <4>1. Got(t) = InboundLength + 1 /\ y = InboundLength BY Zenon, <1>0, <1>12, <1>d, <1>f, <3>1
      <4>2. ~(InboundLength + 1 < InboundLength) BY <1>0
      <4> QED BY Zenon, <4>1, <4>2 DEF InOrder, Least
    <3>2. CASE ~finish
      <4>1. Got(t) = y BY <1>0, <1>12, <1>f, <3>2
      <4>2. y < InboundLength \/ y = InboundLength BY <1>0, <1>c
      <4> QED BY Zenon, <4>1, <4>2 DEF InOrder, Least
    <3> QED BY Zenon, <3>1, <3>2
  <2>3. Got(t) <= InboundLength + 1 /\ (finish <=> Got(t) = InboundLength + 1)
    <3>1. CASE finish BY <1>0, <1>12, <1>d, <1>f, <3>1
    <3>2. CASE ~finish BY <1>0, <1>12, <1>c, <1>f, <3>2
    <3> QED BY Zenon, <3>1, <3>2
  <2>4. Len(t.receive_buffer) = B + n /\ y - (B + n) = x - B
    BY <1>0, <1>b, <1>c, <1>e, <1>7, <1>11
  <2>5. t.receive_buffer = Piece(y - Len(t.receive_buffer), y) BY Zenon, <1>6, <1>11, <2>4
  <2>6. B + n <= y /\ B + n <= Capacity /\ D <= y /\ (D + B = x => D + (B + n) = y)
    BY <1>0, <1>b, <1>c, <1>e, <1>g, <1>2
  <2> QED BY Zenon, <1>2, <1>11, <2>2, <2>3, <2>4, <2>5, <2>6 DEF Reads, D
<1>15. Closes(t) /\ (s.fin_acked /\ finish => to = "time_wait")
  <2>1. CASE ~finish
    <3>1. to = s.state BY Zenon, <2>1 DEF to
    <3>2. StateOfFins(t) = StateOfFins(s)
      BY Zenon, <1>a, <1>11, <2>1 DEF StateOfFins, SameSend, SameClose
    <3> QED BY Zenon, <1>a, <1>11, <2>1, <3>1, <3>2 DEF Closes, SameSend, SameClose
  <2>2. CASE finish
    <3>1. /\ s.state = StateOfFins(s) /\ (s.fin_acked => s.fin_sent)
          /\ (s.fin_sent => s.send_closed) /\ (s.active_close => s.send_closed)
          /\ (s.send_closed => s.active_close) /\ (s.detached => s.references = 1)
      BY Zenon, <1>a DEF Closes
    <3>2. s.state = IF ~s.send_closed THEN "established"
                    ELSE IF ~s.fin_acked THEN "fin_wait_1" ELSE "fin_wait_2"
      BY Zenon, <1>a, <3>1 DEF StateOfFins
    <3>3. to = IF ~s.send_closed THEN "close_wait"
               ELSE IF ~s.fin_acked THEN "closing" ELSE "time_wait"
      BY Zenon, <2>2, <3>2 DEF to
    <3>4. to = StateOfFins(t)
      BY Zenon, <1>11, <2>2, <3>1, <3>3 DEF StateOfFins, SameSend, SameClose
    <3>5. s.fin_acked => to = "time_wait" BY Zenon, <3>1, <3>3
    <3> QED BY Zenon, <1>10, <1>11, <2>2, <3>1, <3>4, <3>5 DEF Closes, SameSend, SameClose
  <2> QED BY Zenon, <2>1, <2>2
<1>16. Got(t) = (Got(s) + n) + Bit(finish) /\ Window(t) = Window(s) - n
  BY Zenon, <1>12, <1>13 DEF f, y, W
<1> QED BY Zenon, <1>10, <1>11, <1>14, <1>15, <1>16 DEF t, Extended

\* Between two turns of the drain loop: a stored piece may have become due.
Draining(k, d) ==
  /\ k \in Stack /\ k.socket.state \in Synchronized
  /\ d \in Seq(1 .. InboundLength) /\ d = Piece(0, Len(d)) /\ Len(d) <= InboundLength
  /\ Reads(k.socket, d) /\ Closes(k.socket) /\ Sends(k)
  /\ IsFiniteSet(k.reassembly_) /\ Cardinality(k.reassembly_) <= ReassemblyCapacity
  /\ \A e \in k.reassembly_ : k.socket.receive_closed \/ Stored(e, k.socket)

Due(k) == {e \in k.reassembly_ : Signed(e.sequence, k.socket.receive_next) <= 0}

Settled(k) == IF k.socket.receive_closed THEN k.reassembly_ = {} ELSE Due(k) = {}

\* What draining leaves alone.
Drains(k, m) ==
  /\ SameSend(k.socket, m.socket) /\ SameClose(k.socket, m.socket)
  /\ k.socket.acknowledgement_retries = m.socket.acknowledgement_retries
  /\ k.transmissions_ = m.transmissions_ /\ k.told = m.told

LEMMA LeastNat ==
  ASSUME NEW S \in SUBSET Nat, S # {}
  PROVE  \E x \in S : \A y \in S : x <= y
<1> DEFINE R == OpToRel(<, Nat)
<1>1. IsWellFoundedOn(R, Nat) BY Zenon, NatLessThanWellFounded
<1>2. \A x, y \in Nat : <<x, y>> \in R <=> x < y BY Zenon DEF OpToRel
<1> HIDE DEF R
<1>3. PICK x \in S : \A y \in S : ~(<<y, x>> \in R) BY Zenon, <1>1, WFMin
<1>4. \A y \in S : ~(y < x) BY Zenon, <1>2, <1>3
<1> QED BY <1>4

\* The numbers of the stored pieces compare as their places do.
LEMMA StoredPlaces ==
  ASSUME NEW k, NEW d, Draining(k, d), ~k.socket.receive_closed
  PROVE  /\ Got(k.socket) \in Nat /\ Got(k.socket) <= InboundLength
         /\ Window(k.socket) \in Int
         /\ \A e \in k.reassembly_ :
              /\ e \in Ahead /\ From(e) \in Nat /\ Len(e.data) \in Nat
              /\ Bit(e.finish) \in {0, 1} /\ e.finish \in BOOLEAN /\ Stored(e, k.socket)
              /\ From(e) <= InboundLength
              /\ Signed(e.sequence, k.socket.receive_next) = From(e) - Got(k.socket)
              /\ Got(k.socket) >= From(e) =>
                   Minus(k.socket.receive_next, e.sequence) = Got(k.socket) - From(e)
         /\ \A e, f \in k.reassembly_ : Signed(f.sequence, e.sequence) = From(f) - From(e)
<1> DEFINE s == k.socket
           x == Got(s)
<1>1. s \in Socket /\ s.receive_next \in Number /\ k.reassembly_ \subseteq Ahead
  BY Zenon DEF Draining, Stack, Socket
<1>2. x \in Nat /\ Window(s) \in Int BY <1>1, Places DEF Number
<1>3. x <= InboundLength
  <2>1. x <= InboundLength + 1 /\ x # InboundLength + 1 BY Zenon DEF Draining, Reads
  <2> HIDE DEF x
  <2> QED BY <1>2, <2>1, Constants
<1>4. ASSUME NEW e \in k.reassembly_
      PROVE  /\ e \in Ahead /\ From(e) \in Nat /\ Len(e.data) \in Nat
             /\ Bit(e.finish) \in {0, 1} /\ e.finish \in BOOLEAN /\ Stored(e, s)
             /\ From(e) <= InboundLength /\ e.sequence \in Number
  <2>1. e \in Ahead /\ From(e) \in Nat /\ Len(e.data) \in Nat /\ Bit(e.finish) \in {0, 1}
    BY <1>1, EntryPlaces DEF Number
  <2>2. Stored(e, s) BY Zenon DEF Draining
  <2>3. From(e) + Len(e.data) <= InboundLength BY Zenon, <2>2 DEF Stored
  <2> DEFINE p == From(e)
             n == Len(e.data)
  <2>4. p <= InboundLength
    <3>1. p \in Nat /\ n \in Nat /\ p + n <= InboundLength BY Zenon, <2>1, <2>3
    <3> HIDE DEF p, n
    <3> QED BY <3>1, Constants
  <2> QED BY Zenon, <2>1, <2>2, <2>4 DEF Ahead
<1>5. ASSUME NEW a \in Number, NEW b \in Number,
             Minus(a, InitialReceive) <= InboundLength, Minus(b, InitialReceive) <= InboundLength
      PROVE  /\ Signed(a, b) = Minus(a, InitialReceive) - Minus(b, InitialReceive)
             /\ Minus(a, InitialReceive) >= Minus(b, InitialReceive) =>
                  Minus(a, b) = Minus(a, InitialReceive) - Minus(b, InitialReceive)
  <2> DEFINE p == Minus(a, InitialReceive)
             q == Minus(b, InitialReceive)
  <2>0. p \in Number /\ q \in Number BY Zenon, PlaceOfNumber, Constants
  <2>1. p \in Nat /\ q \in Nat BY <2>0 DEF Number
  <2>2. p <= InboundLength /\ q <= InboundLength BY Zenon, <1>5
  <2>3. 2 * (p - q) < SequenceSpace /\ 2 * (q - p) < SequenceSpace
    <3> HIDE DEF p, q
    <3> QED BY <2>1, <2>2, Constants
  <2> QED BY Zenon, <2>3, SignedPlaces, Constants
<1>6. ASSUME NEW e \in k.reassembly_
      PROVE  /\ Signed(e.sequence, s.receive_next) = From(e) - x
             /\ x >= From(e) => Minus(s.receive_next, e.sequence) = x - From(e)
  BY Zenon, <1>1, <1>3, <1>4, <1>5 DEF From, Got
<1>7. ASSUME NEW e \in k.reassembly_, NEW f \in k.reassembly_
      PROVE  Signed(f.sequence, e.sequence) = From(f) - From(e)
  BY Zenon, <1>4, <1>5 DEF From
<1> QED BY Zenon, <1>2, <1>3, <1>4, <1>6, <1>7

\* The loop finds the closest piece: one due piece is last (socket.hpp:648).
LEMMA ClosestDue ==
  ASSUME NEW k, NEW d, Draining(k, d), ~k.socket.receive_closed, Due(k) # {}
  PROVE  \E e \in Due(k) : \A f \in Due(k) : Signed(f.sequence, e.sequence) <= 0
<1> DEFINE G == Got(k.socket)
           S == {G - From(e) : e \in Due(k)}
<1>1. G \in Nat BY Zenon, StoredPlaces
<1>2. \A e \in Due(k) : e \in k.reassembly_ /\ From(e) \in Nat /\ From(e) - G <= 0
  BY Zenon, StoredPlaces DEF Due
<1> HIDE DEF G
<1>3. S \in SUBSET Nat BY <1>1, <1>2
<1>4. S # {} BY Zenon
<1>5. PICK x \in S : \A y \in S : x <= y
  <2> HIDE DEF S
  <2> QED BY Zenon, <1>3, <1>4, LeastNat
<1>6. PICK e \in Due(k) : x = G - From(e) BY Zenon, <1>5
<1>7. ASSUME NEW f \in Due(k) PROVE Signed(f.sequence, e.sequence) <= 0
  <2>1. G - From(f) \in S BY Zenon
  <2>2. G - From(e) <= G - From(f) BY Zenon, <1>5, <1>6, <2>1
  <2>3. From(f) - From(e) <= 0 BY <1>1, <1>2, <2>2
  <2>4. Signed(f.sequence, e.sequence) = From(f) - From(e) BY Zenon, <1>2, StoredPlaces
  <2> QED BY Zenon, <2>3, <2>4
<1> QED BY Zenon, <1>7

\* One turn drops or appends a due piece, or nothing is due (socket.hpp:642).
LEMMA DrainTurnStep ==
  ASSUME NEW k, NEW d, Draining(k, d)
  PROVE  LET m == DrainTurn(k)
         IN  /\ Draining(m, d) /\ Drains(k, m)
             /\ IF Settled(k) THEN m = k
                ELSE Cardinality(m.reassembly_) < Cardinality(k.reassembly_)
<1> DEFINE m == DrainTurn(k)
           s == k.socket
           R == k.reassembly_
<1>0. k \in Stack /\ s \in Socket /\ IsFiniteSet(R) /\ Cardinality(R) \in Nat
      /\ Cardinality(R) <= ReassemblyCapacity
  BY Zenon, FS_CardinalityType DEF Draining, Stack
<1>1. CASE s.receive_closed
  <2>1. m = [k EXCEPT !.reassembly_ = {}] BY Zenon, <1>1 DEF DrainTurn
  <2> HIDE DEF m
  <2>2. /\ m \in Stack /\ m.socket = s /\ m.reassembly_ = {}
        /\ m.transmissions_ = k.transmissions_ /\ m.told = k.told
    BY Zenon, <1>0, <2>1 DEF Stack
  <2>3. IsFiniteSet({}) /\ Cardinality({}) = 0 BY Zenon, FS_EmptySet
  <2>4. Sends(m) BY Zenon, <2>2 DEF Draining, Sends
  <2>5. Draining(m, d)
    <3>1. Cardinality({}) <= ReassemblyCapacity BY <2>3, Constants
    <3> QED BY Zenon, <2>2, <2>3, <2>4, <3>1 DEF Draining
  <2>6. Drains(k, m) BY Zenon, <2>2 DEF Drains, SameSend, SameClose
  <2>7. R = {} => m = k BY Zenon, <1>0, <2>1 DEF Stack
  <2>8. R # {} => Cardinality(m.reassembly_) < Cardinality(R)
    <3>1. R # {} => Cardinality(R) # 0 BY Zenon, <1>0, FS_EmptySet
    <3>2. Cardinality(m.reassembly_) = 0 BY Zenon, <2>2, <2>3
    <3> HIDE DEF R
    <3> QED BY <1>0, <3>1, <3>2
  <2> QED BY Zenon, <1>1, <2>5, <2>6, <2>7, <2>8 DEF Settled, m
<1>2. CASE ~s.receive_closed /\ Due(k) = {}
  <2>1. m = k BY Zenon, <1>2 DEF DrainTurn, Due
  <2> QED BY Zenon, <1>2, <2>1 DEF Settled, Drains, SameSend, SameClose
<1>3. CASE ~s.receive_closed /\ Due(k) # {}
  <2> DEFINE e == CHOOSE e \in Due(k) : \A f \in Due(k) : Signed(f.sequence, e.sequence) <= 0
             x == Got(s)
             p == From(e)
             n == Len(e.data)
             W == Window(s)
             covered == Minus(s.receive_next, e.sequence)
             rest == SubSeq(e.data, covered + 1, n)
             t == append_received(s, rest, e.finish)
             Q == R \ {e}
  <2>1. e \in Due(k) BY Zenon, <1>3, ClosestDue
  <2>2. m = IF covered > n \/ (covered = n /\ ~e.finish)
            THEN [k EXCEPT !.reassembly_ = Q]
            ELSE IF Len(rest) > W THEN k
            ELSE [k EXCEPT !.socket = t, !.reassembly_ = Q]
    BY Zenon, <1>3 DEF DrainTurn, Due
  <2> HIDE DEF e, m
  <2>3. e \in R /\ Signed(e.sequence, s.receive_next) <= 0 BY Zenon, <2>1 DEF Due
  <2>4. /\ p \in Nat /\ n \in Nat /\ x \in Nat /\ x <= InboundLength /\ W \in Int
        /\ Stored(e, s) /\ e.finish \in BOOLEAN /\ Bit(e.finish) \in {0, 1}
        /\ Signed(e.sequence, s.receive_next) = p - x
        /\ (x >= p => covered = x - p)
    BY Zenon, <1>3, <2>3, StoredPlaces
  <2>5. IsFiniteSet(Q) /\ Cardinality(Q) < Cardinality(R)
    <3>1. IsFiniteSet(Q) /\ Cardinality(Q) = Cardinality(R) - 1
      BY Zenon, <1>0, <2>3, FS_RemoveElement
    <3> HIDE DEF Q, R
    <3> QED BY <1>0, <3>1
  <2>6. Q \subseteq R BY Zenon
  <2>7. /\ e.data = Piece(p, p + n) /\ p + n <= InboundLength
        /\ (e.finish => p + n = InboundLength) /\ p + n + Bit(e.finish) <= x + W
    BY Zenon, <2>4 DEF Stored
  <2> HIDE DEF p, n, x, W, Q, covered
  <2>8. p <= x /\ covered = x - p /\ covered \in Nat
    <3>1. p \in Nat /\ x \in Nat /\ p - x <= 0 /\ (x >= p => covered = x - p)
      BY Zenon, <2>3, <2>4
    <3> QED BY <3>1
  <2>9. ~Settled(k) BY Zenon, <1>3 DEF Settled
  <2>10. CASE covered > n \/ (covered = n /\ ~e.finish)
    <3>1. m = [k EXCEPT !.reassembly_ = Q] BY Zenon, <2>2, <2>10
    <3>2. /\ m \in Stack /\ m.socket = s /\ m.reassembly_ = Q
          /\ m.transmissions_ = k.transmissions_ /\ m.told = k.told
      BY Zenon, <1>0, <2>6, <3>1 DEF Stack
    <3>3. Sends(m) BY Zenon, <3>2 DEF Draining, Sends
    <3>4. Cardinality(Q) <= ReassemblyCapacity
      BY <1>0, <2>5, FS_CardinalityType, Constants
    <3>5. Draining(m, d) BY Zenon, <2>5, <2>6, <3>2, <3>3, <3>4 DEF Draining
    <3>6. Drains(k, m) BY Zenon, <3>2 DEF Drains, SameSend, SameClose
    <3> QED BY Zenon, <2>5, <2>9, <3>2, <3>5, <3>6 DEF m
  <2>11. CASE ~(covered > n \/ (covered = n /\ ~e.finish))
    <3> DEFINE y == p + n
               r == n - covered
    <3>1. covered <= n BY <2>4, <2>8, <2>11
    <3>2. rest = Piece(x, y)
      <4>1. SubSeq(Piece(p, y), covered + 1, n) = Piece(p + covered, p + n)
        <5>1. p \in Int /\ y \in Int /\ 0 <= p /\ p <= y /\ covered \in Int /\ n \in Int
              /\ 0 <= covered /\ covered <= n /\ n <= y - p
          BY <2>4, <2>8, <3>1
        <5> HIDE DEF y
        <5> QED BY ZenonT(60), <5>1, PieceCut
      <4>2. p + covered = x BY <2>4, <2>8
      <4> QED BY Zenon, <2>7, <4>1, <4>2 DEF n
    <3>3. /\ y \in Nat /\ x <= y /\ y <= InboundLength /\ y - x = r /\ r \in Nat
          /\ x + r = y
      BY <2>4, <2>7, <2>8, <3>1
    <3>4. Len(rest) = r
      <4>1. x \in Int /\ y \in Int /\ 0 <= x BY <2>4, <3>3
      <4> HIDE DEF y, rest, r
      <4> QED BY Zenon, <3>2, <3>3, <4>1, PieceSeq, Constants
    <3>5. r <= W /\ r + Bit(e.finish) <= W
      <4> DEFINE f == Bit(e.finish)
      <4>1. f \in {0, 1} /\ p + n + f <= x + W BY Zenon, <2>4, <2>7
      <4> HIDE DEF f
      <4> QED BY <2>4, <2>8, <4>1 DEF f
    <3> HIDE DEF rest, r, y
    <3>6. m = [k EXCEPT !.socket = t, !.reassembly_ = Q]
      <4>1. ~(r > W) BY <2>4, <3>3, <3>5
      <4> QED BY Zenon, <2>2, <2>11, <3>4, <4>1 DEF W
    <3>7. Continues(s, d, rest, r, e.finish)
      <4>1. Len(d) \in Nat /\ Reads(s, d) /\ Closes(s) /\ s.state \in Synchronized
        BY Zenon, LenProperties DEF Draining
      <4>2. e.finish => y = InboundLength BY Zenon, <2>7 DEF y
      <4> QED BY Zenon, <1>0, <1>3, <2>4, <3>2, <3>3, <3>4, <3>5, <4>1, <4>2 DEF Continues, x, W
    <3>8. /\ t \in Socket /\ Reads(t, d) /\ Closes(t) /\ t.state \in Synchronized
          /\ t.receive_closed = e.finish
          /\ Got(t) = (x + r) + Bit(e.finish) /\ Window(t) = W - r
          /\ SameSend(s, t) /\ SameClose(s, t)
          /\ t.acknowledgement_retries = s.acknowledgement_retries
      <4>1. Extended(s, t, d, r, e.finish) BY Zenon, <3>7, Appended
      <4> QED BY Zenon, <4>1 DEF Extended, x, W
    <3> HIDE DEF t
    <3>9. /\ m \in Stack /\ m.socket = t /\ m.reassembly_ = Q
          /\ m.transmissions_ = k.transmissions_ /\ m.told = k.told
      BY Zenon, <1>0, <2>6, <3>6, <3>8 DEF Stack
    <3>10. Sends(m)
      <4>1. SameState(s, t) BY Zenon, <3>8 DEF SameState, Draining
      <4>2. Sends(k) BY Zenon DEF Draining
      <4> QED BY Zenon, <3>8, <3>9, <4>1, <4>2, SendsKept
    <3>11. Cardinality(Q) <= ReassemblyCapacity
      BY <1>0, <2>5, FS_CardinalityType, Constants
    <3>12. ASSUME NEW f \in Q PROVE t.receive_closed \/ Stored(f, t)
      <4> SUFFICES ASSUME ~e.finish PROVE Stored(f, t) BY Zenon, <3>8
      <4>1. Got(t) + Window(t) = x + W
        <5>1. Got(t) = (x + r) + 0 /\ Window(t) = W - r BY Zenon, <3>8 DEF Bit
        <5>2. x \in Int /\ W \in Int /\ r \in Int BY <2>4, <3>3
        <5> HIDE DEF r
        <5> QED BY <5>1, <5>2
      <4>2. Stored(f, s) BY Zenon, <1>3, <2>6 DEF Draining
      <4> QED BY Zenon, <4>1, <4>2 DEF Stored, x, W
    <3>13. Draining(m, d) BY Zenon, <2>5, <3>8, <3>9, <3>10, <3>11, <3>12 DEF Draining
    <3>14. Drains(k, m) BY Zenon, <3>8, <3>9 DEF Drains
    <3> QED BY Zenon, <2>5, <2>9, <3>9, <3>13, <3>14 DEF m
  <2> QED BY Zenon, <2>10, <2>11
<1> QED BY Zenon, <1>1, <1>2, <1>3

\* The loop is a chain of turns.
LEMMA DrainTurns ==
  ASSUME NEW k, NEW N \in Nat, N = ReassemblyCapacity + 1
  PROVE  \E f : /\ f[0] = k
                /\ \A n \in 1 .. N : f[n] = DrainTurn(f[n - 1])
                /\ drain_reassembly(k) = f[N]
<1> DEFINE Chain(f, m) == f = [n \in 0 .. m |-> IF n = 0 THEN k ELSE DrainTurn(f[n - 1])]
           Bad == {m \in Nat : ~ \E f : Chain(f, m)}
<1>1. Bad = {}
  <2> SUFFICES ASSUME Bad # {} PROVE FALSE BY Zenon
  <2>1. Bad \in SUBSET Nat BY Zenon
  <2>2. PICK m \in Bad : \A y \in Bad : m <= y
    <3> HIDE DEF Bad
    <3> QED BY Zenon, <2>1, LeastNat
  <2>3. m # 0
    <3>1. Chain([n \in 0 .. 0 |-> k], 0) OBVIOUS
    <3> QED BY Zenon, <3>1
  <2>4. m - 1 \in Nat /\ m - 1 \notin Bad
    <3>1. m \in Nat BY Zenon, <2>2
    <3> HIDE DEF Bad
    <3> QED BY <2>2, <2>3, <3>1
  <2>5. PICK f : Chain(f, m - 1) BY Zenon, <2>4
  <2> DEFINE g == [n \in 0 .. m |-> IF n = m THEN DrainTurn(f[m - 1]) ELSE f[n]]
  <2>6. Chain(g, m)
    <3>1. ASSUME NEW n \in 0 .. m PROVE g[n] = IF n = 0 THEN k ELSE DrainTurn(g[n - 1])
      <4>1. CASE n = 0 BY <2>3, <2>5, <4>1
      <4>2. CASE n # 0 /\ n # m
        <5>1. f[n] = DrainTurn(f[n - 1]) BY <2>5, <4>2
        <5> QED BY <4>2, <5>1
      <4>3. CASE n # 0 /\ n = m BY <4>3
      <4> QED BY Zenon, <4>1, <4>2, <4>3
    <3> QED BY Zenon, <3>1
  <2> QED BY Zenon, <2>2, <2>6
<1> DEFINE after == CHOOSE f : Chain(f, N)
<1>2. Chain(after, N)
  <2>1. \E f : Chain(f, N) BY <1>1
  <2> QED BY Zenon, <2>1
<1>3. drain_reassembly(k) = after[N] BY Zenon DEF drain_reassembly
<1> HIDE DEF after
<1>4. after[0] = k BY <1>2
<1>5. \A n \in 1 .. N : after[n] = DrainTurn(after[n - 1]) BY <1>2
<1> QED BY Zenon, <1>3, <1>4, <1>5

\* After the loop no stored piece is due, whatever was stored: every turn
\* takes one piece away and there is one turn more than pieces
\* (socket.hpp:639).
LEMMA DrainSound ==
  ASSUME NEW k, NEW d, Draining(k, d)
  PROVE  LET m == drain_reassembly(k)
         IN  Draining(m, d) /\ Drains(k, m) /\ Settled(m)
<1> DEFINE N == ReassemblyCapacity + 1
<1>0. N \in Nat /\ N = ReassemblyCapacity + 1 BY Constants
<1> HIDE DEF N
<1>1. PICK f : /\ f[0] = k
               /\ \A n \in 1 .. N : f[n] = DrainTurn(f[n - 1])
               /\ drain_reassembly(k) = f[N]
  BY Zenon, <1>0, DrainTurns
<1> DEFINE c == Cardinality(k.reassembly_)
           P(n) == /\ Draining(f[n], d) /\ Drains(k, f[n])
                   /\ Settled(f[n]) \/ Cardinality(f[n].reassembly_) + n <= c
           Bad == {n \in 0 .. N : ~P(n)}
<1>2. c \in Nat /\ c <= ReassemblyCapacity BY Zenon, FS_CardinalityType DEF Draining
<1> HIDE DEF c
<1>3. P(0)
  <2>1. Drains(k, k) BY Zenon DEF Drains, SameSend, SameClose
  <2>2. Cardinality(k.reassembly_) + 0 <= c BY <1>2 DEF c
  <2> QED BY Zenon, <1>1, <2>1, <2>2
<1>4. ASSUME NEW n \in 1 .. N, P(n - 1) PROVE P(n)
  <2> DEFINE l == f[n - 1]
             m == f[n]
  <2>1. m = DrainTurn(l) BY Zenon, <1>1
  <2>2. /\ Draining(l, d) /\ Drains(k, l)
        /\ Settled(l) \/ Cardinality(l.reassembly_) + (n - 1) <= c
    BY Zenon, <1>4
  <2> HIDE DEF l, m
  <2>3. /\ Draining(m, d) /\ Drains(l, m)
        /\ IF Settled(l) THEN m = l
           ELSE Cardinality(m.reassembly_) < Cardinality(l.reassembly_)
    BY Zenon, <2>1, <2>2, DrainTurnStep
  <2>4. Drains(k, m) BY Zenon, <2>2, <2>3 DEF Drains, SameSend, SameClose
  <2>5. Settled(m) \/ Cardinality(m.reassembly_) + n <= c
    <3>1. CASE Settled(l) BY Zenon, <2>3, <3>1
    <3>2. CASE ~Settled(l)
      <4>1. Cardinality(m.reassembly_) \in Nat /\ Cardinality(l.reassembly_) \in Nat
        BY Zenon, <2>2, <2>3, FS_CardinalityType DEF Draining
      <4> QED BY <1>0, <1>2, <2>2, <2>3, <3>2, <4>1
    <3> QED BY Zenon, <3>1, <3>2
  <2> QED BY Zenon, <2>3, <2>4, <2>5 DEF m
<1>5. Bad = {}
  <2> SUFFICES ASSUME Bad # {} PROVE FALSE BY Zenon
  <2>1. Bad \in SUBSET Nat /\ Bad \in SUBSET (0 .. N) BY <1>0
  <2>2. PICK n \in Bad : \A y \in Bad : n <= y
    <3> HIDE DEF Bad
    <3> QED BY Zenon, <2>1, LeastNat
  <2>3. n # 0 /\ ~P(n) BY Zenon, <1>3, <2>2
  <2>4. n \in 1 .. N /\ n - 1 \in 0 .. N /\ n - 1 \notin Bad
    <3>1. n \in 0 .. N BY Zenon, <2>1
    <3> HIDE DEF Bad
    <3> QED BY <1>0, <2>2, <2>3, <3>1
  <2>5. P(n - 1) BY Zenon, <2>4
  <2> HIDE DEF P
  <2> QED BY Zenon, <1>4, <2>3, <2>4, <2>5
<1>6. P(N) BY <1>0, <1>5
<1>7. Settled(f[N])
  <2>1. Cardinality(f[N].reassembly_) \in Nat BY Zenon, <1>6, FS_CardinalityType DEF Draining
  <2>2. ~(Cardinality(f[N].reassembly_) + N <= c) BY <1>0, <1>2, <2>1, Constants
  <2> QED BY Zenon, <1>6, <2>2
<1> QED BY Zenon, <1>1, <1>6, <1>7

LEMMA SignedType ==
  ASSUME NEW x \in Number, NEW y \in Number
  PROVE  Signed(x, y) \in Int
<1>1. Minus(x, y) \in Int /\ SequenceSpace \in Int BY PlaceOfNumber, Constants DEF Number
<1> QED BY <1>1 DEF Signed

LEMMA SoundDrains ==
  ASSUME NEW k, NEW d, Sound(k, d), k.socket.state \in Synchronized
  PROVE  Draining(k, d)
<1>1. k.socket.state \notin {"free", "reset"} BY Zenon DEF Synchronized
<1> QED BY Zenon, <1>1 DEF Sound, Receives, Draining

LEMMA DrainedSound ==
  ASSUME NEW k, NEW d, Draining(k, d), Settled(k)
  PROVE  Sound(k, d) /\ k.socket.state \in Synchronized
<1> DEFINE s == k.socket
<1>1. s.state \notin {"free", "reset", "closed"} BY Zenon DEF Synchronized, Draining
<1>2. ASSUME NEW e \in k.reassembly_
      PROVE  ~s.receive_closed /\ From(e) > Got(s) /\ Stored(e, s)
  <2>1. ~s.receive_closed BY Zenon DEF Settled
  <2>2. ~(Signed(e.sequence, s.receive_next) <= 0) BY Zenon, <2>1 DEF Settled, Due
  <2>3. /\ Signed(e.sequence, s.receive_next) = From(e) - Got(s) /\ Stored(e, s)
        /\ From(e) \in Nat /\ Got(s) \in Nat
    BY Zenon, <2>1, StoredPlaces
  <2> QED BY <2>1, <2>2, <2>3
<1>3. Receives(k, d) BY Zenon, <1>1, <1>2 DEF Draining, Receives
<1> QED BY Zenon, <1>3 DEF Draining, Sound

\* What the peer may send: a piece of its stream, the FIN behind the last byte.
Heard(g) ==
  /\ g \in Segment
  /\ From(g) <= InboundLength /\ From(g) + Len(g.data) <= InboundLength
  /\ g.data = Piece(From(g), From(g) + Len(g.data))
  /\ g.finish => From(g) + Len(g.data) = InboundLength

\* A piece ahead of a gap is kept when there is room (socket.hpp:617).
LEMMA StoreSound ==
  ASSUME NEW k, NEW d, Sound(k, d), k.socket.state \in Synchronized,
         NEW e \in Ahead, ~k.socket.receive_closed, From(e) > Got(k.socket),
         Stored(e, k.socket)
  PROVE  LET m == store_reassembly(k, e)
         IN  Sound(m, d) /\ m.socket = k.socket /\ Drains(k, m)
<1> DEFINE m == store_reassembly(k, e)
           R == k.reassembly_
<1>0. k \in Stack /\ IsFiniteSet(R) /\ Cardinality(R) \in Nat
      /\ Cardinality(R) <= ReassemblyCapacity
  BY Zenon, FS_CardinalityType DEF Sound, Receives
<1>1. CASE m = k BY Zenon, <1>1 DEF Drains, SameSend, SameClose
<1>2. CASE m # k
  <2>1. m = [k EXCEPT !.reassembly_ = R \cup {e}] /\ Cardinality(R) # ReassemblyCapacity
    BY Zenon, <1>2 DEF store_reassembly
  <2> HIDE DEF m
  <2>2. /\ m \in Stack /\ m.socket = k.socket /\ m.reassembly_ = R \cup {e}
        /\ m.transmissions_ = k.transmissions_ /\ m.told = k.told
    BY Zenon, <1>0, <2>1 DEF Stack
  <2>3. IsFiniteSet(R \cup {e}) /\ Cardinality(R \cup {e}) <= ReassemblyCapacity
    <3>1. /\ IsFiniteSet(R \cup {e})
          /\ Cardinality(R \cup {e}) = IF e \in R THEN Cardinality(R) ELSE Cardinality(R) + 1
      BY Zenon, <1>0, FS_AddElement
    <3>2. Cardinality(R) + 1 <= ReassemblyCapacity BY <1>0, <2>1, Constants
    <3> QED BY Zenon, <1>0, <3>1, <3>2
  <2>4. Sends(m) BY Zenon, <2>2 DEF Sound, Sends
  <2>5. k.socket.state \notin {"free", "reset"} BY Zenon DEF Synchronized
  <2>6. Receives(m, d) BY Zenon, <2>2, <2>3, <2>5 DEF Sound, Receives
  <2> QED BY Zenon, <2>2, <2>4, <2>6 DEF Sound, Drains, SameSend, SameClose, m
<1> QED BY Zenon, <1>1, <1>2

\* A segment of the stream, whatever part of it is new (socket.hpp:396).
LEMMA ReceiveSound ==
  ASSUME NEW k, NEW d, Sound(k, d), k.socket.state \in Synchronized, NEW g, Heard(g)
  PROVE  LET m == receive(k, g)
         IN  Sound(m, d) /\ m.socket.state \in Synchronized /\ Drains(k, m)
<1> DEFINE m == receive(k, g)
           s == k.socket
           x == Got(s)
           p == From(g)
           n == Len(g.data)
           W == Window(s)
           early == Signed(g.sequence, s.receive_next)
           seen == IF early < 0 THEN Minus(s.receive_next, g.sequence) ELSE 0
           distance == IF early < 0 THEN 0 ELSE early
           unseen == SubSeq(g.data, seen + 1, n)
           available == W - distance
           finish == g.finish /\ Len(unseen) < available
           L == Least(Len(unseen), available)
           data == SubSeq(unseen, 1, L)
           e == [sequence |-> g.sequence, data |-> data, finish |-> finish]
           a == append_received(s, data, finish)
           l == [k EXCEPT !.socket = a]
<1>0. /\ k \in Stack /\ s \in Socket /\ s.receive_next \in Number /\ g.sequence \in Number
      /\ g.finish \in BOOLEAN /\ g.data \in Seq(1 .. InboundLength)
  BY Zenon DEF Sound, Stack, Socket, Heard, Segment
<1>1. CASE m = k BY Zenon, <1>1 DEF Drains, SameSend, SameClose
<1>2. CASE m # k
  <2>1. /\ ~s.receive_closed /\ available > 0
        /\ ~(seen > n \/ (seen > 0 /\ seen = n /\ ~g.finish))
        /\ m = IF distance > 0 THEN store_reassembly(k, e) ELSE drain_reassembly(l)
    <3>1. ~s.receive_closed BY Zenon, <1>2 DEF receive
    <3>2. ~(available <= 0) BY Zenon, <1>2 DEF receive
    <3>3. ~(seen > n \/ (seen > 0 /\ seen = n /\ ~g.finish)) BY Zenon, <1>2 DEF receive
    <3>4. m = IF distance > 0 THEN IF data = <<>> /\ ~finish THEN k
                                   ELSE store_reassembly(k, e)
              ELSE drain_reassembly(l)
      BY Zenon, <3>1, <3>2, <3>3 DEF receive
    <3>5. available \in Int /\ early \in Int
      <4>1. W \in Int /\ early \in Int BY Zenon, <1>0, Places, SignedType
      <4> HIDE DEF W, early
      <4> QED BY <4>1
    <3> HIDE DEF available, m
    <3>6. available > 0 BY <3>2, <3>5
    <3> QED BY Zenon, <1>2, <3>1, <3>3, <3>4, <3>6
  <2>2. x \in Nat /\ W \in Int /\ n \in Nat /\ p \in Nat /\ InboundLength \in Nat
    <3>1. x \in Number /\ W \in Int /\ InboundLength \in Nat /\ p \in Number
      BY Zenon, <1>0, Places, PlaceOfNumber, Constants DEF From
    <3> QED BY <1>0, <3>1, LenProperties DEF Number
  <2>3. /\ x <= InboundLength /\ p <= InboundLength /\ p + n <= InboundLength
        /\ g.data = Piece(p, p + n) /\ (g.finish => p + n = InboundLength)
    <3>1. s.state \notin {"free", "reset"} BY Zenon DEF Synchronized
    <3>2. x <= InboundLength + 1 /\ x # InboundLength + 1
      BY Zenon, <2>1, <3>1 DEF Sound, Receives, Reads
    <3>3. /\ p <= InboundLength /\ p + n <= InboundLength /\ g.data = Piece(p, p + n)
          /\ (g.finish => p + n = InboundLength)
      BY Zenon DEF Heard
    <3> HIDE DEF x, p, n
    <3> QED BY <2>2, <3>2, <3>3
  <2>4. early = p - x /\ (x >= p => Minus(s.receive_next, g.sequence) = x - p)
    <3>1. 2 * (p - x) < SequenceSpace /\ 2 * (x - p) < SequenceSpace
      <4> HIDE DEF p, x
      <4> QED BY <2>2, <2>3, Constants
    <3> QED BY Zenon, <1>0, <3>1, SignedPlaces, Constants DEF From, Got
  <2>5. Draining(k, d) BY Zenon, SoundDrains
  <2> HIDE DEF m, x, p, n, W, early
  <2>6. CASE p > x
    <3>1. distance = p - x /\ distance > 0 /\ seen = 0 BY <2>2, <2>4, <2>6
    <3>2. unseen = g.data /\ Len(unseen) = n
      BY <1>0, <3>1, SubSeqFull DEF n
    <3>3. available \in Nat /\ available = W - (p - x) BY <2>1, <2>2, <3>1
    <3> HIDE DEF distance, seen, unseen, available
    <3>4. /\ L \in Nat /\ L <= n /\ L <= available /\ (n < available => L = n)
          /\ L \in Int /\ 0 <= L
      BY <2>2, <3>2, <3>3 DEF Least
    <3> HIDE DEF L
    <3>5. data = Piece(p, p + L) /\ Len(data) = L /\ data \in Seq(1 .. InboundLength)
      <4> DEFINE y == p + n
                 z == p + L
      <4>1. p \in Int /\ y \in Int /\ 0 <= p /\ p <= y /\ 0 \in Int /\ 0 <= 0 /\ L <= y - p
        BY <2>2, <3>4
      <4>2. SubSeq(Piece(p, y), 0 + 1, L) = Piece(p + 0, z)
        <5> HIDE DEF y
        <5> QED BY ZenonT(60), <3>4, <4>1, PieceCut
      <4>3. data = Piece(p, z) BY <2>2, <2>3, <3>2, <4>2
      <4>4. z \in Int /\ p <= z /\ z <= InboundLength /\ z - p = L BY <2>2, <2>3, <3>4
      <4> HIDE DEF z, data
      <4>5. Piece(p, z) \in Seq(1 .. InboundLength) /\ Len(Piece(p, z)) = z - p
        BY Zenon, <2>2, <4>1, <4>4, PieceSeq
      <4> QED BY Zenon, <4>3, <4>4, <4>5 DEF z
    <3>6. /\ finish \in BOOLEAN /\ (finish => L + 1 <= available /\ p + L = InboundLength)
          /\ Bit(finish) \in {0, 1}
      <4>1. finish => n < available /\ g.finish BY Zenon, <3>2
      <4>2. n < available => L + 1 <= available /\ L = n BY <2>2, <3>3, <3>4
      <4> QED BY Zenon, <2>3, <4>1, <4>2 DEF Bit
    <3> HIDE DEF data, finish
    <3>7. e \in Ahead /\ From(e) = p /\ e.data = data /\ e.finish = finish
      BY Zenon, <1>0, <3>5, <3>6 DEF Ahead, From, p
    <3> HIDE DEF e
    <3>8. Stored(e, s)
      <4>1. p + L <= InboundLength BY <2>2, <2>3, <3>4
      <4>2. (p + L) + Bit(finish) <= x + W
        <5>1. CASE finish
          <6>1. Bit(finish) = 1 BY Zenon, <5>1 DEF Bit
          <6>2. L + 1 <= available BY Zenon, <3>6, <5>1
          <6> QED BY <2>2, <3>3, <3>4, <6>1, <6>2
        <5>2. CASE ~finish
          <6>1. Bit(finish) = 0 BY Zenon, <5>2 DEF Bit
          <6> QED BY <2>2, <3>3, <3>4, <6>1
        <5> QED BY Zenon, <5>1, <5>2
      <4> QED BY Zenon, <3>5, <3>6, <3>7, <4>1, <4>2 DEF Stored, x, W
    <3>9. /\ Sound(store_reassembly(k, e), d) /\ store_reassembly(k, e).socket = k.socket
          /\ Drains(k, store_reassembly(k, e))
      BY Zenon, <2>1, <2>6, <3>7, <3>8, StoreSound DEF x
    <3> QED BY Zenon, <2>1, <3>1, <3>9 DEF m
  <2>7. CASE ~(p > x)
    <3>1. distance = 0 /\ seen = x - p
      <4>1. CASE p = x BY <2>2, <2>4, <4>1
      <4>2. CASE p < x BY <2>2, <2>4, <4>2
      <4> QED BY <2>2, <2>7, <4>1, <4>2
    <3> DEFINE y == p + n
               u == y - x
    <3>2. available = W BY <2>2, <3>1
    <3>3. seen \in Nat /\ seen <= n BY <2>1, <2>2, <2>7, <3>1
    <3>4. m = drain_reassembly(l) /\ W > 0
      <4>1. ~(distance > 0) BY <3>1
      <4> HIDE DEF distance, l, e
      <4> QED BY Zenon, <2>1, <3>2, <4>1
    <3> HIDE DEF distance, seen, available
    <3>5. /\ y \in Nat /\ y <= InboundLength /\ x <= y /\ u \in Nat /\ x + u = y
          /\ p + seen = x
      BY <2>2, <2>3, <3>1, <3>3
    <3>6. unseen = Piece(x, y) /\ Len(unseen) = u
      <4>1. p \in Int /\ y \in Int /\ 0 <= p /\ p <= y /\ seen \in Int /\ n \in Int
            /\ 0 <= seen /\ seen <= n /\ n <= y - p /\ p + n = y /\ x \in Int /\ 0 <= x
        BY <2>2, <3>3, <3>5
      <4>2. SubSeq(Piece(p, y), seen + 1, n) = Piece(p + seen, p + n)
        <5>1. p \in Int /\ y \in Int /\ 0 <= p /\ p <= y /\ seen \in Int /\ n \in Int
              /\ 0 <= seen /\ seen <= n /\ n <= y - p
          BY Zenon, <4>1
        <5> HIDE DEF y
        <5> QED BY ZenonT(60), <5>1, PieceCut
      <4>3. unseen = Piece(x, y) BY Zenon, <2>3, <3>5, <4>1, <4>2
      <4> HIDE DEF y, unseen
      <4>4. Len(Piece(x, y)) = y - x BY <3>5, <4>1, PieceSeq, Constants
      <4> QED BY Zenon, <4>3, <4>4
    <3> HIDE DEF y, unseen
    <3>7. L \in Nat /\ L <= u /\ L <= W /\ (u < W => L = u)
      BY <2>2, <3>2, <3>4, <3>5, <3>6 DEF Least
    <3> HIDE DEF L, u
    <3>8. data = Piece(x, x + L) /\ Len(data) = L
      <4> DEFINE z == x + L
      <4>1. x \in Int /\ y \in Int /\ 0 <= x /\ x <= y /\ 0 \in Int /\ 0 <= 0 /\ L <= y - x
            /\ L \in Int /\ 0 <= L
        BY <2>2, <3>5, <3>7
      <4>2. SubSeq(Piece(x, y), 0 + 1, L) = Piece(x + 0, z) BY ZenonT(60), <4>1, PieceCut
      <4>3. data = Piece(x, z) BY <2>2, <3>6, <4>2
      <4>4. z \in Int /\ x <= z /\ z <= InboundLength /\ z - x = L BY <2>2, <3>5, <3>7
      <4> HIDE DEF z, data
      <4>5. Len(Piece(x, z)) = z - x BY Zenon, <2>2, <4>1, <4>4, PieceSeq
      <4> QED BY Zenon, <4>3, <4>4, <4>5 DEF z
    <3>9. finish \in BOOLEAN /\ (finish => x + L = InboundLength)
      <4>1. finish => u < W /\ g.finish BY Zenon, <3>2, <3>6
      <4>2. g.finish => y = InboundLength BY Zenon, <2>3 DEF y
      <4> QED BY Zenon, <3>5, <3>7, <4>1, <4>2
    <3> HIDE DEF data, finish
    <3>10. Continues(s, d, data, L, finish)
      <4>1. Len(d) \in Nat /\ Reads(s, d) /\ Closes(s)
        BY Zenon, <2>5, LenProperties DEF Draining
      <4>2. x + L <= InboundLength BY <2>2, <3>5, <3>7
      <4> QED BY Zenon, <1>0, <2>1, <3>7, <3>8, <3>9, <4>1, <4>2 DEF Continues, x, W
    <3>11. /\ a \in Socket /\ Reads(a, d) /\ Closes(a) /\ a.state \in Synchronized
           /\ a.receive_closed = finish
           /\ Got(a) = (x + L) + Bit(finish) /\ Window(a) = W - L
           /\ SameSend(s, a) /\ SameClose(s, a)
           /\ a.acknowledgement_retries = s.acknowledgement_retries
      <4>1. Extended(s, a, d, L, finish) BY Zenon, <3>10, Appended
      <4> QED BY Zenon, <4>1 DEF Extended, x, W
    <3> HIDE DEF a
    <3>12. /\ l \in Stack /\ l.socket = a /\ l.told = k.told
           /\ l.reassembly_ = k.reassembly_ /\ l.transmissions_ = k.transmissions_
      BY Zenon, <1>0, <3>11, SocketPut
    <3> HIDE DEF l
    <3>13. Sends(l)
      <4>1. SameState(s, a) BY Zenon, <3>11 DEF SameState
      <4> QED BY Zenon, <3>11, <3>12, <4>1, SendsKept DEF Sound
    <3>14. ASSUME NEW f \in k.reassembly_ PROVE a.receive_closed \/ Stored(f, a)
      <4> SUFFICES ASSUME ~finish PROVE Stored(f, a) BY Zenon, <3>11
      <4>1. Got(a) + Window(a) = x + W
        <5>1. Got(a) = (x + L) + 0 /\ Window(a) = W - L BY Zenon, <3>11 DEF Bit
        <5>2. x \in Int /\ W \in Int /\ L \in Int BY <2>2, <3>7
        <5> HIDE DEF L, x, W
        <5> QED BY <5>1, <5>2
      <4>2. Stored(f, s) BY Zenon, <2>1, <2>5 DEF Draining
      <4> QED BY Zenon, <4>1, <4>2 DEF Stored, x, W
    <3>15. Draining(l, d) BY Zenon, <2>5, <3>11, <3>12, <3>13, <3>14 DEF Draining
    <3>16. Draining(m, d) /\ Drains(l, m) /\ Settled(m) BY Zenon, <3>4, <3>15, DrainSound
    <3>17. Sound(m, d) /\ m.socket.state \in Synchronized BY Zenon, <3>16, DrainedSound
    <3>18. Drains(k, m) BY Zenon, <3>11, <3>12, <3>16 DEF Drains, SameSend, SameClose
    <3> QED BY Zenon, <3>17, <3>18 DEF m
  <2> QED BY Zenon, <2>6, <2>7
<1> QED BY Zenon, <1>1, <1>2

=============================================================================
