----------------------------- MODULE SocketTable -----------------------------
(***************************************************************************)
(* The socket table of include/mikos/net/socket.hpp as network/stack.cpp   *)
(* and the socket system calls of kernel/syscall.cpp use it: descriptors,  *)
(* ports, listeners with their backlog, the passive handshake, accept and  *)
(* the end of connections, over one array of slots.                        *)
(*                                                                         *)
(* The data transfer of a connection is module TcpConnection.  Here its    *)
(* states are drawn together: "established" stands for every synchronized  *)
(* state before the close handshake is complete, "last_ack" for a complete *)
(* one this side ended, "time_wait" for a complete one this side began.    *)
(* Only segments in sequence are enumerated: the others are answered or    *)
(* dropped and leave the table alone.                                      *)
(***************************************************************************)
EXTENDS Integers, FiniteSets, FiniteSetsExt

CONSTANTS
  Capacity,          \* socket_capacity
  DescriptorCount,   \* descriptors of all processes together
  BacklogCapacity,   \* listen_backlog_capacity
  Ports,             \* ports a program may ask for
  EphemeralPorts,    \* 49152 .. 65535 in the code
  Peers,             \* remote endpoints
  NoPeer,            \* the default endpoint
  Lifetime           \* ticks of tcp_syn_timeout

ASSUME SocketAssumption ==
  /\ {Capacity, DescriptorCount, BacklogCapacity, Lifetime} \subseteq Nat \ {0}
  /\ (Ports \cup EphemeralPorts) \subseteq Nat \ {0}
  /\ NoPeer \notin Peers

VARIABLES
  slots_,        \* the array of SocketSlot
  descriptors    \* which socket a descriptor names, and for which peer

vars == <<slots_, descriptors>>

invalid_socket == 0

Handles == 1 .. Capacity

-----------------------------------------------------------------------------
(* Slots.                                                                  *)

Free ==
  [state |-> "free", references |-> 0, address |-> "any", port |-> 0,
   remote |-> NoPeer, listener |-> invalid_socket, accepted |-> FALSE,
   detached |-> FALSE, send_closed |-> FALSE, backlog |-> 0, opened_at |-> 0]

is_connection(state) ==
  state \in {"syn_received", "established", "last_ack", "time_wait", "reset"}

FreeHandles(t) == {h \in Handles : t[h].state = "free"}

allocate(t) == Min(FreeHandles(t))

\* The children of a listener that accept has not handed out.
Children(t, h) == {c \in Handles : t[c].listener = h /\ ~t[c].accepted}

pending(t, h) == Cardinality(Children(t, h))

\* Mutant: a listener takes all its connections with it.
ReleasesAccepted(t, h) ==
  IF t[h].references > 1 THEN [t EXCEPT ![h].references = @ - 1]
  ELSE [c \in Handles |->
          IF c = h \/ (t[h].state = "listening" /\ t[c].listener = h)
          THEN Free ELSE t[c]]

\* Mutant: the children of a closed listener stay.
ForgetsChildren(t, h) ==
  IF t[h].references > 1 THEN [t EXCEPT ![h].references = @ - 1]
  ELSE [t EXCEPT ![h] = Free]

\* SocketTable::release: the last reference frees the slot, and with a
\* listener the connections nobody has accepted.
release(t, h) ==
  IF t[h].references > 1 THEN [t EXCEPT ![h].references = @ - 1]
  ELSE [c \in Handles |->
          IF c = h \/ (t[h].state = "listening" /\ c \in Children(t, h))
          THEN Free ELSE t[c]]

\* A wildcard conflicts with every address of its port.
port_conflicts(t, excluded, address, port) ==
  \E h \in Handles \ {excluded} :
    /\ t[h].state \notin {"free", "control"}
    /\ t[h].port = port
    /\ "any" \in {t[h].address, address} \/ t[h].address = address

FreePorts(t, address) ==
  {p \in EphemeralPorts : ~port_conflicts(t, invalid_socket, address, p)}

listener(t, port) ==
  {h \in Handles : t[h].state = "listening" /\ t[h].port = port}

\* Mutant: a half-open connection is not found.
CompletedOnly(t, port, remote) ==
  {h \in Handles : /\ is_connection(t[h].state) /\ t[h].state # "syn_received"
                   /\ t[h].port = port /\ t[h].remote = remote}

\* Mutant: a connection in TIME-WAIT is not found.
WithoutTimeWait(t, port, remote) ==
  {h \in Handles : /\ is_connection(t[h].state) /\ t[h].state # "time_wait"
                   /\ t[h].port = port /\ t[h].remote = remote}

connection(t, port, remote) ==
  {h \in Handles : /\ is_connection(t[h].state)
                   /\ t[h].port = port /\ t[h].remote = remote}

-----------------------------------------------------------------------------
(* Descriptors and their system calls.                                     *)

NoDescriptor == [socket |-> invalid_socket, remote |-> NoPeer]

FreeDescriptors == {d \in DOMAIN descriptors : descriptors[d] = NoDescriptor}

\* The descriptor whose system call is being handled.
Names(d) == descriptors[d].socket

Install(h, remote) ==
  descriptors' = [descriptors EXCEPT ![Min(FreeDescriptors)] =
                    [socket |-> h, remote |-> remote]]

\* socket(): without a descriptor the slot is given back at once.
socket(type) ==
  /\ FreeHandles(slots_) # {} /\ FreeDescriptors # {}
  /\ slots_' = [slots_ EXCEPT ![allocate(slots_)] =
       [Free EXCEPT !.state = IF type = "datagram" THEN "control" ELSE "created",
                    !.references = 1]]
  /\ Install(allocate(slots_), NoPeer)

bind(d, address, wanted) ==
  LET h == Names(d)
      port == IF wanted # 0 THEN wanted
              ELSE Min(FreePorts(slots_, address))
  IN  /\ slots_[h].state = "created"
      /\ wanted = 0 => FreePorts(slots_, address) # {}
      /\ ~port_conflicts(slots_, h, address, port)
      /\ slots_' = [slots_ EXCEPT ![h].address = address, ![h].port = port,
                                  ![h].state = "bound"]
      /\ UNCHANGED descriptors

listen(d, backlog) ==
  LET clamped == IF backlog < 1 THEN 1
                 ELSE IF backlog > BacklogCapacity THEN BacklogCapacity
                 ELSE backlog
  IN  /\ slots_[Names(d)].state \in {"bound", "listening"}
      /\ slots_' = [slots_ EXCEPT ![Names(d)].backlog = clamped,
                                  ![Names(d)].state = "listening"]
      /\ UNCHANGED descriptors

\* NetworkStack::socket_close: a live connection is detached from its last
\* descriptor and lives on until its close handshake ends.
socket_close(t, h) ==
  IF t[h].references = 1 /\ t[h].state \in {"established", "time_wait"}
  THEN [t EXCEPT ![h].detached = TRUE, ![h].send_closed = TRUE]
  ELSE release(t, h)

\* accept4(): `written' is whether the peer's address reached the program;
\* if not, the connection is closed again.
accept(d, written) ==
  LET ready == {c \in Children(slots_, Names(d)) :
                  slots_[c].state \in {"established", "reset"}}
      c == Min(ready)
      handed == [slots_ EXCEPT ![c].accepted = TRUE]
  IN  /\ slots_[Names(d)].state = "listening"
      /\ FreeDescriptors # {} /\ ready # {}
      /\ IF written
         THEN slots_' = handed /\ Install(c, slots_[c].remote)
         ELSE slots_' = socket_close(handed, c) /\ UNCHANGED descriptors

\* dup, dup3, fcntl and fork: one more descriptor of the same socket.
retain_descriptor(d) ==
  /\ FreeDescriptors # {}
  /\ slots_' = [slots_ EXCEPT ![Names(d)].references = @ + 1]
  /\ Install(Names(d), descriptors[d].remote)

release_descriptor(d) ==
  /\ slots_' = socket_close(slots_, Names(d))
  /\ descriptors' = [descriptors EXCEPT ![d] = NoDescriptor]

\* shutdown() of the sending side.
socket_shutdown(d) ==
  /\ slots_[Names(d)].state = "established"
  /\ slots_' = [slots_ EXCEPT ![Names(d)].send_closed = TRUE]
  /\ UNCHANGED descriptors

-----------------------------------------------------------------------------
(* Segments and timers.                                                    *)

\* begin_connection, and the time stamp handle_tcp gives the slot it returns.
begin_connection(t, l, port, remote) ==
  LET known == {c \in Children(t, l) : t[c].remote = remote}
  IN  IF known # {} THEN [t EXCEPT ![Min(known)].opened_at = 0]
      ELSE IF pending(t, l) >= t[l].backlog \/ FreeHandles(t) = {} THEN t
      ELSE [t EXCEPT ![allocate(t)] =
              [Free EXCEPT !.state = "syn_received", !.address = "own",
                           !.port = port, !.remote = remote,
                           !.references = 1, !.listener = l]]

Kinds == {"syn", "ack", "rst", "fin", "fin_ack"}

\* A connection that ends badly is kept only for a descriptor to see.
Abort(t, h) ==
  IF t[h].detached \/ ~t[h].accepted THEN release(t, h)
  ELSE [t EXCEPT ![h].state = "reset"]

\* "fin" completes the close handshake of a connection this side closed
\* first, "fin_ack" of one the peer closed first.
ConnectionSegment(t, h, kind) ==
  LET s == t[h]
  IN  CASE s.state \in {"reset", "time_wait"} -> t
        [] kind = "rst" /\ s.state \notin {"reset", "time_wait"} -> Abort(t, h)
        [] kind = "ack" /\ s.state = "syn_received" ->
             [t EXCEPT ![h].state = "established"]
        [] kind = "fin" /\ s.state = "established" /\ s.send_closed ->
             [t EXCEPT ![h].state = "time_wait"]
        [] kind = "fin_ack" /\ s.state = "established" /\ s.send_closed ->
             IF s.detached THEN release(t, h)
             ELSE [t EXCEPT ![h].state = "last_ack"]
        [] OTHER -> t

handle_tcp(t, kind, port, remote) ==
  LET found == connection(t, port, remote)
      listening == listener(t, port)
  IN  IF found # {} THEN ConnectionSegment(t, Min(found), kind)
      ELSE IF kind = "syn" /\ listening # {}
      THEN begin_connection(t, Min(listening), port, remote)
      ELSE t

\* flush_timers: half-open connections end by their age; of the others those
\* in `expired' have been silent, or in TIME-WAIT, for long enough.
flush_timers(t, expired) ==
  [h \in Handles |->
     CASE t[h].state = "syn_received" /\ t[h].opened_at >= Lifetime ->
            Abort(t, h)[h]
       [] t[h].state = "established" /\ h \in expired -> Abort(t, h)[h]
       [] t[h].state = "time_wait" /\ h \in expired ->
            IF t[h].detached THEN Free ELSE [t[h] EXCEPT !.state = "closed"]
       [] OTHER -> t[h]]

\* Connections some timer of which may run: of an unaccepted connection
\* everything sent is acknowledged, so none does.
Timed(t) ==
  {h \in Handles : t[h].accepted /\ t[h].state \in {"established", "time_wait"}}

NoFrame == <<"none", 0, NoPeer>>

poll ==
  /\ \E frame \in {NoFrame} \cup (Kinds \X (Ports \cup EphemeralPorts) \X Peers) :
       LET handled == IF frame = NoFrame THEN slots_
                      ELSE handle_tcp(slots_, frame[1], frame[2], frame[3])
       IN  \E expired \in SUBSET Timed(handled) :
             slots_' = flush_timers(handled, expired)
  /\ UNCHANGED descriptors

Tick ==
  LET young == {h \in Handles : /\ slots_[h].state = "syn_received"
                                /\ slots_[h].opened_at < Lifetime}
  IN  /\ young # {}
      /\ slots_' = [h \in Handles |->
                      IF h \in young THEN [slots_[h] EXCEPT !.opened_at = @ + 1]
                      ELSE slots_[h]]
      /\ UNCHANGED descriptors

Init ==
  /\ slots_ = [h \in Handles |-> Free]
  /\ descriptors = [d \in 1 .. DescriptorCount |-> NoDescriptor]

Next ==
  \/ \E type \in {"stream", "datagram"} : socket(type)
  \/ \E d \in DOMAIN descriptors \ FreeDescriptors :
       \/ \E address \in {"any", "own"}, port \in Ports \cup {0} :
            bind(d, address, port)
       \/ \E backlog \in 0 .. BacklogCapacity + 1 : listen(d, backlog)
       \/ \E written \in BOOLEAN : accept(d, written)
       \/ retain_descriptor(d)
       \/ release_descriptor(d)
       \/ socket_shutdown(d)
  \/ poll
  \/ Tick

Spec == Init /\ [][Next]_vars

\* The kernel's loops poll the stack again and again, and time passes.
FairSpec == Spec /\ WF_vars(poll) /\ WF_vars(Tick)

-----------------------------------------------------------------------------
(* Properties.                                                             *)

\* Slots and descriptors have their fields' types; a free slot is empty.
TypeOK ==
  /\ \A h \in Handles :
       LET s == slots_[h]
       IN  /\ s.state \in {"free", "control", "created", "bound", "listening",
                           "closed"} \/ is_connection(s.state)
           /\ s.references \in 0 .. DescriptorCount
           /\ s.port \in Ports \cup EphemeralPorts \cup {0}
           /\ s.remote \in Peers \cup {NoPeer}
           /\ s.listener \in Handles \cup {invalid_socket}
           /\ s.backlog \in 0 .. BacklogCapacity
           /\ s.opened_at \in 0 .. Lifetime
           /\ s.state = "free" => s = Free
  /\ \A d \in DOMAIN descriptors :
       /\ descriptors[d].socket \in Handles \cup {invalid_socket}
       /\ descriptors[d].remote \in Peers \cup {NoPeer}

\* "Accept returns each established child once and preserves its peer
\* endpoint", "only the last close tears down transport state": a descriptor
\* names a live socket, the one it was made for, and the slot's references
\* are its descriptors, or the one of the stack when no descriptor owns it.
DescriptorsCounted ==
  /\ TypeOK
  /\ \A d \in DOMAIN descriptors \ FreeDescriptors :
       LET s == slots_[Names(d)]
       IN  s.state # "free" /\ s.remote = descriptors[d].remote
  /\ \A h \in Handles :
       LET s == slots_[h]
           names == Cardinality({d \in DOMAIN descriptors : Names(d) = h})
           transport == s.detached \/ (s.remote # NoPeer /\ ~s.accepted)
       IN  s.state # "free" =>
             IF transport THEN s.references = 1 /\ names = 0
             ELSE s.references = names /\ names > 0

\* "Closing a listener releases unaccepted children": a connection accept has
\* not handed out waits at an open listener of its own port, so that some
\* accept can still reach it, however often the slots were used before.
ChildrenHaveListener ==
  \A h \in Handles :
    is_connection(slots_[h].state) /\ ~slots_[h].accepted =>
      LET l == slots_[h].listener
      IN  /\ l # invalid_socket
          /\ slots_[l].state = "listening" /\ slots_[l].port = slots_[h].port

\* A segment belongs to at most one socket: no two connections carry the same
\* pair of endpoints, one in TIME-WAIT or already closed by the program
\* included, and "Wildcard binds conflict with every exact address on the same
\* port", so that of the sockets that may listen on a port at most one gets it.
EndpointsExclusive ==
  \A g, h \in Handles :
    /\ slots_[g].port = slots_[h].port
    /\ \/ /\ is_connection(slots_[g].state) /\ is_connection(slots_[h].state)
          /\ slots_[g].remote = slots_[h].remote
       \/ /\ {slots_[g].state, slots_[h].state} \subseteq {"bound", "listening"}
          /\ \/ "any" \in {slots_[g].address, slots_[h].address}
             \/ slots_[g].address = slots_[h].address
    => g = h

\* "the slot expires at 120 seconds even under repeated duplicate SYNs": a
\* half-open connection is established or gives its slot back.
HalfOpenEnds ==
  \A h \in Handles :
    slots_[h].state = "syn_received" ~> slots_[h].state # "syn_received"

=============================================================================
