------------------------------ MODULE PtyTable ------------------------------
(***************************************************************************)
(* Pseudo terminals (include/mikos/process/pty.hpp) as the kernel's        *)
(* descriptors and ioctls use them: reference-counted master and slave     *)
(* ends, the line discipline in both directions, sessions and foreground   *)
(* groups.  The two rings are bounded sequences: PipeTable models the ring *)
(* arithmetic they share.                                                  *)
(*                                                                         *)
(* History variables: held counts the open descriptors of each handle and  *)
(* end, log keeps, since the terminal was opened or flushed, what each     *)
(* side was told it has written and what the other side has read, and      *)
(* notice is the last signal the kernel queued and for whom.               *)
(***************************************************************************)
EXTENDS Integers, Sequences

CONSTANTS
  TableCapacity, BufferCapacity,
  GenerationMax,    \* largest u16
  Byte,             \* characters programs and users write
  Modes,            \* termios settings that occur
  Process,          \* callers: [pid, process_group, session]
  MaxCount,         \* bound: bytes in one call
  MaxLog,           \* bound: bytes in one log
  MaxHeld           \* bound: descriptors on one end, below the u16 limit

ASSUME PtyAssumption ==
  /\ {TableCapacity, BufferCapacity, GenerationMax, MaxHeld} \subseteq Nat \ {0}
  /\ MaxCount \in Nat /\ MaxLog \in Nat
  /\ Byte \subseteq {"x", "nl", "intr", "quit", "susp"}
  /\ Modes \subseteq SUBSET {"onlcr", "isig", "noflsh", "echo", "echoctl"}
  /\ \A p \in Process : p.pid # 0 /\ p.process_group # 0 /\ p.session # 0

VARIABLES ptys_, held, log, notice

vars == <<ptys_, held, log, notice>>

Slot == 0..(TableCapacity - 1)

End == {"master", "slave"}

Other(e) == IF e = "master" THEN "slave" ELSE "master"

Handle == [slot : Slot, generation : 1..GenerationMax]

Input == UNION {[1..n -> Byte] : n \in 1..MaxCount}

Default == {"onlcr", "isig", "echo"}

\* ring[e] is what was written through end e and not yet read at the other.
Fresh(generation) ==
  [used |-> FALSE, locked |-> FALSE, generation |-> generation,
   references |-> [e \in End |-> 0], ring |-> [e \in End |-> <<>>],
   termios |-> Default, window |-> 0, session |-> 0, foreground_group |-> 0]

Quiet == notice' = [signal |-> "none", to |-> {}, foreground_group |-> 0]

EmptyLog == [e \in End |-> [written |-> <<>>, seen |-> <<>>]]

Init ==
  /\ ptys_ = [s \in Slot |-> Fresh(0)]
  /\ held = [h \in Handle |-> [e \in End |-> 0]]
  /\ log = [s \in Slot |-> EmptyLog]
  /\ notice = [signal |-> "none", to |-> {}, foreground_group |-> 0]

find(h) == ptys_[h.slot].used /\ ptys_[h.slot].generation = h.generation

-----------------------------------------------------------------------------

open_master(s) ==
  LET g == (ptys_[s].generation % GenerationMax) + 1
  IN  /\ ~ptys_[s].used
      /\ \A t \in 0..(s - 1) : ptys_[t].used
      /\ ptys_' = [ptys_ EXCEPT ![s] = [Fresh(g) EXCEPT
           !.used = TRUE, !.locked = TRUE,
           !.references = [master |-> 1, slave |-> 0]]]
      /\ held' = [held EXCEPT ![[slot |-> s, generation |-> g]]["master"] = @ + 1]
      /\ log' = [log EXCEPT ![s] = EmptyLog]
      /\ Quiet

set_locked(h, locked) ==
  /\ held[h]["master"] > 0
  /\ find(h) /\ ptys_[h.slot].references["master"] # 0
  /\ ptys_' = [ptys_ EXCEPT ![h.slot].locked = locked]
  /\ Quiet /\ UNCHANGED <<held, log>>

\* A slave is opened, by number or as the terminal of a session.
SlaveOpened(s) ==
  /\ ~ptys_[s].locked
  /\ LET h == [slot |-> s, generation |-> ptys_[s].generation]
     IN  /\ held[h]["slave"] < MaxHeld
         /\ ptys_' = [ptys_ EXCEPT ![s].references["slave"] = @ + 1]
         /\ held' = [held EXCEPT ![h]["slave"] = @ + 1]
  /\ Quiet /\ UNCHANGED log

open_slave(number) == ptys_[number].used /\ SlaveOpened(number)

\* The first terminal of the caller's session.
open_controlling_slave(p, s) ==
  /\ ptys_[s].used /\ ptys_[s].session = p.session
  /\ \A t \in 0..(s - 1) : ptys_[t].used => ptys_[t].session # p.session
  /\ SlaveOpened(s)

retain(h, e) ==
  /\ held[h][e] \in 1..(MaxHeld - 1)
  /\ find(h) /\ ptys_[h.slot].references[e] # 0
  /\ ptys_' = [ptys_ EXCEPT ![h.slot].references[e] = @ + 1]
  /\ held' = [held EXCEPT ![h][e] = @ + 1]
  /\ Quiet /\ UNCHANGED log

\* Mutant: the terminal goes with its master.
GoesWithMaster(p, e) ==
  LET q == [p EXCEPT !.references[e] = @ - 1]
  IN  IF q.references["master"] = 0 THEN Fresh(p.generation) ELSE q

Released(p, e) ==
  LET q == [p EXCEPT !.references[e] = @ - 1]
  IN  IF \A d \in End : q.references[d] = 0 THEN Fresh(p.generation) ELSE q

release(h, e) ==
  /\ held[h][e] > 0
  /\ held' = [held EXCEPT ![h][e] = @ - 1]
  /\ ptys_' = IF find(h) /\ ptys_[h.slot].references[e] # 0
              THEN [ptys_ EXCEPT ![h.slot] = Released(@, e)] ELSE ptys_
  /\ log' = IF ptys_'[h.slot].used THEN log ELSE [log EXCEPT ![h.slot] = EmptyLog]
  /\ Quiet

-----------------------------------------------------------------------------

\* A read takes the oldest bytes; on an empty ring it reports end of file or
\* blocks and changes nothing.
read(h, e, count) ==
  LET ring == ptys_[h.slot].ring[Other(e)]
      n == IF count < Len(ring) THEN count ELSE Len(ring)
  IN  /\ held[h][e] > 0 /\ find(h) /\ n > 0
      /\ ptys_' = [ptys_ EXCEPT ![h.slot].ring[Other(e)] = SubSeq(ring, n + 1, Len(ring))]
      /\ log' = [log EXCEPT ![h.slot][Other(e)].seen = @ \o SubSeq(ring, 1, n)]
      /\ Quiet /\ UNCHANGED held

\* RingBuffer::write: what fits.
Put(ring, bytes) ==
  LET room == BufferCapacity - Len(ring)
  IN  ring \o SubSeq(bytes, 1, IF Len(bytes) < room THEN Len(bytes) ELSE room)

\* Output: what a character becomes under OPOST | ONLCR.
Expanded(termios, c) ==
  IF "onlcr" \in termios /\ c = "nl" THEN <<"cr", "nl">> ELSE <<c>>

\* Mutant: a newline goes in as far as there is room.
SplitsNewline(w, c, termios) ==
  LET bytes == Expanded(termios, c)
      ring == Put(w.ring, bytes)
  IN  [ring |-> ring,
       consumed |-> IF w.stopped \/ Len(ring) < Len(w.ring) + Len(bytes)
                    THEN w.consumed ELSE w.consumed + 1,
       stopped |-> w.stopped \/ Len(ring) < Len(w.ring) + Len(bytes)]

\* One turn of the loop over the slave's output; an expansion is atomic.
OutputTurn(w, c, termios) ==
  LET bytes == Expanded(termios, c)
  IN  IF w.stopped \/ BufferCapacity - Len(w.ring) < Len(bytes)
      THEN [w EXCEPT !.stopped = TRUE]
      ELSE [w EXCEPT !.ring = Put(@, bytes), !.consumed = @ + 1]

\* The loop.
OutputLoop(p, input) ==
  LET after[n \in 0..Len(input)] ==
        IF n = 0 THEN [ring |-> p.ring["slave"], consumed |-> 0, stopped |-> FALSE]
        ELSE OutputTurn(after[n - 1], input[n], p.termios)
  IN  after[Len(input)]

\* What the parts of a text make together.
Joined(parts) ==
  LET joined[n \in 0..Len(parts)] ==
        IF n = 0 THEN <<>> ELSE joined[n - 1] \o parts[n]
  IN  joined[Len(parts)]

\* A write by the slave, through the output discipline.
slave_write(h, input) ==
  LET p == ptys_[h.slot]
      w == OutputLoop(p, input)
  IN  /\ held[h]["slave"] > 0 /\ find(h) /\ p.references["master"] # 0
      /\ ptys_' = [ptys_ EXCEPT ![h.slot].ring["slave"] = w.ring]
      /\ log' = [log EXCEPT ![h.slot]["slave"].written =
           @ \o Joined([i \in 1..w.consumed |-> Expanded(p.termios, input[i])])]
      /\ Quiet /\ UNCHANGED held

\* VINTR, VQUIT and VSUSP with their default characters.
Signal(termios, c) ==
  IF "isig" \notin termios THEN "none"
  ELSE CASE c = "intr" -> "interrupt" [] c = "quit" -> "quit"
         [] c = "susp" -> "tty_stop" [] OTHER -> "none"

Echo(termios, c) ==
  IF "echo" \notin termios THEN <<>>
  ELSE IF "echoctl" \in termios THEN <<"^", c>> ELSE <<c>>

\* One turn of the loop over the user's input: a signal character flushes both
\* rings, unless NOFLSH, and is echoed; any other needs room.
InputTurn(w, c, termios) ==
  LET signal == Signal(termios, c)
      flushed == IF "noflsh" \in termios THEN w.ring ELSE [e \in End |-> <<>>]
  IN  IF w.stopped \/ (signal = "none" /\ Len(w.ring["master"]) = BufferCapacity)
      THEN [w EXCEPT !.stopped = TRUE]
      ELSE IF signal = "none"
      THEN [w EXCEPT !.ring["master"] = Put(@, <<c>>), !.consumed = @ + 1]
      ELSE [w EXCEPT !.ring = [flushed EXCEPT !["slave"] = Put(@, Echo(termios, c))],
                     !.consumed = @ + 1, !.signals = @ \cup {signal}]

\* The loop.
InputLoop(p, input) ==
  LET after[n \in 0..Len(input)] ==
        IF n = 0
        THEN [ring |-> p.ring, consumed |-> 0, stopped |-> FALSE, signals |-> {}]
        ELSE InputTurn(after[n - 1], input[n], p.termios)
  IN  after[Len(input)]

\* The log after a write by the master.  Under NOFLSH the text follows what was
\* there, and echoes are shown as far as there is room.  After a flush only
\* what came behind the last signal character, and its echo, is to be seen.
Logged(l, p, accepted) ==
  LET controls == {i \in 1..Len(accepted) : Signal(p.termios, accepted[i]) # "none"}
      last == CHOOSE i \in controls : \A j \in controls : j <= i
      text == Joined([i \in 1..Len(accepted) |->
                        IF i \in controls THEN <<>> ELSE <<accepted[i]>>])
      echoes == Joined([i \in 1..Len(accepted) |->
                          IF i \in controls THEN Echo(p.termios, accepted[i]) ELSE <<>>])
      shown == Put(p.ring["slave"], echoes)
      empty == [written |-> <<>>, seen |-> <<>>]
  IN  IF controls = {} \/ "noflsh" \in p.termios
      THEN [l EXCEPT !["master"].written = @ \o text,
                     !["slave"].written =
                        @ \o SubSeq(shown, Len(p.ring["slave"]) + 1, Len(shown))]
      ELSE [master |-> [empty EXCEPT !.written = SubSeq(accepted, last + 1, Len(accepted))],
            slave |-> [empty EXCEPT !.written = Put(<<>>, Echo(p.termios, accepted[last]))]]

\* A write by the master, through the input discipline; the kernel queues the
\* signals it generated for the foreground group.
master_write(h, input) ==
  LET p == ptys_[h.slot]
      w == InputLoop(p, input)
      targets == {q \in Process : q.process_group = p.foreground_group}
  IN  /\ held[h]["master"] > 0 /\ find(h) /\ p.references["slave"] # 0
      /\ ptys_' = [ptys_ EXCEPT ![h.slot].ring = w.ring]
      /\ log' = [log EXCEPT ![h.slot] = Logged(@, p, SubSeq(input, 1, w.consumed))]
      /\ IF w.signals = {} THEN Quiet
         ELSE notice' = [signal |-> "terminal", to |-> targets,
                         foreground_group |-> p.foreground_group]
      /\ UNCHANGED held

-----------------------------------------------------------------------------

\* An open descriptor of either end.
Open(h) == find(h) /\ \E e \in End : held[h][e] > 0

\* TIOCSCTTY on a slave: only a session leader, and only a free terminal or its
\* own, unless forced.
acquire_controlling_terminal(h, p, force) ==
  /\ held[h]["slave"] > 0 /\ find(h) /\ ptys_[h.slot].references["slave"] # 0
  /\ p.pid = p.session
  /\ ptys_[h.slot].session \in {0, p.session} \/ force
  /\ ptys_' = [ptys_ EXCEPT ![h.slot].session = p.session,
                            ![h.slot].foreground_group = p.process_group]
  /\ Quiet /\ UNCHANGED <<held, log>>

\* Mutant: the foreground group survives the session's terminal.
KeepsForeground(h, p) ==
  /\ Open(h) /\ ptys_[h.slot].session = p.session
  /\ ptys_' = [ptys_ EXCEPT ![h.slot].session = 0]
  /\ Quiet /\ UNCHANGED <<held, log>>

\* TIOCNOTTY
detach(h, p) ==
  /\ Open(h) /\ ptys_[h.slot].session = p.session
  /\ ptys_' = [ptys_ EXCEPT ![h.slot].session = 0, ![h.slot].foreground_group = 0]
  /\ Quiet /\ UNCHANGED <<held, log>>

\* TIOCSPGRP
set_foreground_group(h, p, group) ==
  /\ Open(h) /\ ptys_[h.slot].session = p.session
  /\ ptys_' = [ptys_ EXCEPT ![h.slot].foreground_group = group]
  /\ Quiet /\ UNCHANGED <<held, log>>

\* TCSETS and its variants: none of them flushes or waits.
set_termios(h, termios) ==
  /\ Open(h)
  /\ ptys_' = [ptys_ EXCEPT ![h.slot].termios = termios]
  /\ Quiet /\ UNCHANGED <<held, log>>

\* TIOCSWINSZ: the caller gets SIGWINCH when the size changes and the terminal
\* has a foreground group.
set_window(h, p, window) ==
  /\ Open(h)
  /\ ptys_' = [ptys_ EXCEPT ![h.slot].window = window]
  /\ IF window # ptys_[h.slot].window /\ ptys_[h.slot].foreground_group # 0
     THEN notice' = [signal |-> "window_change", to |-> {p},
                     foreground_group |-> ptys_[h.slot].foreground_group]
     ELSE Quiet
  /\ UNCHANGED <<held, log>>

\* Bound: the logs stay short.
Bounded(s) == \A e \in End : Len(log[s][e].written) + 2 * MaxCount <= MaxLog

Next ==
  \/ \E s \in Slot : open_master(s) \/ open_slave(s)
  \/ \E p \in Process : \E s \in Slot : open_controlling_slave(p, s)
  \/ \E h \in Handle :
       \/ \E locked \in BOOLEAN : set_locked(h, locked)
       \/ \E e \in End :
            \/ retain(h, e) \/ release(h, e)
            \/ \E count \in 1..MaxCount : read(h, e, count)
       \/ \E input \in Input :
            Bounded(h.slot) /\ (slave_write(h, input) \/ master_write(h, input))
       \/ \E termios \in Modes : set_termios(h, termios)
       \/ \E p \in Process :
            \/ detach(h, p)
            \/ \E force \in BOOLEAN : acquire_controlling_terminal(h, p, force)
            \/ \E q \in Process : set_foreground_group(h, p, q.process_group)
            \/ \E window \in {0, 1} : set_window(h, p, window)

Spec == Init /\ [][Next]_vars

-----------------------------------------------------------------------------

readable(h, e) ==
  find(h) /\ ptys_[h.slot].references[e] # 0
  /\ (ptys_[h.slot].ring[Other(e)] # <<>> \/ ptys_[h.slot].references[Other(e)] = 0)

writable(h, e) ==
  find(h) /\ ptys_[h.slot].references[e] # 0
  /\ ptys_[h.slot].references[Other(e)] # 0
  /\ Len(ptys_[h.slot].ring[e]) < BufferCapacity

\* Types: rings never exceed their capacity, counts never underflow.
TypeOK ==
  /\ \A s \in Slot :
       LET p == ptys_[s]
       IN  /\ p.generation \in 0..GenerationMax
           /\ p.references \in [End -> Nat]
           /\ \A e \in End : Len(p.ring[e]) <= BufferCapacity
  /\ held \in [Handle -> [End -> Nat]]

\* Every open descriptor names a live terminal that counts exactly the
\* descriptors of each end: hangup and reuse happen at the last close, and a
\* descriptor that survives its peer never reaches the slot's next terminal.
EndsCounted ==
  /\ TypeOK
  /\ \A h \in Handle :
       /\ (\E e \in End : held[h][e] > 0) => find(h)
       /\ find(h) => ptys_[h.slot].references = held[h]

\* What one side has been told it wrote is, in order and once each, what the
\* other side has read and will read: newlines become one CR LF pair even when
\* writes are cut short, input comes out unchanged, and nothing typed or shown
\* before an interrupt reaches a reader after it.
StreamsFaithful ==
  \A s \in Slot : ptys_[s].used =>
    \A e \in End : log[s][e].seen \o ptys_[s].ring[e] = log[s][e].written

\* A terminal has a foreground group exactly while a session owns it, and a
\* slot's next terminal starts with neither, nor with old bytes.
TerminalOwned ==
  \A s \in Slot :
    /\ ptys_[s].foreground_group # 0 <=> ptys_[s].session # 0
    /\ ~ptys_[s].used => ptys_[s] = Fresh(ptys_[s].generation)

-----------------------------------------------------------------------------

\* Promised by the documents and not kept by the code: see the findings in
\* the README.

\* Signals of the terminal go to its foreground group only.
SignalsToForeground ==
  \A p \in notice.to : p.process_group = notice.foreground_group

\* The foreground group is a group of the session that owns the terminal.
ForegroundInSession ==
  \A s \in Slot : ptys_[s].foreground_group # 0 =>
    \E p \in Process : /\ p.process_group = ptys_[s].foreground_group
                       /\ p.session = ptys_[s].session

\* A session has at most one controlling terminal.
OneTerminalPerSession ==
  \A s, t \in Slot :
    ptys_[s].session # 0 /\ ptys_[s].session = ptys_[t].session => s = t

\* A descriptor reported writable takes at least one byte of any write.
WritableMeansProgress ==
  \A h \in Handle : \A c \in Byte :
    writable(h, "slave") =>
      Len(ptys_[h.slot].ring["slave"]) + Len(Expanded(ptys_[h.slot].termios, c))
        <= BufferCapacity

=============================================================================
