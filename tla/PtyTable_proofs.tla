--------------------------- MODULE PtyTable_proofs --------------------------
(***************************************************************************)
(* For every number of terminals, size of the rings, set of programs and   *)
(* of terminal settings: the ends of a terminal are counted, a slot starts *)
(* each of its terminals afresh, and what the line discipline says it took *)
(* is what comes out at the other end.                                     *)
(***************************************************************************)
EXTENDS PtyTable, SequenceTheorems, WellFoundedInduction, TLAPS

\* What comes out: the characters written, and those the discipline adds.
Char == Byte \cup {"cr", "nl", "^"}

Name ==
  {0} \cup {p.session : p \in Process} \cup {p.process_group : p \in Process}

Terminal ==
  [used : BOOLEAN, locked : BOOLEAN, generation : 0..GenerationMax,
   references : [End -> Nat], ring : [End -> Seq(Char)],
   termios : Modes \cup {Default}, window : {0, 1},
   session : Name, foreground_group : Name]

Log == [End -> [written : Seq(Char), seen : Seq(Char)]]

-----------------------------------------------------------------------------
(* The inductive invariant.                                                *)

Sound(p) ==
  /\ p \in Terminal
  /\ \A e \in End : Len(p.ring[e]) <= BufferCapacity
  /\ p.used => p.generation # 0
  /\ ~p.used => p = Fresh(p.generation)
  /\ p.foreground_group # 0 <=> p.session # 0

Faithful(p, l) ==
  l \in Log /\ \A e \in End : l[e].seen \o p.ring[e] = l[e].written

Counted(p, h, c) ==
  /\ (\E e \in End : c[e] > 0) => p.used /\ p.generation = h.generation
  /\ p.used /\ p.generation = h.generation => p.references = c

IInv ==
  /\ ptys_ \in [Slot -> Terminal]
  /\ held \in [Handle -> [End -> Nat]]
  /\ log \in [Slot -> Log]
  /\ \A s \in Slot : Sound(ptys_[s]) /\ Faithful(ptys_[s], log[s])
  /\ \A h \in Handle : Counted(ptys_[h.slot], h, held[h])

-----------------------------------------------------------------------------
(* Slots.                                                                  *)

LEMMA Constants ==
  /\ TableCapacity \in Nat /\ BufferCapacity \in Nat /\ BufferCapacity > 0
  /\ GenerationMax \in Nat /\ GenerationMax > 0
  /\ \A p \in Process : /\ p.session # 0 /\ p.process_group # 0
                        /\ p.session \in Name /\ p.process_group \in Name
BY PtyAssumption DEF Name

LEMMA FreshSound ==
  ASSUME NEW g \in 0..GenerationMax
  PROVE  Sound(Fresh(g)) /\ EmptyLog \in Log /\ Faithful(Fresh(g), EmptyLog)
<1> DEFINE p == Fresh(g)
<1>1. <<>> \in Seq(Char) /\ Len(<<>>) = 0 /\ <<>> \o <<>> = <<>>
  BY Zenon, EmptySeq, ConcatEmptySeq
<1>2. p \in Terminal BY Zenon, <1>1 DEF Fresh, Terminal, Name
<1>3. Sound(p) BY <1>1, <1>2, Constants DEF Sound, Fresh
<1>4. EmptyLog \in Log BY Zenon, <1>1 DEF EmptyLog, Log
<1> QED BY Zenon, <1>1, <1>3, <1>4 DEF Faithful, EmptyLog, Fresh

\* A step of one terminal that leaves its descriptors alone.
LEMMA TerminalStep ==
  ASSUME IInv, NEW s \in Slot, NEW p, NEW l,
         Sound(p), Faithful(p, l),
         p.used = ptys_[s].used, p.generation = ptys_[s].generation,
         p.references = ptys_[s].references,
         ptys_' = [ptys_ EXCEPT ![s] = p],
         log' = [log EXCEPT ![s] = l], held' = held
  PROVE  IInv'
<1>1. ptys_' \in [Slot -> Terminal] BY Zenon DEF IInv, Sound
<1>2. log' \in [Slot -> Log] BY Zenon DEF IInv, Faithful
<1>3. \A t \in Slot : ptys_'[t] = (IF t = s THEN p ELSE ptys_[t])
                      /\ log'[t] = (IF t = s THEN l ELSE log[t])
  BY Zenon DEF IInv
<1>4. \A t \in Slot : Sound(ptys_'[t]) /\ Faithful(ptys_'[t], log'[t])
  BY Zenon, <1>3 DEF IInv
<1>5. ASSUME NEW h \in Handle PROVE Counted(ptys_'[h.slot], h, held'[h])
  <2>1. h.slot \in Slot /\ Counted(ptys_[h.slot], h, held[h]) BY Zenon DEF IInv, Handle
  <2> QED BY <1>3, <2>1 DEF Counted
<1> QED BY Zenon, <1>1, <1>2, <1>4, <1>5 DEF IInv

\* A step of one terminal and the descriptors of its generation: no other
\* generation of the slot has any.
LEMMA CountStep ==
  ASSUME IInv, NEW h \in Handle, NEW p, NEW l, NEW c \in [End -> Nat],
         Sound(p), Faithful(p, l),
         p.generation = h.generation,
         ~ptys_[h.slot].used \/ ptys_[h.slot].generation = h.generation,
         p.used => p.references = c, ~p.used => \A e \in End : c[e] = 0,
         ptys_' = [ptys_ EXCEPT ![h.slot] = p],
         log' = [log EXCEPT ![h.slot] = l], held' = [held EXCEPT ![h] = c]
  PROVE  IInv'
<1>0. h.slot \in Slot BY Zenon DEF Handle
<1>1. ptys_' \in [Slot -> Terminal] /\ held' \in [Handle -> [End -> Nat]]
  BY Zenon, <1>0 DEF IInv, Sound
<1>2. log' \in [Slot -> Log] BY Zenon, <1>0 DEF IInv, Faithful
<1>3. \A t \in Slot : ptys_'[t] = (IF t = h.slot THEN p ELSE ptys_[t])
                      /\ log'[t] = (IF t = h.slot THEN l ELSE log[t])
  BY Zenon, <1>0 DEF IInv
<1>4. \A t \in Slot : Sound(ptys_'[t]) /\ Faithful(ptys_'[t], log'[t])
  BY Zenon, <1>3 DEF IInv
<1>5. ASSUME NEW k \in Handle PROVE Counted(ptys_'[k.slot], k, held'[k])
  <2>1. k.slot \in Slot /\ Counted(ptys_[k.slot], k, held[k]) BY Zenon DEF IInv, Handle
  <2>2. held'[k] = (IF k = h THEN c ELSE held[k]) BY Zenon DEF IInv
  <2>3. CASE k = h
    <3>1. ptys_'[k.slot] = p /\ held'[k] = c BY Zenon, <1>3, <2>1, <2>2, <2>3
    <3> QED BY <2>3, <3>1 DEF Counted
  <2>4. CASE k # h /\ k.slot = h.slot
    <3>1. ptys_'[k.slot] = p /\ held'[k] = held[k] BY Zenon, <1>3, <2>1, <2>2, <2>4
    <3>2. k.generation # h.generation BY <2>4 DEF Handle
    <3>3. ~ \E e \in End : held[k][e] > 0 BY Zenon, <2>1, <2>4, <3>2 DEF Counted
    <3> QED BY Zenon, <3>1, <3>2, <3>3 DEF Counted
  <2>5. CASE k.slot # h.slot
    <3>1. ptys_'[k.slot] = ptys_[k.slot] /\ held'[k] = held[k]
      BY Zenon, <1>3, <2>1, <2>2, <2>5
    <3> QED BY Zenon, <2>1, <3>1
  <2> QED BY Zenon, <2>3, <2>4, <2>5
<1> QED BY Zenon, <1>1, <1>2, <1>4, <1>5 DEF IInv

LEMMA InitSound == ASSUME Init PROVE IInv
<1>1. 0 \in 0..GenerationMax BY Constants
<1>2. \A s \in Slot : ptys_[s] = Fresh(0) /\ log[s] = EmptyLog BY Zenon DEF Init
<1>3. Sound(Fresh(0)) /\ EmptyLog \in Log /\ Faithful(Fresh(0), EmptyLog)
  BY Zenon, <1>1, FreshSound
<1>4. \A h \in Handle : h.slot \in Slot BY Zenon DEF Handle
<1>5. \A h \in Handle : \A e \in End : held[h][e] = 0 BY Zenon DEF Init
<1>6. held \in [Handle -> [End -> Nat]] BY Zenon DEF Init
<1>7. \A h \in Handle : Counted(ptys_[h.slot], h, held[h])
  BY <1>2, <1>4, <1>5 DEF Counted, Fresh
<1> QED BY Zenon, <1>2, <1>3, <1>6, <1>7 DEF IInv, Init, Sound

-----------------------------------------------------------------------------
(* The actions but for the writes.                                         *)

LEMMA OpenMasterSound ==
  ASSUME IInv, NEW s \in Slot, open_master(s)
  PROVE  IInv'
<1> DEFINE g == (ptys_[s].generation % GenerationMax) + 1
           f == Fresh(g)
           h == [slot |-> s, generation |-> g]
           r == [master |-> 1, slave |-> 0]
           p == [f EXCEPT !.used = TRUE, !.locked = TRUE, !.references = r]
           c == [held[h] EXCEPT !["master"] = @ + 1]
<1>1. ptys_[s].generation \in 0..GenerationMax BY Zenon DEF IInv, Terminal
<1>2. g \in 1..GenerationMax BY <1>1, Constants
<1> HIDE DEF g
<1>3. h \in Handle /\ h.slot = s /\ h.generation = g BY Zenon, <1>2 DEF Handle
<1>4. Sound(f) /\ Faithful(f, EmptyLog) BY <1>2, Constants, FreshSound
<1>0. r \in [End -> Nat] /\ r = [e \in End |-> IF e = "master" THEN 1 ELSE 0]
  BY DEF End
<1> HIDE DEF r
<1>5. /\ p.used = TRUE /\ p.generation = g /\ p.ring = f.ring
      /\ p.references = r /\ p.session = 0 /\ p.foreground_group = 0
  BY Zenon DEF Fresh
<1>6. p \in Terminal BY Zenon, <1>0, <1>4 DEF Sound, Terminal
<1> HIDE DEF f, p
<1>7. Sound(p) BY <1>2, <1>4, <1>5, <1>6 DEF Sound
<1>8. Faithful(p, EmptyLog) BY Zenon, <1>4, <1>5 DEF Faithful
<1>9. ~ptys_[s].used BY Zenon DEF open_master
<1>10. held[h] \in [End -> Nat] /\ \A e \in End : held[h][e] = 0
  BY <1>3, <1>9 DEF IInv, Counted
<1>11. c \in [End -> Nat] /\ c = [e \in End |-> IF e = "master" THEN 1 ELSE 0]
  BY <1>10 DEF End
<1> HIDE DEF c
<1>12. /\ ptys_' = [ptys_ EXCEPT ![h.slot] = p]
       /\ log' = [log EXCEPT ![h.slot] = EmptyLog]
       /\ held' = [held EXCEPT ![h] = c]
  BY Zenon, <1>3 DEF open_master, c, p, f, g, r
<1> HIDE DEF h
<1> QED BY Zenon, <1>0, <1>3, <1>5, <1>7, <1>8, <1>9, <1>11, <1>12, CountStep

\* The settings of a live terminal change, and its locks.
LEMMA SettingsSound ==
  ASSUME IInv, NEW h \in Handle, NEW p, find(h),
         p \in Terminal, p.used = ptys_[h.slot].used,
         p.generation = ptys_[h.slot].generation,
         p.references = ptys_[h.slot].references, p.ring = ptys_[h.slot].ring,
         p.foreground_group # 0 <=> p.session # 0,
         ptys_' = [ptys_ EXCEPT ![h.slot] = p], UNCHANGED <<held, log>>
  PROVE  IInv'
<1>1. h.slot \in Slot BY Zenon DEF Handle
<1>2. Sound(ptys_[h.slot]) /\ Faithful(ptys_[h.slot], log[h.slot]) BY Zenon, <1>1 DEF IInv
<1>3. Sound(p) BY Zenon, <1>2 DEF Sound, find
<1>4. Faithful(p, log[h.slot]) BY Zenon, <1>2 DEF Faithful
<1>5. log' = [log EXCEPT ![h.slot] = log[h.slot]] BY Zenon DEF IInv
<1> QED BY Zenon, <1>1, <1>3, <1>4, <1>5, TerminalStep

LEMMA SetLockedSound ==
  ASSUME IInv, NEW h \in Handle, NEW locked \in BOOLEAN, set_locked(h, locked)
  PROVE  IInv'
<1> DEFINE q == ptys_[h.slot]
           p == [q EXCEPT !.locked = locked]
<1>1. q \in Terminal /\ (q.foreground_group # 0 <=> q.session # 0)
  BY Zenon DEF IInv, Handle, Sound
<1>2. /\ p \in Terminal /\ p.used = q.used /\ p.generation = q.generation
      /\ p.references = q.references /\ p.ring = q.ring
      /\ p.session = q.session /\ p.foreground_group = q.foreground_group
  BY Zenon, <1>1 DEF Terminal
<1>3. /\ ptys_' = [ptys_ EXCEPT ![h.slot] = p]
      /\ find(h) /\ UNCHANGED <<held, log>>
  BY Zenon DEF set_locked
<1> HIDE DEF p, q
<1> QED BY Zenon, <1>1, <1>2, <1>3, SettingsSound DEF q

LEMMA SetTermiosSound ==
  ASSUME IInv, NEW h \in Handle, NEW termios \in Modes, set_termios(h, termios)
  PROVE  IInv'
<1> DEFINE q == ptys_[h.slot]
           p == [q EXCEPT !.termios = termios]
<1>1. q \in Terminal /\ (q.foreground_group # 0 <=> q.session # 0)
  BY Zenon DEF IInv, Handle, Sound
<1>2. /\ p \in Terminal /\ p.used = q.used /\ p.generation = q.generation
      /\ p.references = q.references /\ p.ring = q.ring
      /\ p.session = q.session /\ p.foreground_group = q.foreground_group
  BY Zenon, <1>1 DEF Terminal
<1>3. /\ ptys_' = [ptys_ EXCEPT ![h.slot] = p]
      /\ find(h) /\ UNCHANGED <<held, log>>
  BY Zenon DEF set_termios, Open
<1> HIDE DEF p, q
<1> QED BY Zenon, <1>1, <1>2, <1>3, SettingsSound DEF q

LEMMA SetWindowSound ==
  ASSUME IInv, NEW h \in Handle, NEW caller \in Process, NEW window \in {0, 1},
         set_window(h, caller, window)
  PROVE  IInv'
<1> DEFINE q == ptys_[h.slot]
           p == [q EXCEPT !.window = window]
<1>1. q \in Terminal /\ (q.foreground_group # 0 <=> q.session # 0)
  BY Zenon DEF IInv, Handle, Sound
<1>2. /\ p \in Terminal /\ p.used = q.used /\ p.generation = q.generation
      /\ p.references = q.references /\ p.ring = q.ring
      /\ p.session = q.session /\ p.foreground_group = q.foreground_group
  BY Zenon, <1>1 DEF Terminal
<1>3. /\ ptys_' = [ptys_ EXCEPT ![h.slot] = p]
      /\ find(h) /\ UNCHANGED <<held, log>>
  BY Zenon DEF set_window, Open
<1> HIDE DEF p, q
<1> QED BY Zenon, <1>1, <1>2, <1>3, SettingsSound DEF q

\* A session takes the terminal, gives it up, or moves its foreground group.
LEMMA OwnerSound ==
  ASSUME IInv, NEW h \in Handle, NEW caller \in Process,
         \/ \E force \in BOOLEAN : acquire_controlling_terminal(h, caller, force)
         \/ detach(h, caller)
         \/ \E q \in Process : set_foreground_group(h, caller, q.process_group)
  PROVE  IInv'
<1> DEFINE q == ptys_[h.slot]
<1>1. q \in Terminal BY Zenon DEF IInv, Handle, Sound
<1>2. ASSUME NEW session \in Name, NEW group \in Name, find(h),
             group # 0 <=> session # 0,
             ptys_' = [ptys_ EXCEPT ![h.slot].session = session,
                                    ![h.slot].foreground_group = group],
             UNCHANGED <<held, log>>
      PROVE  IInv'
  <2> DEFINE p == [q EXCEPT !.session = session, !.foreground_group = group]
  <2>1. /\ p \in Terminal /\ p.used = q.used /\ p.generation = q.generation
        /\ p.references = q.references /\ p.ring = q.ring
        /\ p.session = session /\ p.foreground_group = group
    BY Zenon, <1>1 DEF Terminal
  <2>2. ptys_' = [ptys_ EXCEPT ![h.slot] = p] BY Zenon, <1>2 DEF IInv, Handle
  <2> HIDE DEF p, q
  <2> QED BY Zenon, <1>2, <2>1, <2>2, SettingsSound DEF q
<1>3. ASSUME NEW force \in BOOLEAN, acquire_controlling_terminal(h, caller, force)
      PROVE  IInv'
  BY Zenon, <1>2, <1>3, Constants DEF acquire_controlling_terminal
<1>4. ASSUME detach(h, caller) PROVE IInv'
  <2>1. 0 \in Name BY Zenon DEF Name
  <2> QED BY Zenon, <1>2, <1>4, <2>1 DEF detach, Open
<1>5. ASSUME NEW r \in Process, set_foreground_group(h, caller, r.process_group)
      PROVE  IInv'
  <2>1. /\ find(h) /\ q.session = caller.session /\ UNCHANGED <<held, log>>
        /\ ptys_' = [ptys_ EXCEPT ![h.slot].foreground_group = r.process_group]
    BY Zenon, <1>5 DEF set_foreground_group, Open
  <2>2. ptys_' = [ptys_ EXCEPT ![h.slot].session = caller.session,
                               ![h.slot].foreground_group = r.process_group]
    BY Zenon, <1>1, <2>1 DEF IInv, Handle, Terminal
  <2> QED BY Zenon, <1>2, <2>1, <2>2, Constants
<1> QED BY Zenon, <1>3, <1>4, <1>5

\* One more descriptor of an end.
LEMMA OneMore ==
  ASSUME IInv, NEW h \in Handle, NEW e \in End, find(h),
         ptys_' = [ptys_ EXCEPT ![h.slot].references[e] = @ + 1],
         held' = [held EXCEPT ![h][e] = @ + 1], log' = log
  PROVE  IInv'
<1> DEFINE q == ptys_[h.slot]
           c == [held[h] EXCEPT ![e] = @ + 1]
           p == [q EXCEPT !.references = c]
<1>1. h.slot \in Slot BY Zenon DEF Handle
<1>2. Sound(q) /\ Faithful(q, log[h.slot]) BY Zenon, <1>1 DEF IInv
<1>3. q.used /\ q.generation = h.generation /\ q.references = held[h]
      /\ held[h] \in [End -> Nat]
  BY Zenon DEF IInv, find, Counted
<1>4. c \in [End -> Nat] BY <1>3
<1>5. /\ ptys_' = [ptys_ EXCEPT ![h.slot] = p] /\ held' = [held EXCEPT ![h] = c]
      /\ log' = [log EXCEPT ![h.slot] = log[h.slot]]
  BY Zenon, <1>1, <1>3 DEF IInv, Terminal
<1> HIDE DEF c
<1>6. /\ p \in Terminal /\ p.used = q.used /\ p.generation = q.generation
      /\ p.references = c /\ p.ring = q.ring
      /\ p.session = q.session /\ p.foreground_group = q.foreground_group
  BY Zenon, <1>2, <1>4 DEF Sound, Terminal
<1> HIDE DEF p, q
<1>7. Sound(p) BY Zenon, <1>2, <1>3, <1>6 DEF Sound
<1>8. Faithful(p, log[h.slot]) BY Zenon, <1>2, <1>6 DEF Faithful
<1>9. ptys_[h.slot].generation = h.generation BY Zenon, <1>3 DEF q
<1> QED BY Zenon, <1>3, <1>4, <1>5, <1>6, <1>7, <1>8, <1>9, CountStep

LEMMA SlaveOpenedSound ==
  ASSUME IInv, NEW s \in Slot, ptys_[s].used, SlaveOpened(s)
  PROVE  IInv'
<1> DEFINE h == [slot |-> s, generation |-> ptys_[s].generation]
<1>1. ptys_[s].generation \in 1..GenerationMax
  BY Constants DEF IInv, Sound, Terminal
<1>2. h \in Handle /\ h.slot = s /\ find(h) BY Zenon, <1>1 DEF Handle, find
<1>3. /\ ptys_' = [ptys_ EXCEPT ![h.slot].references["slave"] = @ + 1]
      /\ held' = [held EXCEPT ![h]["slave"] = @ + 1] /\ log' = log
  BY Zenon DEF SlaveOpened
<1> HIDE DEF h
<1> QED BY Zenon, <1>2, <1>3, OneMore DEF End

LEMMA RetainSound ==
  ASSUME IInv, NEW h \in Handle, NEW e \in End, retain(h, e)
  PROVE  IInv'
BY Zenon, OneMore DEF retain

\* The last descriptor takes the terminal along (pty.hpp:148).
LEMMA ReleaseSound ==
  ASSUME IInv, NEW h \in Handle, NEW e \in End, release(h, e)
  PROVE  IInv'
<1> DEFINE q == ptys_[h.slot]
           c == [held[h] EXCEPT ![e] = @ - 1]
           p == [q EXCEPT !.references = c]
<1>1. h.slot \in Slot BY Zenon DEF Handle
<1>2. Sound(q) /\ Faithful(q, log[h.slot]) BY Zenon, <1>1 DEF IInv
<1>3. held[h] \in [End -> Nat] /\ held[h][e] > 0 BY Zenon DEF IInv, release
<1>4. q.used /\ q.generation = h.generation /\ q.references = held[h] /\ find(h)
  BY Zenon, <1>3 DEF IInv, find, Counted
<1>5. c \in [End -> Nat] BY <1>3
<1>6. /\ held' = [held EXCEPT ![h] = c] /\ q.references[e] # 0
      /\ ptys_' = [ptys_ EXCEPT ![h.slot] = Released(q, e)]
  BY <1>3, <1>4 DEF release, IInv
<1>7. Released(q, e) = IF \A d \in End : c[d] = 0 THEN Fresh(q.generation) ELSE p
  <2>1. [q EXCEPT !.references[e] = @ - 1] = p /\ p.references = c
    BY Zenon, <1>2, <1>4 DEF Sound, Terminal
  <2> HIDE DEF p, c, q
  <2> QED BY Zenon, <2>1 DEF Released
<1>8. log' = IF ptys_'[h.slot].used THEN log ELSE [log EXCEPT ![h.slot] = EmptyLog]
  BY Zenon DEF release
<1>9. ptys_'[h.slot] = Released(q, e) BY Zenon, <1>1, <1>6 DEF IInv
<1> HIDE DEF c
<1>10. /\ p \in Terminal /\ p.used = q.used /\ p.generation = q.generation
       /\ p.references = c /\ p.ring = q.ring
       /\ p.session = q.session /\ p.foreground_group = q.foreground_group
  BY Zenon, <1>2, <1>5 DEF Sound, Terminal
<1> HIDE DEF p, q
<1>11. ptys_[h.slot].generation = h.generation BY Zenon, <1>4 DEF q
<1>12. CASE \A d \in End : c[d] = 0
  <2> DEFINE f == Fresh(q.generation)
  <2>1. f.used = FALSE /\ f.generation = h.generation BY Zenon, <1>4 DEF Fresh
  <2>2. q.generation \in 0..GenerationMax BY Zenon, <1>2 DEF Sound, Terminal
  <2>3. Sound(f) /\ Faithful(f, EmptyLog) BY Zenon, <2>2, FreshSound
  <2>4. Released(q, e) = f BY Zenon, <1>7, <1>12
  <2> HIDE DEF f
  <2>5. log' = [log EXCEPT ![h.slot] = EmptyLog] BY Zenon, <1>8, <1>9, <2>1, <2>4
  <2> QED BY Zenon, <1>5, <1>6, <1>11, <1>12, <2>1, <2>3, <2>4, <2>5, CountStep
<1>13. CASE ~ \A d \in End : c[d] = 0
  <2>1. Released(q, e) = p BY Zenon, <1>7, <1>13
  <2>2. log' = [log EXCEPT ![h.slot] = log[h.slot]]
    BY Zenon, <1>4, <1>8, <1>9, <1>10, <2>1 DEF IInv
  <2>3. Sound(p) BY Zenon, <1>2, <1>4, <1>10 DEF Sound
  <2>4. Faithful(p, log[h.slot]) BY Zenon, <1>2, <1>10 DEF Faithful
  <2> QED BY Zenon, <1>4, <1>5, <1>6, <1>10, <1>11, <2>1, <2>2, <2>3, <2>4, CountStep
<1> QED BY Zenon, <1>12, <1>13

LEMMA Associative ==
  ASSUME NEW s \in Seq(Char), NEW t \in Seq(Char), NEW u \in Seq(Char)
  PROVE  (s \o t) \o u = s \o (t \o u)
BY ConcatAssociative

\* A sequence cut in two.
LEMMA Cut ==
  ASSUME NEW r \in Seq(Char), NEW n \in 0..Len(r)
  PROVE  /\ SubSeq(r, 1, n) \in Seq(Char) /\ Len(SubSeq(r, 1, n)) = n
         /\ SubSeq(r, n + 1, Len(r)) \in Seq(Char)
         /\ Len(SubSeq(r, n + 1, Len(r))) = Len(r) - n
         /\ SubSeq(r, 1, n) \o SubSeq(r, n + 1, Len(r)) = r
<1> DEFINE N == Len(r)
<1>1. N \in Nat /\ \A i \in 1..N : r[i] \in Char BY Zenon, LenProperties, ElementOfSeq
<1>2. \A i \in 1..n : r[i] \in Char BY <1>1
<1>3. \A i \in n + 1..N : r[i] \in Char BY <1>1
<1>4. /\ 1 \in 1..N + 1 /\ n \in 1 - 1..N /\ N \in n..N
      /\ 1 \in Int /\ n \in Int /\ N \in Int /\ n + 1 \in Int
  <2> HIDE DEF N
  <2>1. n \in 0..N BY Zenon DEF N
  <2> QED BY <1>1, <2>1
<1>5. SubSeq(r, 1, n) \in Seq(Char) /\ Len(SubSeq(r, 1, n)) = n
  BY <1>2, <1>4, SubSeqProperties
<1>6. SubSeq(r, n + 1, N) \in Seq(Char) /\ Len(SubSeq(r, n + 1, N)) = N - n
  BY <1>3, <1>4, SubSeqProperties
<1>7. SubSeq(r, 1, n) \o SubSeq(r, n + 1, N) = r
  BY Zenon, <1>4, ConcatAdjacentSubSeq, SubSeqFull
<1> QED BY Zenon, <1>5, <1>6, <1>7

Rings(ring) ==
  /\ ring \in [End -> Seq(Char)]
  /\ \A e \in End : Len(ring[e]) <= BufferCapacity

Agrees(l, ring) ==
  l \in Log /\ \A e \in End : l[e].seen \o ring[e] = l[e].written

\* The rings of a live terminal change, and what is known of them.
LEMMA RingSound ==
  ASSUME IInv, NEW h \in Handle, find(h), NEW ring, NEW l,
         Rings(ring), Agrees(l, ring),
         ptys_' = [ptys_ EXCEPT ![h.slot].ring = ring],
         log' = [log EXCEPT ![h.slot] = l], held' = held
  PROVE  IInv'
<1> DEFINE q == ptys_[h.slot]
           p == [q EXCEPT !.ring = ring]
<1>1. h.slot \in Slot BY Zenon DEF Handle
<1>2. Sound(q) /\ q.used BY Zenon, <1>1 DEF IInv, find
<1>3. /\ p \in Terminal /\ p.used = q.used /\ p.generation = q.generation
      /\ p.references = q.references /\ p.ring = ring
      /\ p.session = q.session /\ p.foreground_group = q.foreground_group
  BY Zenon, <1>2 DEF Sound, Terminal, Rings
<1>4. ptys_' = [ptys_ EXCEPT ![h.slot] = p] BY Zenon
<1> HIDE DEF p, q
<1>5. Sound(p) BY Zenon, <1>2, <1>3 DEF Sound, Rings
<1>6. Faithful(p, l) BY Zenon, <1>3 DEF Faithful, Agrees
<1> QED BY Zenon, <1>1, <1>3, <1>4, <1>5, <1>6, TerminalStep DEF q

LEMMA ReadSound ==
  ASSUME IInv, NEW h \in Handle, NEW e \in End, NEW count \in 1..MaxCount,
         read(h, e, count)
  PROVE  IInv'
<1> DEFINE q == ptys_[h.slot]
           d == Other(e)
           r == q.ring[d]
           n == IF count < Len(r) THEN count ELSE Len(r)
           k == log[h.slot]
           out == SubSeq(r, 1, n)
           rest == SubSeq(r, n + 1, Len(r))
           ring == [q.ring EXCEPT ![d] = rest]
           l == [k EXCEPT ![d].seen = @ \o out]
<1>1. h.slot \in Slot /\ d \in End /\ find(h) BY Zenon DEF Handle, Other, End, read
<1>2. Sound(q) /\ Faithful(q, k) BY Zenon, <1>1 DEF IInv
<1>3. q.ring \in [End -> Seq(Char)] /\ r \in Seq(Char) /\ Len(r) \in Nat
  BY Zenon, <1>1, <1>2, LenProperties DEF Sound, Terminal
<1>4. n \in 1..Len(r) /\ n + 1 \in 1..Len(r) + 1
  <2>1. n > 0 BY Zenon DEF read
  <2>2. count \in Nat BY PtyAssumption
  <2> QED BY <1>3, <2>1, <2>2
<1>5. /\ ptys_' = [ptys_ EXCEPT ![h.slot].ring = ring]
      /\ log' = [log EXCEPT ![h.slot] = l] /\ held' = held
  BY Zenon DEF read
<1> HIDE DEF n
<1>6. /\ out \in Seq(Char) /\ rest \in Seq(Char) /\ Len(rest) = Len(r) - n
      /\ out \o rest = r
  <2> HIDE DEF r
  <2> QED BY <1>3, <1>4, Cut
<1>8. k \in Log /\ k[d].seen \in Seq(Char) /\ k[d].seen \o r = k[d].written
  BY Zenon, <1>1, <1>2 DEF Faithful, Log
<1> HIDE DEF out, rest, k
<1>9. (k[d].seen \o out) \o rest = k[d].written
  <2> DEFINE seen == k[d].seen
  <2>1. seen \in Seq(Char) BY Zenon, <1>8
  <2> HIDE DEF seen
  <2>2. (seen \o out) \o rest = seen \o (out \o rest)
    <3>1. out \in Seq(Char) /\ rest \in Seq(Char) BY Zenon, <1>6
    <3> QED BY <2>1, <3>1, ConcatAssociative
  <2> QED BY Zenon, <1>6, <1>8, <2>2 DEF seen
<1>10. k[d].seen \o out \in Seq(Char) BY Zenon, <1>6, <1>8, ConcatProperties
<1>11. l \in Log BY Zenon, <1>8, <1>10 DEF Log
<1>12. ring \in [End -> Seq(Char)] BY Zenon, <1>3, <1>6
<1>13. ASSUME NEW c \in End
       PROVE  Len(ring[c]) <= BufferCapacity /\ l[c].seen \o ring[c] = l[c].written
  <2>1. CASE c = d
    <3>1. ring[c] = rest /\ l[c].seen = k[d].seen \o out /\ l[c].written = k[d].written
      BY Zenon, <1>3, <1>8, <2>1 DEF Log
    <3>2. Len(r) <= BufferCapacity BY Zenon, <1>1, <1>2 DEF Sound
    <3>3. Len(rest) \in Nat BY Zenon, <1>6, LenProperties
    <3> HIDE DEF r, ring, l
    <3>4. Len(rest) <= BufferCapacity
      <4>1. Len(rest) = Len(r) - n /\ n \in Nat BY <1>3, <1>4, <1>6
      <4> QED BY <1>3, <3>2, <3>3, <4>1, Constants
    <3> QED BY Zenon, <1>9, <3>1, <3>4
  <2>2. CASE c # d
    <3>1. ring[c] = q.ring[c] /\ l[c] = k[c] BY Zenon, <1>3, <1>8, <2>2 DEF Log
    <3> QED BY Zenon, <1>2, <3>1 DEF Sound, Faithful, k
  <2> QED BY Zenon, <2>1, <2>2
<1> HIDE DEF ring, l
<1>14. Rings(ring) /\ Agrees(l, ring) BY Zenon, <1>11, <1>12, <1>13 DEF Rings, Agrees
<1> QED BY Zenon, <1>1, <1>5, <1>14, RingSound

-----------------------------------------------------------------------------
(* What fits into a ring.                                                  *)

\* RingBuffer::write takes a first part of what it is given (io/ring_buffer.hpp:18).
LEMMA PutTakes ==
  ASSUME NEW ring \in Seq(Char), NEW bytes \in Seq(Char),
         Len(ring) <= BufferCapacity
  PROVE  LET room == BufferCapacity - Len(ring)
             n == IF Len(bytes) < room THEN Len(bytes) ELSE room
         IN  /\ n \in 0..Len(bytes)
             /\ Put(ring, bytes) = ring \o SubSeq(bytes, 1, n)
             /\ SubSeq(bytes, 1, n) \in Seq(Char) /\ Len(SubSeq(bytes, 1, n)) = n
             /\ Put(ring, bytes) \in Seq(Char)
             /\ Len(Put(ring, bytes)) = Len(ring) + n
             /\ Len(Put(ring, bytes)) <= BufferCapacity
<1> DEFINE a == Len(ring)
           b == Len(bytes)
           room == BufferCapacity - a
           n == IF b < room THEN b ELSE room
           part == SubSeq(bytes, 1, n)
<1>1. a \in Nat /\ b \in Nat /\ a <= BufferCapacity BY Zenon, LenProperties
<1>2. n \in 0..b /\ a + n <= BufferCapacity
  <2> HIDE DEF a, b
  <2> QED BY <1>1, Constants
<1>3. Put(ring, bytes) = ring \o part BY Zenon DEF Put
<1> HIDE DEF n
<1>4. part \in Seq(Char) /\ Len(part) = n BY Zenon, <1>2, Cut
<1> HIDE DEF part
<1>5. ring \o part \in Seq(Char) /\ Len(ring \o part) = a + n
  BY Zenon, <1>4, ConcatProperties
<1> QED BY Zenon, <1>2, <1>3, <1>4, <1>5 DEF n, part

\* What fits whole goes in whole.
LEMMA PutWhole ==
  ASSUME NEW ring \in Seq(Char), NEW bytes \in Seq(Char),
         Len(ring) + Len(bytes) <= BufferCapacity
  PROVE  Put(ring, bytes) = ring \o bytes
<1> DEFINE a == Len(ring)
           b == Len(bytes)
           room == BufferCapacity - a
           n == IF b < room THEN b ELSE room
<1>1. a \in Nat /\ b \in Nat /\ a + b <= BufferCapacity BY Zenon, LenProperties
<1>2. n = b
  <2> HIDE DEF a, b
  <2> QED BY <1>1, Constants
<1>3. Put(ring, bytes) = ring \o SubSeq(bytes, 1, n) BY Zenon DEF Put
<1> HIDE DEF n
<1> QED BY Zenon, <1>2, <1>3, SubSeqFull

\* Nothing fits a full ring.
LEMMA PutFull ==
  ASSUME NEW ring \in Seq(Char), NEW bytes \in Seq(Char),
         Len(ring) = BufferCapacity
  PROVE  Put(ring, bytes) = ring
<1> DEFINE b == Len(bytes)
           room == BufferCapacity - BufferCapacity
           n == IF b < room THEN b ELSE room
<1>1. b \in Nat BY Zenon, LenProperties
<1>2. n = 0
  <2> HIDE DEF b
  <2> QED BY <1>1, Constants
<1>3. Put(ring, bytes) = ring \o SubSeq(bytes, 1, n) BY Zenon DEF Put
<1> HIDE DEF n
<1>4. SubSeq(bytes, 1, 0) = <<>> BY SubSeqEmpty
<1> QED BY Zenon, <1>2, <1>3, <1>4, ConcatEmptySeq

\* A part of a first part.
LEMMA FirstPart ==
  ASSUME NEW s \in Seq(Char), NEW t \in Seq(Char), NEW n \in 0..Len(s)
  PROVE  SubSeq(s \o t, 1, n) = SubSeq(s, 1, n)
<1> DEFINE N == Len(s)
<1>1. N \in Nat BY Zenon, LenProperties
<1>2. CASE n = 0
  <2>1. SubSeq(s \o t, 1, 0) = <<>> /\ SubSeq(s, 1, 0) = <<>> BY SubSeqEmpty
  <2> QED BY Zenon, <1>2, <2>1
<1>3. CASE n # 0
  <2>1. n \in 1..N /\ 1 \in 1..N
    <3>1. n \in 0..N BY Zenon
    <3> HIDE DEF N
    <3> QED BY <1>1, <1>3, <3>1
  <2> QED BY Zenon, <2>1, SubSeqOfConcat1
<1> QED BY Zenon, <1>2, <1>3

\* Two writes take what one write of both takes.
LEMMA PutTwice ==
  ASSUME NEW ring \in Seq(Char), NEW s \in Seq(Char), NEW t \in Seq(Char),
         Len(ring) <= BufferCapacity
  PROVE  Put(Put(ring, s), t) = Put(ring, s \o t)
<1> DEFINE a == Len(ring)
           b == Len(s)
           c == Len(t)
           u == s \o t
           room == BufferCapacity - a
<1>1. a \in Nat /\ b \in Nat /\ c \in Nat /\ a <= BufferCapacity BY Zenon, LenProperties
<1>2. u \in Seq(Char) /\ Len(u) = b + c BY Zenon, ConcatProperties
<1>3. CASE b <= room
  <2> DEFINE m == IF c < room - b THEN c ELSE room - b
  <2>1. a + b <= BufferCapacity
    <3> HIDE DEF a, b
    <3> QED BY <1>1, <1>3, Constants
  <2>2. Put(ring, s) = ring \o s BY Zenon, <2>1, PutWhole
  <2>3. ring \o s \in Seq(Char) /\ Len(ring \o s) = a + b BY Zenon, ConcatProperties
  <2>4. Put(ring \o s, t) = (ring \o s) \o SubSeq(t, 1, m)
    <3>1. BufferCapacity - Len(ring \o s) = room - b
      <4> DEFINE x == Len(ring \o s)
      <4>1. x = a + b BY Zenon, <2>3
      <4>2. BufferCapacity - x = room - b
        <5> HIDE DEF a, b, x
        <5> QED BY <1>1, <4>1, Constants
      <4> QED BY Zenon, <4>2
    <3> QED BY Zenon, <3>1 DEF Put
  <2>5. m \in 0..c /\ b + m = IF b + c < room THEN b + c ELSE room
    <3> HIDE DEF a, b, c
    <3> QED BY <1>1, <1>3, Constants
  <2> DEFINE n == IF b + c < room THEN b + c ELSE room
  <2>6. Put(ring, u) = ring \o SubSeq(u, 1, n)
    BY Zenon, <1>2 DEF Put
  <2> HIDE DEF m, n
  <2>7. SubSeq(t, 1, m) \in Seq(Char) BY Zenon, <2>5, Cut
  <2>8. SubSeq(u, 1, b + m) = s \o SubSeq(t, 1, m)
    <3>1. SubSeq(u, 1, b) = s
      <4>1. b \in 0..b BY <1>1
      <4> QED BY Zenon, <4>1, FirstPart, SubSeqFull
    <3>2. SubSeq(u, b + 1, b + m) = SubSeq(t, 1, m)
      <4>1. CASE m = 0
        <5>1. SubSeq(t, 1, 0) = <<>> BY SubSeqEmpty
        <5>2. b + 1 \in Int /\ b \in Int /\ b < b + 1
          <6> HIDE DEF b
          <6> QED BY <1>1
        <5>3. SubSeq(u, b + 1, b) = <<>> BY Zenon, <5>2, SubSeqEmpty
        <5>4. b + m = b
          <6> HIDE DEF b
          <6> QED BY <1>1, <4>1
        <5> QED BY Zenon, <4>1, <5>1, <5>3, <5>4
      <4>2. CASE m # 0
        <5>1. /\ b + 1 \in b + 1..b + c /\ b + m \in b + 1..b + c
              /\ (b + 1) - b = 1 /\ (b + m) - b = m
          <6> HIDE DEF b, c
          <6> QED BY <1>1, <2>5, <4>2
        <5>2. SubSeq(s \o t, b + 1, b + m) = SubSeq(t, (b + 1) - b, (b + m) - b)
          BY Zenon, <5>1, SubSeqOfConcat2
        <5> QED BY Zenon, <5>1, <5>2
      <4> QED BY Zenon, <4>1, <4>2
    <3>3. /\ 1 \in 1..Len(u) + 1 /\ b \in 1 - 1..Len(u) /\ b + m \in b..Len(u)
      <4> DEFINE v == Len(u)
      <4>1. v = b + c BY Zenon, <1>2
      <4>2. 1 \in 1..v + 1 /\ b \in 1 - 1..v /\ b + m \in b..v
        <5> HIDE DEF b, c, v
        <5> QED BY <1>1, <2>5, <4>1
      <4> QED BY Zenon, <4>2
    <3>4. SubSeq(u, 1, b) \o SubSeq(u, b + 1, b + m) = SubSeq(u, 1, b + m)
      <4> HIDE DEF u, b
      <4> QED BY Zenon, <1>2, <3>3, ConcatAdjacentSubSeq
    <3> QED BY Zenon, <3>1, <3>2, <3>4
  <2>9. (ring \o s) \o SubSeq(t, 1, m) = ring \o (s \o SubSeq(t, 1, m))
    <3> DEFINE part == SubSeq(t, 1, m)
    <3>1. part \in Seq(Char) BY Zenon, <2>7
    <3> HIDE DEF part
    <3>2. (ring \o s) \o part = ring \o (s \o part) BY <3>1, ConcatAssociative
    <3> QED BY Zenon, <3>2 DEF part
  <2>10. n = b + m BY Zenon, <2>5 DEF n
  <2> QED BY Zenon, <2>2, <2>4, <2>6, <2>8, <2>9, <2>10
<1>4. CASE ~(b <= room)
  <2>1. /\ room \in 0..b /\ ~(b < room) /\ ~(b + c < room) /\ a + room = BufferCapacity
    <3> HIDE DEF a, b, c
    <3> QED BY <1>1, <1>4, Constants
  <2>2. Put(ring, s) = ring \o SubSeq(s, 1, room) BY Zenon, <2>1 DEF Put
  <2>3. Put(ring, u) = ring \o SubSeq(u, 1, room) BY Zenon, <1>2, <2>1 DEF Put
  <2> HIDE DEF room
  <2>4. SubSeq(u, 1, room) = SubSeq(s, 1, room) BY Zenon, <2>1, FirstPart
  <2>5. SubSeq(s, 1, room) \in Seq(Char) /\ Len(SubSeq(s, 1, room)) = room
    BY Zenon, <2>1, Cut
  <2>6. Put(ring, s) \in Seq(Char) /\ Len(Put(ring, s)) = BufferCapacity
    BY Zenon, <2>1, <2>2, <2>5, ConcatProperties
  <2> QED BY Zenon, <2>2, <2>3, <2>4, <2>6, PutFull
<1> QED BY Zenon, <1>3, <1>4

-----------------------------------------------------------------------------
(* Loops.                                                                  *)

\* Induction, for the set of the numbers that have a property.
LEMMA Upwards ==
  ASSUME NEW N \in Nat, NEW Good, 0 \in Good,
         \A n \in 1..N : n - 1 \in Good => n \in Good
  PROVE  \A n \in 0..N : n \in Good
<1> DEFINE Bad == (0..N) \ Good
           R == OpToRel(<, Nat)
<1> SUFFICES ASSUME Bad # {} PROVE FALSE BY Zenon
<1>1. IsWellFoundedOn(R, Nat) BY Zenon, NatLessThanWellFounded
<1>2. \A x, y \in Nat : <<x, y>> \in R <=> x < y BY Zenon DEF OpToRel
<1>3. Bad \in SUBSET Nat OBVIOUS
<1> HIDE DEF R
<1>4. PICK n \in Bad : \A y \in Bad : ~(<<y, n>> \in R)
  <2> HIDE DEF Bad
  <2> QED BY Zenon, <1>1, <1>3, WFMin
<1>5. n \in 1..N /\ n - 1 \in 0..N /\ n - 1 \in Nat /\ n \in Nat /\ n - 1 < n
  BY <1>4
<1>6. <<n - 1, n>> \in R BY Zenon, <1>2, <1>5
<1>7. n - 1 \notin Bad BY Zenon, <1>4, <1>6
<1> QED BY Zenon, <1>4, <1>5, <1>7

Then(s, t) == s \o t

\* The concatenation of the first parts of a text grows by a part at a time.
LEMMA JoinedChain ==
  ASSUME NEW N \in Nat, NEW parts, \A i \in 1..N : parts[i] \in Seq(Char)
  PROVE  \E f : /\ f[0] = <<>>
                /\ \A n \in 1..N : f[n] = f[n - 1] \o parts[n]
                /\ \A n \in 0..N : /\ f[n] \in Seq(Char)
                                   /\ Joined([i \in 1..n |-> parts[i]]) = f[n]
<1> DEFINE Chain(f, m) ==
             f = [n \in 0..m |-> IF n = 0 THEN <<>> ELSE Then(f[n - 1], parts[n])]
           Good == {m \in 0..N : \E f : Chain(f, m)}
<1>1. 0 \in Good
  <2>1. Chain([n \in 0..0 |-> <<>>], 0) OBVIOUS
  <2> HIDE DEF Chain
  <2> QED BY <2>1
<1>2. ASSUME NEW m \in 1..N, m - 1 \in Good PROVE m \in Good
  <2>1. PICK f : Chain(f, m - 1) BY Zenon, <1>2
  <2> DEFINE g == [n \in 0..m |-> IF n = m THEN Then(f[m - 1], parts[m]) ELSE f[n]]
  <2>2. ASSUME NEW n \in 0..m
        PROVE  g[n] = IF n = 0 THEN <<>> ELSE Then(g[n - 1], parts[n])
    <3>1. CASE n = 0 BY <2>1, <3>1
    <3>2. CASE n # 0 /\ n # m
      <4>1. f[n] = Then(f[n - 1], parts[n]) BY <2>1, <3>2
      <4> QED BY <3>2, <4>1
    <3>3. CASE n # 0 /\ n = m BY <3>3
    <3> QED BY Zenon, <3>1, <3>2, <3>3
  <2>3. Chain(g, m) BY Zenon, <2>2
  <2> HIDE DEF Chain, g
  <2> QED BY <2>3
<1>3. \A m \in 0..N : m \in Good
  <2> HIDE DEF Good
  <2> QED BY Zenon, <1>1, <1>2, Upwards
<1>4. PICK f : Chain(f, N) BY <1>3
<1>5. f[0] = <<>> /\ \A n \in 1..N : f[n] = Then(f[n - 1], parts[n]) BY <1>4
<1>6. \A n \in 0..N : f[n] \in Seq(Char)
  <2> DEFINE G == {n \in 0..N : f[n] \in Seq(Char)}
  <2>1. 0 \in G
    <3>1. f[0] \in Seq(Char) BY Zenon, <1>5, EmptySeq
    <3> QED BY <3>1
  <2>2. ASSUME NEW n \in 1..N, n - 1 \in G PROVE n \in G
    <3>1. f[n - 1] \in Seq(Char) /\ parts[n] \in Seq(Char) BY Zenon, <2>2
    <3>2. Then(f[n - 1], parts[n]) \in Seq(Char) BY Zenon, <3>1, ConcatProperties DEF Then
    <3> QED BY <1>5, <3>2
  <2>3. \A n \in 0..N : n \in G
    <3> HIDE DEF G
    <3> QED BY Zenon, <2>1, <2>2, Upwards
  <2> QED BY Zenon, <2>3
<1>7. ASSUME NEW n \in 0..N PROVE Joined([i \in 1..n |-> parts[i]]) = f[n]
  <2> DEFINE first == [i \in 1..n |-> parts[i]]
             J(g) == g = [m \in 0..Len(first) |->
                            IF m = 0 THEN <<>> ELSE Then(g[m - 1], first[m])]
             g == CHOOSE g : J(g)
             k == [m \in 0..n |-> f[m]]
  <2>1. n \in Nat /\ Len(first) = n
    <3>1. n \in Nat /\ DOMAIN first = 1..n OBVIOUS
    <3> HIDE DEF first
    <3> QED BY <3>1
  <2>2. Joined(first) = g[n] BY Zenon, <2>1 DEF Joined, Then
  <2>3. J(k)
    <3>1. ASSUME NEW m \in 0..n
          PROVE  k[m] = IF m = 0 THEN <<>> ELSE Then(k[m - 1], first[m])
      <4>1. CASE m = 0 BY Zenon, <1>5, <4>1
      <4>2. CASE m # 0
        <5>1. m \in 1..N /\ m \in 1..n /\ m - 1 \in 0..n BY <4>2
        <5>2. f[m] = Then(f[m - 1], parts[m]) BY Zenon, <1>5, <5>1
        <5> QED BY Zenon, <4>2, <5>1, <5>2
      <4> QED BY Zenon, <4>1, <4>2
    <3> HIDE DEF first
    <3> QED BY Zenon, <2>1, <3>1
  <2>4. J(g)
    <3> HIDE DEF J, k
    <3> QED BY Zenon, <2>3
  <2> HIDE DEF g
  <2>5. g[0] = <<>> /\ \A m \in 1..n : g[m] = Then(g[m - 1], parts[m])
    <3>1. g = [m \in 0..n |-> IF m = 0 THEN <<>> ELSE Then(g[m - 1], first[m])]
      BY Zenon, <2>1, <2>4
    <3>2. g[0] = <<>> /\ \A m \in 1..n : g[m] = Then(g[m - 1], first[m])
      <4> HIDE DEF first
      <4> QED BY <2>1, <3>1
    <3>3. \A m \in 1..n : first[m] = parts[m] BY Zenon, <2>1
    <3> HIDE DEF first
    <3> QED BY Zenon, <3>2, <3>3
  <2> DEFINE G == {m \in 0..n : g[m] = f[m]}
  <2>6. 0 \in G BY <1>5, <2>5
  <2>7. \A m \in 1..n : m - 1 \in G => m \in G BY <1>5, <2>5
  <2>8. \A m \in 0..n : m \in G
    <3> HIDE DEF G
    <3> QED BY Zenon, <2>1, <2>6, <2>7, Upwards
  <2> QED BY <2>1, <2>2, <2>8
<1>8. \A n \in 1..N : f[n] = f[n - 1] \o parts[n] BY Zenon, <1>5 DEF Then
<1> QED BY Zenon, <1>5, <1>6, <1>7, <1>8

OutputFirst(p) == [ring |-> p.ring["slave"], consumed |-> 0, stopped |-> FALSE]

OutputRun(f, p, input, N) ==
  /\ f[0] = OutputFirst(p)
  /\ \A n \in 1..N : f[n] = OutputTurn(f[n - 1], input[n], p.termios)
  /\ OutputLoop(p, input) = f[N]

LEMMA OutputTurns ==
  ASSUME NEW p, NEW input, NEW N \in Nat, N = Len(input)
  PROVE  \E f : OutputRun(f, p, input, N)
<1> DEFINE first == OutputFirst(p)
           Chain(f, m) ==
             f = [n \in 0..m |-> IF n = 0 THEN first
                                 ELSE OutputTurn(f[n - 1], input[n], p.termios)]
           Good == {m \in 0..N : \E f : Chain(f, m)}
           after == CHOOSE f : Chain(f, N)
<1>0. OutputLoop(p, input) = after[N] BY Zenon DEF OutputLoop, OutputFirst
<1> HIDE DEF first
<1>1. 0 \in Good
  <2>1. Chain([n \in 0..0 |-> first], 0) OBVIOUS
  <2> HIDE DEF Chain
  <2> QED BY <2>1
<1>2. ASSUME NEW m \in 1..N, m - 1 \in Good PROVE m \in Good
  <2>1. PICK f : Chain(f, m - 1) BY Zenon, <1>2
  <2> DEFINE g == [n \in 0..m |-> IF n = m THEN OutputTurn(f[m - 1], input[m], p.termios)
                                  ELSE f[n]]
  <2>2. ASSUME NEW n \in 0..m
        PROVE  g[n] = IF n = 0 THEN first ELSE OutputTurn(g[n - 1], input[n], p.termios)
    <3>1. CASE n = 0 BY <2>1, <3>1
    <3>2. CASE n # 0 /\ n # m
      <4>1. f[n] = OutputTurn(f[n - 1], input[n], p.termios) BY <2>1, <3>2
      <4> QED BY <3>2, <4>1
    <3>3. CASE n # 0 /\ n = m BY <3>3
    <3> QED BY Zenon, <3>1, <3>2, <3>3
  <2>3. Chain(g, m) BY Zenon, <2>2
  <2> HIDE DEF Chain, g
  <2> QED BY <2>3
<1>3. \A m \in 0..N : m \in Good
  <2> HIDE DEF Good
  <2> QED BY Zenon, <1>1, <1>2, Upwards
<1>4. Chain(after, N)
  <2>1. \E f : Chain(f, N) BY <1>3
  <2> QED BY Zenon, <2>1
<1> HIDE DEF after
<1>5. after[0] = first /\ \A n \in 1..N : after[n] = OutputTurn(after[n - 1], input[n], p.termios)
  BY <1>4
<1> QED BY Zenon, <1>0, <1>5 DEF first, OutputRun

LEMMA ExpandedType ==
  ASSUME NEW termios, NEW c \in Byte
  PROVE  /\ Expanded(termios, c) \in Seq(Char)
         /\ Len(Expanded(termios, c)) \in {1, 2}
<1>1. c \in Char /\ "cr" \in Char /\ "nl" \in Char BY Zenon DEF Char
<1>2. <<c>> \in Seq(Char) /\ Len(<<c>>) = 1 BY <1>1
<1>3. <<"cr", "nl">> \in Seq(Char) /\ Len(<<"cr", "nl">>) = 2 BY <1>1
<1> QED BY Zenon, <1>2, <1>3 DEF Expanded

\* The output loop: the ring grows by what the characters it took become, each
\* whole (pty.hpp:211).
LEMMA OutputSound ==
  ASSUME NEW p, NEW input, NEW N \in Nat, N = Len(input),
         \A i \in 1..N : input[i] \in Byte,
         p.ring["slave"] \in Seq(Char), Len(p.ring["slave"]) <= BufferCapacity
  PROVE  LET w == OutputLoop(p, input)
         IN  /\ w.ring \in Seq(Char) /\ Len(w.ring) <= BufferCapacity
             /\ Joined([i \in 1..w.consumed |-> Expanded(p.termios, input[i])]) \in Seq(Char)
             /\ w.ring = p.ring["slave"] \o
                  Joined([i \in 1..w.consumed |-> Expanded(p.termios, input[i])])
<1> DEFINE r == p.ring["slave"]
           parts == [i \in 1..N |-> Expanded(p.termios, input[i])]
           State == [ring : Seq(Char), consumed : 0..N, stopped : BOOLEAN]
<1>0. r \in Seq(Char) /\ Len(r) <= BufferCapacity BY Zenon
<1>b. PICK f : OutputRun(f, p, input, N) BY Zenon, OutputTurns
<1>1. /\ f[0] = OutputFirst(p)
      /\ \A n \in 1..N : f[n] = OutputTurn(f[n - 1], input[n], p.termios)
      /\ OutputLoop(p, input) = f[N]
  BY Zenon, <1>b DEF OutputRun
<1>2. \A i \in 1..N : parts[i] \in Seq(Char) BY Zenon, ExpandedType
<1>3. PICK j : /\ j[0] = <<>>
               /\ \A n \in 1..N : j[n] = j[n - 1] \o parts[n]
               /\ \A n \in 0..N : /\ j[n] \in Seq(Char)
                                  /\ Joined([i \in 1..n |-> parts[i]]) = j[n]
  <2> HIDE DEF parts
  <2> QED BY <1>2, JoinedChain
<1>a. /\ j[0] = <<>> /\ \A n \in 1..N : j[n] = j[n - 1] \o parts[n]
      /\ \A n \in 0..N : j[n] \in Seq(Char)
  BY Zenon, <1>3
<1> HIDE DEF r
<1> DEFINE P(n) == LET w == f[n]
                   IN  /\ w \in State /\ Len(w.ring) <= BufferCapacity
                       /\ w.consumed <= n /\ (~w.stopped => w.consumed = n)
                       /\ w.ring = r \o j[w.consumed]
           Good == {n \in 0..N : P(n)}
<1>4. 0 \in Good
  <2> DEFINE w == f[0]
  <2>1. w.ring = r /\ w.consumed = 0 /\ w.stopped = FALSE BY <1>1 DEF OutputFirst, r
  <2>2. w \in State BY <1>0, <1>1 DEF OutputFirst, r
  <2>3. r \o <<>> = r BY Zenon, <1>0, ConcatEmptySeq
  <2> HIDE DEF w
  <2>4. Len(w.ring) <= BufferCapacity /\ w.consumed <= 0 /\ w.ring = r \o j[w.consumed]
    BY <1>0, <1>a, <2>1, <2>3
  <2> HIDE DEF State
  <2>5. P(0) BY Zenon, <2>1, <2>2, <2>4 DEF w
  <2> HIDE DEF P
  <2> QED BY <2>5
<1>5. ASSUME NEW n \in 1..N, n - 1 \in Good PROVE n \in Good
  <2> DEFINE v == f[n - 1]
             w == f[n]
             c == input[n]
             bytes == Expanded(p.termios, c)
             room == BufferCapacity - Len(v.ring)
  <2>1. /\ v \in State /\ Len(v.ring) <= BufferCapacity
        /\ v.consumed <= n - 1 /\ (~v.stopped => v.consumed = n - 1)
        /\ v.ring = r \o j[v.consumed]
    BY Zenon, <1>5
  <2>2. w = OutputTurn(v, c, p.termios) BY Zenon, <1>1
  <2>3. bytes = parts[n] /\ bytes \in Seq(Char) /\ Len(bytes) \in Nat
    BY ExpandedType
  <2>4. Len(v.ring) \in Nat BY Zenon, <2>1, LenProperties
  <2> HIDE DEF v, w
  <2>5. CASE v.stopped \/ room < Len(bytes)
    <3>1. w = [v EXCEPT !.stopped = TRUE] BY Zenon, <2>2, <2>5 DEF OutputTurn
    <3>2. /\ w \in State /\ w.ring = v.ring /\ w.consumed = v.consumed /\ w.stopped
      BY Zenon, <2>1, <3>1
    <3>3. w.consumed <= n BY <2>1, <3>2
    <3> HIDE DEF State
    <3>4. P(n) BY Zenon, <2>1, <3>2, <3>3 DEF w
    <3> HIDE DEF P
    <3> QED BY <3>4
  <2>6. CASE ~(v.stopped \/ room < Len(bytes))
    <3>1. w = [v EXCEPT !.ring = Put(@, bytes), !.consumed = @ + 1]
      BY Zenon, <2>2, <2>6 DEF OutputTurn
    <3>2. Len(v.ring) + Len(bytes) <= BufferCapacity
      <4> DEFINE a == Len(v.ring)
                 b == Len(bytes)
      <4>1. a + b <= BufferCapacity
        <5>1. ~(BufferCapacity - a < b) /\ a \in Nat /\ b \in Nat BY Zenon, <2>3, <2>4, <2>6
        <5> HIDE DEF a, b
        <5> QED BY <5>1, Constants
      <4> QED BY Zenon, <4>1
    <3>3. v.ring \in Seq(Char) BY Zenon, <2>1
    <3>4. Put(v.ring, bytes) = v.ring \o bytes BY Zenon, <2>3, <3>2, <3>3, PutWhole
    <3>5. v.ring \o bytes \in Seq(Char) /\ Len(v.ring \o bytes) = Len(v.ring) + Len(bytes)
      BY Zenon, <2>3, <3>3, ConcatProperties
    <3>6. v.consumed = n - 1 BY Zenon, <2>1, <2>6
    <3>7. w \in State /\ w.ring = v.ring \o bytes /\ w.consumed = n /\ w.stopped = v.stopped
      <4> DEFINE x == v.ring \o bytes
      <4>1. x \in Seq(Char) /\ x = Put(v.ring, bytes) BY Zenon, <3>4, <3>5
      <4>2. v.consumed + 1 = n /\ n \in 0..N BY <3>6
      <4> HIDE DEF x
      <4>3. w = [v EXCEPT !.ring = x, !.consumed = n] BY Zenon, <3>1, <4>1, <4>2
      <4>4. w \in State /\ w.ring = x /\ w.consumed = n /\ w.stopped = v.stopped
        BY Zenon, <2>1, <4>1, <4>2, <4>3
      <4> QED BY Zenon, <4>4 DEF x
    <3>8. w.ring = r \o j[n]
      <4>1. n - 1 \in 0..N /\ j[n - 1] \in Seq(Char) /\ j[n] = j[n - 1] \o bytes
        <5>1. n - 1 \in 0..N OBVIOUS
        <5> HIDE DEF parts, bytes
        <5>2. j[n] = j[n - 1] \o parts[n] BY Zenon, <1>a
        <5> QED BY Zenon, <1>a, <2>3, <5>1, <5>2
      <4>2. (r \o j[n - 1]) \o bytes = r \o (j[n - 1] \o bytes)
        <5> DEFINE x == j[n - 1]
        <5>1. x \in Seq(Char) /\ r \in Seq(Char) /\ bytes \in Seq(Char)
          BY Zenon, <1>0, <2>3, <4>1
        <5> HIDE DEF x, bytes
        <5>2. (r \o x) \o bytes = r \o (x \o bytes) BY Zenon, <5>1, Associative
        <5> QED BY Zenon, <5>2 DEF x
      <4> QED BY Zenon, <2>1, <3>6, <3>7, <4>1, <4>2
    <3>9. Len(w.ring) <= BufferCapacity BY Zenon, <3>2, <3>5, <3>7
    <3> HIDE DEF State
    <3>10. n <= n /\ n \in 0..N OBVIOUS
    <3>11. P(n) BY Zenon, <3>7, <3>8, <3>9, <3>10 DEF w
    <3> HIDE DEF P
    <3> QED BY Zenon, <3>10, <3>11
  <2> QED BY Zenon, <2>5, <2>6
<1>6. \A n \in 0..N : n \in Good
  <2> HIDE DEF Good
  <2> QED BY Zenon, <1>4, <1>5, Upwards
<1> DEFINE w == OutputLoop(p, input)
<1>7. /\ w \in State /\ Len(w.ring) <= BufferCapacity /\ w.ring = r \o j[w.consumed]
  <2>1. P(N)
    <3> HIDE DEF P
    <3> QED BY <1>6
  <2> HIDE DEF State
  <2> QED BY Zenon, <1>1, <2>1
<1> HIDE DEF w
<1>8. w.ring \in Seq(Char) /\ w.consumed \in 0..N BY Zenon, <1>7
<1>9. [i \in 1..w.consumed |-> Expanded(p.termios, input[i])]
        = [i \in 1..w.consumed |-> parts[i]]
  BY <1>8
<1>10. Joined([i \in 1..w.consumed |-> Expanded(p.termios, input[i])]) = j[w.consumed]
       /\ j[w.consumed] \in Seq(Char)
  BY Zenon, <1>3, <1>8, <1>9
<1> QED BY Zenon, <1>7, <1>8, <1>10 DEF w, r

LEMMA InputType ==
  ASSUME NEW input \in Input
  PROVE  /\ input \in Seq(Byte) /\ Len(input) \in Nat
         /\ \A i \in 1..Len(input) : input[i] \in Byte
<1>1. PICK n \in 1..MaxCount : input \in [1..n -> Byte] BY Zenon DEF Input
<1>2. n \in Nat BY PtyAssumption
<1>3. input \in Seq(Byte) BY Zenon, <1>1, <1>2, SeqDef
<1> QED BY Zenon, <1>3, LenProperties

LEMMA SlaveWriteSound ==
  ASSUME IInv, NEW h \in Handle, NEW input \in Input, slave_write(h, input)
  PROVE  IInv'
<1> DEFINE q == ptys_[h.slot]
           w == OutputLoop(q, input)
           r == q.ring["slave"]
           more == Joined([i \in 1..w.consumed |-> Expanded(q.termios, input[i])])
           k == log[h.slot]
           ring == [q.ring EXCEPT !["slave"] = w.ring]
           l == [k EXCEPT !["slave"].written = @ \o more]
<1>1. h.slot \in Slot /\ find(h) BY Zenon DEF Handle, slave_write
<1>2. Sound(q) /\ Faithful(q, k) BY Zenon, <1>1 DEF IInv
<1>3. q.ring \in [End -> Seq(Char)] /\ r \in Seq(Char) /\ Len(r) <= BufferCapacity
  BY Zenon, <1>2 DEF Sound, Terminal, End
<1>4. /\ ptys_' = [ptys_ EXCEPT ![h.slot].ring = ring]
      /\ log' = [log EXCEPT ![h.slot] = l] /\ held' = held
  BY Zenon DEF slave_write
<1>5. /\ w.ring \in Seq(Char) /\ Len(w.ring) <= BufferCapacity
      /\ more \in Seq(Char) /\ w.ring = r \o more
  <2> DEFINE N == Len(input)
  <2>1. N \in Nat /\ N = Len(input) /\ \A i \in 1..N : input[i] \in Byte BY Zenon, InputType
  <2> HIDE DEF N, q
  <2> QED BY Zenon, <1>3, <2>1, OutputSound
<1>6. /\ k \in Log /\ k["slave"].seen \in Seq(Char) /\ k["slave"].written \in Seq(Char)
      /\ k["slave"].seen \o r = k["slave"].written
  BY Zenon, <1>2 DEF Faithful, Log, End
<1> HIDE DEF k, w, more
<1>7. k["slave"].seen \o w.ring = k["slave"].written \o more
  <2> DEFINE seen == k["slave"].seen
  <2>1. seen \in Seq(Char) /\ r \in Seq(Char) /\ more \in Seq(Char) BY Zenon, <1>3, <1>5, <1>6
  <2> HIDE DEF seen, r
  <2>2. (seen \o r) \o more = seen \o (r \o more) BY Zenon, <2>1, Associative
  <2> QED BY Zenon, <1>5, <1>6, <2>2 DEF seen
<1>8. k["slave"].written \o more \in Seq(Char) BY Zenon, <1>5, <1>6, ConcatProperties
<1>9. l \in Log BY Zenon, <1>6, <1>8 DEF Log, End
<1>10. ring \in [End -> Seq(Char)] BY Zenon, <1>3, <1>5
<1>11. ASSUME NEW c \in End
       PROVE  Len(ring[c]) <= BufferCapacity /\ l[c].seen \o ring[c] = l[c].written
  <2>1. CASE c = "slave"
    <3>1. /\ ring[c] = w.ring /\ l[c].seen = k["slave"].seen
          /\ l[c].written = k["slave"].written \o more
      BY Zenon, <1>3, <1>6, <2>1 DEF Log
    <3> QED BY Zenon, <1>5, <1>7, <3>1
  <2>2. CASE c # "slave"
    <3>1. ring[c] = q.ring[c] /\ l[c] = k[c] BY Zenon, <1>3, <1>6, <2>2 DEF Log
    <3> QED BY Zenon, <1>2, <3>1 DEF Sound, Faithful, k
  <2> QED BY Zenon, <2>1, <2>2
<1> HIDE DEF ring, l
<1>12. Rings(ring) /\ Agrees(l, ring) BY Zenon, <1>9, <1>10, <1>11 DEF Rings, Agrees
<1> QED BY Zenon, <1>1, <1>4, <1>12, RingSound

InputFirst(p) == [ring |-> p.ring, consumed |-> 0, stopped |-> FALSE, signals |-> {}]

InputRun(f, p, input, N) ==
  /\ f[0] = InputFirst(p)
  /\ \A n \in 1..N : f[n] = InputTurn(f[n - 1], input[n], p.termios)
  /\ InputLoop(p, input) = f[N]

LEMMA InputTurns ==
  ASSUME NEW p, NEW input, NEW N \in Nat, N = Len(input)
  PROVE  \E f : InputRun(f, p, input, N)
<1> DEFINE first == InputFirst(p)
           Chain(f, m) ==
             f = [n \in 0..m |-> IF n = 0 THEN first
                                 ELSE InputTurn(f[n - 1], input[n], p.termios)]
           Good == {m \in 0..N : \E f : Chain(f, m)}
           after == CHOOSE f : Chain(f, N)
<1>0. InputLoop(p, input) = after[N] BY Zenon DEF InputLoop, InputFirst
<1> HIDE DEF first
<1>1. 0 \in Good
  <2>1. Chain([n \in 0..0 |-> first], 0) OBVIOUS
  <2> HIDE DEF Chain
  <2> QED BY <2>1
<1>2. ASSUME NEW m \in 1..N, m - 1 \in Good PROVE m \in Good
  <2>1. PICK f : Chain(f, m - 1) BY Zenon, <1>2
  <2> DEFINE g == [n \in 0..m |-> IF n = m THEN InputTurn(f[m - 1], input[m], p.termios)
                                  ELSE f[n]]
  <2>2. ASSUME NEW n \in 0..m
        PROVE  g[n] = IF n = 0 THEN first ELSE InputTurn(g[n - 1], input[n], p.termios)
    <3>1. CASE n = 0 BY <2>1, <3>1
    <3>2. CASE n # 0 /\ n # m
      <4>1. f[n] = InputTurn(f[n - 1], input[n], p.termios) BY <2>1, <3>2
      <4> QED BY <3>2, <4>1
    <3>3. CASE n # 0 /\ n = m BY <3>3
    <3> QED BY Zenon, <3>1, <3>2, <3>3
  <2>3. Chain(g, m) BY Zenon, <2>2
  <2> HIDE DEF Chain, g
  <2> QED BY <2>3
<1>3. \A m \in 0..N : m \in Good
  <2> HIDE DEF Good
  <2> QED BY Zenon, <1>1, <1>2, Upwards
<1>4. Chain(after, N)
  <2>1. \E f : Chain(f, N) BY <1>3
  <2> QED BY Zenon, <2>1
<1> HIDE DEF after
<1>5. after[0] = first /\ \A n \in 1..N : after[n] = InputTurn(after[n - 1], input[n], p.termios)
  BY <1>4
<1> QED BY Zenon, <1>0, <1>5 DEF first, InputRun

LEMMA EchoType ==
  ASSUME NEW termios, NEW c \in Byte
  PROVE  Echo(termios, c) \in Seq(Char) /\ <<c>> \in Seq(Char) /\ Len(<<c>>) = 1
<1>1. c \in Char /\ "^" \in Char BY Zenon DEF Char
<1>2. <<>> \in Seq(Char) BY Zenon, EmptySeq
<1>3. <<c>> \in Seq(Char) /\ Len(<<c>>) = 1 BY <1>1
<1>4. <<"^", c>> \in Seq(Char) BY <1>1
<1> QED BY Zenon, <1>2, <1>3, <1>4 DEF Echo

Control(p, input, i) == Signal(p.termios, input[i]) # "none"

Text(p, input, i) == IF Control(p, input, i) THEN <<>> ELSE <<input[i]>>

Shown(p, input, i) ==
  IF Control(p, input, i) THEN Echo(p.termios, input[i]) ELSE <<>>

Flushed(p, input, c) ==
  "noflsh" \notin p.termios /\ \E i \in 1..c : Control(p, input, i)

\* The first c characters typed, as chains of their texts and of their echoes.
Typed(t, e, p, input, N) ==
  /\ t[0] = <<>> /\ e[0] = <<>>
  /\ \A n \in 0..N : t[n] \in Seq(Char) /\ e[n] \in Seq(Char)
  /\ \A n \in 1..N : /\ t[n] = t[n - 1] \o Text(p, input, n)
                     /\ e[n] = e[n - 1] \o Shown(p, input, n)

Tells(t, e, p, input, N) ==
  \A n \in 0..N : /\ Joined([i \in 1..n |-> Text(p, input, i)]) = t[n]
                  /\ Joined([i \in 1..n |-> Shown(p, input, i)]) = e[n]

\* The rings once c characters were taken.
Appends(ring, p, c, t, e) ==
  /\ ring["master"] = p.ring["master"] \o t[c]
  /\ ring["slave"] = Put(p.ring["slave"], e[c])

Restarts(ring, p, input, c) ==
  \E last \in 1..c :
    /\ Control(p, input, last)
    /\ \A i \in last + 1..c : ~Control(p, input, i)
    /\ ring["master"] = SubSeq(input, last + 1, c)
    /\ ring["slave"] = Put(<<>>, Echo(p.termios, input[last]))

Follows(ring, p, input, c, t, e) ==
  IF Flushed(p, input, c) THEN Restarts(ring, p, input, c)
  ELSE Appends(ring, p, c, t, e)

\* An ordinary character joins the text (pty.hpp:264).
LEMMA TextTaken ==
  ASSUME NEW p, Rings(p.ring), NEW N \in Nat, NEW input \in Seq(Byte), Len(input) = N,
         NEW t, NEW e, Typed(t, e, p, input, N),
         NEW n \in 1..N, NEW ring, Rings(ring),
         Follows(ring, p, input, n - 1, t, e),
         ~Control(p, input, n), Len(ring["master"]) # BufferCapacity,
         NEW next, next = [ring EXCEPT !["master"] = Put(@, <<input[n]>>)]
  PROVE  Rings(next) /\ Follows(next, p, input, n, t, e)
<1> DEFINE m == ring["master"]
           x == input[n]
<1>0. x \in Byte BY Zenon, ElementOfSeq
<1>1. <<x>> \in Seq(Char) /\ Len(<<x>>) = 1 BY Zenon, <1>0, EchoType
<1>2. m \in Seq(Char) /\ Len(m) \in Nat /\ Len(m) + 1 <= BufferCapacity
  <2>1. m \in Seq(Char) /\ Len(m) <= BufferCapacity /\ Len(m) # BufferCapacity
    BY Zenon DEF Rings, End
  <2>2. Len(m) \in Nat BY Zenon, <2>1, LenProperties
  <2> HIDE DEF m
  <2> QED BY <2>1, <2>2, Constants
<1>3. Put(m, <<x>>) = m \o <<x>> BY Zenon, <1>1, <1>2, PutWhole
<1>4. m \o <<x>> \in Seq(Char) /\ Len(m \o <<x>>) = Len(m) + 1
  BY Zenon, <1>1, <1>2, ConcatProperties
<1>5. next["master"] = m \o <<x>> /\ next["slave"] = ring["slave"]
  BY Zenon, <1>3 DEF Rings, End
<1>6. Rings(next)
  <2>1. next \in [End -> Seq(Char)] BY Zenon, <1>3, <1>4 DEF Rings, End
  <2>2. Len(next["master"]) <= BufferCapacity BY Zenon, <1>2, <1>4, <1>5
  <2>3. Len(next["slave"]) <= BufferCapacity BY Zenon, <1>5 DEF Rings, End
  <2> QED BY Zenon, <2>1, <2>2, <2>3 DEF Rings, End
<1>7. Flushed(p, input, n) <=> Flushed(p, input, n - 1)
  <2>1. 1..n = (1..n - 1) \cup {n} OBVIOUS
  <2> QED BY Zenon, <2>1 DEF Flushed
<1>8. n - 1 \in 0..N /\ n \in 0..N OBVIOUS
<1>9. CASE ~Flushed(p, input, n - 1)
  <2>1. m = p.ring["master"] \o t[n - 1] /\ ring["slave"] = Put(p.ring["slave"], e[n - 1])
    BY Zenon, <1>9 DEF Follows, Appends
  <2>2. /\ p.ring["master"] \in Seq(Char) /\ t[n - 1] \in Seq(Char) /\ e[n - 1] \in Seq(Char)
    BY Zenon, <1>8 DEF Rings, End, Typed
  <2>3. t[n] = t[n - 1] \o <<x>> /\ e[n] = e[n - 1] \o <<>>
    BY Zenon DEF Typed, Text, Shown
  <2>4. e[n] = e[n - 1] BY Zenon, <2>2, <2>3, ConcatEmptySeq
  <2> DEFINE a == p.ring["master"]
             b == t[n - 1]
             z == <<x>>
  <2>5. a \in Seq(Char) /\ b \in Seq(Char) /\ z \in Seq(Char) BY Zenon, <1>1, <2>2
  <2>6. (a \o b) \o z = a \o (b \o z)
    <3> HIDE DEF a, b, z
    <3> QED BY Zenon, <2>5, Associative
  <2>7. Appends(next, p, n, t, e) BY Zenon, <1>5, <2>1, <2>3, <2>4, <2>6 DEF Appends
  <2> QED BY Zenon, <1>6, <1>7, <1>9, <2>7 DEF Follows
<1>10. CASE Flushed(p, input, n - 1)
  <2>1. PICK last \in 1..n - 1 :
          /\ Control(p, input, last)
          /\ \A i \in last + 1..n - 1 : ~Control(p, input, i)
          /\ m = SubSeq(input, last + 1, n - 1)
          /\ ring["slave"] = Put(<<>>, Echo(p.termios, input[last]))
    BY Zenon, <1>10 DEF Follows, Restarts
  <2>2. last \in 1..n /\ last + 1 \in 1..N /\ n \in last + 1..N OBVIOUS
  <2>3. SubSeq(input, last + 1, n) = SubSeq(input, last + 1, n - 1) \o <<x>>
    BY Zenon, <2>2, SubSeqRecursiveSecond
  <2>4. \A i \in last + 1..n : ~Control(p, input, i)
    <3>1. \A i \in last + 1..n : i = n \/ i \in last + 1..n - 1 OBVIOUS
    <3> QED BY Zenon, <2>1, <3>1
  <2>5. Restarts(next, p, input, n)
    BY Zenon, <1>5, <2>1, <2>2, <2>3, <2>4 DEF Restarts
  <2> QED BY Zenon, <1>6, <1>7, <1>10, <2>5 DEF Follows
<1> QED BY Zenon, <1>9, <1>10

\* A signal character flushes, unless NOFLSH, and is echoed (pty.hpp:272).
LEMMA ControlTaken ==
  ASSUME NEW p, Rings(p.ring), NEW N \in Nat, NEW input \in Seq(Byte), Len(input) = N,
         NEW t, NEW e, Typed(t, e, p, input, N),
         NEW n \in 1..N, NEW ring, Rings(ring),
         Follows(ring, p, input, n - 1, t, e),
         Control(p, input, n),
         NEW flushed,
         flushed = IF "noflsh" \in p.termios THEN ring ELSE [d \in End |-> <<>>],
         NEW next,
         next = [flushed EXCEPT !["slave"] = Put(@, Echo(p.termios, input[n]))]
  PROVE  Rings(next) /\ Follows(next, p, input, n, t, e)
<1> DEFINE x == input[n]
           z == Echo(p.termios, x)
           s == flushed["slave"]
<1>0. x \in Byte BY Zenon, ElementOfSeq
<1>1. z \in Seq(Char) BY Zenon, <1>0, EchoType
<1>2. <<>> \in Seq(Char) /\ Len(<<>>) = 0 BY Zenon, EmptySeq
<1>3. Rings(flushed)
  <2>1. CASE "noflsh" \in p.termios BY Zenon, <2>1
  <2>2. CASE "noflsh" \notin p.termios
    <3>1. flushed = [d \in End |-> <<>>] BY Zenon, <2>2
    <3> QED BY <1>2, <3>1, Constants DEF Rings
  <2> QED BY Zenon, <2>1, <2>2
<1>4. s \in Seq(Char) /\ Len(s) <= BufferCapacity BY Zenon, <1>3 DEF Rings, End
<1> HIDE DEF z
<1>5. Put(s, z) \in Seq(Char) /\ Len(Put(s, z)) <= BufferCapacity
  <2> HIDE DEF s
  <2> QED BY Zenon, <1>1, <1>4, PutTakes
<1>6. next["slave"] = Put(s, z) /\ next["master"] = flushed["master"]
  BY Zenon, <1>3 DEF Rings, End, z
<1>7. Rings(next)
  <2>1. next \in [End -> Seq(Char)] BY Zenon, <1>3, <1>5 DEF Rings, End, z
  <2>2. Len(next["slave"]) <= BufferCapacity BY Zenon, <1>5, <1>6
  <2>3. Len(next["master"]) <= BufferCapacity BY Zenon, <1>3, <1>6 DEF Rings, End
  <2> QED BY Zenon, <2>1, <2>2, <2>3 DEF Rings, End
<1>8. n - 1 \in 0..N /\ n \in 0..N /\ n \in 1..n OBVIOUS
<1>9. CASE "noflsh" \in p.termios
  <2>0. flushed = ring /\ ~Flushed(p, input, n - 1) /\ ~Flushed(p, input, n)
    BY Zenon, <1>9 DEF Flushed
  <2> DEFINE a == p.ring["slave"]
             b == e[n - 1]
  <2>1. ring["master"] = p.ring["master"] \o t[n - 1] /\ s = Put(a, b)
    BY Zenon, <2>0 DEF Follows, Appends
  <2>2. /\ a \in Seq(Char) /\ Len(a) <= BufferCapacity
        /\ t[n - 1] \in Seq(Char) /\ b \in Seq(Char)
    BY Zenon, <1>8 DEF Rings, End, Typed
  <2>3. t[n] = t[n - 1] \o <<>> /\ e[n] = b \o z
    BY Zenon DEF Typed, Text, Shown, z
  <2>4. t[n] = t[n - 1] BY Zenon, <2>2, <2>3, ConcatEmptySeq
  <2>5. Put(Put(a, b), z) = Put(a, b \o z)
    <3> HIDE DEF a, b
    <3> QED BY Zenon, <1>1, <2>2, PutTwice
  <2>6. Appends(next, p, n, t, e)
    BY Zenon, <1>6, <2>0, <2>1, <2>3, <2>4, <2>5 DEF Appends
  <2> QED BY Zenon, <1>7, <2>0, <2>6 DEF Follows
<1>10. CASE "noflsh" \notin p.termios
  <2>1. Flushed(p, input, n) BY Zenon, <1>8, <1>10 DEF Flushed
  <2>2. flushed = [d \in End |-> <<>>] BY Zenon, <1>10
  <2>3. next["master"] = <<>> /\ next["slave"] = Put(<<>>, z)
    BY Zenon, <1>6, <2>2 DEF End
  <2>4. SubSeq(input, n + 1, n) = <<>>
    <3>1. n + 1 \in Int /\ n \in Int /\ n < n + 1 OBVIOUS
    <3> QED BY Zenon, <3>1, SubSeqEmpty
  <2>5. \A i \in n + 1..n : ~Control(p, input, i) OBVIOUS
  <2>6. Restarts(next, p, input, n)
    BY Zenon, <1>8, <2>3, <2>4, <2>5 DEF Restarts, z
  <2> QED BY Zenon, <1>7, <2>1, <2>6 DEF Follows
<1> QED BY Zenon, <1>9, <1>10

\* The input loop (pty.hpp:246).
LEMMA InputSound ==
  ASSUME NEW p, Rings(p.ring), NEW N \in Nat, NEW input \in Seq(Byte), Len(input) = N,
         NEW t, NEW e, Typed(t, e, p, input, N)
  PROVE  LET w == InputLoop(p, input)
         IN  /\ w.consumed \in 0..N /\ Rings(w.ring)
             /\ Follows(w.ring, p, input, w.consumed, t, e)
<1> DEFINE State == [ring : [End -> Seq(Char)], consumed : 0..N, stopped : BOOLEAN,
                     signals : SUBSET {"interrupt", "quit", "tty_stop"}]
<1>0. PICK f : InputRun(f, p, input, N) BY Zenon, InputTurns
<1>1. /\ f[0] = InputFirst(p)
      /\ \A n \in 1..N : f[n] = InputTurn(f[n - 1], input[n], p.termios)
      /\ InputLoop(p, input) = f[N]
  BY Zenon, <1>0 DEF InputRun
<1> DEFINE P(n) == LET w == f[n]
                   IN  /\ w \in State /\ Rings(w.ring)
                       /\ w.consumed <= n /\ (~w.stopped => w.consumed = n)
                       /\ Follows(w.ring, p, input, w.consumed, t, e)
           Good == {n \in 0..N : P(n)}
<1>2. 0 \in Good
  <2> DEFINE w == f[0]
  <2>1. w.ring = p.ring /\ w.consumed = 0 /\ w.stopped = FALSE BY <1>1 DEF InputFirst
  <2>2. w \in State BY <1>1 DEF InputFirst, Rings
  <2> HIDE DEF w, State
  <2>3. /\ p.ring["master"] \in Seq(Char) /\ p.ring["slave"] \in Seq(Char)
        /\ Len(p.ring["slave"]) <= BufferCapacity
        /\ t[0] = <<>> /\ e[0] = <<>>
    BY Zenon DEF Rings, End, Typed
  <2>4. Put(p.ring["slave"], <<>>) = p.ring["slave"]
    <3> DEFINE s == p.ring["slave"]
    <3>1. s \in Seq(Char) /\ Len(s) <= BufferCapacity /\ <<>> \in Seq(Char) /\ Len(<<>>) = 0
          /\ Len(s) \in Nat
      BY Zenon, <2>3, EmptySeq, LenProperties
    <3>2. Len(s) + Len(<<>>) <= BufferCapacity BY <3>1
    <3> HIDE DEF s
    <3>3. Put(s, <<>>) = s \o <<>> BY Zenon, <3>1, <3>2, PutWhole
    <3>4. s \o <<>> = s BY Zenon, <3>1, ConcatEmptySeq
    <3> QED BY Zenon, <3>3, <3>4 DEF s
  <2>5. p.ring["master"] \o <<>> = p.ring["master"] BY Zenon, <2>3, ConcatEmptySeq
  <2>6. Appends(p.ring, p, 0, t, e) BY Zenon, <2>3, <2>4, <2>5 DEF Appends
  <2>7. ~Flushed(p, input, 0) BY DEF Flushed
  <2>8. Follows(p.ring, p, input, 0, t, e) BY Zenon, <2>6, <2>7 DEF Follows
  <2>9. P(0) BY <2>1, <2>2, <2>8 DEF w
  <2> HIDE DEF P
  <2> QED BY <2>9
<1>3. ASSUME NEW n \in 1..N, n - 1 \in Good PROVE n \in Good
  <2> DEFINE v == f[n - 1]
             w == f[n]
             c == input[n]
             signal == Signal(p.termios, c)
             flushed == IF "noflsh" \in p.termios THEN v.ring ELSE [d \in End |-> <<>>]
             text == [v.ring EXCEPT !["master"] = Put(@, <<c>>)]
             echoed == [flushed EXCEPT !["slave"] = Put(@, Echo(p.termios, c))]
  <2>1. /\ v \in State /\ Rings(v.ring) /\ v.consumed <= n - 1
        /\ (~v.stopped => v.consumed = n - 1)
        /\ Follows(v.ring, p, input, v.consumed, t, e)
    BY Zenon, <1>3
  <2>2. w = InputTurn(v, c, p.termios) BY Zenon, <1>1
  <2>3. signal \in {"none", "interrupt", "quit", "tty_stop"} BY Zenon DEF Signal
  <2>4. Control(p, input, n) <=> signal # "none" BY Zenon DEF Control
  <2> HIDE DEF v, w, signal
  <2>5. CASE v.stopped \/ (signal = "none" /\ Len(v.ring["master"]) = BufferCapacity)
    <3>1. w = [v EXCEPT !.stopped = TRUE] BY Zenon, <2>2, <2>5 DEF InputTurn, signal
    <3>2. /\ w \in State /\ w.ring = v.ring /\ w.consumed = v.consumed /\ w.stopped
      BY Zenon, <2>1, <3>1
    <3>3. w.consumed <= n BY <2>1, <3>2
    <3> HIDE DEF State
    <3>4. P(n) BY Zenon, <2>1, <3>2, <3>3 DEF w
    <3> HIDE DEF P
    <3> QED BY <3>4
  <2>6. CASE ~v.stopped /\ signal = "none" /\ Len(v.ring["master"]) # BufferCapacity
    <3>1. w = [v EXCEPT !.ring = text, !.consumed = @ + 1]
      BY Zenon, <2>1, <2>2, <2>6 DEF InputTurn, signal
    <3>2. v.consumed = n - 1 /\ v.consumed + 1 = n /\ n \in 0..N BY <2>1, <2>6
    <3>3. Rings(text) /\ Follows(text, p, input, n, t, e)
      <4> DEFINE ring == v.ring
      <4>1. /\ ~Control(p, input, n) /\ Follows(ring, p, input, n - 1, t, e)
            /\ Rings(ring) /\ Len(ring["master"]) # BufferCapacity
            /\ text = [ring EXCEPT !["master"] = Put(@, <<input[n]>>)]
        BY Zenon, <2>1, <2>4, <2>6, <3>2
      <4> HIDE DEF text, ring
      <4> QED BY Zenon, <4>1, TextTaken
    <3>4. text \in [End -> Seq(Char)] BY Zenon, <3>3 DEF Rings
    <3> HIDE DEF text
    <3>5. w \in State /\ w.ring = text /\ w.consumed = n
      BY Zenon, <2>1, <3>1, <3>2, <3>4
    <3> HIDE DEF State
    <3>6. P(n) BY <3>3, <3>5 DEF w
    <3> HIDE DEF P
    <3> QED BY <3>6
  <2>7. CASE ~v.stopped /\ signal # "none"
    <3>1. w = [v EXCEPT !.ring = echoed, !.consumed = @ + 1, !.signals = @ \cup {signal}]
      BY Zenon, <2>2, <2>7 DEF InputTurn, signal
    <3>2. v.consumed = n - 1 /\ v.consumed + 1 = n /\ n \in 0..N BY <2>1, <2>7
    <3>3. Rings(echoed) /\ Follows(echoed, p, input, n, t, e)
      <4> DEFINE ring == v.ring
      <4>1. /\ Control(p, input, n) /\ Follows(ring, p, input, n - 1, t, e)
            /\ Rings(ring)
            /\ flushed = IF "noflsh" \in p.termios THEN ring ELSE [d \in End |-> <<>>]
            /\ echoed = [flushed EXCEPT !["slave"] = Put(@, Echo(p.termios, input[n]))]
        BY Zenon, <2>1, <2>4, <2>7, <3>2
      <4> HIDE DEF echoed, flushed, ring
      <4> QED BY SMTT(30), <4>1, ControlTaken
    <3>4. echoed \in [End -> Seq(Char)] BY Zenon, <3>3 DEF Rings
    <3> HIDE DEF echoed
    <3>5. w \in State /\ w.ring = echoed /\ w.consumed = n
      BY Zenon, <2>1, <2>3, <2>7, <3>1, <3>2, <3>4
    <3> HIDE DEF State
    <3>6. P(n) BY <3>3, <3>5 DEF w
    <3> HIDE DEF P
    <3> QED BY <3>6
  <2> QED BY Zenon, <2>5, <2>6, <2>7
<1>4. \A n \in 0..N : n \in Good
  <2> HIDE DEF Good
  <2> QED BY Zenon, <1>2, <1>3, Upwards
<1>5. P(N)
  <2> HIDE DEF P
  <2> QED BY <1>4
<1>6. f[N].consumed \in 0..N BY Zenon, <1>5
<1> HIDE DEF State
<1> QED BY Zenon, <1>1, <1>5, <1>6

\* The chains of texts and echoes exist, and end in what the log is told.
LEMMA TypedExists ==
  ASSUME NEW p, NEW N \in Nat, NEW input \in Seq(Byte), Len(input) = N
  PROVE  \E t, e : Typed(t, e, p, input, N) /\ Tells(t, e, p, input, N)
<1> DEFINE T == [i \in 1..N |-> Text(p, input, i)]
           E == [i \in 1..N |-> Shown(p, input, i)]
<1>1. \A i \in 1..N : input[i] \in Byte BY Zenon, ElementOfSeq
<1>2. \A i \in 1..N : T[i] \in Seq(Char)
  <2> SUFFICES ASSUME NEW i \in 1..N PROVE Text(p, input, i) \in Seq(Char) BY Zenon
  <2>1. <<input[i]>> \in Seq(Char) /\ <<>> \in Seq(Char) BY Zenon, <1>1, EchoType, EmptySeq
  <2> QED BY Zenon, <2>1 DEF Text
<1>3. \A i \in 1..N : E[i] \in Seq(Char)
  <2> SUFFICES ASSUME NEW i \in 1..N PROVE Shown(p, input, i) \in Seq(Char) BY Zenon
  <2>1. Echo(p.termios, input[i]) \in Seq(Char) /\ <<>> \in Seq(Char)
    BY Zenon, <1>1, EchoType, EmptySeq
  <2> QED BY Zenon, <2>1 DEF Shown
<1>4. PICK t : /\ t[0] = <<>>
               /\ \A n \in 1..N : t[n] = t[n - 1] \o T[n]
               /\ \A n \in 0..N : /\ t[n] \in Seq(Char)
                                  /\ Joined([i \in 1..n |-> T[i]]) = t[n]
  <2> HIDE DEF T
  <2> QED BY Zenon, <1>2, JoinedChain
<1>5. PICK e : /\ e[0] = <<>>
               /\ \A n \in 1..N : e[n] = e[n - 1] \o E[n]
               /\ \A n \in 0..N : /\ e[n] \in Seq(Char)
                                  /\ Joined([i \in 1..n |-> E[i]]) = e[n]
  <2> HIDE DEF E
  <2> QED BY Zenon, <1>3, JoinedChain
<1>6. Typed(t, e, p, input, N)
  <2>1. \A n \in 1..N : T[n] = Text(p, input, n) /\ E[n] = Shown(p, input, n) BY Zenon
  <2> HIDE DEF T, E
  <2>2. \A n \in 0..N : t[n] \in Seq(Char) /\ e[n] \in Seq(Char) BY Zenon, <1>4, <1>5
  <2>3. ASSUME NEW n \in 1..N
        PROVE  t[n] = t[n - 1] \o Text(p, input, n) /\ e[n] = e[n - 1] \o Shown(p, input, n)
    <3>1. t[n] = t[n - 1] \o T[n] BY Zenon, <1>4
    <3>2. e[n] = e[n - 1] \o E[n] BY Zenon, <1>5
    <3> QED BY Zenon, <2>1, <3>1, <3>2
  <2>4. t[0] = <<>> /\ e[0] = <<>> BY Zenon, <1>4, <1>5
  <2> QED BY Zenon, <2>2, <2>3, <2>4 DEF Typed
<1>7. ASSUME NEW n \in 0..N
      PROVE  /\ Joined([i \in 1..n |-> Text(p, input, i)]) = t[n]
             /\ Joined([i \in 1..n |-> Shown(p, input, i)]) = e[n]
  <2>1. /\ [i \in 1..n |-> T[i]] = [i \in 1..n |-> Text(p, input, i)]
        /\ [i \in 1..n |-> E[i]] = [i \in 1..n |-> Shown(p, input, i)]
    OBVIOUS
  <2> HIDE DEF T, E
  <2> QED BY Zenon, <1>4, <1>5, <2>1
<1>8. Tells(t, e, p, input, N) BY Zenon, <1>7 DEF Tells
<1> QED BY Zenon, <1>6, <1>8

\* The log of a write by the master says what is in the rings: text and
\* echoes behind what was there, or what followed the last flush.
LEMMA LoggedSound ==
  ASSUME NEW p, Rings(p.ring), NEW N \in Nat, NEW input \in Seq(Byte), Len(input) = N,
         NEW t, NEW e, Typed(t, e, p, input, N), Tells(t, e, p, input, N),
         NEW c \in 0..N, NEW ring, Rings(ring), Follows(ring, p, input, c, t, e),
         NEW k, Agrees(k, p.ring)
  PROVE  Agrees(Logged(k, p, SubSeq(input, 1, c)), ring)
<1> DEFINE accepted == SubSeq(input, 1, c)
           controls == {i \in 1..c : Control(p, input, i)}
           last == CHOOSE i \in controls : \A j \in controls : j <= i
           shown == Put(p.ring["slave"], e[c])
           tail == SubSeq(shown, Len(p.ring["slave"]) + 1, Len(shown))
           empty == [written |-> <<>>, seen |-> <<>>]
           appended == [k EXCEPT !["master"].written = @ \o t[c],
                                 !["slave"].written = @ \o tail]
           restarted == [master |-> [empty EXCEPT !.written = SubSeq(accepted, last + 1, c)],
                         slave |-> [empty EXCEPT !.written =
                                      Put(<<>>, Echo(p.termios, accepted[last]))]]
           l == Logged(k, p, accepted)
<1>1. Len(accepted) = c /\ \A i \in 1..c : accepted[i] = input[i]
  <2>1. \A i \in 1..c : input[i] \in Byte BY ElementOfSeq
  <2> QED BY <2>1, SubSeqProperties
<1>2. {i \in 1..Len(accepted) : Signal(p.termios, accepted[i]) # "none"} = controls
  <2> HIDE DEF accepted
  <2> QED BY Zenon, <1>1 DEF Control
<1>3. [i \in 1..Len(accepted) |-> IF i \in controls THEN <<>> ELSE <<accepted[i]>>]
        = [i \in 1..c |-> Text(p, input, i)]
  <2> HIDE DEF accepted
  <2>1. \A i \in 1..c : (IF i \in controls THEN <<>> ELSE <<accepted[i]>>) = Text(p, input, i)
    BY Zenon, <1>1 DEF Text
  <2> HIDE DEF controls
  <2> QED BY Zenon, <1>1, <2>1
<1>4. [i \in 1..Len(accepted) |-> IF i \in controls THEN Echo(p.termios, accepted[i]) ELSE <<>>]
        = [i \in 1..c |-> Shown(p, input, i)]
  <2> HIDE DEF accepted
  <2>1. \A i \in 1..c : (IF i \in controls THEN Echo(p.termios, accepted[i]) ELSE <<>>)
                          = Shown(p, input, i)
    BY Zenon, <1>1 DEF Shown
  <2> HIDE DEF controls
  <2> QED BY Zenon, <1>1, <2>1
<1>5. l = IF controls = {} \/ "noflsh" \in p.termios THEN appended ELSE restarted
  <2> DEFINE C == {i \in 1..Len(accepted) : Signal(p.termios, accepted[i]) # "none"}
             T == Joined([i \in 1..Len(accepted) |->
                            IF i \in C THEN <<>> ELSE <<accepted[i]>>])
             E == Joined([i \in 1..Len(accepted) |->
                            IF i \in C THEN Echo(p.termios, accepted[i]) ELSE <<>>])
             final == CHOOSE i \in C : \A j \in C : j <= i
             full == Put(p.ring["slave"], E)
  <2>1. l = IF C = {} \/ "noflsh" \in p.termios
            THEN [k EXCEPT !["master"].written = @ \o T,
                           !["slave"].written =
                              @ \o SubSeq(full, Len(p.ring["slave"]) + 1, Len(full))]
            ELSE [master |-> [empty EXCEPT !.written =
                                SubSeq(accepted, final + 1, Len(accepted))],
                  slave |-> [empty EXCEPT !.written =
                               Put(<<>>, Echo(p.termios, accepted[final]))]]
    BY Zenon DEF Logged
  <2>2. C = controls BY Zenon, <1>2
  <2> HIDE DEF C
  <2>3. T = t[c] /\ E = e[c] /\ final = last
    <3>1. /\ Joined([i \in 1..c |-> Text(p, input, i)]) = t[c]
          /\ Joined([i \in 1..c |-> Shown(p, input, i)]) = e[c]
      BY Zenon DEF Tells
    <3> HIDE DEF accepted, controls
    <3> QED BY Zenon, <1>3, <1>4, <2>2, <3>1
  <2> HIDE DEF T, E, final, last, accepted, controls, l
  <2> QED BY Zenon, <1>1, <2>1, <2>2, <2>3
<1>6. (controls = {} \/ "noflsh" \in p.termios) <=> ~Flushed(p, input, c)
  BY Zenon DEF Flushed
<1> HIDE DEF l
<1>7. CASE ~Flushed(p, input, c)
  <2> DEFINE a == p.ring["slave"]
  <2>1. l = appended BY Zenon, <1>5, <1>6, <1>7
  <2>2. ring["master"] = p.ring["master"] \o t[c] /\ ring["slave"] = shown
    BY Zenon, <1>7 DEF Follows, Appends
  <2>3. /\ a \in Seq(Char) /\ Len(a) <= BufferCapacity /\ p.ring["master"] \in Seq(Char)
        /\ t[c] \in Seq(Char) /\ e[c] \in Seq(Char)
    BY Zenon DEF Rings, End, Typed
  <2>4. tail \in Seq(Char) /\ shown = a \o tail
    <3> DEFINE x == e[c]
    <3>1. x \in Seq(Char) BY Zenon, <2>3
    <3> HIDE DEF x, a
    <3>2. PICK part \in Seq(Char) : Put(a, x) = a \o part BY Zenon, <2>3, <3>1, PutTakes
    <3>3. Put(a, x) \in Seq(Char) /\ Len(Put(a, x)) = Len(a) + Len(part)
          /\ Len(a) \in Nat /\ Len(part) \in Nat
      BY <2>3, <3>2, ConcatProperties, LenProperties
    <3> DEFINE y == Put(a, x)
    <3>4. Len(a) \in 0..Len(y) BY <3>3
    <3>5. /\ SubSeq(y, Len(a) + 1, Len(y)) \in Seq(Char)
          /\ SubSeq(y, 1, Len(a)) \o SubSeq(y, Len(a) + 1, Len(y)) = y
      <4>1. y \in Seq(Char) BY Zenon, <3>3
      <4> HIDE DEF y
      <4> QED BY Zenon, <3>4, <4>1, Cut
    <3>6. SubSeq(y, 1, Len(a)) = a
      <4>1. Len(a) \in 0..Len(a) BY <3>3
      <4>2. SubSeq(a \o part, 1, Len(a)) = SubSeq(a, 1, Len(a)) BY Zenon, <2>3, <3>2, <4>1, FirstPart
      <4>3. SubSeq(a, 1, Len(a)) = a BY Zenon, <2>3, SubSeqFull
      <4> QED BY Zenon, <3>2, <4>2, <4>3
    <3> QED BY Zenon, <3>5, <3>6 DEF x, a
  <2>5. /\ k["master"].seen \in Seq(Char) /\ k["master"].written \in Seq(Char)
        /\ k["slave"].seen \in Seq(Char) /\ k["slave"].written \in Seq(Char)
        /\ k["master"].seen \o p.ring["master"] = k["master"].written
        /\ k["slave"].seen \o a = k["slave"].written
        /\ k \in Log
    BY Zenon DEF Log, End, Agrees
  <2>6. /\ k["master"].seen \o (p.ring["master"] \o t[c]) = k["master"].written \o t[c]
        /\ k["master"].written \o t[c] \in Seq(Char)
    <3> DEFINE x == k["master"].seen
               y == p.ring["master"]
               z == t[c]
    <3>1. x \in Seq(Char) /\ y \in Seq(Char) /\ z \in Seq(Char) BY Zenon, <2>3, <2>5
    <3> HIDE DEF x, y, z
    <3>2. (x \o y) \o z = x \o (y \o z) BY Zenon, <3>1, Associative
    <3>3. x \o y \in Seq(Char) BY Zenon, <3>1, ConcatProperties
    <3>4. (x \o y) \o z \in Seq(Char) BY Zenon, <3>1, <3>3, ConcatProperties
    <3> QED BY Zenon, <2>5, <3>2, <3>4 DEF x, y, z
  <2>7. /\ k["slave"].seen \o (a \o tail) = k["slave"].written \o tail
        /\ k["slave"].written \o tail \in Seq(Char)
    <3> DEFINE x == k["slave"].seen
    <3>1. x \in Seq(Char) /\ a \in Seq(Char) /\ tail \in Seq(Char) BY Zenon, <2>3, <2>4, <2>5
    <3> HIDE DEF x, a, tail
    <3>2. (x \o a) \o tail = x \o (a \o tail) BY Zenon, <3>1, Associative
    <3>3. x \o a \in Seq(Char) BY Zenon, <3>1, ConcatProperties
    <3>4. (x \o a) \o tail \in Seq(Char) BY Zenon, <3>1, <3>3, ConcatProperties
    <3> QED BY Zenon, <2>5, <3>2, <3>4 DEF x
  <2> DEFINE mw == k["master"].written \o t[c]
             sw == k["slave"].written \o tail
  <2>8. l = [k EXCEPT !["master"].written = mw, !["slave"].written = sw] BY Zenon, <2>1
  <2>9. mw \in Seq(Char) /\ sw \in Seq(Char) BY Zenon, <2>6, <2>7
  <2> HIDE DEF mw, sw
  <2>10. l \in Log BY Zenon, <2>5, <2>8, <2>9 DEF Log, End
  <2>11. /\ l["master"].seen = k["master"].seen /\ l["master"].written = mw
         /\ l["slave"].seen = k["slave"].seen /\ l["slave"].written = sw
    BY Zenon, <2>5, <2>8 DEF Log, End
  <2>12. l["master"].seen \o ring["master"] = l["master"].written
    BY Zenon, <2>2, <2>6, <2>11 DEF mw
  <2>13. l["slave"].seen \o ring["slave"] = l["slave"].written
    <3> HIDE DEF shown, tail, a
    <3> QED BY Zenon, <2>2, <2>4, <2>7, <2>11 DEF sw
  <2> QED BY Zenon, <2>10, <2>12, <2>13 DEF End, l, Agrees
<1>8. CASE Flushed(p, input, c)
  <2>1. l = restarted BY Zenon, <1>5, <1>6, <1>8
  <2>2. PICK m \in 1..c :
          /\ Control(p, input, m)
          /\ \A i \in m + 1..c : ~Control(p, input, i)
          /\ ring["master"] = SubSeq(input, m + 1, c)
          /\ ring["slave"] = Put(<<>>, Echo(p.termios, input[m]))
    BY Zenon, <1>8 DEF Follows, Restarts
  <2>3. last = m
    <3>1. m \in controls BY Zenon, <2>2
    <3>2. ASSUME NEW j \in controls PROVE j <= m
      <4>1. j \in 1..c /\ j \notin m + 1..c BY Zenon, <2>2
      <4> QED BY <4>1
    <3>3. controls \subseteq Nat OBVIOUS
    <3> HIDE DEF controls
    <3>4. ASSUME NEW i \in controls, \A j \in controls : j <= i PROVE i = m
      BY <3>1, <3>2, <3>3, <3>4
    <3> QED BY Zenon, <3>1, <3>2, <3>4
  <2> DEFINE mw == SubSeq(accepted, m + 1, c)
             sw == Put(<<>>, Echo(p.termios, accepted[m]))
  <2>4. l = [master |-> [empty EXCEPT !.written = mw],
             slave |-> [empty EXCEPT !.written = sw]]
    BY Zenon, <2>1, <2>3
  <2>5. mw = ring["master"]
    <3>1. \A i \in m + 1..c : accepted[i] = input[i] /\ accepted[i] \in Byte
      <4>1. \A i \in m + 1..c : i \in 1..c /\ i \in 1..N OBVIOUS
      <4>2. \A i \in 1..N : input[i] \in Byte BY Zenon, ElementOfSeq
      <4> HIDE DEF accepted
      <4> QED BY Zenon, <1>1, <4>1, <4>2
    <3> DEFINE o == SubSeq(input, m + 1, c)
    <3>2. m + 1 \in Int /\ c \in Int OBVIOUS
    <3> HIDE DEF accepted
    <3>3. /\ mw \in Seq(Byte) /\ Len(mw) = (IF m + 1 <= c THEN c - (m + 1) + 1 ELSE 0)
          /\ \A i \in 1..c - (m + 1) + 1 : mw[i] = accepted[(m + 1) + i - 1]
      BY <3>1, <3>2, SubSeqProperties
    <3>4. /\ o \in Seq(Byte) /\ Len(o) = (IF m + 1 <= c THEN c - (m + 1) + 1 ELSE 0)
          /\ \A i \in 1..c - (m + 1) + 1 : o[i] = input[(m + 1) + i - 1]
      BY <3>1, <3>2, SubSeqProperties
    <3> HIDE DEF mw, o
    <3>5. ASSUME NEW i \in 1..Len(mw) PROVE mw[i] = o[i]
      <4>1. i \in 1..c - (m + 1) + 1 /\ (m + 1) + i - 1 \in m + 1..c BY <3>3
      <4> QED BY Zenon, <3>1, <3>3, <3>4, <4>1
    <3>6. mw = o BY Zenon, <3>3, <3>4, <3>5, SeqEqual
    <3> QED BY Zenon, <2>2, <3>6 DEF o
  <2>6. sw = ring["slave"] BY Zenon, <1>1, <2>2
  <2>7. mw \in Seq(Char) /\ sw \in Seq(Char) BY Zenon, <2>5, <2>6 DEF Rings, End
  <2> HIDE DEF mw, sw
  <2>8. /\ l["master"].seen = <<>> /\ l["master"].written = mw
        /\ l["slave"].seen = <<>> /\ l["slave"].written = sw
    BY Zenon, <2>4
  <2>9. <<>> \in Seq(Char) /\ <<>> \o mw = mw /\ <<>> \o sw = sw
    BY Zenon, <2>7, EmptySeq, ConcatEmptySeq
  <2>10. l \in Log
    <3> DEFINE one == [empty EXCEPT !.written = mw]
               other == [empty EXCEPT !.written = sw]
               Entry == [written : Seq(Char), seen : Seq(Char)]
    <3>1. one \in Entry /\ other \in Entry BY Zenon, <2>7, <2>9
    <3>2. l = [master |-> one, slave |-> other] BY Zenon, <2>4
    <3> HIDE DEF one, other, Entry
    <3>3. l \in [End -> Entry] BY <3>1, <3>2 DEF End
    <3> QED BY Zenon, <3>3 DEF Log, Entry
  <2> QED BY Zenon, <2>5, <2>6, <2>8, <2>9, <2>10 DEF End, l, Agrees
<1> QED BY Zenon, <1>7, <1>8

LEMMA MasterWriteSound ==
  ASSUME IInv, NEW h \in Handle, NEW input \in Input, master_write(h, input)
  PROVE  IInv'
<1> DEFINE q == ptys_[h.slot]
           w == InputLoop(q, input)
           k == log[h.slot]
           l == Logged(k, q, SubSeq(input, 1, w.consumed))
           N == Len(input)
<1>1. h.slot \in Slot /\ find(h) BY Zenon DEF Handle, master_write
<1>2. Sound(q) /\ Faithful(q, k) BY Zenon, <1>1 DEF IInv
<1>3. Rings(q.ring) BY Zenon, <1>2 DEF Sound, Terminal, Rings
<1>4. /\ ptys_' = [ptys_ EXCEPT ![h.slot].ring = w.ring]
      /\ log' = [log EXCEPT ![h.slot] = l] /\ held' = held
  BY Zenon DEF master_write
<1>5. N \in Nat /\ Len(input) = N /\ input \in Seq(Byte) BY Zenon, InputType
<1>6. Agrees(k, q.ring) BY Zenon, <1>2 DEF Faithful, Agrees
<1> HIDE DEF N, q, k
<1>7. PICK t, e : Typed(t, e, q, input, N) /\ Tells(t, e, q, input, N)
  BY Zenon, <1>5, TypedExists
<1>8. /\ w.consumed \in 0..N /\ Rings(w.ring)
      /\ Follows(w.ring, q, input, w.consumed, t, e)
  BY Zenon, <1>3, <1>5, <1>7, InputSound
<1> HIDE DEF w
<1>9. Agrees(l, w.ring) BY Zenon, <1>3, <1>5, <1>6, <1>7, <1>8, LoggedSound
<1> HIDE DEF l
<1> QED BY Zenon, <1>1, <1>4, <1>8, <1>9, RingSound

-----------------------------------------------------------------------------

LEMMA NextSound == ASSUME IInv, [Next]_vars PROVE IInv'
<1>1. CASE UNCHANGED vars BY Zenon, <1>1 DEF vars, IInv
<1>2. ASSUME NEW s \in Slot, open_master(s) \/ open_slave(s) PROVE IInv'
  BY Zenon, <1>2, OpenMasterSound, SlaveOpenedSound DEF open_slave
<1>3. ASSUME NEW p \in Process, NEW s \in Slot, open_controlling_slave(p, s) PROVE IInv'
  BY Zenon, <1>3, SlaveOpenedSound DEF open_controlling_slave
<1>4. ASSUME NEW h \in Handle, NEW locked \in BOOLEAN, set_locked(h, locked) PROVE IInv'
  BY Zenon, <1>4, SetLockedSound
<1>5. ASSUME NEW h \in Handle, NEW e \in End,
             \/ retain(h, e) \/ release(h, e)
             \/ \E count \in 1..MaxCount : read(h, e, count)
      PROVE  IInv'
  BY Zenon, <1>5, RetainSound, ReleaseSound, ReadSound
<1>6. ASSUME NEW h \in Handle, NEW input \in Input,
             slave_write(h, input) \/ master_write(h, input)
      PROVE  IInv'
  BY Zenon, <1>6, SlaveWriteSound, MasterWriteSound
<1>7. ASSUME NEW h \in Handle, NEW termios \in Modes, set_termios(h, termios) PROVE IInv'
  BY Zenon, <1>7, SetTermiosSound
<1>8. ASSUME NEW h \in Handle, NEW p \in Process,
             \/ detach(h, p)
             \/ \E force \in BOOLEAN : acquire_controlling_terminal(h, p, force)
             \/ \E q \in Process : set_foreground_group(h, p, q.process_group)
             \/ \E window \in {0, 1} : set_window(h, p, window)
      PROVE  IInv'
  BY Zenon, <1>8, OwnerSound, SetWindowSound
<1> QED BY Zenon, <1>1, <1>2, <1>3, <1>4, <1>5, <1>6, <1>7, <1>8 DEF Next

\* The inductive invariant of the terminals: a slot out of use is fresh, a
\* used one has a generation, an owner and a foreground group or neither,
\* counts that agree with the descriptors of its own generation, no other
\* generation having any, and rings that hold what was written and not read
\* (include/mikos/process/pty.hpp).
THEOREM TerminalInvariant == Spec => []IInv
<1>1. Init => IInv BY Zenon, InitSound
<1>2. IInv /\ [Next]_vars => IInv' BY Zenon, NextSound
<1> QED BY <1>1, <1>2, PTL DEF Spec

\* Every descriptor open on a terminal keeps it, and one that survives its
\* peer never reaches the next terminal of the slot: retain, release, find and
\* the generation in the handle (pty.hpp:135).
THEOREM EndsStayCounted == Spec => []EndsCounted
<1>1. IInv => EndsCounted
  <2> SUFFICES ASSUME IInv PROVE EndsCounted BY Zenon
  <2>1. TypeOK BY Zenon DEF IInv, TypeOK, Sound, Terminal
  <2>2. \A h \in Handle : Counted(ptys_[h.slot], h, held[h]) BY Zenon DEF IInv
  <2> QED BY Zenon, <2>1, <2>2 DEF EndsCounted, Counted, find
<1> QED BY <1>1, TerminalInvariant, PTL

\* A terminal has a foreground group exactly while a session owns it, and a
\* slot starts its next terminal with neither and with empty rings: TIOCSCTTY,
\* TIOCNOTTY, TIOCSPGRP and the last close (pty.hpp:291).
THEOREM TerminalStaysOwned == Spec => []TerminalOwned
<1>1. IInv => TerminalOwned BY Zenon DEF IInv, Sound, TerminalOwned
<1> QED BY <1>1, TerminalInvariant, PTL

\* What a side was told it has written is what the other side has read and
\* will read, once each and in order, through every short write, expansion of
\* a newline, echo and flush: slave_write and master_write (pty.hpp:211).
THEOREM StreamsStayFaithful == Spec => []StreamsFaithful
<1>1. IInv => StreamsFaithful BY Zenon DEF IInv, Faithful, StreamsFaithful
<1> QED BY <1>1, TerminalInvariant, PTL

=============================================================================
