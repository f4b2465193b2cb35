------------------------ MODULE ProcessTable_proofs -------------------------
(***************************************************************************)
(* The invariants of the process table, for every capacity, range of ids,  *)
(* set of statuses and workload.  They are proved together: that exits are *)
(* kept needs ids below the counter and one record per id, that a parent   *)
(* is alive needs nobody to be their own parent, and that a suspension     *)
(* ends needs all of it (IInv).  One lemma per call.                       *)
(***************************************************************************)
EXTENDS ProcessTable, TLAPS

\* What the invariants rest on: ids not yet handed out are in no history, no
\* process is its own parent or the parent of the first one, and a zombie keeps
\* the status it exited with.
Ground ==
  /\ next_pid_ # 1
  /\ next_pid_ # 0 => \A p \in Pid : p >= next_pid_ => reaped[p] = None
  /\ \A i \in Slot : records_[i].state # "free" =>
       /\ records_[i].parent # records_[i].pid
       /\ records_[i].pid = 1 => records_[i].parent = 0
  /\ \A i \in Slot : records_[i].state = "zombie" =>
       exited[records_[i].pid] = records_[i].exit_status

IInv ==
  /\ TableInvariant
  /\ ExitsKept
  /\ ParentsAlive
  /\ SuspensionsEnd
  /\ Ground

-----------------------------------------------------------------------------

\* The first process alone in the table.
LEMMA InitInv == Init => IInv
<1> SUFFICES ASSUME Init PROVE IInv BY Zenon
<1> USE TableAssumption
<1>1. 0 \in Slot /\ 1 \in Pid BY DEF Slot, Pid
<1>2. TypeOK
  <2>1. Free \in ProcessRecord BY DEF Free, ProcessRecord, ProcessState
  <2>2. [Free EXCEPT !.state = "running", !.pid = 1, !.process_group = 1,
                     !.session = 1, !.address_space = TRUE] \in ProcessRecord
    <3>1. ASSUME NEW st \in ProcessState, NEW n \in 0..(PidModulus - 1), NEW b \in BOOLEAN,
                 NEW r \in ProcessRecord
          PROVE  [r EXCEPT !.state = st, !.pid = n, !.process_group = n,
                           !.session = n, !.address_space = b] \in ProcessRecord
      BY Zenon, <3>1 DEF ProcessRecord
    <3>2. 1 \in 0..(PidModulus - 1) /\ "running" \in ProcessState
      BY DEF ProcessState
    <3> QED BY Zenon, <2>1, <3>1, <3>2
  <2> QED BY <1>1, <2>1, <2>2 DEF Init, TypeOK, Pid
<1>3. \A i \in Slot : IF i = 0
         THEN /\ records_[i].state = "running" /\ records_[i].pid = 1
              /\ records_[i].process_group = 1 /\ records_[i].session = 1
              /\ records_[i].address_space /\ records_[i].parent = 0
         ELSE records_[i] = Free
  BY Zenon DEF Init, Free
<1>4. \A i \in Slot : i # 0 => records_[i].state = "free" /\ records_[i].pid = 0
                               /\ ~records_[i].address_space
  BY <1>3 DEF Free
<1>5. TableInvariant BY <1>2, <1>3, <1>4 DEF TableInvariant, find
<1>6. ExitsKept
  <2>1. \A i \in Slot : records_[i].pid < next_pid_ BY <1>3, <1>4 DEF Init
  <2>2. \A i \in Slot : records_[i].state # "zombie" BY Zenon, <1>3, <1>4
  <2> QED BY Zenon, <2>1, <2>2 DEF ExitsKept, Init, None
<1>7. ParentsAlive BY <1>3, <1>4 DEF ParentsAlive
<1>8. SuspensionsEnd BY Zenon, <1>3, <1>4 DEF SuspensionsEnd
<1>9. Ground
  <2>1. next_pid_ = 2 /\ \A p \in Pid : reaped[p] = None BY Zenon DEF Init
  <2>2. \A i \in Slot : records_[i].state # "zombie" BY Zenon, <1>3, <1>4
  <2>3. \A i \in Slot : records_[i].state # "free" =>
          records_[i].parent = 0 /\ records_[i].pid = 1
    BY Zenon, <1>3, <1>4
  <2> QED BY <2>1, <2>2, <2>3 DEF Ground
<1> QED BY Zenon, <1>5, <1>6, <1>7, <1>8, <1>9 DEF IInv

-----------------------------------------------------------------------------

\* A record in another state.
LEMMA StateSet ==
  ASSUME NEW r \in ProcessRecord, NEW st \in ProcessState
  PROVE  LET new == [r EXCEPT !.state = st]
         IN  /\ new \in ProcessRecord
             /\ new.state = st /\ new.pid = r.pid /\ new.parent = r.parent
             /\ new.process_group = r.process_group /\ new.session = r.session
             /\ new.exit_status = r.exit_status /\ new.vfork_parent = r.vfork_parent
             /\ new.address_space = r.address_space /\ new.executed = r.executed
BY Zenon DEF ProcessRecord

\* What the calls that neither fork, exit nor collect do to the table.
Quiet ==
  /\ records_' \in [Slot -> ProcessRecord]
  /\ \A j \in Slot :
       /\ records_'[j].pid = records_[j].pid
       /\ records_'[j].parent = records_[j].parent
       /\ records_'[j].exit_status = records_[j].exit_status
       /\ records_'[j].address_space = records_[j].address_space
       /\ records_[j].process_group # 0 => records_'[j].process_group # 0
       /\ records_[j].session # 0 => records_'[j].session # 0
       /\ records_'[j].state = "free" <=> records_[j].state = "free"
       /\ records_'[j].state = "zombie" <=> records_[j].state = "zombie"
  /\ UNCHANGED <<next_pid_, exited, reaped>>
  /\ current' \in 0..(PidModulus - 1)

\* They keep everything but, possibly, that suspensions end.
LEMMA QuietStep ==
  ASSUME IInv, Quiet
  PROVE  TableInvariant' /\ ExitsKept' /\ ParentsAlive' /\ Ground'
<1> USE DEF Quiet, IInv
<1>1. TypeOK' BY Zenon DEF TableInvariant, TypeOK
<1>2. \A i \in Slot, p \in Int : find(i, p)' <=> find(i, p) BY Zenon DEF find
<1>3. \A i \in Slot : Live(i)' <=> Live(i) BY Zenon DEF Live
<1>4. \A i \in Slot : records_[i].pid \in Int /\ records_[i].parent \in Int
  BY DEF TableInvariant, TypeOK, ProcessRecord
<1>5. TableInvariant' BY Zenon, <1>1, <1>2, <1>4 DEF TableInvariant
<1>6. ExitsKept' BY <1>2 DEF ExitsKept, Pid
<1>7. ParentsAlive' BY <1>2, <1>3, <1>4 DEF ParentsAlive
<1>8. Ground' BY Zenon DEF Ground
<1> QED BY Zenon, <1>5, <1>6, <1>7, <1>8

\* exec wakes the parent it suspended, and only that one.
LEMMA ExecStep == ASSUME IInv, NEW i \in Slot, mark_exec(i) PROVE IInv'
<1> USE DEF IInv
<1>1. records_ \in [Slot -> ProcessRecord] BY Zenon DEF TableInvariant, TypeOK
<1>2. records_'[i] = [records_[i] EXCEPT !.executed = TRUE, !.vfork_parent = 0]
  BY Zenon DEF mark_exec
<1>3. \A j \in Slot : j # i => records_'[j] = VforkWoken(records_[j], records_[i])
  BY Zenon DEF mark_exec
<1>4. \A j \in Slot : j # i =>
        records_'[j] = IF records_[j].state = "vfork_wait"
                            /\ records_[j].pid = records_[i].vfork_parent
                       THEN [records_[j] EXCEPT !.state = "runnable"] ELSE records_[j]
  BY Zenon, <1>3 DEF VforkWoken
<1>5. records_[i].state \in {"runnable", "running"} BY Zenon DEF mark_exec, Calls, runnable
<1>6. Quiet
  <2>1. records_' \in [Slot -> ProcessRecord]
    <3>1. records_'[i] \in ProcessRecord
      <4>1. 0 \in 0..(PidModulus - 1) BY TableAssumption
      <4> QED BY Zenon, <1>1, <1>2, <4>1 DEF ProcessRecord
    <3>2. \A j \in Slot : records_'[j] \in ProcessRecord
      <4>1. "runnable" \in ProcessState BY Zenon DEF ProcessState
      <4>2. \A j \in Slot : [records_[j] EXCEPT !.state = "runnable"] \in ProcessRecord
        BY Zenon, <1>1, <4>1, StateSet
      <4> QED BY Zenon, <1>1, <1>4, <3>1, <4>2
    <3> QED BY Zenon, <3>2 DEF mark_exec
  <2> QED BY <1>1, <1>2, <1>4, <1>5, <2>1
        DEF Quiet, mark_exec, ProcessRecord, TableInvariant, TypeOK
<1>7. SuspensionsEnd'
  <2>1. \A j \in Slot : /\ records_'[j].pid = records_[j].pid
                        /\ records_'[j].parent = records_[j].parent
                        /\ Live(j)' <=> Live(j)
    BY Zenon, <1>6, QuietStep DEF Quiet, Live
  <2>2. \A j \in Slot : j # i => records_'[j].vfork_parent = records_[j].vfork_parent
    BY Zenon, <1>1, <1>4 DEF ProcessRecord
  <2>3. \A j \in Slot : records_'[j].state \in {"vfork_wait", "waiting"} =>
          /\ j # i /\ records_'[j].state = records_[j].state
          /\ records_[j].state = "vfork_wait" => records_[j].pid # records_[i].vfork_parent
    <3>1. records_'[i].state = records_[i].state BY Zenon, <1>1, <1>2 DEF ProcessRecord
    <3>2. "runnable" \in ProcessState BY Zenon DEF ProcessState
    <3>3. \A j \in Slot : [records_[j] EXCEPT !.state = "runnable"].state = "runnable"
      BY Zenon, <1>1, <3>2, StateSet
    <3> QED BY Zenon, <1>4, <1>5, <3>1, <3>3
  <2> QED BY <2>1, <2>2, <2>3 DEF SuspensionsEnd
<1> QED BY Zenon, <1>6, <1>7, QuietStep

\* A call replaces the record in slot i by r, which has the same id, parent and
\* status, and suspends only a process that has a live child.
Own(i, r) ==
  /\ records_' = [records_ EXCEPT ![i] = r]
  /\ r.pid = records_[i].pid /\ r.parent = records_[i].parent
  /\ r.exit_status = records_[i].exit_status
  /\ r.vfork_parent = records_[i].vfork_parent
  /\ r.address_space = records_[i].address_space
  /\ records_[i].process_group # 0 => r.process_group # 0
  /\ records_[i].session # 0 => r.session # 0
  /\ r.state = "free" <=> records_[i].state = "free"
  /\ r.state = "zombie" <=> records_[i].state = "zombie"
  /\ r.state = "vfork_wait" => records_[i].state = "vfork_wait"
  /\ r.state = "waiting" => \/ records_[i].state = "waiting"
                            \/ \E c \in Slot : Live(c) /\ records_[c].parent = r.pid
  /\ UNCHANGED <<next_pid_, current, exited, reaped>>

\* Such a call keeps the invariant.
LEMMA OwnStep ==
  ASSUME IInv, NEW i \in Slot, NEW r \in ProcessRecord, Own(i, r)
  PROVE  IInv'
<1> USE DEF IInv, Own
<1>1. records_ \in [Slot -> ProcessRecord] BY Zenon DEF TableInvariant, TypeOK
<1>2. records_' \in [Slot -> ProcessRecord] BY Zenon, <1>1
<1>3. records_'[i] = r /\ \A j \in Slot : j # i => records_'[j] = records_[j] BY Zenon, <1>1
<1>4. Quiet BY Zenon, <1>1, <1>2, <1>3 DEF Quiet, TableInvariant, TypeOK
<1>5. \A j \in Slot : /\ records_'[j].pid = records_[j].pid
                      /\ records_'[j].parent = records_[j].parent
                      /\ records_'[j].vfork_parent = records_[j].vfork_parent
                      /\ Live(j)' <=> Live(j)
  BY Zenon, <1>3 DEF Live
<1>6. SuspensionsEnd' BY <1>3, <1>5 DEF SuspensionsEnd
<1> QED BY Zenon, <1>4, <1>6, QuietStep


\* stop, resume and a wait that blocks change one state.
LEMMA StateStep ==
  ASSUME IInv, NEW i \in Slot,
         \/ stop(i) \/ resume(i) \/ \E selector \in Waits : wait_block(i, selector)
  PROVE  IInv'
<1>1. records_ \in [Slot -> ProcessRecord] BY Zenon DEF IInv, TableInvariant, TypeOK
<1>2. PICK st \in {"stopped", "runnable", "waiting"} :
        /\ records_' = [records_ EXCEPT ![i] = [records_[i] EXCEPT !.state = st]]
        /\ Live(i)
        /\ st = "waiting" =>
             \E c \in Slot : Live(c) /\ records_[c].parent = records_[i].pid
        /\ UNCHANGED <<next_pid_, current, exited, reaped>>
  <2>1. CASE stop(i) BY Zenon, <2>1 DEF stop
  <2>2. CASE resume(i) BY Zenon, <2>2 DEF resume, Live
  <2>3. CASE \E selector \in Waits : wait_block(i, selector)
    <3>1. PICK selector \in Waits : wait_block(i, selector) BY Zenon, <2>3
    <3>2. PICK c \in Slot : /\ records_[c].state # "free" /\ records_[c].state # "zombie"
                            /\ records_[c].parent = records_[i].pid
      BY Zenon, <3>1 DEF wait_block, Candidates
    <3>3. records_' = [records_ EXCEPT ![i] = [records_[i] EXCEPT !.state = "waiting"]]
      BY Zenon, <3>1 DEF wait_block
    <3>4. Live(i) BY Zenon, <3>1 DEF wait_block, Calls, runnable, Live
    <3>5. UNCHANGED <<next_pid_, current, exited, reaped>> BY Zenon, <3>1 DEF wait_block
    <3> QED BY Zenon, <3>2, <3>3, <3>4, <3>5 DEF Live
  <2> QED BY Zenon, <2>1, <2>2, <2>3
<1> DEFINE r == [records_[i] EXCEPT !.state = st]
<1>3. st \in ProcessState BY Zenon DEF ProcessState
<1>4. /\ r \in ProcessRecord
      /\ r.state = st /\ r.pid = records_[i].pid /\ r.parent = records_[i].parent
      /\ r.process_group = records_[i].process_group /\ r.session = records_[i].session
      /\ r.exit_status = records_[i].exit_status
      /\ r.vfork_parent = records_[i].vfork_parent
      /\ r.address_space = records_[i].address_space
  BY <1>1, <1>3, StateSet
<1> HIDE DEF r
<1>5. records_' = [records_ EXCEPT ![i] = r] BY Zenon, <1>2 DEF r
<1>6. Own(i, r) BY Zenon, <1>2, <1>4, <1>5 DEF Live, Own
<1> QED BY Zenon, <1>4, <1>6, OwnStep

\* setpgid and setsid change the group and the session of one.
LEMMA GroupStep ==
  ASSUME IInv, NEW i \in Slot,
         \/ create_session(i)
         \/ \E t \in Slot : \E g \in Pid : set_process_group(i, t, g)
  PROVE  IInv'
<1>1. records_ \in [Slot -> ProcessRecord] BY Zenon DEF IInv, TableInvariant, TypeOK
<1>2. CASE create_session(i)
  <2> DEFINE r == [records_[i] EXCEPT !.session = records_[i].pid,
                                      !.process_group = records_[i].pid]
  <2>1. records_[i].pid # 0
    BY Zenon, <1>2 DEF create_session, Calls, find, IInv, TableInvariant
  <2>2. /\ r \in ProcessRecord
        /\ r.state = records_[i].state /\ r.pid = records_[i].pid
        /\ r.parent = records_[i].parent
        /\ r.process_group = records_[i].pid /\ r.session = records_[i].pid
        /\ r.exit_status = records_[i].exit_status
        /\ r.vfork_parent = records_[i].vfork_parent
        /\ r.address_space = records_[i].address_space
    BY Zenon, <1>1 DEF ProcessRecord
  <2>3. records_' = [records_ EXCEPT ![i] = r]
    BY Zenon, <1>1, <1>2 DEF create_session, ProcessRecord
  <2> HIDE DEF r
  <2>4. Own(i, r) BY Zenon, <1>2, <2>1, <2>2, <2>3 DEF Own, create_session
  <2> QED BY Zenon, <2>2, <2>4, OwnStep
<1>3. ASSUME NEW t \in Slot, NEW g \in Pid, set_process_group(i, t, g) PROVE IInv'
  <2> DEFINE r == [records_[t] EXCEPT !.process_group = g]
  <2>1. g # 0 /\ g \in 0..(PidModulus - 1) BY DEF Pid
  <2>2. /\ r \in ProcessRecord
        /\ r.state = records_[t].state /\ r.pid = records_[t].pid
        /\ r.parent = records_[t].parent
        /\ r.process_group = g /\ r.session = records_[t].session
        /\ r.exit_status = records_[t].exit_status
        /\ r.vfork_parent = records_[t].vfork_parent
        /\ r.address_space = records_[t].address_space
    BY Zenon, <1>1, <2>1 DEF ProcessRecord
  <2>3. records_' = [records_ EXCEPT ![t] = r] BY Zenon, <1>3 DEF set_process_group
  <2> HIDE DEF r
  <2>4. Own(t, r) BY Zenon, <1>3, <2>1, <2>2, <2>3 DEF Own, set_process_group
  <2> QED BY Zenon, <2>2, <2>4, OwnStep
<1> QED BY Zenon, <1>2, <1>3

\* The dispatcher only chooses who runs.
LEMMA ScheduleStep == ASSUME IInv, schedule \/ idle PROVE IInv'
<1> USE DEF IInv
<1>1. UNCHANGED <<records_, next_pid_, exited, reaped>> BY Zenon DEF schedule, idle
<1>2. current' \in 0..(PidModulus - 1)
  <2>1. 0 \in 0..(PidModulus - 1) BY TableAssumption
  <2> QED BY Zenon, <2>1 DEF schedule, idle, TableInvariant, TypeOK, ProcessRecord
<1>3. Quiet BY Zenon, <1>1, <1>2 DEF Quiet, TableInvariant, TypeOK
<1>4. SuspensionsEnd' BY Zenon, <1>1 DEF SuspensionsEnd, Live
<1> QED BY Zenon, <1>3, <1>4, QuietStep

-----------------------------------------------------------------------------

\* wait collects a zombie: its id leaves the table and is remembered.
LEMMA ReapStep ==
  ASSUME IInv, NEW i \in Slot, NEW selector \in Waits, wait_reap(i, selector)
  PROVE  IInv'
<1> USE DEF IInv
<1>1. PICK c \in Slot :
        /\ records_[c].state = "zombie"
        /\ records_' = [records_ EXCEPT ![c] = Free]
        /\ reaped' = [reaped EXCEPT ![records_[c].pid] = records_[c].exit_status]
  BY Zenon DEF wait_reap, Candidates
<1>2. UNCHANGED <<next_pid_, current, exited>> BY Zenon DEF wait_reap
<1>3. /\ records_ \in [Slot -> ProcessRecord]
      /\ exited \in [Pid -> Status \cup {None}] /\ reaped \in [Pid -> Status \cup {None}]
  BY Zenon DEF TableInvariant, TypeOK
<1> DEFINE p == records_[c].pid
<1>4. p \in Pid /\ records_[c].exit_status \in Status
  BY <1>1, <1>3, TableAssumption DEF TableInvariant, ProcessRecord, Pid
<1>5. /\ Free \in ProcessRecord /\ Free.state = "free" /\ Free.pid = 0
      /\ ~Free.address_space
  BY TableAssumption DEF Free, ProcessRecord, ProcessState
<1>6. \A j \in Slot : records_'[j] = IF j = c THEN Free ELSE records_[j] BY Zenon, <1>1, <1>3
<1>7. \A j \in Slot : j # c => records_[j].state = "free" \/ records_[j].pid # p
  BY Zenon, <1>1 DEF TableInvariant, find
<1>8. \A j \in Slot : Live(j)' <=> Live(j) BY Zenon, <1>1, <1>5, <1>6 DEF Live
<1>9. \A j \in Slot, q \in Int : find(j, q)' <=> (j # c /\ find(j, q))
  BY Zenon, <1>5, <1>6 DEF find
<1>10. \A j \in Slot : records_[j].pid \in Int /\ records_[j].parent \in Int
  BY <1>3 DEF ProcessRecord
<1>11. TableInvariant'
  <2>1. TypeOK' BY Zenon, <1>1, <1>2, <1>3, <1>4, <1>5 DEF TypeOK, TableInvariant
  <2> QED BY <2>1, <1>5, <1>6, <1>9, <1>10 DEF TableInvariant
<1>12. exited[p] = records_[c].exit_status BY Zenon, <1>1 DEF Ground
<1>13. \A q \in Pid : reaped'[q] = IF q = p THEN exited[p] ELSE reaped[q]
  BY Zenon, <1>1, <1>3, <1>4, <1>12
<1>14. ExitsKept'
  <2>1. next_pid_ # 0 => \A j \in Slot : records_'[j].pid < next_pid_
    <3>1. p >= 0 BY <1>4 DEF Pid
    <3>2. next_pid_ \in Int BY DEF TableInvariant, TypeOK
    <3> QED BY <1>4, <1>5, <1>6, <3>1, <3>2, <1>10 DEF ExitsKept
  <2>2. ASSUME NEW q \in Pid, q = p
        PROVE  /\ reaped'[q] = exited[q] /\ reaped'[q] # None
               /\ \A j \in Slot : ~find(j, q)'
    <3>1. records_[c].exit_status # None BY <1>4, TableAssumption DEF None
    <3>2. \A j \in Slot : ~find(j, q)' BY Zenon, <1>4, <1>7, <1>9, <1>10, <2>2 DEF find
    <3> QED BY Zenon, <3>1, <3>2, <2>2, <1>12, <1>13
  <2>3. ASSUME NEW q \in Pid, q # p
        PROVE  /\ reaped'[q] = reaped[q]
               /\ \A j \in Slot : /\ find(j, q)' <=> find(j, q)
                                  /\ find(j, q) => records_'[j] = records_[j]
    BY <1>4, <1>6, <1>9, <1>13, <2>3 DEF find, Pid
  <2>4. ASSUME NEW q \in Pid
        PROVE  /\ reaped'[q] # None => reaped'[q] = exited'[q] /\ \A j \in Slot : ~find(j, q)'
               /\ exited'[q] # None /\ reaped'[q] = None <=>
                    \E j \in Slot : /\ find(j, q)' /\ records_'[j].state = "zombie"
                                    /\ records_'[j].exit_status = exited'[q]
    <3>1. CASE q = p BY Zenon, <3>1, <2>2, <1>2
    <3>2. CASE q # p
      <4>1. /\ reaped[q] # None => reaped[q] = exited[q] /\ \A j \in Slot : ~find(j, q)
            /\ exited[q] # None /\ reaped[q] = None <=>
                 \E j \in Slot : /\ find(j, q) /\ records_[j].state = "zombie"
                                 /\ records_[j].exit_status = exited[q]
        BY Zenon DEF ExitsKept
      <4> QED BY Zenon, <3>2, <4>1, <2>3, <1>2
    <3> QED BY Zenon, <3>1, <3>2
  <2> QED BY Zenon, <2>1, <2>4, <1>2 DEF ExitsKept
<1>15. ParentsAlive'
  <2>1. \A j \in Slot : Live(j) => j # c BY Zenon, <1>1 DEF Live
  <2> QED BY <1>5, <1>6, <1>8, <1>9, <1>10, <2>1 DEF ParentsAlive
<1>16. SuspensionsEnd' 
  <2>1. \A j \in Slot : Live(j) => records_'[j] = records_[j] BY Zenon, <1>1, <1>6 DEF Live
  <2> QED BY <1>5, <1>6, <1>8, <2>1 DEF SuspensionsEnd
<1>17. Ground'
  <2>1. next_pid_ # 0 => p < next_pid_ BY Zenon, <1>4 DEF ExitsKept
  <2>2. next_pid_ # 0 => \A q \in Pid : q >= next_pid_ => reaped'[q] = None
    BY <1>4, <1>13, <2>1 DEF Ground, Pid, TableInvariant, TypeOK
  <2> QED BY Zenon, <2>2, <1>2, <1>5, <1>6 DEF Ground
<1> QED BY Zenon, <1>11, <1>14, <1>15, <1>16, <1>17

\* find, of a record.
Has(r, q) == r.state # "free" /\ r.pid = q

\* fork takes an id nobody has had; vfork suspends the parent on the child.
LEMMA ForkStep ==
  ASSUME IInv, NEW i \in Slot, NEW s \in Slot, NEW vfork \in Forks, fork(i, s, vfork)
  PROVE  IInv'
<1> USE DEF IInv
<1>1. /\ records_ \in [Slot -> ProcessRecord] /\ next_pid_ \in 0..(PidModulus - 1)
      /\ current \in 0..(PidModulus - 1)
      /\ exited \in [Pid -> Status \cup {None}] /\ reaped \in [Pid -> Status \cup {None}]
  BY Zenon DEF TableInvariant, TypeOK
<1>2. UNCHANGED <<current, exited, reaped>> /\ next_pid_' = (next_pid_ + 1) % PidModulus
  BY Zenon DEF fork
<1>3. /\ records_[i].state \in {"runnable", "running"} /\ records_[s].state = "free"
      /\ next_pid_ # 0 /\ i # s
  BY Zenon DEF fork, Calls, find, free_slot, runnable
<1> DEFINE child == [records_[i] EXCEPT
                       !.state = "runnable", !.pid = next_pid_, !.parent = records_[i].pid,
                       !.exit_status = 0, !.executed = FALSE, !.address_space = TRUE,
                       !.vfork_parent = IF vfork THEN records_[i].pid ELSE 0]
           st == IF vfork THEN "vfork_wait" ELSE records_[i].state
           own == [records_[i] EXCEPT !.state = st]
<1>4. /\ child \in ProcessRecord
      /\ child.state = "runnable" /\ child.pid = next_pid_ /\ child.parent = records_[i].pid
      /\ child.process_group = records_[i].process_group
      /\ child.session = records_[i].session
      /\ child.vfork_parent = IF vfork THEN records_[i].pid ELSE 0
  <2>1. records_[i] \in ProcessRecord BY Zenon, <1>1
  <2>3. 0 \in 0..(PidModulus - 1) /\ records_[i].pid \in 0..(PidModulus - 1)
    BY <2>1, TableAssumption DEF ProcessRecord
  <2> DEFINE w == IF vfork THEN records_[i].pid ELSE 0
  <2>4. w \in 0..(PidModulus - 1) BY Zenon, <2>3
  <2> HIDE DEF w
  <2>5. child = [records_[i] EXCEPT
                   !.state = "runnable", !.pid = next_pid_, !.parent = records_[i].pid,
                   !.exit_status = 0, !.executed = FALSE, !.address_space = TRUE,
                   !.vfork_parent = w]
    BY Zenon DEF w
  <2> HIDE DEF child
  <2>6. /\ child \in ProcessRecord
        /\ child.state = "runnable" /\ child.pid = next_pid_ /\ child.parent = records_[i].pid
        /\ child.process_group = records_[i].process_group
        /\ child.session = records_[i].session
        /\ child.vfork_parent = w
    BY Zenon, <1>1, <2>1, <2>3, <2>4, <2>5, TableAssumption DEF ProcessRecord, ProcessState
  <2> QED BY Zenon, <2>6 DEF w
<1>5. /\ own \in ProcessRecord
      /\ own.state = st /\ own.pid = records_[i].pid /\ own.parent = records_[i].parent
      /\ own.process_group = records_[i].process_group
      /\ own.session = records_[i].session
      /\ own.vfork_parent = records_[i].vfork_parent
  <2>1. st \in ProcessState BY Zenon, <1>3 DEF ProcessState
  <2>2. records_[i] \in ProcessRecord BY Zenon, <1>1
  <2> HIDE DEF st
  <2> QED BY Zenon, <2>1, <2>2, StateSet
<1>6. records_' = [records_ EXCEPT ![s] = child, ![i] = own]
  BY Zenon, <1>1, <1>3 DEF fork
<1> HIDE DEF child, own
<1>7. \A j \in Slot : records_'[j] = IF j = s THEN child ELSE IF j = i THEN own ELSE records_[j]
  BY Zenon, <1>1, <1>3, <1>6
<1>8. \A j \in Slot : j # s => /\ records_'[j].pid = records_[j].pid
                               /\ records_'[j].parent = records_[j].parent
                               /\ records_'[j].vfork_parent = records_[j].vfork_parent
                               /\ records_'[j].state = "free" <=> records_[j].state = "free"
                               /\ Live(j)' <=> Live(j)
  BY Zenon, <1>3, <1>5, <1>7 DEF Live
<1>9. \A j \in Slot : records_[j].pid \in 0..(PidModulus - 1)
                      /\ records_[j].parent \in 0..(PidModulus - 1)
  BY Zenon, <1>1 DEF ProcessRecord
<1>10. \A j \in Slot : records_[j].pid < next_pid_ BY Zenon, <1>3 DEF ExitsKept
<1>11. \A j \in Slot, q \in Int :
         /\ find(j, q)' <=> Has(records_'[j], q)
         /\ Has(records_'[j], q) <=> IF j = s THEN q = next_pid_ ELSE find(j, q)
  BY Zenon, <1>4, <1>7, <1>8 DEF find, Has
<1>12. records_[i].pid # 0 /\ records_[i].process_group # 0 /\ records_[i].session # 0
  BY Zenon, <1>3 DEF TableInvariant
<1>13. \A j \in Slot : ~find(j, next_pid_) BY <1>9, <1>10 DEF find
<1>14. TableInvariant'
  <2>1. TypeOK'
    <3>1. (next_pid_ + 1) % PidModulus \in 0..(PidModulus - 1) BY <1>1, TableAssumption
    <3>2. records_' \in [Slot -> ProcessRecord] BY Zenon, <1>1, <1>4, <1>5, <1>6
    <3> QED BY Zenon, <1>1, <1>2, <3>1, <3>2 DEF TypeOK
  <2>2. ASSUME NEW j \in Slot
        PROVE  IF records_'[j].state = "free"
               THEN records_'[j].pid = 0 /\ ~records_'[j].address_space
               ELSE /\ records_'[j].pid # 0 /\ records_'[j].process_group # 0
                    /\ records_'[j].session # 0
                    /\ records_'[j].state = "zombie" => ~records_'[j].address_space
                    /\ \A l \in Slot : l # j => ~Has(records_'[l], records_'[j].pid)
    <3>1. CASE j = s
      <4>1. \A l \in Slot : l # s => ~Has(records_'[l], next_pid_)
        BY <1>1, <1>11, <1>13
      <4> QED BY Zenon, <1>3, <1>4, <1>7, <1>12, <3>1, <4>1
    <3>2. CASE j = i
      <4>1. \A l \in Slot : l # i => ~find(l, records_[i].pid) 
        BY Zenon, <1>3 DEF TableInvariant
      <4>2. \A l \in Slot : l # i => ~Has(records_'[l], records_[i].pid)
        BY <1>1, <1>9, <1>10, <1>11, <4>1
      <4>3. own.state \notin {"free", "zombie"} BY Zenon, <1>3, <1>5
      <4> QED BY Zenon, <1>3, <1>5, <1>7, <1>12, <3>2, <4>2, <4>3
    <3>3. CASE j # i /\ j # s
      <4>1. records_'[j] = records_[j] BY Zenon, <1>7, <3>3
      <4>2. records_[j].state # "free" =>
              \A l \in Slot : l # j => ~Has(records_'[l], records_[j].pid)
        <5>1. records_[j].state # "free" =>
                \A l \in Slot : l # j => ~find(l, records_[j].pid)
          BY Zenon DEF TableInvariant
        <5> QED BY <5>1, <1>1, <1>9, <1>10, <1>11
      <4> QED BY Zenon, <4>1, <4>2 DEF TableInvariant
    <3> QED BY Zenon, <3>1, <3>2, <3>3
  <2> QED BY Zenon, <2>1, <2>2 DEF TableInvariant, find, Has
<1>15. next_pid_' # 0 => next_pid_' = next_pid_ + 1
  BY <1>1, <1>2, TableAssumption
<1>16. next_pid_ \in Pid /\ reaped[next_pid_] = None /\ next_pid_ > 1
  <2>1. next_pid_ \in Pid BY <1>1, <1>3 DEF Pid
  <2> QED BY <2>1, <1>1, <1>3 DEF Ground, Pid
<1>17. ExitsKept'
  <2>1. next_pid_' # 0 => \A j \in Slot : records_'[j].pid < next_pid_'
    BY <1>1, <1>4, <1>5, <1>7, <1>9, <1>10, <1>15
  <2>2. exited[next_pid_] = None BY Zenon, <1>13, <1>16 DEF ExitsKept
  <2>3. ASSUME NEW q \in Pid
        PROVE  /\ reaped'[q] # None => reaped'[q] = exited'[q] /\ \A j \in Slot : ~find(j, q)'
               /\ exited'[q] # None /\ reaped'[q] = None <=>
                    \E j \in Slot : /\ find(j, q)' /\ records_'[j].state = "zombie"
                                    /\ records_'[j].exit_status = exited'[q]
    <3>1. /\ reaped[q] # None => reaped[q] = exited[q] /\ \A j \in Slot : ~find(j, q)
          /\ exited[q] # None /\ reaped[q] = None <=>
               \E j \in Slot : /\ find(j, q) /\ records_[j].state = "zombie"
                               /\ records_[j].exit_status = exited[q]
      BY Zenon DEF ExitsKept
    <3>2. q \in Int BY DEF Pid
    <3>3. CASE q = next_pid_
      <4>1. \A j \in Slot : find(j, q)' => j = s BY Zenon, <3>2, <3>3, <1>11, <1>13
      <4>2. records_'[s].state # "zombie" BY Zenon, <1>4, <1>7
      <4> QED BY Zenon, <1>2, <1>16, <2>2, <3>3, <4>1, <4>2
    <3>4. CASE q # next_pid_
      <4>1. \A j \in Slot : find(j, q)' => j # s /\ find(j, q) BY Zenon, <3>2, <3>4, <1>11
      <4>2. \A j \in Slot : find(j, q) => j # s /\ find(j, q)'
        BY Zenon, <3>2, <3>4, <1>3, <1>11 DEF find
      <4>3. \A j \in Slot : j # s =>
              /\ records_'[j].state = "zombie" <=> records_[j].state = "zombie"
              /\ records_'[j].state = "zombie" =>
                   records_'[j].exit_status = records_[j].exit_status
        BY Zenon, <1>3, <1>5, <1>7
      <4> QED BY Zenon, <1>2, <3>1, <4>1, <4>2, <4>3
    <3> QED BY Zenon, <3>3, <3>4
  <2> QED BY Zenon, <2>1, <2>3 DEF ExitsKept
<1>18. ParentsAlive'
  <2> SUFFICES ASSUME \E z \in Slot : find(z, 1)' /\ Live(z)',
                      NEW j \in Slot, records_'[j].pid > 1
               PROVE  \E l \in Slot : Live(l)' /\ Has(records_'[l], records_'[j].parent)
    BY Zenon DEF ParentsAlive, find, Has
  <2>1. \E z \in Slot : find(z, 1) /\ Live(z) BY <1>8, <1>11, <1>16
  <2>2. PICK l \in Slot : Live(l) /\ Has(records_[l], records_'[j].parent)
    <3>1. CASE j = s BY Zenon, <1>3, <1>4, <1>7, <3>1 DEF Live, Has
    <3>2. CASE j # s BY <2>1, <3>2, <1>8 DEF ParentsAlive, find, Has
    <3> QED BY Zenon, <3>1, <3>2
  <2>3. l # s BY Zenon, <2>2, <1>3 DEF Live
  <2>4. records_'[j].parent \in Int BY <1>4, <1>7, <1>8, <1>9
  <2> QED BY Zenon, <2>2, <2>3, <2>4, <1>8, <1>11 DEF find, Has
<1>19. SuspensionsEnd'
  <2>1. \A c \in Slot : Live(c) => c # s BY Zenon, <1>3 DEF Live
  <2>2. \A j \in Slot : records_'[j].state \in {"vfork_wait", "waiting"} =>
          \/ j # s /\ records_'[j].state = records_[j].state
          \/ j = i /\ vfork /\ records_'[j].state = "vfork_wait"
    BY Zenon, <1>3, <1>4, <1>5, <1>7
  <2>3. vfork => Live(s)' /\ records_'[s].vfork_parent = records_[i].pid
    BY Zenon, <1>4, <1>7 DEF Live
  <2> QED BY <1>3, <1>8, <2>1, <2>2, <2>3 DEF SuspensionsEnd
<1>20. Ground'
  <2>1. next_pid_' # 1 BY <1>15, <1>1, <1>3
  <2>2. next_pid_' # 0 => \A q \in Pid : q >= next_pid_' => reaped'[q] = None
    BY <1>1, <1>2, <1>3, <1>15 DEF Ground, Pid
  <2>3. \A j \in Slot : records_'[j].state # "free" =>
          /\ records_'[j].parent # records_'[j].pid
          /\ records_'[j].pid = 1 => records_'[j].parent = 0
    BY <1>1, <1>4, <1>7, <1>8, <1>9, <1>10, <1>16 DEF Ground
  <2>4. \A j \in Slot : records_'[j].state = "zombie" => records_'[j] = records_[j]
    BY Zenon, <1>3, <1>4, <1>5, <1>7
  <2> QED BY Zenon, <1>2, <2>1, <2>2, <2>3, <2>4 DEF Ground
<1> QED BY Zenon, <1>14, <1>17, <1>18, <1>19, <1>20

\* exit wakes the parent, gives the children to the first process and keeps the
\* status.
LEMMA ExitStep ==
  ASSUME IInv, NEW i \in Slot, NEW status \in Status, exit(i, status)
  PROVE  IInv'
<1> USE DEF IInv
<1>1. /\ records_ \in [Slot -> ProcessRecord] /\ next_pid_ \in 0..(PidModulus - 1)
      /\ current \in 0..(PidModulus - 1)
      /\ exited \in [Pid -> Status \cup {None}] /\ reaped \in [Pid -> Status \cup {None}]
  BY Zenon DEF TableInvariant, TypeOK
<1> DEFINE me == records_[i]
           p == records_[i].pid
           heir == adopter(p)
<1>2. /\ Live(i) /\ UNCHANGED <<next_pid_, current, reaped>>
      /\ exited' = [exited EXCEPT ![p] = status]
  BY Zenon DEF exit
<1>3. p \in Pid /\ \A j \in Slot : j # i => ~find(j, p)
  BY <1>1, <1>2 DEF TableInvariant, ProcessRecord, Pid, Live
<1>4. heir \in 0..(PidModulus - 1) /\ heir \in {0, 1}
  BY TableAssumption DEF adopter
<1> DEFINE Woken(j) == \/ records_[j].state = "vfork_wait" /\ records_[j].pid = me.vfork_parent
                       \/ records_[j].state = "waiting" /\ records_[j].pid = me.parent
           Orphan(j) == records_[j].state # "free" /\ records_[j].parent = p
<1>5. /\ records_' \in [Slot -> ProcessRecord]
      /\ \A j \in Slot :
           /\ records_'[j].pid = records_[j].pid
           /\ records_'[j].process_group = records_[j].process_group
           /\ records_'[j].session = records_[j].session
           /\ records_'[j].parent = IF Orphan(j) THEN heir ELSE records_[j].parent
           /\ j # i => /\ records_'[j].state = IF Woken(j) THEN "runnable" ELSE records_[j].state
                       /\ records_'[j].exit_status = records_[j].exit_status
                       /\ records_'[j].vfork_parent = records_[j].vfork_parent
                       /\ records_'[j].address_space = records_[j].address_space
      /\ records_'[i].state = "zombie" /\ records_'[i].exit_status = status
      /\ ~records_'[i].address_space
  <2> DEFINE dead == [me EXCEPT !.state = "zombie", !.exit_status = status,
                                !.address_space = FALSE, !.vfork_parent = 0]
             woken(j) == WaiterWoken(VforkWoken(records_[j], me), me)
             next(j) == IF j = i THEN dead ELSE woken(j)
  <2>1. /\ dead \in ProcessRecord
        /\ dead.pid = p /\ dead.process_group = me.process_group
        /\ dead.session = me.session /\ dead.parent = me.parent
        /\ dead.state = "zombie" /\ dead.exit_status = status /\ ~dead.address_space
    <3>1. 0 \in 0..(PidModulus - 1) BY TableAssumption
    <3> QED BY <1>1, <3>1, ZenonT(60) DEF ProcessRecord, ProcessState
  <2>2. ASSUME NEW j \in Slot
        PROVE  /\ woken(j) \in ProcessRecord
               /\ woken(j).pid = records_[j].pid
               /\ woken(j).process_group = records_[j].process_group
               /\ woken(j).session = records_[j].session
               /\ woken(j).parent = records_[j].parent
               /\ woken(j).state = IF Woken(j) THEN "runnable" ELSE records_[j].state
               /\ woken(j).exit_status = records_[j].exit_status
               /\ woken(j).vfork_parent = records_[j].vfork_parent
               /\ woken(j).address_space = records_[j].address_space
    <3>1. records_[j] \in ProcessRecord BY Zenon, <1>1
    <3>2. woken(j) = IF Woken(j) THEN [records_[j] EXCEPT !.state = "runnable"]
                     ELSE records_[j]
      BY Zenon, <3>1 DEF WaiterWoken, VforkWoken, ProcessRecord
    <3>3. "runnable" \in ProcessState BY Zenon DEF ProcessState
    <3> HIDE DEF woken, Woken
    <3>4. CASE Woken(j) BY <3>1, <3>2, <3>3, <3>4, StateSet
    <3>5. CASE ~Woken(j) BY Zenon, <3>1, <3>2, <3>5
    <3> QED BY Zenon, <3>4, <3>5
  <2>3. \A j \in Slot : next(j) \in ProcessRecord BY Zenon, <2>1, <2>2
  <2>4. \A j \in Slot : (next(j).state # "free") <=> (records_[j].state # "free")
    BY Zenon, <1>2, <2>1, <2>2 DEF Live
  <2>5. ASSUME NEW r \in ProcessRecord
        PROVE  /\ reparent_children(r, p) \in ProcessRecord
               /\ reparent_children(r, p).parent =
                    IF r.state # "free" /\ r.parent = p THEN heir ELSE r.parent
               /\ reparent_children(r, p).state = r.state
               /\ reparent_children(r, p).pid = r.pid
               /\ reparent_children(r, p).process_group = r.process_group
               /\ reparent_children(r, p).session = r.session
               /\ reparent_children(r, p).exit_status = r.exit_status
               /\ reparent_children(r, p).vfork_parent = r.vfork_parent
               /\ reparent_children(r, p).address_space = r.address_space
    <3> HIDE DEF heir
    <3>1. reparent_children(r, p) = IF r.state # "free" /\ r.parent = p
                                    THEN [r EXCEPT !.parent = heir] ELSE r
      BY Zenon DEF reparent_children, heir
    <3> QED BY Zenon, <1>4, <2>5, <3>1 DEF ProcessRecord
  <2>6. records_' = [j \in Slot |-> reparent_children(next(j), p)] BY Zenon DEF exit
  <2> HIDE DEF dead, woken, Woken, heir
  <2>7. next(i) = dead /\ \A j \in Slot : j # i => next(j) = woken(j) BY Zenon
  <2> HIDE DEF next
  <2>8. \A j \in Slot : records_'[j] = reparent_children(next(j), p) BY Zenon, <2>6
  <2>9. records_' \in [Slot -> ProcessRecord] BY Zenon, <2>3, <2>5, <2>6
  <2>10. \A j \in Slot : next(j).parent = records_[j].parent BY Zenon, <2>1, <2>2, <2>7
  <2> QED BY <2>1, <2>2, <2>3, <2>4, <2>5, <2>7, <2>8, <2>9, <2>10
<1> HIDE DEF heir
<1>6. \A j \in Slot : j # i => (Live(j)' <=> Live(j))
  BY Zenon, <1>5 DEF Live
<1>7. ~Live(i)' BY Zenon, <1>5 DEF Live
<1>8. \A j \in Slot : (records_'[j].state = "free") <=> (records_[j].state = "free")
  BY Zenon, <1>2, <1>5 DEF Live
<1>9. \A j \in Slot, q \in Int : find(j, q)' <=> find(j, q) BY Zenon, <1>5, <1>8 DEF find
<1>10. \A j \in Slot : records_[j].pid \in 0..(PidModulus - 1)
                       /\ records_[j].parent \in 0..(PidModulus - 1)
  BY Zenon, <1>1 DEF ProcessRecord
<1>11. \A j \in Slot : j # i => ((records_'[j].state = "zombie") <=> (records_[j].state = "zombie"))
  BY Zenon, <1>5
<1>12. TableInvariant'
  <2>1. TypeOK' BY Zenon, <1>1, <1>2, <1>3, <1>5 DEF TypeOK
  <2>2. \A j \in Slot :
          IF records_[j].state = "free" THEN records_[j].pid = 0 /\ ~records_[j].address_space
          ELSE /\ records_[j].pid # 0 /\ records_[j].process_group # 0
               /\ records_[j].session # 0
               /\ records_[j].state = "zombie" => ~records_[j].address_space
               /\ \A l \in Slot : l # j => ~Has(records_[l], records_[j].pid)
    BY Zenon DEF TableInvariant, find, Has
  <2>3. \A l, j \in Slot : Has(records_'[l], records_'[j].pid) <=> Has(records_[l], records_[j].pid)
    BY Zenon, <1>5, <1>8 DEF Has
  <2>4. \A j \in Slot :
          /\ records_'[j].pid = records_[j].pid
          /\ records_'[j].process_group = records_[j].process_group
          /\ records_'[j].session = records_[j].session
          /\ records_'[j].state \in {"free", "zombie"} =>
               ~records_'[j].address_space
    <3>1. CASE records_[i].state # "free" /\ records_[i].state # "zombie"
      BY Zenon, <3>1, <2>2, <1>5, <1>8, <1>11
    <3> QED BY Zenon, <3>1, <1>2 DEF Live
  <2>5. \A j \in Slot :
          IF records_'[j].state = "free" THEN records_'[j].pid = 0 /\ ~records_'[j].address_space
          ELSE /\ records_'[j].pid # 0 /\ records_'[j].process_group # 0
               /\ records_'[j].session # 0
               /\ records_'[j].state = "zombie" => ~records_'[j].address_space
               /\ \A l \in Slot : l # j => ~Has(records_'[l], records_'[j].pid)
    BY <2>2, <2>3, <2>4, <1>8
  <2> QED BY Zenon, <2>1, <2>5 DEF TableInvariant, find, Has
<1>13. reaped[p] = None BY Zenon, <1>2, <1>3 DEF ExitsKept, find, Live
<1>14. status # None BY TableAssumption DEF None
<1>15. \A q \in Pid : exited'[q] = IF q = p THEN status ELSE exited[q] BY Zenon, <1>1, <1>2, <1>3
<1>16. ExitsKept'
  <2>1. next_pid_' # 0 => \A j \in Slot : records_'[j].pid < next_pid_'
    BY Zenon, <1>2, <1>5 DEF ExitsKept
  <2>2. ASSUME NEW q \in Pid
        PROVE  /\ reaped'[q] # None => reaped'[q] = exited'[q] /\ \A j \in Slot : ~find(j, q)'
               /\ exited'[q] # None /\ reaped'[q] = None <=>
                    \E j \in Slot : /\ find(j, q)' /\ records_'[j].state = "zombie"
                                    /\ records_'[j].exit_status = exited'[q]
    <3>1. /\ reaped[q] # None => reaped[q] = exited[q] /\ \A j \in Slot : ~find(j, q)
          /\ exited[q] # None /\ reaped[q] = None <=>
               \E j \in Slot : /\ find(j, q) /\ records_[j].state = "zombie"
                               /\ records_[j].exit_status = exited[q]
      BY Zenon DEF ExitsKept
    <3>2. q \in Int BY DEF Pid
    <3>3. CASE q = p
      <4>1. find(i, q)' BY Zenon, <1>2, <1>9, <3>2, <3>3 DEF find, Live
      <4> QED BY Zenon, <1>2, <1>5, <1>13, <1>14, <1>15, <3>3, <4>1
    <3>4. CASE q # p
      <4>1. \A j \in Slot : find(j, q) => j # i BY Zenon, <3>4 DEF find
      <4> QED BY <1>2, <1>5, <1>9, <1>11, <1>15, <3>1, <3>2, <3>4, <4>1
    <3> QED BY Zenon, <3>3, <3>4
  <2> QED BY Zenon, <2>1, <2>2 DEF ExitsKept
<1>17. ParentsAlive'
  <2> SUFFICES ASSUME NEW z \in Slot, find(z, 1)', Live(z)',
                      NEW j \in Slot, records_'[j].pid > 1
               PROVE  \E l \in Slot : Live(l)' /\ Has(records_'[l], records_'[j].parent)
    BY Zenon DEF ParentsAlive, find, Has
  <2>1. z # i /\ Live(z) /\ find(z, 1) BY <1>6, <1>7, <1>9
  <2>2. p # 1 BY Zenon, <2>1, <1>2 DEF TableInvariant, find, Live
  <2>3. CASE Orphan(j)
    <3>1. heir = 1 BY Zenon, <2>1, <2>2 DEF heir, adopter
    <3> QED BY Zenon, <2>3, <3>1, <1>5 DEF find, Has
  <2>4. CASE ~Orphan(j)
    <3>1. records_'[j].parent = records_[j].parent /\ records_[j].pid > 1 BY Zenon, <2>4, <1>5
    <3>2. records_[j].state # "free" BY <3>1, <1>10 DEF TableInvariant
    <3>3. PICK l \in Slot : Live(l) /\ find(l, records_[j].parent)
      BY Zenon, <2>1, <3>1 DEF ParentsAlive
    <3>4. l # i BY Zenon, <2>4, <3>2, <3>3 DEF find
    <3> QED BY Zenon, <3>1, <3>3, <3>4, <1>5, <1>6, <1>8 DEF find, Has
  <2> QED BY Zenon, <2>3, <2>4
<1>18. SuspensionsEnd'
  <2>1. \A j \in Slot : records_'[j].state \in {"vfork_wait", "waiting"} =>
          /\ j # i /\ records_'[j].state = records_[j].state
          /\ records_[j].state = "vfork_wait" => records_[j].pid # me.vfork_parent
          /\ records_[j].state = "waiting" => records_[j].pid # me.parent
    BY Zenon, <1>5
  <2>2. \A j \in Slot : j # i /\ records_[j].state # "free" => records_[j].pid # p
    BY Zenon, <1>3 DEF find
  <2>3. \A c, j \in Slot : /\ j # i /\ records_[j].state # "free"
                           /\ records_[c].parent = records_[j].pid
                           => records_'[c].parent = records_[j].pid
    BY Zenon, <1>5, <2>2
  <2>4. \A c \in Slot : c # i => records_'[c].vfork_parent = records_[c].vfork_parent
    BY Zenon, <1>5
  <2>5. \A j \in Slot : records_'[j].pid = records_[j].pid BY Zenon, <1>5
  <2> QED BY <1>6, <2>1, <2>3, <2>4, <2>5 DEF SuspensionsEnd
<1>19. Ground'
  <2>1. \A j \in Slot : records_'[j].state # "free" =>
          /\ records_'[j].parent # records_'[j].pid
          /\ records_'[j].pid = 1 => records_'[j].parent = 0
    <3>1. p # 0 BY <1>3 DEF Pid
    <3>2. \A j \in Slot : records_[j].state # "free" =>
            /\ records_[j].pid # 0 /\ records_[j].parent # records_[j].pid
            /\ records_[j].pid = 1 => records_[j].parent = 0
      BY Zenon DEF Ground, TableInvariant
    <3> QED BY <1>4, <1>5, <1>8, <3>1, <3>2
  <2>2. ASSUME NEW j \in Slot, records_'[j].state = "zombie"
        PROVE  exited'[records_'[j].pid] = records_'[j].exit_status
    <3>1. CASE j = i BY Zenon, <3>1, <1>3, <1>5, <1>15
    <3>2. CASE j # i
      <4>1. records_[j].state = "zombie" BY Zenon, <2>2, <3>2, <1>11
      <4>2. records_[j].pid # p BY Zenon, <4>1, <3>2, <1>3 DEF find
      <4>3. records_[j].pid \in Pid BY <4>1, <1>10 DEF TableInvariant, Pid
      <4> QED BY <3>2, <4>1, <4>2, <4>3, <1>5, <1>15 DEF Ground
    <3> QED BY Zenon, <3>1, <3>2
  <2> QED BY Zenon, <2>1, <2>2, <1>2 DEF Ground
<1> QED BY Zenon, <1>12, <1>16, <1>17, <1>18, <1>19

-----------------------------------------------------------------------------

\* Every step keeps the invariant.
LEMMA StepInv == IInv /\ [Next]_vars => IInv'
<1> SUFFICES ASSUME IInv, [Next]_vars PROVE IInv' BY Zenon
<1>1. ASSUME NEW i \in Slot, NEW s \in Slot, NEW vfork \in Forks, fork(i, s, vfork)
      PROVE  IInv'
  BY Zenon, <1>1, ForkStep
<1>2. ASSUME NEW i \in Slot, mark_exec(i) PROVE IInv' BY Zenon, <1>2, ExecStep
<1>3. ASSUME NEW i \in Slot,
             \/ stop(i) \/ resume(i) \/ \E selector \in Waits : wait_block(i, selector)
      PROVE  IInv'
  BY Zenon, <1>3, StateStep
<1>4. ASSUME NEW i \in Slot,
             \/ create_session(i)
             \/ \E t \in Slot : \E g \in Pid : set_process_group(i, t, g)
      PROVE  IInv'
  BY Zenon, <1>4, GroupStep
<1>5. ASSUME NEW i \in Slot, NEW status \in Status, exit(i, status) PROVE IInv'
  BY Zenon, <1>5, ExitStep
<1>6. ASSUME NEW i \in Slot, NEW selector \in Waits, wait_reap(i, selector) PROVE IInv'
  BY Zenon, <1>6, ReapStep
<1>7. CASE schedule \/ idle BY Zenon, <1>7, ScheduleStep
<1>8. CASE UNCHANGED vars
  BY <1>8 DEF vars, IInv, TableInvariant, TypeOK, ExitsKept, ParentsAlive,
              SuspensionsEnd, Ground, find, Live
<1> QED BY Zenon, <1>1, <1>2, <1>3, <1>4, <1>5, <1>6, <1>7, <1>8 DEF Next

\* The invariant holds in every reachable state.
LEMMA InvHolds == Spec => []IInv
BY InitInv, StepInv, PTL DEF Spec

\* Whatever the capacity, the ids and the workload, the table always passes its
\* own invariant(): records used and free are told apart and no two processes
\* have one id.
THEOREM TableSound == Spec => []TableInvariant
<1>1. IInv => TableInvariant BY Zenon DEF IInv
<1> QED BY <1>1, InvHolds, PTL

\* No id is given out twice, no exit status is lost, changed or collected twice,
\* in any order of fork, exit, orphaning and wait.
THEOREM NoExitLost == Spec => []ExitsKept
<1>1. IInv => ExitsKept BY Zenon DEF IInv
<1> QED BY <1>1, InvHolds, PTL

\* While the first process lives, exit leaves every other process, running or
\* exited, with a live parent to collect it.
THEOREM NoOrphanStranded == Spec => []ParentsAlive
<1>1. IInv => ParentsAlive BY Zenon DEF IInv
<1> QED BY <1>1, InvHolds, PTL

\* Whoever vfork or wait suspends has a live child whose exec or exit will wake
\* them: no sequence of calls and signals leaves a process asleep for ever for
\* want of one.
THEOREM SuspendedHaveWaker == Spec => []SuspensionsEnd
<1>1. IInv => SuspensionsEnd BY Zenon DEF IInv
<1> QED BY <1>1, InvHolds, PTL

=============================================================================
