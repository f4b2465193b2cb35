---------------------------- MODULE ProcessTable ----------------------------
(***************************************************************************)
(* The bounded process table (include/mikos/process/model.hpp): records    *)
(* in a fixed array, process ids that are never reused, vfork suspension,  *)
(* blocking wait, zombies, orphans, process groups and sessions.           *)
(*                                                                         *)
(* current is the process that next_runnable last returned: it makes the   *)
(* calls a process makes for itself.  Signals stop, resume or end any      *)
(* process at any time.  exited and reaped are history variables: the      *)
(* status each process exited with and the parent that collected it.       *)
(* A call that only returns an error changes nothing and is a stuttering   *)
(* step.                                                                   *)
(***************************************************************************)
EXTENDS Integers, FiniteSets

CONSTANTS
  Capacity,
  PidModulus,       \* 2^32 in the code
  Status,           \* exit statuses
  Forks,            \* workload: fork (FALSE), vfork (TRUE) or both
  Waits,            \* workload: the selectors of wait
  Signalled         \* workload: processes that are stopped and resumed

ASSUME TableAssumption ==
  /\ Capacity \in Nat \ {0, 1} /\ PidModulus \in Nat \ {0, 1, 2}
  /\ 0 \in Status /\ Status \subseteq Nat
  /\ Forks \subseteq BOOLEAN

VARIABLES records_, next_pid_, current, exited, reaped

vars == <<records_, next_pid_, current, exited, reaped>>

Slot == 0..(Capacity - 1)

Pid == 1..(PidModulus - 1)

None == -1

ProcessState ==
  {"free", "runnable", "running", "waiting", "vfork_wait", "stopped", "zombie"}

ProcessRecord ==
  [state : ProcessState, pid : 0..(PidModulus - 1), parent : 0..(PidModulus - 1),
   process_group : 0..(PidModulus - 1), session : 0..(PidModulus - 1),
   exit_status : Status, vfork_parent : 0..(PidModulus - 1),
   executed : BOOLEAN, address_space : BOOLEAN]

Free ==
  [state |-> "free", pid |-> 0, parent |-> 0, process_group |-> 0, session |-> 0,
   exit_status |-> 0, vfork_parent |-> 0, executed |-> FALSE, address_space |-> FALSE]

Selector ==
  [kind : {"any"}, value : {0}] \cup [kind : {"pid"}, value : Pid]
    \cup [kind : {"process_group"}, value : {0} \cup Pid]

\* After initialize: process 1 runs in slot 0.
Init ==
  /\ records_ = [i \in Slot |->
       IF i = 0
       THEN [Free EXCEPT !.state = "running", !.pid = 1, !.process_group = 1,
                         !.session = 1, !.address_space = TRUE]
       ELSE Free]
  /\ next_pid_ = 2
  /\ current = 1
  /\ exited = [p \in Pid |-> None]
  /\ reaped = [p \in Pid |-> None]

-----------------------------------------------------------------------------

\* find(pid) returns the record in slot i.
find(i, pid) == records_[i].state # "free" /\ records_[i].pid = pid

runnable(state) == state \in {"runnable", "running"}

Live(i) == records_[i].state \notin {"free", "zombie"}

\* The process in slot i is executing and may make a call.
Calls(i) == find(i, current) /\ runnable(records_[i].state)

\* Mutant: the record of a process that exited counts as free.
TakesZombies(i) ==
  /\ records_[i].state \in {"free", "zombie"}
  /\ \A j \in 0..(i - 1) : records_[j].state \notin {"free", "zombie"}

\* free_slot takes the lowest one.
free_slot(i) == records_[i].state = "free" /\ \A j \in 0..(i - 1) : records_[j].state # "free"

\* Mutant: the child of a vfork does not remember whom it suspends.
ForgetsVfork(i, s, vfork) ==
  /\ Calls(i) /\ free_slot(s) /\ next_pid_ # 0
  /\ records_' = [records_ EXCEPT
       ![s] = [records_[i] EXCEPT
                 !.state = "runnable", !.pid = next_pid_, !.parent = records_[i].pid,
                 !.exit_status = 0, !.executed = FALSE, !.address_space = TRUE],
       ![i].state = IF vfork THEN "vfork_wait" ELSE @]
  /\ next_pid_' = (next_pid_ + 1) % PidModulus
  /\ UNCHANGED <<current, exited, reaped>>

\* fork refuses when the table is full or the ids have run out.
fork(i, s, vfork) ==
  /\ Calls(i) /\ free_slot(s) /\ next_pid_ # 0
  /\ records_' = [records_ EXCEPT
       ![s] = [records_[i] EXCEPT
                 !.state = "runnable", !.pid = next_pid_, !.parent = records_[i].pid,
                 !.exit_status = 0, !.executed = FALSE, !.address_space = TRUE,
                 !.vfork_parent = IF vfork THEN records_[i].pid ELSE 0],
       ![i].state = IF vfork THEN "vfork_wait" ELSE @]
  /\ next_pid_' = (next_pid_ + 1) % PidModulus
  /\ UNCHANGED <<current, exited, reaped>>

\* wake_vfork_parent, seen from the record r that may be the parent.
VforkWoken(r, child) ==
  IF r.state = "vfork_wait" /\ r.pid = child.vfork_parent
  THEN [r EXCEPT !.state = "runnable"] ELSE r

mark_exec(i) ==
  /\ Calls(i)
  /\ records_' = [j \in Slot |->
       IF j = i THEN [records_[i] EXCEPT !.executed = TRUE, !.vfork_parent = 0]
       ELSE VforkWoken(records_[j], records_[i])]
  /\ UNCHANGED <<next_pid_, current, exited, reaped>>

\* A parent blocked in wait becomes runnable.
WaiterWoken(r, child) ==
  IF r.state = "waiting" /\ r.pid = child.parent
  THEN [r EXCEPT !.state = "runnable"] ELSE r

adopter(exiting) == IF exiting # 1 /\ \E j \in Slot : find(j, 1) THEN 1 ELSE 0

\* Mutant: children that have exited already stay with the dead parent.
ReparentsLive(r, exiting) ==
  IF r.state \notin {"free", "zombie"} /\ r.parent = exiting
  THEN [r EXCEPT !.parent = adopter(exiting)] ELSE r

reparent_children(r, exiting) ==
  IF r.state # "free" /\ r.parent = exiting
  THEN [r EXCEPT !.parent = adopter(exiting)] ELSE r

exit(i, status) ==
  LET me == records_[i]
  IN  /\ Live(i)
      /\ records_' = [j \in Slot |->
           reparent_children(
             IF j = i
             THEN [me EXCEPT !.state = "zombie", !.exit_status = status,
                             !.address_space = FALSE, !.vfork_parent = 0]
             ELSE WaiterWoken(VforkWoken(records_[j], me), me),
             me.pid)]
      /\ exited' = [exited EXCEPT ![me.pid] = status]
      /\ UNCHANGED <<next_pid_, current, reaped>>

-----------------------------------------------------------------------------

matches(parent, child, selector) ==
  CASE selector.kind = "any" -> TRUE
    [] selector.kind = "pid" -> child.pid = selector.value
    [] selector.kind = "process_group" ->
         child.process_group = IF selector.value = 0 THEN parent.process_group
                               ELSE selector.value

\* The children of the process in slot i that a wait asks for.
Candidates(i, selector) ==
  {c \in Slot : /\ records_[c].state # "free"
                /\ records_[c].parent = records_[i].pid
                /\ matches(records_[i], records_[c], selector)}

\* Mutant: only the state of the collected record is cleared.
ClearsStateOnly(i, selector) ==
  /\ Calls(i)
  /\ \E c \in Candidates(i, selector) :
       /\ records_[c].state = "zombie"
       /\ \A d \in Candidates(i, selector) : records_[d].state = "zombie" => c <= d
       /\ records_' = [records_ EXCEPT ![c].state = "free"]
       /\ reaped' = [reaped EXCEPT ![records_[c].pid] = records_[c].exit_status]
  /\ UNCHANGED <<next_pid_, current, exited>>

\* The first zombie among them is collected and its record cleared.
wait_reap(i, selector) ==
  /\ Calls(i)
  /\ \E c \in Candidates(i, selector) :
       /\ records_[c].state = "zombie"
       /\ \A d \in Candidates(i, selector) : records_[d].state = "zombie" => c <= d
       /\ records_' = [records_ EXCEPT ![c] = Free]
       /\ reaped' = [reaped EXCEPT ![records_[c].pid] = records_[c].exit_status]
  /\ UNCHANGED <<next_pid_, current, exited>>

\* No zombie but a child that may become one: the call blocks, unless no_hang.
wait_block(i, selector) ==
  /\ Calls(i)
  /\ Candidates(i, selector) # {}
  /\ \A c \in Candidates(i, selector) : records_[c].state # "zombie"
  /\ records_' = [records_ EXCEPT ![i].state = "waiting"]
  /\ UNCHANGED <<next_pid_, current, exited, reaped>>

-----------------------------------------------------------------------------

\* setpgid of oneself or of a child that has not called exec: into a new group
\* or into one of the session whose leader still leads it.
set_process_group(i, t, g) ==
  /\ Calls(i)
  /\ t = i \/ (records_[t].state # "free" /\ records_[t].parent = records_[i].pid)
  /\ records_[t].session # records_[t].pid
  /\ t # i => ~records_[t].executed
  /\ g # records_[t].pid =>
       \E l \in Slot : /\ find(l, g)
                       /\ records_[l].process_group = g
                       /\ records_[l].session = records_[t].session
  /\ records_' = [records_ EXCEPT ![t].process_group = g]
  /\ UNCHANGED <<next_pid_, current, exited, reaped>>

create_session(i) ==
  /\ Calls(i)
  /\ records_[i].process_group # records_[i].pid
  /\ records_' = [records_ EXCEPT ![i].session = records_[i].pid,
                                  ![i].process_group = records_[i].pid]
  /\ UNCHANGED <<next_pid_, current, exited, reaped>>

stop(i) ==
  /\ Live(i) /\ records_[i].pid \in Signalled
  /\ records_' = [records_ EXCEPT ![i].state = "stopped"]
  /\ UNCHANGED <<next_pid_, current, exited, reaped>>

resume(i) ==
  /\ records_[i].state = "stopped"
  /\ records_' = [records_ EXCEPT ![i].state = "runnable"]
  /\ UNCHANGED <<next_pid_, current, exited, reaped>>

\* The slot the scan of next_runnable starts behind.
after_slot ==
  IF \E i \in Slot : find(i, current)
  THEN CHOOSE i \in Slot : find(i, current) ELSE 0

\* Mutant: every scan starts at the first slot.
FromTheTop(i) ==
  /\ runnable(records_[i].state)
  /\ \A j \in 0..(i - 1) : ~runnable(records_[j].state)

\* next_runnable(current) returns the process in slot i: the first runnable one
\* behind current's slot, current's own slot last.
next_runnable(i) ==
  LET distance(j) == (j - after_slot - 1) % Capacity
  IN  /\ runnable(records_[i].state)
      /\ \A j \in Slot : distance(j) < distance(i) => ~runnable(records_[j].state)

schedule ==
  /\ \E i \in Slot : next_runnable(i) /\ current' = records_[i].pid
  /\ UNCHANGED <<records_, next_pid_, exited, reaped>>

\* Nothing is runnable: next_runnable returns invalid_pid.
idle ==
  /\ \A i \in Slot : ~runnable(records_[i].state)
  /\ current' = 0
  /\ UNCHANGED <<records_, next_pid_, exited, reaped>>

Next ==
  \/ \E i, s \in Slot : \E vfork \in Forks : fork(i, s, vfork)
  \/ \E i \in Slot :
       \/ mark_exec(i) \/ create_session(i) \/ stop(i) \/ resume(i)
       \/ \E status \in Status : exit(i, status)
       \/ \E selector \in Waits : wait_reap(i, selector) \/ wait_block(i, selector)
       \/ \E t \in Slot : \E g \in Pid : set_process_group(i, t, g)
  \/ schedule \/ idle

Spec == Init /\ [][Next]_vars

\* The dispatcher is entered again and again.
FairSpec == Spec /\ WF_vars(schedule)

-----------------------------------------------------------------------------

\* Types.
TypeOK ==
  /\ records_ \in [Slot -> ProcessRecord]
  /\ next_pid_ \in 0..(PidModulus - 1)
  /\ current \in 0..(PidModulus - 1)
  /\ exited \in [Pid -> Status \cup {None}] /\ reaped \in [Pid -> Status \cup {None}]

\* What invariant() tests: a free record names nothing, a used one has an id,
\* a group, a session, a zombie has no address space, and no two records have
\* one id.
TableInvariant ==
  /\ TypeOK
  /\ \A i \in Slot :
       LET r == records_[i]
       IN  IF r.state = "free" THEN r.pid = 0 /\ ~r.address_space
           ELSE /\ r.pid # 0 /\ r.process_group # 0 /\ r.session # 0
                /\ r.state = "zombie" => ~r.address_space
                /\ \A j \in Slot : j # i => ~find(j, r.pid)

\* Ids are handed out once, ever: every id in the table is below the counter,
\* and an id below it that is not in the table has been collected.  Each exit
\* is in the table, with its status, until it is collected, with that status.
ExitsKept ==
  /\ next_pid_ # 0 => \A i \in Slot : records_[i].pid < next_pid_
  /\ \A p \in Pid :
       /\ reaped[p] # None => reaped[p] = exited[p] /\ \A i \in Slot : ~find(i, p)
       /\ exited[p] # None /\ reaped[p] = None <=>
            \E i \in Slot : /\ find(i, p) /\ records_[i].state = "zombie"
                            /\ records_[i].exit_status = exited[p]

\* Every process other than init has a live parent to collect it, as long as
\* init is alive: exit leaves no child behind, running or exited.
ParentsAlive ==
  (\E i \in Slot : find(i, 1) /\ Live(i)) =>
    \A i \in Slot : records_[i].pid > 1 =>
      \E j \in Slot : Live(j) /\ find(j, records_[i].parent)

\* A process suspended by vfork has a live child that will wake it, and one
\* blocked in wait has a live child whose exit will.
SuspensionsEnd ==
  \A i \in Slot :
    /\ records_[i].state = "vfork_wait" =>
         \E c \in Slot : Live(c) /\ records_[c].vfork_parent = records_[i].pid
    /\ records_[i].state = "waiting" =>
         \E c \in Slot : Live(c) /\ records_[c].parent = records_[i].pid

\* Round robin: a process that stays runnable is dispatched.
RunnableRuns ==
  \A p \in Pid :
    (\E i \in Slot : find(i, p) /\ runnable(records_[i].state)) ~>
      (current = p \/ ~\E i \in Slot : find(i, p) /\ runnable(records_[i].state))

-----------------------------------------------------------------------------

\* Promised by the documents and not kept by the code: see the findings in
\* the README.

\* The members of a process group share a session.
GroupsWithinSession ==
  \A i, j \in Slot :
    /\ records_[i].state # "free" /\ records_[j].state # "free"
    /\ records_[i].process_group = records_[j].process_group
    => records_[i].session = records_[j].session

\* A process that waits for any child has no exited child to collect.
NoLostWakeup ==
  \A i \in Slot :
    records_[i].state = "waiting" =>
      \A c \in Slot : records_[c].parent = records_[i].pid => Live(c)

\* The parent of a vfork does not run while the child has neither called exec
\* nor exited.
VforkParentSuspended ==
  \A c \in Slot :
    records_[c].vfork_parent # 0 =>
      \A i \in Slot : find(i, records_[c].vfork_parent) => ~runnable(records_[i].state)

=============================================================================
