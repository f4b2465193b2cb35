----------------------------- MODULE ForkSignals ----------------------------
(***************************************************************************)
(* Signals over the fork adapter (include/mikos/process/signal.hpp and     *)
(* kernel/syscall.cpp): every context of ForkAdapter carries the signal    *)
(* state, the handler frame, the group and the session of its process, and *)
(* each move of a context moves them along.  The end of every system call  *)
(* delivers at most one signal to the process that is active then.  No     *)
(* process waits for a socket here: the background record only names a     *)
(* process, with a copy of its signals that grows stale.                   *)
(***************************************************************************)
EXTENDS ForkAdapter

CONSTANTS
  Signals,        \* the signals in use
  Installable,    \* the actions programs install: [handler, mask, nodefer]
  Closes,         \* the processes that close the master
  Masks,          \* the sets they pass to rt_sigprocmask and rt_sigreturn
  MaxCalls        \* bound: calls that send a signal or change signal state

signal_interrupt == 2
signal_kill      == 9
signal_child     == 17
signal_stop      == 19

Handlers == {"default", "ignore", "function"}

Action == [handler : Handlers, mask : SUBSET Signals, nodefer : BOOLEAN]

ASSUME SignalsAssumption ==
  /\ Signals \subseteq 1..64 /\ {signal_interrupt, signal_child} \subseteq Signals
  /\ Installable \subseteq Action /\ Masks \subseteq SUBSET Signals
  /\ Closes \subseteq Pid /\ MaxCalls \in Nat

VARIABLES
  signals,              \* of the active process
  parent_signals, ancestor_signals, background_signals,
  child_signals,        \* of interactive_child
  shell_signals,        \* of interactive_parent
  stopped,              \* an unhandled signal shut the machine down
  calls                 \* counts towards MaxCalls

saved_signals == <<parent_signals, ancestor_signals, background_signals,
                   child_signals, shell_signals>>

allvars == <<vars, signals, saved_signals, stopped, calls>>

-----------------------------------------------------------------------------
(* SignalState.                                                            *)

uncatchable_mask == {signal_kill, signal_stop}

DefaultAction == [handler |-> "default", mask |-> {}, nodefer |-> FALSE]

\* handling is active_signal_frame.active.
NoSignals ==
  [group |-> 0, session |-> 0, action |-> [s \in Signals |-> DefaultAction],
   blocked |-> {}, pending |-> {}, handling |-> FALSE]

default_ignores == {17, 23, 28}

set_action(state, s, action) ==
  [state EXCEPT !.action[s] = [action EXCEPT !.mask = @ \ uncatchable_mask]]

\* Mutant: the mask is taken as it is.
mask_unfiltered(state, set) == [state EXCEPT !.blocked = set]

\* change_mask, given the set it comes to.
change_mask(state, set) == [state EXCEPT !.blocked = set \ uncatchable_mask]

queue(state, s) == [state EXCEPT !.pending = @ \cup {s}]

deliverable(state) == state.pending \ state.blocked

Lowest(set) == CHOOSE s \in set : \A t \in set : s <= t

-----------------------------------------------------------------------------
(* The end of a system call.                                               *)

\* What next() takes: the lowest signal that is pending and not blocked, unless
\* a handler is running.
Due(state) == IF state.handling THEN {} ELSE deliverable(state)

Ignores(action, s) ==
  action.handler = "ignore" \/ (action.handler = "default" /\ s \in default_ignores)

\* The handler runs under its mask; the one it interrupts is on its stack, which
\* is taken to have room for it.
Handle(state, action, s) ==
  change_mask([state EXCEPT !.handling = TRUE],
              state.blocked \cup action.mask \cup (IF action.nodefer THEN {} ELSE {s}))

Deliver(state, s) ==
  LET taken == [state EXCEPT !.pending = @ \ {s}]
  IN  IF state.action[s].handler = "function" THEN Handle(taken, state.action[s], s) ELSE taken

\* deliver_pending_signal to the process whose state was so far this: a signal
\* without a handler that is not ignored shuts the machine down.
deliver_pending_signal(state) ==
  IF Due(state) = {} THEN signals' = state /\ UNCHANGED stopped
  ELSE LET s == Lowest(Due(state))
       IN  /\ signals' = Deliver(state, s)
           /\ stopped' = (/\ ~Ignores(state.action[s], s)
                          /\ state.action[s].handler # "function")

-----------------------------------------------------------------------------
(* The moves of the fork adapter.                                          *)

SignalsInit ==
  /\ Init
  /\ signals = [NoSignals EXCEPT !.group = 1, !.session = 1]
  /\ parent_signals = NoSignals /\ ancestor_signals = <<>>
  /\ background_signals = NoSignals
  /\ child_signals = NoSignals /\ shell_signals = NoSignals
  /\ stopped = FALSE
  /\ calls = 0

\* The child keeps everything its parent had, pending signals included.
fork ==
  /\ clone
  /\ parent_signals' = signals
  /\ IF nested_background_fork
     THEN /\ ancestor_signals' = Append(ancestor_signals, parent_signals)
          /\ background_signals' = NoSignals
     ELSE UNCHANGED <<ancestor_signals, background_signals>>
  /\ deliver_pending_signal(signals)
  /\ UNCHANGED <<child_signals, shell_signals>>

\* The signals of Newest and of Older.
NewestSignals == ancestor_signals[depth]

OlderSignals == SubSeq(ancestor_signals, 1, depth - 1)

\* reinstate_suspended_ancestor captures the active process, now in state, as
\* the background record.
Reinstated(state) ==
  IF depth = 0
  THEN /\ parent_signals' = NoSignals
       /\ background_signals' = IF background'.used THEN background_signals ELSE NoSignals
       /\ UNCHANGED ancestor_signals
  ELSE /\ parent_signals' = NewestSignals
       /\ ancestor_signals' = OlderSignals
       /\ background_signals' = state

fork_no_memory ==
  /\ clone_no_memory
  /\ IF nested_background_fork
     THEN background_signals' = signals /\ UNCHANGED <<parent_signals, ancestor_signals>>
     ELSE Reinstated(signals)
  /\ deliver_pending_signal(signals)
  /\ UNCHANGED <<child_signals, shell_signals>>

\* Mutant: the resumed parent keeps the signals of the child that exited.
exit_keeps_signals ==
  /\ exit_child
  /\ LET resumed == queue(signals, signal_child)
     IN  Reinstated(resumed) /\ deliver_pending_signal(resumed)
  /\ UNCHANGED <<child_signals, shell_signals>>

\* The resumed parent is told of its child.
exit ==
  /\ exit_child
  /\ LET resumed == queue(parent_signals, signal_child)
     IN  Reinstated(resumed) /\ deliver_pending_signal(resumed)
  /\ UNCHANGED <<child_signals, shell_signals>>

park_child ==
  /\ park_interactive_child
  /\ child_signals' = signals
  /\ parent_signals' = NoSignals
  /\ IF relay_through_ancestor
     THEN /\ shell_signals' = parent_signals
          /\ ancestor_signals' = OlderSignals
          /\ deliver_pending_signal(NewestSignals)
     ELSE /\ deliver_pending_signal(parent_signals)
          /\ UNCHANGED <<shell_signals, ancestor_signals>>
  /\ UNCHANGED background_signals

\* Any signal that is not blocked interrupts the wait of the parked program.
wait_interrupted == deliverable(child_signals) # {}

resume_child ==
  /\ resume_interactive_child_if_ready(wait_interrupted)
  /\ parent_signals' = IF relayed THEN shell_signals ELSE signals
  /\ ancestor_signals' = IF relayed THEN Append(ancestor_signals, signals)
                         ELSE ancestor_signals
  /\ background_signals' = IF relayed THEN NoSignals ELSE background_signals
  /\ shell_signals' = NoSignals /\ child_signals' = NoSignals
  /\ deliver_pending_signal(child_signals)

\* System calls that leave every context where it is.
other_call ==
  /\ \/ open("master") \/ open("slave")
     \/ process.pid \in Closes /\ close("master")
     \/ consume("slave")
     \/ \E z \in waitable_children : wait4(z)
  /\ deliver_pending_signal(signals)
  /\ UNCHANGED saved_signals

-----------------------------------------------------------------------------
(* Signal calls.                                                           *)

\* A call by which the active process brings its own state to the given one.
Own(state) ==
  /\ ~halted
  /\ deliver_pending_signal(state)
  /\ UNCHANGED <<vars, saved_signals>>

rt_sigaction(s, action) ==
  /\ s \notin uncatchable_mask
  /\ Own(set_action(signals, s, action))

rt_sigprocmask(operation, set) ==
  Own(change_mask(signals,
        CASE operation = "block"   -> signals.blocked \cup set
          [] operation = "unblock" -> signals.blocked \ set
          [] operation = "set"     -> set))

\* The handler returns through its stack, from which the mask is taken: the
\* program may have put any there.
rt_sigreturn(mask) ==
  /\ signals.handling
  /\ Own(change_mask([signals EXCEPT !.handling = FALSE], mask))

\* kill and tgkill reach the caller and its suspended parent, the notice of a
\* new window size the caller.
send_signal(pid, s) ==
  /\ ~halted
  /\ IF Active(parent) /\ pid = parent.pid
     THEN /\ parent_signals' = queue(parent_signals, s)
          /\ deliver_pending_signal(signals)
     ELSE /\ pid = process.pid
          /\ deliver_pending_signal(queue(signals, s))
          /\ UNCHANGED parent_signals
  /\ UNCHANGED <<vars, ancestor_signals, background_signals, child_signals,
                 shell_signals>>

setpgid(group) ==
  /\ signals.session # process.pid
  /\ \/ group \in {process.pid, signals.group}
     \/ /\ Active(parent) /\ group = parent_signals.group
        /\ signals.session = parent_signals.session
  /\ Own([signals EXCEPT !.group = group])

setsid ==
  /\ signals.group # process.pid
  /\ Own([signals EXCEPT !.group = process.pid, !.session = process.pid])

\* queue_process_group_signal visits the active process, the suspended ones, the
\* parked program and then the background record, a process it has reached
\* before excepted.
InGroup(active, state, group) == active /\ state.group = group

QueuedTo(active, state, group, s) ==
  IF InGroup(active, state, group) THEN queue(state, s) ELSE state

delivered_pids(group) ==
  {p \in Pid :
     \/ p = process.pid /\ signals.group = group
     \/ p = parent.pid /\ parent_signals.group = group
     \/ \E i \in 1..depth : p = nested_ancestors[i].pid /\ ancestor_signals[i].group = group
     \/ p = interactive_child.pid /\ child_signals.group = group}

\* Mutant: the suspended ancestors are passed over.
group_skips_ancestors(group, s) ==
  /\ parent_signals' = QueuedTo(Active(parent), parent_signals, group, s)
  /\ ancestor_signals' = ancestor_signals
  /\ child_signals' = QueuedTo(Active(interactive_child), child_signals, group, s)
  /\ background_signals' =
       QueuedTo(background.used /\ background.pid \notin delivered_pids(group),
                background_signals, group, s)

\* Mutant: the record is visited whoever was reached before.
group_forgets_pids(group, s) ==
  /\ parent_signals' = QueuedTo(Active(parent), parent_signals, group, s)
  /\ ancestor_signals' = [i \in 1..depth |->
                            QueuedTo(TRUE, ancestor_signals[i], group, s)]
  /\ child_signals' = QueuedTo(Active(interactive_child), child_signals, group, s)
  /\ background_signals' = QueuedTo(background.used, background_signals, group, s)

queue_process_group_signal(group, s) ==
  /\ parent_signals' = QueuedTo(Active(parent), parent_signals, group, s)
  /\ ancestor_signals' = [i \in 1..depth |->
                            QueuedTo(TRUE, ancestor_signals[i], group, s)]
  /\ child_signals' = QueuedTo(Active(interactive_child), child_signals, group, s)
  /\ background_signals' =
       QueuedTo(background.used /\ background.pid \notin delivered_pids(group),
                background_signals, group, s)

\* The holder of the master writes a character that signals the foreground
\* group of the terminal, which may be any.
write_master(group, s) ==
  /\ ~halted
  /\ "master" \in descriptors
  /\ queue_process_group_signal(group, s)
  /\ deliver_pending_signal(QueuedTo(TRUE, signals, group, s))
  /\ UNCHANGED <<vars, shell_signals>>

\* Input for the program arrives between system calls.
input ==
  /\ arrive("slave")
  /\ UNCHANGED <<signals, saved_signals, stopped>>

exit_machine ==
  /\ exit_last
  /\ UNCHANGED <<signals, saved_signals, stopped>>

Moves ==
  fork \/ fork_no_memory \/ exit \/ exit_machine \/ park_child \/ resume_child
    \/ other_call \/ input

SignalCalls ==
  \/ \E s \in Signals, action \in Installable : rt_sigaction(s, action)
  \/ \E operation \in {"block", "unblock", "set"}, set \in Masks :
       rt_sigprocmask(operation, set)
  \/ \E p \in Pid, s \in Signals : send_signal(p, s)
  \/ \E g \in Pid : setpgid(g) \/ write_master(g, signal_interrupt)
  \/ setsid

SignalsNext ==
  /\ ~stopped
  /\ \/ (Moves \/ \E mask \in Masks : rt_sigreturn(mask)) /\ UNCHANGED calls
     \/ SignalCalls /\ calls < MaxCalls /\ calls' = calls + 1

SignalsSpec == SignalsInit /\ [][SignalsNext]_allvars

-----------------------------------------------------------------------------

\* The signal state of a live process, wherever its context is.
SignalsOf(p) ==
  CASE p = process.pid -> signals
    [] p = parent.pid -> parent_signals
    [] p = interactive_child.pid -> child_signals
    [] p = interactive_parent.pid -> shell_signals
    [] OTHER -> ancestor_signals[CHOOSE i \in 1..depth : nested_ancestors[i].pid = p]

SignalState ==
  [group : 0..MaxPid, session : 0..MaxPid, action : [Signals -> Action],
   blocked : SUBSET (Signals \ uncatchable_mask), pending : SUBSET Signals,
   handling : BOOLEAN]

\* SIGKILL and SIGSTOP can be neither blocked nor caught, in any context, through
\* whatever masks handlers install and restore; ancestors keep their states.
Uncatchable ==
  /\ ancestor_signals \in Seq(SignalState) /\ Len(ancestor_signals) = depth
  /\ \A state \in {signals, parent_signals, background_signals, child_signals,
                   shell_signals} \cup {ancestor_signals[i] : i \in 1..depth} :
       /\ state \in SignalState
       /\ \A s \in uncatchable_mask \cap Signals : state.action[s] = DefaultAction

\* A signal stays with its process until it is delivered to it, through every
\* fork, park, resumption and exit of others: the state of a process that does
\* not run changes by signals queued for it and in no other way, and one that
\* runs, or comes to run, loses at most one signal, which it did not block.
SignalsKept ==
  [][\A p \in Alive \cap Alive' :
       LET old == SignalsOf(p)
           new == SignalsOf(p)'
           taken == old.pending \ new.pending
       IN  /\ p # process'.pid =>
                /\ taken = {}
                /\ p # process.pid => new = [old EXCEPT !.pending = new.pending]
           /\ Cardinality(taken) <= 1
           /\ p # process.pid => taken \cap old.blocked = {}]_allvars

\* A signal to a process group is queued for every live process of the group,
\* the shell behind a relayed program excepted, and for no other process.
GroupReached ==
  [][\A g \in Pid : write_master(g, signal_interrupt) =>
       \A p \in Alive \ {process.pid, interactive_parent.pid} :
         SignalsOf(p)'.pending = SignalsOf(p).pending \cup
           (IF SignalsOf(p).group = g THEN {signal_interrupt} ELSE {})]_allvars

\* A signal to a process group is never queued in the stale copy of one of its
\* live members: what the background record takes, it takes for a process that is
\* elsewhere, in a place queue_process_group_signal visits before, and that has
\* left the group since its copy was made.
StaleCopySpared ==
  [][\A g \in Pid :
       write_master(g, signal_interrupt) /\ background_signals' # background_signals =>
         \E p \in Alive \ {interactive_parent.pid} :
           p = background.pid /\ SignalsOf(p).group # g]_allvars

\* What the comment at kernel/syscall.cpp:633 says, and the code does not do for a
\* process that has left its group: the stale copy takes no signal at all.
CopyTakesNone ==
  [][\A g \in Pid : write_master(g, signal_interrupt) =>
       background_signals' = background_signals]_allvars

=============================================================================
