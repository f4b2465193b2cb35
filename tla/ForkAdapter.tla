---------------------------- MODULE ForkAdapter ----------------------------
(***************************************************************************)
(* fork without an MMU (kernel/syscall.cpp:60-1315).  One process owns the *)
(* flat address space; every other live process is a saved image in        *)
(*   parent               the process suspended under the active one,      *)
(*   nested_ancestors     older suspensions, oldest first,                 *)
(*   background           one service waiting for a socket,                *)
(*   interactive_child    one program waiting for a PTY slave,             *)
(*   interactive_parent   its waiting shell, while a PTY server relays.    *)
(* The module is the MIKOS_TRIBE_INTERACTIVE build.  Programs are arbitrary *)
(* sequences of system calls; the body of a blocking call is one iteration *)
(* of its wait loop.                                                       *)
(*                                                                         *)
(* A saved context carries the process, the call its frame was taken in,   *)
(* the image saved for it (snap: the process whose memory it is, 0 when    *)
(* there is none) and its descriptor table.  An inactive parent record is  *)
(* NoContext: its stale fields are never read.                             *)
(*                                                                         *)
(* exited, answered and outcome are history variables.             *)
(***************************************************************************)
EXTENDS Integers, Sequences, FiniteSets

CONSTANTS
  MaxPid,             \* bound: processes ever created
  NestedCapacity,     \* nested_ancestor_capacity
  WaitableCapacity,   \* process_context_capacity, of waitable_children
  Opens,              \* which processes open each object
  Services            \* which processes wait for the listener

Pid == 1..MaxPid

Sockets == {"listener", "connection"}

Objects == Sockets \cup {"master", "slave"}

ASSUME ForkAssumption ==
  /\ MaxPid \in Nat \ {0} /\ NestedCapacity \in Nat /\ WaitableCapacity \in Nat
  /\ Opens \in [Objects -> SUBSET Pid] /\ Services \subseteq Pid

VARIABLES
  process,              \* the active process: [pid, parent_pid]
  descriptors,          \* its open objects
  memory,               \* whose image the flat address space holds
  parent, nested_ancestors, background, interactive_child, interactive_parent,
  interactive_relay_service_pid,
  waitable_children,    \* zombies: [pid, parent_pid]
  next_pid,
  arena,                \* images held in the snapshot arena
  references,           \* reference count of each object
  ready,                \* objects with input waiting
  halted,
  exited, answered, outcome

kernel == <<process, descriptors, memory, parent, nested_ancestors, background,
            interactive_child, interactive_parent,
            interactive_relay_service_pid, arena, references>>

parked == <<interactive_child, interactive_parent, interactive_relay_service_pid>>

history == <<exited, answered, outcome>>

vars == <<kernel, waitable_children, next_pid, ready, halted, history>>

NoContext ==
  [pid |-> 0, parent_pid |-> 0, child_pid |-> 0, frame |-> "none", snap |-> 0,
   descriptors |-> {}]

NoBackground ==
  [used |-> FALSE, pid |-> 0, parent_pid |-> 0, wait |-> "none", snap |-> 0,
   descriptors |-> {}]

NoOutcome == [by |-> "none", frame |-> "none", gives |-> "none", again |-> FALSE]

Context ==
  [pid : 0..MaxPid, parent_pid : 0..MaxPid, child_pid : 0..MaxPid,
   frame : {"none", "clone", "block"}, snap : 0..MaxPid,
   descriptors : SUBSET Objects]

Active(c) == c.pid # 0

depth == Len(nested_ancestors)

\* The suspension on top of the stack, and those below it.
Newest == nested_ancestors[depth]

Older == SubSeq(nested_ancestors, 1, depth - 1)

-----------------------------------------------------------------------------

\* The active process as a context suspended in the given call.
Suspended(frame, child) ==
  [pid |-> process.pid, parent_pid |-> process.parent_pid, child_pid |-> child,
   frame |-> frame, snap |-> memory, descriptors |-> descriptors]

\* Mutant: release_descriptor is never called.
NeverReleases(retained, released) ==
  [o \in Objects |-> references[o] + (IF o \in retained THEN 1 ELSE 0)]

\* retain_descriptor and release_descriptor over whole tables.
Recount(retained, released) ==
  [o \in Objects |-> references[o] + (IF o \in retained THEN 1 ELSE 0)
                                   - (IF o \in released THEN 1 ELSE 0)]

\* The input waiting on objects that keep a reference after this step.
StillOpen == {o \in ready : references'[o] > 0}

\* capture_background(frame, invalid_socket) for process p: the identity of
\* the active service, with no wait; the snapshot field is left alone.
Captured(bg, p) ==
  [bg EXCEPT !.used = TRUE, !.pid = p.pid, !.parent_pid = p.parent_pid,
             !.wait = "none"]

\* resume_parent: the suspended process p becomes the active one, its image
\* and descriptors come back, and what the active one still had is released.
resume_parent(p, by, from_clone) ==
  /\ process' = [pid |-> p.pid, parent_pid |-> p.parent_pid]
  /\ memory' = p.snap
  /\ descriptors' = p.descriptors
  /\ outcome' = [by |-> by, frame |-> p.frame,
                 gives |-> IF from_clone THEN "pid" ELSE "replay",
                 again |-> p.child_pid \in answered]
  /\ answered' = IF from_clone THEN answered \cup {p.child_pid} ELSE answered

\* stack_suspended_ancestor's guard.
CanStack ==
  /\ Active(parent) /\ parent.snap # 0
  /\ background.snap = 0
  /\ depth # NestedCapacity

\* Mutant: the ancestor taken off the stack is not put back underneath.
DropsAncestor(p, bg) ==
  IF depth = 0
  THEN /\ parent' = NoContext
       /\ background' = bg
       /\ UNCHANGED nested_ancestors
  ELSE /\ parent' = NoContext
       /\ nested_ancestors' = Older
       /\ background' = Captured(bg, p)

\* Mutant: the oldest suspension is put back instead of the newest.
ReinstatesOldest(p, bg) ==
  IF depth = 0
  THEN /\ parent' = NoContext
       /\ background' = bg
       /\ UNCHANGED nested_ancestors
  ELSE /\ parent' = Head(nested_ancestors)
       /\ nested_ancestors' = Tail(nested_ancestors)
       /\ background' = Captured(bg, p)

\* reinstate_suspended_ancestor when p is (again) the active process and bg is
\* the background record so far.
reinstate_suspended_ancestor(p, bg) ==
  IF depth = 0
  THEN /\ parent' = NoContext
       /\ background' = bg
       /\ UNCHANGED nested_ancestors
  ELSE /\ parent' = Newest
       /\ nested_ancestors' = Older
       /\ background' = Captured(bg, p)

-----------------------------------------------------------------------------

Init ==
  /\ process = [pid |-> 1, parent_pid |-> 0]
  /\ descriptors = {}
  /\ memory = 1
  /\ parent = NoContext
  /\ nested_ancestors = <<>>
  /\ background = NoBackground
  /\ interactive_child = NoContext
  /\ interactive_parent = NoContext
  /\ interactive_relay_service_pid = 0
  /\ waitable_children = {}
  /\ next_pid = 2
  /\ arena = {}
  /\ references = [o \in Objects |-> 0]
  /\ ready = {}
  /\ halted = FALSE
  /\ exited = {} /\ answered = {}
  /\ outcome = NoOutcome

\* A fork made below a suspended parent: that parent must be stacked first.
nested_background_fork == Active(parent) /\ process.pid = parent.child_pid

\* clone's refusals before it changes anything.
ForkRefused ==
  \/ Active(parent) /\ ~nested_background_fork
  \/ nested_background_fork /\ depth = NestedCapacity
  \/ Cardinality(waitable_children) = WaitableCapacity
  \/ nested_background_fork /\ ~CanStack

\* clone: the caller is suspended and the child runs in its place.
clone ==
  /\ ~halted /\ next_pid <= MaxPid
  /\ ~ForkRefused
  /\ nested_ancestors' = IF nested_background_fork
                         THEN Append(nested_ancestors, parent)
                         ELSE nested_ancestors
  /\ background' = IF nested_background_fork THEN NoBackground ELSE background
  /\ parent' = Suspended("clone", next_pid)
  /\ arena' = arena \cup {memory}
  /\ references' = Recount(descriptors, {})
  /\ process' = [pid |-> next_pid, parent_pid |-> process.pid]
  /\ memory' = next_pid
  /\ next_pid' = next_pid + 1
  /\ UNCHANGED <<descriptors, parked, waitable_children, ready, halted, history>>

\* clone when the arena has no room for the caller's image: the process id is
\* used up, and an ancestor is reinstated whether or not one was stacked.
clone_no_memory ==
  /\ ~halted /\ next_pid <= MaxPid
  /\ ~ForkRefused
  /\ next_pid' = next_pid + 1
  /\ IF nested_background_fork
     THEN /\ background' = Captured(NoBackground, process)
          /\ UNCHANGED <<parent, nested_ancestors>>
     ELSE reinstate_suspended_ancestor(process, background)
  /\ exited' = exited \cup {next_pid}
  /\ UNCHANGED <<process, descriptors, memory, parked, arena, references,
                 waitable_children, ready, halted, answered, outcome>>

\* A zombie that finds no free slot is dropped.
publish_child_exit(pid, parent_pid) ==
  IF Cardinality(waitable_children) < WaitableCapacity
  THEN waitable_children \cup {[pid |-> pid, parent_pid |-> parent_pid]}
  ELSE waitable_children

\* exit with a suspended parent: the zombie is published if there is a free
\* slot, the parent is resumed with the child's id as its call's result, and
\* the next older suspension is put back underneath it.
exit_child ==
  /\ ~halted
  /\ Active(parent)
  /\ resume_parent(parent, "exit", TRUE)
  /\ waitable_children' = publish_child_exit(parent.child_pid, parent.pid)
  /\ arena' = arena \ {parent.snap}
  /\ references' = Recount({}, descriptors)
  /\ LET over == background.used /\ background.pid = process.pid
         bg == IF over THEN [background EXCEPT !.used = FALSE, !.wait = "none"]
               ELSE background
     IN  reinstate_suspended_ancestor(parent, bg)
  /\ exited' = exited \cup {process.pid}
  /\ ready' = StillOpen
  /\ UNCHANGED <<parked, next_pid, halted>>

\* exit with no suspended parent stops the machine.
exit_last ==
  /\ ~halted
  /\ ~Active(parent)
  /\ halted' = TRUE
  /\ exited' = exited \cup {process.pid}
  /\ UNCHANGED <<kernel, waitable_children, next_pid, ready, answered,
                 outcome>>

\* wait4 and waitid reap one zombie of the caller.
wait4(z) ==
  /\ ~halted
  /\ z.parent_pid = process.pid
  /\ waitable_children' = waitable_children \ {z}
  /\ UNCHANGED <<kernel, next_pid, ready, halted, exited, answered, outcome>>

-----------------------------------------------------------------------------

\* Opening an object: a socket or a PTY master is fresh, a slave needs its
\* master.
open(o) ==
  /\ ~halted
  /\ process.pid \in Opens[o] /\ o \notin descriptors
  /\ IF o = "slave" THEN references["master"] > 0 ELSE references[o] = 0
  /\ o = "connection" => "listener" \in descriptors
  /\ descriptors' = descriptors \cup {o}
  /\ references' = Recount({o}, {})
  /\ UNCHANGED <<process, memory, parent, nested_ancestors, background, parked,
                 arena, waitable_children, next_pid, ready, halted, history>>

\* close releases one reference; the object's input goes with the last one.
close(o) ==
  /\ ~halted
  /\ o \in descriptors
  /\ descriptors' = descriptors \ {o}
  /\ references' = Recount({}, {o})
  /\ ready' = StillOpen
  /\ UNCHANGED <<process, memory, parent, nested_ancestors, background, parked,
                 arena, waitable_children, next_pid, halted, history>>

\* Input arrives on an open object, and a reader takes it.
arrive(o) ==
  /\ ~halted
  /\ references[o] > 0 /\ o \notin ready
  /\ ready' = ready \cup {o}
  /\ UNCHANGED <<kernel, waitable_children, next_pid, halted, history>>

consume(o) ==
  /\ ~halted
  /\ o \in descriptors \cap ready
  /\ ready' = ready \ {o}
  /\ UNCHANGED <<kernel, waitable_children, next_pid, halted, history>>

\* A slave is readable when it has input or every master is closed.
readable(o) == o \in ready \/ (o = "slave" /\ references["master"] = 0)

-----------------------------------------------------------------------------

\* park_background's early returns: no parent, a connection that must stay
\* resident (only a connection with nothing nested yields to the UART), or
\* another service in the single slot.
CanParkBackground(o) ==
  /\ Active(parent)
  /\ o \in Sockets \cap descriptors /\ ~readable(o)
  /\ IF o = "listener" THEN process.pid \in Services ELSE depth = 0
  /\ ~(background.used /\ background.pid # process.pid)

\* Mutant: every park returns from fork.
AlwaysFirst(p) == TRUE

\* The first park returns from fork, later ones replay the blocked call.
first_park(p) == p.frame = "clone"

park_background(o) ==
  /\ ~halted
  /\ CanParkBackground(o)
  /\ background' = [used |-> TRUE, pid |-> process.pid,
                    parent_pid |-> process.parent_pid, wait |-> o,
                    snap |-> memory, descriptors |-> descriptors]
  /\ arena' = (arena \cup {memory}) \ {parent.snap}
  /\ resume_parent(parent, "park", first_park(parent))
  /\ parent' = NoContext
  /\ UNCHANGED <<nested_ancestors, parked, references, waitable_children,
                 next_pid, ready, halted, exited>>

\* The arena has no room: the record is abandoned and the call keeps polling.
park_background_no_memory(o) ==
  /\ ~halted
  /\ CanParkBackground(o)
  /\ background' = [Captured(background, process) EXCEPT !.used = FALSE,
                                                       !.wait = o, !.snap = 0]
  /\ UNCHANGED <<process, descriptors, memory, parent, nested_ancestors, parked,
                 arena, references, waitable_children, next_pid, ready, halted,
                 history>>

-----------------------------------------------------------------------------

owns_pty_master(c) == "master" \in c.descriptors

\* park_interactive_child: the parent, or else the nearest stacked ancestor,
\* must hold the PTY master.
CanParkInteractive ==
  /\ ~Active(interactive_child) /\ Active(parent)
  /\ "slave" \in descriptors /\ ~readable("slave")

direct_parent_services_pty == owns_pty_master(parent)

relay_through_ancestor ==
  /\ ~direct_parent_services_pty
  /\ ~Active(interactive_parent)
  /\ depth > 0 /\ owns_pty_master(Newest)

park_interactive_child ==
  /\ ~halted
  /\ CanParkInteractive
  /\ direct_parent_services_pty \/ relay_through_ancestor
  /\ interactive_child' = Suspended("block", 0)
  /\ LET server == IF relay_through_ancestor THEN Newest ELSE parent
     IN  /\ resume_parent(server, "park", first_park(server))
         /\ arena' = (arena \cup {memory}) \ {server.snap}
  /\ IF relay_through_ancestor
     THEN /\ interactive_parent' = parent
          /\ nested_ancestors' = Older
          /\ interactive_relay_service_pid' = Newest.pid
     ELSE UNCHANGED <<interactive_parent, nested_ancestors,
                      interactive_relay_service_pid>>
  /\ parent' = NoContext
  /\ UNCHANGED <<background, references, waitable_children, next_pid, ready,
                 halted, exited>>

relayed == Active(interactive_parent)

\* The guard of resume_interactive_child_if_ready.
pty_child_can_resume(interrupted) ==
  /\ Active(interactive_child)
  /\ \/ process.pid = interactive_child.parent_pid
     \/ relayed /\ process.pid = interactive_relay_service_pid
  /\ ~Active(parent)
  /\ readable("slave") \/ interrupted
  /\ ~(relayed /\ depth = NestedCapacity)

\* The server, blocked in a call, makes way for the parked program.  Below a
\* relay it is stacked under the shell; a stack that cannot grow is fatal.
resume_interactive_child_if_ready(interrupted) ==
  /\ ~halted
  /\ pty_child_can_resume(interrupted)
  /\ LET server == Suspended("block", IF relayed THEN interactive_parent.pid
                                      ELSE interactive_child.pid)
     IN  IF relayed /\ background.snap # 0
         THEN /\ halted' = TRUE
              /\ UNCHANGED <<kernel, history>>
         ELSE /\ parent' = IF relayed THEN interactive_parent ELSE server
              /\ nested_ancestors' = IF relayed THEN Append(nested_ancestors, server)
                                     ELSE nested_ancestors
              /\ background' = IF relayed THEN NoBackground ELSE background
              /\ interactive_parent' = NoContext
              /\ interactive_relay_service_pid' = 0
              /\ interactive_child' = NoContext
              /\ arena' = (arena \cup {memory}) \ {interactive_child.snap}
              /\ process' = [pid |-> interactive_child.pid,
                             parent_pid |-> interactive_child.parent_pid]
              /\ memory' = interactive_child.snap
              /\ descriptors' = interactive_child.descriptors
              /\ outcome' = [by |-> "wake", frame |-> "block", again |-> FALSE,
                             gives |-> IF interrupted THEN "EINTR" ELSE "replay"]
              /\ UNCHANGED <<references, halted, exited, answered>>
  /\ UNCHANGED <<waitable_children, next_pid, ready>>

\* The active process, blocked in a call, makes way for the ready service; its
\* callers try the parked program first.  With no room in the arena nothing
\* changes.
resume_background_if_ready ==
  /\ ~halted
  /\ background.used /\ background.wait \in Sockets
  /\ readable(background.wait)
  /\ ~Active(parent)
  /\ ~pty_child_can_resume(FALSE)
  /\ parent' = Suspended("block", background.pid)
  /\ arena' = (arena \cup {memory}) \ {background.snap}
  /\ process' = [pid |-> background.pid, parent_pid |-> background.parent_pid]
  /\ memory' = background.snap
  /\ descriptors' = background.descriptors
  /\ background' = [background EXCEPT !.wait = "none", !.snap = 0,
                                      !.descriptors = {}]
  /\ UNCHANGED <<nested_ancestors, parked, references, waitable_children,
                 next_pid, ready, halted, history>>

Next ==
  \/ clone \/ clone_no_memory
  \/ exit_child \/ exit_last
  \/ \E z \in waitable_children : wait4(z)
  \/ \E o \in Objects : open(o) \/ close(o) \/ arrive(o) \/ consume(o)
  \/ \E o \in Sockets : park_background(o) \/ park_background_no_memory(o)
  \/ resume_background_if_ready
  \/ park_interactive_child
  \/ \E i \in BOOLEAN : resume_interactive_child_if_ready(i)

Spec == Init /\ [][Next]_vars

-----------------------------------------------------------------------------

\* Every saved context that holds a process; the background record counts
\* while it holds an image, the rest of the time it only names a service.
Saved ==
  nested_ancestors \o
  <<parent, interactive_child, interactive_parent,
    [NoContext EXCEPT !.pid = IF background.snap = 0 THEN 0 ELSE background.pid,
                      !.snap = background.snap,
                      !.descriptors = background.descriptors]>>

Holding(p) == {i \in DOMAIN Saved : Saved[i].pid = p}

Alive == (1..(next_pid - 1)) \ exited

\* Types: the records keep their shape, the tables stay within their capacities
\* and no reference count goes below zero.
TypeOK ==
  /\ process \in [pid : Pid, parent_pid : 0..MaxPid]
  /\ descriptors \subseteq Objects
  /\ memory \in 0..MaxPid
  /\ parent \in Context /\ interactive_child \in Context
  /\ interactive_parent \in Context
  /\ nested_ancestors \in Seq(Context) /\ depth <= NestedCapacity
  /\ background \in [used : BOOLEAN, pid : 0..MaxPid, parent_pid : 0..MaxPid,
                     wait : Sockets \cup {"none"}, snap : 0..MaxPid,
                     descriptors : SUBSET Objects]
  /\ interactive_relay_service_pid \in 0..MaxPid
  /\ waitable_children \subseteq [pid : Pid, parent_pid : Pid]
  /\ Cardinality(waitable_children) <= WaitableCapacity
  /\ next_pid \in 2..(MaxPid + 1)
  /\ arena \subseteq 0..MaxPid
  /\ references \in [Objects -> 0..(NestedCapacity + 5)]
  /\ ready \subseteq Objects
  /\ halted \in BOOLEAN
  /\ exited \subseteq Pid /\ answered \subseteq Pid

\* Images never mix: the flat memory holds the active process's own image, each
\* saved context holds its own process's image, and the arena holds exactly
\* those images, so that none leaks.
ImagesOwned ==
  /\ memory = process.pid
  /\ \A i \in DOMAIN Saved : Saved[i].snap = Saved[i].pid
  /\ arena = {Saved[i].snap : i \in DOMAIN Saved} \ {0}

\* No process is lost and none is duplicated by clone, exit, the parks and the
\* resumptions: each one that has not exited is the active process or sits in
\* exactly one saved context, with its own image, and nothing else does.
EveryProcessKept ==
  /\ TypeOK
  /\ ImagesOwned
  /\ ~halted =>
       /\ process.pid \in Alive /\ Holding(process.pid) = {}
       /\ \A p \in Alive \ {process.pid} : Cardinality(Holding(p)) = 1
       /\ \A p \in exited : Holding(p) = {}

\* Reference counting over fork, park, resume, exit and close is exact: an
\* object's count is the number of descriptor tables it is in.
ReferencesExact ==
  \A o \in Objects :
    references[o] = Cardinality({i \in DOMAIN Saved : o \in Saved[i].descriptors})
                    + (IF o \in descriptors THEN 1 ELSE 0)

\* The suspended processes are the ancestors of the active one, in order: the
\* process on top of each suspension is the child it is waiting for.
AncestryOrdered ==
  LET chain == nested_ancestors \o (IF Active(parent) THEN <<parent>> ELSE <<>>)
  IN  /\ \A i \in 1..(Len(chain) - 1) :
           chain[i].child_pid = chain[i + 1].pid /\ chain[i + 1].parent_pid = chain[i].pid
      /\ Active(parent) =>
           parent.child_pid = process.pid /\ process.parent_pid = parent.pid

\* Parking a child answers its parent's fork exactly once: the parent's first
\* resumption returns the child's id, and every later one replays the call the
\* parent was blocked in.
ParkAnswersForkOnce ==
  outcome.by = "park" => (outcome.gives = "pid" <=> ~outcome.again)

-----------------------------------------------------------------------------

\* Promised by the documents and not kept by the code: see the findings in
\* the README.

\* A fork is refused only when the arena or the process metadata is full.
ForkRefusedOnlyWhenFull ==
  ~halted /\ depth < NestedCapacity /\ Cardinality(waitable_children) < WaitableCapacity
    => ~ForkRefused

\* A fork returns to its parent once: no exit hands a child's id to a parent
\* whose fork of that child has already returned.
ForkReturnsOnce ==
  outcome.gives = "pid" => ~outcome.again

\* A session that ends gives way to the listener and shell it interrupted: the
\* machine does not stop while ancestors of the exiting process are suspended.
SessionExitRestoresListener ==
  halted => nested_ancestors = <<>>

\* A fork that fails for want of memory leaves every suspension as it was.
ForkFailsAtomically ==
  [][next_pid' # next_pid /\ process' = process
       => UNCHANGED <<parent, nested_ancestors>>]_vars

\* No zombie outlives the only process that may reap it.
NoOrphanZombie ==
  ~halted => (\A z \in waitable_children : z.parent_pid \notin exited)

=============================================================================
