------------------------------- MODULE Device -------------------------------
(***************************************************************************)
(* A writable storage device under a filesystem (drivers/fs/filesystem.hpp) *)
(* and the faults that meet it.  Writes reach a volatile cache; a flush    *)
(* makes them durable; a power cut keeps the durable state and the writes  *)
(* since that had come through.                                            *)
(*                                                                         *)
(* An operation of a filesystem is one step: the kernel runs one at a time *)
(* and waits for every command.  Its operators thread a record s through   *)
(* the code: the media, the durable base and the log of writes since, the  *)
(* first error, the number of commands done and of those left before the   *)
(* fault, and what the filesystem adds.  A read that fails has the effect  *)
(* of failing the write that follows it.                                   *)
(***************************************************************************)
EXTENDS Integers, Sequences, SequencesExt

CONSTANTS
  FaultKinds,             \* subset of {"cut", "io"}
  Faulty,                 \* operations during which a fault may happen
  MaxFaults,              \* faults in a behaviour
  Reorders                \* a cut keeps any of the unflushed writes, or all

ASSUME DeviceAssumption ==
  /\ FaultKinds \subseteq {"cut", "io"}
  /\ MaxFaults \in Nat /\ Reorders \in BOOLEAN

VARIABLES
  platter,      \* what survives a power cut
  unflushed,    \* the writes since, oldest first
  faults        \* history: how many faults have happened

\* Step over the elements of a sequence in order.  TLC evaluates it in far fewer
\* steps than FoldLeft.
Fold(Step(_, _), start, seq) ==
  LET length == Cardinality(DOMAIN seq)
      after[k \in 0..length] == IF k = 0 THEN start ELSE Step(after[k - 1], seq[k])
  IN  after[length]

Apply(media, writes) ==
  Fold(LAMBDA m, w : [m EXCEPT ![w.at] = w.value], media, writes)

Media == IF unflushed = <<>> THEN platter ELSE Apply(platter, unflushed)

-----------------------------------------------------------------------------
(* Commands.                                                               *)

Ok(s) == s.err = "none"

Fail(s, error) == IF Ok(s) THEN [s EXCEPT !.err = error] ELSE s

\* One command: skipped after an error, refused where the fault strikes.
Command(s, Done(_)) ==
  IF ~Ok(s) THEN s
  ELSE IF s.left = 0 THEN [s EXCEPT !.err = s.kind, !.left = -1]
  ELSE Done([s EXCEPT !.left = IF @ > 0 THEN @ - 1 ELSE @, !.done = @ + 1])

\* The log with one more write.  When a cut keeps all of it, only the last write
\* to each place matters, and only where it changes something.
Logged(base, log, at, value) ==
  LET others == SelectSeq(log, LAMBDA w : w.at # at)
  IN  IF Reorders THEN Append(log, [at |-> at, value |-> value])
      ELSE IF base[at] = value THEN others
      ELSE Append(others, [at |-> at, value |-> value])

write_exact(s, at, value) ==
  LET Done(t) == [t EXCEPT !.media[at] = value, !.log = Logged(t.base, @, at, value)]
  IN  Command(s, Done)

flush(s) ==
  LET Done(t) == [t EXCEPT !.base = t.media, !.log = <<>>]
  IN  Command(s, Done)

\* The code goes on with s when it returned no error.
Then(s, Rest(_)) == IF Ok(s) THEN Rest(s) ELSE s

\* What the code does after an error it has seen, before it returns that error;
\* after a power cut nothing is done.
Undo(s, Undone(_)) ==
  LET Restore(t, error) == IF t.err = "cut" THEN t ELSE [t EXCEPT !.err = error]
  IN  IF s.err \in {"none", "cut"} THEN s
      ELSE Restore(Undone([s EXCEPT !.err = "none"]), s.err)

\* A call whose result is thrown away: (void).
Ignored(s) == IF s.err = "cut" THEN s ELSE [s EXCEPT !.err = "none"]

-----------------------------------------------------------------------------
(* Steps: an operation with the fault, if any, that meets it.              *)

NoFault == [kind |-> "none", left |-> -2]

\* The writes since the last flush that a power cut leaves on the media.
Survivors(log) ==
  IF Reorders
  THEN {SelectSeq([k \in 1..Len(log) |-> [k |-> k, at |-> log[k].at, value |-> log[k].value]],
                  LAMBDA w : w.k \in kept) : kept \in SUBSET (1..Len(log))}
  ELSE {log}

\* The operation ended as s and the filesystem keeps Returned(s); or the power
\* went in the middle of it, and the volume is mounted again where the operation
\* would have left whole.  A call that is refused before its first command
\* changes nothing and is no step.
Finish(s, whole, fault, Returned(_), Remounted(_, _)) ==
  IF s.err = "cut"
  THEN /\ \E log \in Survivors(s.log) : platter' = Apply(s.base, log)
       /\ unflushed' = <<>>
       /\ faults' = faults + 1
       /\ Remounted(platter', whole)
  ELSE /\ s.err # "refused"
       /\ fault = NoFault \/ s.left = -1
       /\ platter' = s.base
       /\ unflushed' = s.log
       /\ faults' = IF fault = NoFault THEN faults ELSE faults + 1
       /\ Returned(s)

\* The fault, if any, strikes one of the commands that the operation gives
\* when nothing is in its way.
Attempt(operation, Run(_), Returned(_), Remounted(_, _)) ==
  \E clean \in {Run(NoFault)} :
    \/ Finish(clean, clean.media, NoFault, Returned, Remounted)
    \/ /\ faults < MaxFaults
       /\ operation \in Faulty
       /\ \E kind \in FaultKinds, left \in 0..(clean.done - 1) :
            \E fault \in {[kind |-> kind, left |-> left]} :
              \E s \in {Run(fault)} : Finish(s, clean.media, fault, Returned, Remounted)

\* The machine is switched off and on between two operations.
PowerOff(Remounted(_, _)) ==
  /\ platter' = platter
  /\ unflushed' = <<>>
  /\ Remounted(platter, Media)
  /\ UNCHANGED faults

=============================================================================
