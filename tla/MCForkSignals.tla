--------------------------- MODULE MCForkSignals ----------------------------
(* Process 1 serves a terminal, 2 is the shell on it, 3 a command.           *)
EXTENDS ForkSignals

TerminalOpens ==
  [o \in Objects |-> CASE o = "master" -> {1} [] o = "slave" -> {2} [] OTHER -> {}]

Catching ==
  {[handler |-> "function", mask |-> {signal_child}, nodefer |-> FALSE]}

SomeMasks == {{}, {signal_interrupt, signal_kill}}

=============================================================================
