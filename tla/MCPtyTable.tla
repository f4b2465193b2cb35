----------------------------- MODULE MCPtyTable -----------------------------
(* An SSH server (process 2), the login shell it runs as leader of session *)
(* 3, and a job of that shell in a group of its own.                        *)
EXTENDS PtyTable

Caller(pid, group, session) ==
  [pid |-> pid, process_group |-> group, session |-> session]

SessionLeader == {Caller(3, 3, 3)}

SshProcesses == {Caller(2, 2, 2), Caller(3, 3, 3), Caller(4, 4, 3)}

EditingModes == {Default, {"isig", "echo", "echoctl"},
                 {"isig", "noflsh", "echo", "echoctl", "onlcr"}}

=============================================================================
