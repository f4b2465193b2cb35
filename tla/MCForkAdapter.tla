--------------------------- MODULE MCForkAdapter ---------------------------
(* The SSH profile: process 1 is the console shell, 2 the Dropbear listener, *)
(* 3 its session, 4 the login shell on the PTY, 5 a command of that shell.   *)
EXTENDS ForkAdapter

SshOpens ==
  [o \in Objects |->
     CASE o \in Sockets -> {2}
       [] o = "master" -> {3}
       [] o = "slave" -> {4}]

=============================================================================
