---------------------------- MODULE MCPipeTable ----------------------------
(* One ring of three bytes in a slot that is used again: its generation     *)
(* wraps at the third use.                                                  *)
EXTENDS PipeTable

=============================================================================
