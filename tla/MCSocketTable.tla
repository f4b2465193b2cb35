---------------------------- MODULE MCSocketTable ----------------------------
(* Few slots, so that listeners, half-open, accepted and closing            *)
(* connections compete for them.                                            *)
EXTENDS SocketTable

=============================================================================
