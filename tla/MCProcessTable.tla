--------------------------- MODULE MCProcessTable ---------------------------
(* Three or four records and a counter that runs out: forks are refused for *)
(* want of a slot and for want of an id.                                     *)
EXTENDS ProcessTable

AllSelectors == Selector

=============================================================================
