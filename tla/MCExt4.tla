------------------------------- MODULE MCExt4 -------------------------------
(* Instances of Ext4 for TLC: a root directory with room for two names, and  *)
(* two data blocks and two inodes to share among them.                       *)
EXTENDS Ext4

\* Two names in the root, and one below the first when that is a directory.
SomePaths == {<<"a">>, <<"b">>, <<"a", "b">>}

=============================================================================
