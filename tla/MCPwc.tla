--------------------------------- MODULE MCPwc ---------------------------------
(***************************************************************************)
(* Trees for Pwc.  ftw visits a directory before what is in it.            *)
(***************************************************************************)
EXTENDS Pwc

F(n) == [k \in 1 .. n |-> "file"]

\* 22 files in two directories, on rings of eight slots: both rings wrap around.
MCTwoDirs == <<"dir">> \o F(11) \o <<"dir">> \o F(11)

\* Three files in one directory.
MCOneDir == <<"dir">> \o F(3)
================================================================================
