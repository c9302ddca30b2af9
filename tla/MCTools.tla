--------------------------------- MODULE MCTools ---------------------------------
(***************************************************************************)
(* The tools that read, compare and write files, on small trees: those of  *)
(* Tools, and the deduplicators.  Only one of them moves; tool says which  *)
(* of the deduplicators it is, or program which of the others.             *)
(***************************************************************************)
EXTENDS MCCpHash, Tools, TLC

(* cpcr2 and transactor: three CR2 files, two of one name; two files of a  *)
(* reference and three candidates in two directories, some of them small.  *)
CONSTANTS g1, g2, g3, r1, r2, k1, k2, k3, d1, d2

MCFilesOf == (d1 :> {k1, k2}) @@ (d2 :> {k3})
MCName    == (g1 :> "a") @@ (g2 :> "a") @@ (g3 :> "b")

(* fftw: /d, with s and the hidden .h in it and a file in each of the two,  *)
(* and, perhaps, /g.                                                        *)
CONSTANTS root, d, s1, f, g, h, k

TreeUp == d :> root @@ s1 :> d @@ f :> s1 @@ g :> root @@ h :> d @@ k :> h

TreeBelow[e \in {root, d, s1, f, g, h, k}] ==
  LET names == {x \in DOMAIN TreeUp : TreeUp[x] = e}
  IN  names \cup UNION {TreeBelow[x] : x \in names}

MCWalkTrees ==
  {root :> "dir" @@ d :> "dir" @@ s1 :> "dir" @@ f :> "file" @@ g :> x
   @@ h :> "dir" @@ k :> "file" : x \in {"none", "file"}}

(* xdiff, bdiff, zerorun: files of four bytes at most, a buffer of two.     *)
(* cmpdir, countcphash: trees of three entries at most; u1 and u2 collide,  *)
(* and u4 has hash zero or cannot be read.                                  *)
CONSTANTS u1, u2, u3, u4

MCSize == u1 :> 2 @@ u2 :> 2 @@ u3 :> 1 @@ u4 :> 1
MCHash == u1 :> 1 @@ u2 :> 1 @@ u3 :> 2 @@ u4 :> 0

--------------------------------------------------------------------------------
CpHashIdle ==
  /\ tool = None
  /\ src = Tree(NoFile, NoFile, NoFile) /\ ref = src /\ dst = src /\ before = src /\ found = src
  /\ pc = None /\ todo = {} /\ cur = NoFile /\ s = NoFile /\ hashes = {} /\ fnvs = {}
  /\ count = NoCounts /\ runs = 1 /\ changes = 0

AllInit ==
  \/ Init /\ ToolsIdle
  \/ CpHashIdle /\ ToolsInit

AllNext ==
  \/ tool # None /\ Next /\ UNCHANGED toolsVars
  \/ program # None /\ ToolsNext /\ UNCHANGED vars

AllSpec == AllInit /\ [][AllNext]_<<vars, toolsVars>>
================================================================================
