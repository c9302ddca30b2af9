-------------------------------- MODULE MCCpHash --------------------------------
(***************************************************************************)
(* Trees and hashes for CpHash: a1 and a2 have the same MD5.               *)
(***************************************************************************)
EXTENDS CpHash

CONSTANTS p1, p2, p3, a1, a2, c1

MCMd5 == [x \in Contents |-> IF x = a2 THEN a1 ELSE x]
MCFnv == [x \in Contents |-> x]

Tree(x, y, z) == [p \in Paths |-> IF p = p1 THEN x ELSE IF p = p2 THEN y ELSE z]

\* Duplicates, an MD5 collision, files of the same path and other content.
MCTrees == {Tree(NoFile, NoFile, NoFile), Tree(NoFile, NoFile, a1), Tree(a1, a1, c1),
            Tree(a1, a2, Empty), Tree(c1, NoFile, a2)}
================================================================================
