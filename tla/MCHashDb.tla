-------------------------------- MODULE MCHashDb --------------------------------
(* Three paths and three contents, two of one hash; stores that agree and that *)
(* do not.                                                                     *)
EXTENDS HashDb

CONSTANTS a1, a2, b

MCHash == [x \in Contents |-> IF x = a2 THEN a1 ELSE x]

From(t)  == [p \in {q \in Paths : t[q] # NoFile} |-> MCHash[t[p]]]
MCTrees  == {<<a1, b, a2>>, <<NoFile, b, b>>}
MCMaps   == {From(t) : t \in {<<NoFile, NoFile, NoFile>>, <<a1, b, NoFile>>, <<a1, a1, b>>}}
MCLogs   == {<<>>, Line(a1) \o Line(a1) \o Line(b)}
================================================================================
