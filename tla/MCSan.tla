---------------------------------- MODULE MCSan ----------------------------------
(***************************************************************************)
(* The two detectors of san/, each on all programs of a few operations: a  *)
(* program is built with one of them.                                      *)
(***************************************************************************)
EXTENDS MCTsan, Csan

VARIABLE detector

sanVars == <<detector, vars, csanVars>>

SanInit == detector \in {"tsan", "csan"} /\ Init /\ CsanInit

SanNext ==
  /\ UNCHANGED detector
  /\ \/ detector = "tsan" /\ Next /\ UNCHANGED csanVars
     \/ detector = "csan" /\ CsanNext /\ UNCHANGED vars

SanSpec == SanInit /\ [][SanNext]_sanVars
================================================================================
