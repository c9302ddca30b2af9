------------------------------- MODULE MCEuler -------------------------------
(* The searches, each over a range that holds some of its answers.         *)
EXTENDS Euler

MCUpto == [p35 |-> 1200, p37 |-> 3800, p216 |-> 120, p381 |-> 150, p387 |-> 2100,
           p387b |-> 2100, p443 |-> 80, p92 |-> 700, jacobi |-> 3000,
           p146 |-> 110, p146y |-> 110, p27 |-> 1539, primeyr |-> 1020]
=============================================================================
