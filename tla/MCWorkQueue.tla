------------------------------ MODULE MCWorkQueue ------------------------------
(***************************************************************************)
(* A program for WorkQueue: the shapes of pwq_test.cc, fftw.c and          *)
(* transactor.cc, on two or three queues.                                  *)
(***************************************************************************)
EXTENDS WorkQueue, TLC

CONSTANTS main, bar, i1, i2, i3, i4, i5, i6

MCItems == {i1, i2, i3, i4, i5, i6}
MCClients == {main}

\* main submits i1, i2 with barrier bar, and i4 without; the callback of i1 submits
\* i3 with bar (a directory found while walking), that of i4 submits i6; main waits
\* for bar, then submits i5 and waits for its future.  Nobody waits for i4 and i6.
MCParent == i1 :> main @@ i2 :> main @@ i3 :> i1 @@ i4 :> main @@ i5 :> main @@ i6 :> i4
MCStage  == i1 :> 1 @@ i2 :> 1 @@ i3 :> 0 @@ i4 :> 1 @@ i5 :> 2 @@ i6 :> 0
MCWaitFor == main :> <<bar, i5>>
MCBar == i1 :> bar @@ i2 :> bar @@ i3 :> bar @@ i4 :> None @@ i5 :> None @@ i6 :> None
\* i2 and i4 have one key.
MCKey == i1 :> 0 @@ i2 :> 4 @@ i3 :> 0 @@ i4 :> 4 @@ i5 :> 0 @@ i6 :> 0
================================================================================
