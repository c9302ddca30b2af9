-------------------------------- MODULE ShellTools --------------------------------
(***************************************************************************)
(* Programs that run shell commands with system():                         *)
(*                                                                         *)
(*   lockx      runs a command while it holds a lock file, and removes it  *)
(*   acquirex   only takes the lock; whoever started it removes the file   *)
(*   phash      has threads run a command for each of its arguments        *)
(*                                                                         *)
(* lockx and acquirex may be killed; a command that lockx was waiting for  *)
(* goes on.  Nobody but the holder of the lock removes the file.           *)
(***************************************************************************)
EXTENDS Naturals, Sequences, FiniteSets

CONSTANTS
  Lockx, Acquirex,    (* processes that share a lock file                      *)
  Threads,            (* of phash: NPROC                                       *)
  NArgs               (* of phash                                              *)

ShellToolsAssumption ==
  /\ IsFiniteSet(Threads) /\ Threads # {} /\ NArgs \in Nat
  /\ "main" \notin Threads \cup Lockx \cup Acquirex
  /\ Threads \cap (Lockx \cup Acquirex) = {}

VARIABLES
  tool,
  pc,                 (* per process or thread, and "main" of phash             *)
  locked,             (* the lock file is there                                 *)
  alive,              (* the processes that were not killed                     *)
  files, running,     (* of phash, under mtx                                    *)
  arg,                (* per thread, the argument it has taken                  *)
  ran                 (* history: per argument, how often its command has ended *)

vars == <<tool, pc, locked, alive, files, running, arg, ran>>

Processes == Lockx \cup Acquirex

Init ==
  /\ tool \in {"lock", "phash"}
  /\ pc = [p \in Processes \cup Threads \cup {"main"} |->
             IF p \in Processes THEN "acquire" ELSE IF p = "main" THEN "loop" ELSE "take"]
  /\ locked = FALSE /\ alive = Processes
  /\ files = [i \in 1 .. NArgs |-> i] /\ running = Cardinality(Threads)
  /\ arg = [t \in Threads |-> 0] /\ ran = [i \in 1 .. NArgs |-> 0]

--------------------------------------------------------------------------------
Moves(p, from, to) == pc[p] = from /\ pc' = [pc EXCEPT ![p] = to]

\* open(O_CREAT|O_EXCL): one system call; while the file is there it is tried again.
Open(p) ==
  /\ tool = "lock" /\ p \in alive /\ Moves(p, "acquire", "run")
  /\ ~locked /\ locked' = TRUE
  /\ UNCHANGED <<tool, alive, files, running, arg, ran>>

\* The command ends: of lockx, or what runs after acquirex has returned.
Command(p) ==
  /\ tool = "lock" /\ Moves(p, "run", "release")
  /\ UNCHANGED <<tool, locked, alive, files, running, arg, ran>>

\* unlink, by lockx or for acquirex by its caller.
Unlink(p) ==
  /\ tool = "lock" /\ p \in alive /\ Moves(p, "release", "done")
  /\ locked' = FALSE
  /\ UNCHANGED <<tool, alive, files, running, arg, ran>>

Killed(p) ==
  /\ tool = "lock" /\ p \in alive /\ pc[p] # "done" /\ alive' = alive \ {p}
  /\ UNCHANGED <<tool, pc, locked, files, running, arg, ran>>

--------------------------------------------------------------------------------
\* thr, under mtx: the last of the files, or the thread is done and signals main.
Take(t) ==
  /\ tool = "phash" /\ files # <<>> /\ Moves(t, "take", "hash")
  /\ arg' = [arg EXCEPT ![t] = files[Len(files)]]
  /\ files' = SubSeq(files, 1, Len(files) - 1)
  /\ UNCHANGED <<tool, locked, alive, running, ran>>

Hash(t) ==
  /\ tool = "phash" /\ Moves(t, "hash", "take")
  /\ ran' = [ran EXCEPT ![arg[t]] = @ + 1]
  /\ UNCHANGED <<tool, locked, alive, files, running, arg>>

LeaveNoSignal(t) ==
  /\ tool = "phash" /\ files = <<>> /\ Moves(t, "take", "done")
  /\ running' = running - 1
  /\ UNCHANGED <<tool, locked, alive, files, arg, ran>>

Leave(t) ==
  /\ tool = "phash" /\ files = <<>> /\ pc[t] = "take"
  /\ running' = running - 1
  /\ pc' = [pc EXCEPT ![t] = "done", !["main"] = IF @ = "wait" THEN "loop" ELSE @]
  /\ UNCHANGED <<tool, locked, alive, files, arg, ran>>

\* main, under mtx: return when no thread is left, or wait; it may wake up unsignalled.
Main ==
  /\ tool = "phash"
  /\ Moves("main", "loop", IF running = 0 THEN "returned" ELSE "wait") \/ Moves("main", "wait", "loop")
  /\ UNCHANGED <<tool, locked, alive, files, running, arg, ran>>

Next ==
  \/ \E p \in Processes : Open(p) \/ Command(p) \/ Unlink(p) \/ Killed(p)
  \/ \E t \in Threads : Take(t) \/ Hash(t) \/ Leave(t)
  \/ Main

Spec == Init /\ [][Next]_vars

--------------------------------------------------------------------------------
\* No two commands run under one lock, not even beside one whose lockx was killed, and
\* the file is there while one does.  When the main of phash returns, the command of
\* every argument has been run, once; while it waits, some thread is still to signal it.
CommandsTrue ==
  /\ \A p, q \in Processes : pc[p] = "run" =>
       locked /\ (p # q => pc[q] \notin {"run", "release"})
  /\ pc["main"] = "returned" => \A i \in 1 .. NArgs : ran[i] = 1
  /\ pc["main"] = "wait" => \E t \in Threads : pc[t] # "done"
================================================================================
