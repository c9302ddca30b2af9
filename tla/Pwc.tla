---------------------------------- MODULE Pwc ----------------------------------
(***************************************************************************)
(* The parallel line counter of pwc.c: main walks a tree and posts every   *)
(* file to a ring that iothread reads; iothread counts the lines and posts *)
(* the file to a second ring, which main reaps, printing and closing.      *)
(*                                                                         *)
(* The rings are synchronised by atomic counters alone, so every access to *)
(* shared memory is an action of its own, in program order (the counters   *)
(* are loaded with acquire and stored with release).  A file is its number *)
(* in the order of the walk, and its number of lines the same number; zero *)
(* is the path and the count of a static, zeroed struct file.              *)
(***************************************************************************)
EXTENDS Integers, Sequences, FiniteSets

CONSTANTS
  FIFO_SIZE,    (* slots of a ring                                          *)
  Walk          (* what ftw() finds, in order: "file" or "dir"              *)

\* The index is masked with FIFO_SIZE - 1, which is % for a power of two.
ASSUME PwcAssumption ==
  /\ FIFO_SIZE \in Nat \ {0, 1}
  /\ Walk \in Seq({"file", "dir"})

VARIABLES
  should_exit_,
  fifo, fifo_head_, fifo_done_,       (* work: main posts, iothread takes   *)
  wfifo, wfifo_head_, wfifo_done_,    (* completions: the other way round   *)
  main,                               (* main: where it is                  *)
  pos,                                (* main: entries of Walk visited      *)
  opened,                             (* main: files opened, the last is f  *)
  wfifo_tail,                         (* main: static int of reap_done      *)
  printed,                            (* main: the output, one entry a line *)
  io,                                 (* iothread: where it is              *)
  should_exit,                        (* iothread: its copy of should_exit_ *)
  fifo_tail                           (* iothread                           *)

mainVars == <<main, pos, opened, wfifo_tail, printed>>
ioVars   == <<io, should_exit, fifo_tail>>
workRing == <<fifo, fifo_head_, fifo_done_>>
doneRing == <<wfifo, wfifo_head_, wfifo_done_>>
vars     == <<should_exit_, workRing, doneRing, mainVars, ioVars>>

Slots  == 0 .. FIFO_SIZE - 1
Slot(n) == n % FIFO_SIZE
Zeroed == [path |-> 0, lines |-> 0]

Init ==
  /\ should_exit_ = FALSE /\ should_exit = FALSE
  /\ fifo = [s \in Slots |-> Zeroed] /\ wfifo = [s \in Slots |-> Zeroed]
  /\ fifo_head_ = 0 /\ fifo_done_ = 0 /\ fifo_tail = 0
  /\ wfifo_head_ = 0 /\ wfifo_done_ = 0 /\ wfifo_tail = 0
  /\ main = "ftw" /\ pos = 0 /\ opened = 0 /\ printed = <<>>
  /\ io = "top"

--------------------------------------------------------------------------------
(* main                                                                    *)

\* ftw calls file_cb; a file that cannot be opened (there may be too many open
\* already) makes it pause() for good.
file_cb ==
  /\ main = "ftw" /\ pos < Len(Walk)
  /\ pos' = pos + 1
  /\ \/ Walk[pos + 1] = "dir" /\ main' = "wdone" /\ opened' = opened
     \/ Walk[pos + 1] = "file" /\ main' = "push" /\ opened' = opened + 1
     \/ Walk[pos + 1] = "file" /\ main' = "paused" /\ opened' = opened
  /\ UNCHANGED <<wfifo_tail, printed, should_exit_, workRing, doneRing, ioVars>>

\* push: spin while the ring is full, then fill the slot after the head.
push ==
  /\ main = "push"
  /\ fifo_head_ - fifo_done_ # FIFO_SIZE - 1
  /\ fifo' = [fifo EXCEPT ![Slot(fifo_head_ + 1)] = [path |-> opened, lines |-> 0]]
  /\ main' = "publish"
  /\ UNCHANGED <<fifo_head_, fifo_done_, pos, opened, wfifo_tail, printed,
                 should_exit_, doneRing, ioVars>>

\* push: store the new head.
pushHead ==
  /\ main = "publish"
  /\ fifo_head_' = fifo_head_ + 1
  /\ main' = "wdone"
  /\ UNCHANGED <<fifo, fifo_done_, pos, opened, wfifo_tail, printed,
                 should_exit_, doneRing, ioVars>>

wdone == wfifo_head_ - wfifo_done_

ReapIfFull ==
  /\ main = "wdone"
  /\ main' = IF wdone > FIFO_SIZE THEN "reap" ELSE "ftw"
  /\ UNCHANGED <<pos, opened, wfifo_tail, printed, should_exit_, workRing,
                 doneRing, ioVars>>

\* file_cb: reap only when the completion ring is more than half full.
ReapIfHalfFull ==
  /\ main = "wdone"
  /\ main' = IF wdone > FIFO_SIZE \div 2 THEN "reap" ELSE "ftw"
  /\ UNCHANGED <<pos, opened, wfifo_tail, printed, should_exit_, workRing,
                 doneRing, ioVars>>

ReapNext ==
  /\ main \in {"reap", "lastreap"} /\ wfifo_head_ # wfifo_tail
  /\ printed' = Append(printed, wfifo[Slot(wfifo_tail + 1)])
  /\ wfifo_tail' = wfifo_tail + 1
  /\ UNCHANGED <<main, pos, opened, should_exit_, workRing, doneRing, ioVars>>

\* reap_done: print and close one completed file.
ReapOne ==
  /\ main \in {"reap", "lastreap"} /\ wfifo_head_ # wfifo_tail
  /\ printed' = Append(printed, wfifo[Slot(wfifo_tail)])
  /\ wfifo_tail' = wfifo_tail + 1
  /\ UNCHANGED <<main, pos, opened, should_exit_, workRing, doneRing, ioVars>>

\* reap_done: nothing left; give the slots back.
ReapEnd ==
  /\ main \in {"reap", "lastreap"} /\ wfifo_head_ = wfifo_tail
  /\ wfifo_done_' = wfifo_tail
  /\ main' = IF main = "reap" THEN "ftw" ELSE "done"
  /\ UNCHANGED <<wfifo, wfifo_head_, pos, opened, wfifo_tail, printed,
                 should_exit_, workRing, ioVars>>

\* main: the walk is over.
AskToExit ==
  /\ main = "ftw" /\ pos = Len(Walk)
  /\ should_exit_' = TRUE
  /\ main' = "join"
  /\ UNCHANGED <<pos, opened, wfifo_tail, printed, workRing, doneRing, ioVars>>

Join ==
  /\ main = "join" /\ io = "exited"
  /\ main' = "lastreap"
  /\ UNCHANGED <<pos, opened, wfifo_tail, printed, should_exit_, workRing,
                 doneRing, ioVars>>

Main ==
  \/ file_cb \/ push \/ pushHead \/ ReapIfHalfFull \/ ReapOne \/ ReapEnd
  \/ AskToExit \/ Join

--------------------------------------------------------------------------------
(* iothread                                                                *)

\* Whether to exit is read before the head is: what main posted before it asked
\* for the exit is seen.
LoadShouldExit ==
  /\ io = "top"
  /\ should_exit' = should_exit_
  /\ io' = "test"
  /\ UNCHANGED <<fifo_tail, should_exit_, workRing, doneRing, mainVars>>

\* Nothing posted: leave or look again.
NothingPosted ==
  /\ io = "test" /\ fifo_head_ = fifo_tail
  /\ io' = IF should_exit THEN "exited" ELSE "top"
  /\ UNCHANGED <<should_exit, fifo_tail, should_exit_, workRing, doneRing, mainVars>>

\* Count the newlines of the file in the slot at the tail.
Count ==
  /\ io \in {"test", "next"} /\ fifo_head_ # fifo_tail
  /\ fifo' = [fifo EXCEPT ![Slot(fifo_tail)].lines = fifo[Slot(fifo_tail)].path]
  /\ fifo_tail' = fifo_tail + 1
  /\ io' = "wpush"
  /\ UNCHANGED <<should_exit, fifo_head_, fifo_done_, should_exit_, doneRing, mainVars>>

\* wpush: spin while the completion ring is full, then fill the slot after its
\* head.
wpush ==
  /\ io = "wpush"
  /\ wfifo_head_ - wfifo_done_ # FIFO_SIZE - 1
  /\ wfifo' = [wfifo EXCEPT ![Slot(wfifo_head_ + 1)] = fifo[Slot(fifo_tail - 1)]]
  /\ io' = "wpublish"
  /\ UNCHANGED <<should_exit, fifo_tail, wfifo_head_, wfifo_done_, should_exit_,
                 workRing, mainVars>>

\* wpush: store the new head of the completion ring.
wpushHead ==
  /\ io = "wpublish"
  /\ wfifo_head_' = wfifo_head_ + 1
  /\ io' = "next"
  /\ UNCHANGED <<should_exit, fifo_tail, wfifo, wfifo_done_, should_exit_,
                 workRing, mainVars>>

BatchEndNoStore ==
  /\ io = "next" /\ fifo_head_ = fifo_tail
  /\ io' = IF should_exit THEN "exited" ELSE "top"
  /\ UNCHANGED <<should_exit, fifo_tail, should_exit_, workRing, doneRing, mainVars>>

\* The end of a batch: only now the slots of the whole batch are given back.
BatchEnd ==
  /\ io = "next" /\ fifo_head_ = fifo_tail
  /\ fifo_done_' = fifo_tail
  /\ io' = IF should_exit THEN "exited" ELSE "top"
  /\ UNCHANGED <<should_exit, fifo_tail, fifo, fifo_head_, should_exit_, doneRing,
                 mainVars>>

iothread ==
  LoadShouldExit \/ NothingPosted \/ Count \/ wpush \/ wpushHead \/ BatchEnd

--------------------------------------------------------------------------------
Next == Main \/ iothread

Spec == Init /\ [][Next]_vars

\* Both threads are scheduled.
FairSpec == Spec /\ WF_vars(Main) /\ WF_vars(iothread)

--------------------------------------------------------------------------------
\* The types of all variables; neither ring ever holds more than it may.
TypeOK ==
  /\ should_exit_ \in BOOLEAN /\ should_exit \in BOOLEAN
  /\ {fifo, wfifo} \subseteq [Slots -> [path : Nat, lines : Nat]]
  /\ {fifo_head_, fifo_done_, fifo_tail, wfifo_head_, wfifo_done_, wfifo_tail} \subseteq Nat
  /\ fifo_head_ - fifo_done_ \in Slots
  /\ wfifo_head_ - wfifo_done_ \in Slots
  /\ main \in {"ftw", "push", "publish", "wdone", "reap", "join", "lastreap",
               "done", "paused"}
  /\ pos \in 0 .. Len(Walk)
  /\ opened \in 0 .. pos
  /\ printed \in Seq([path : Nat, lines : Nat])
  /\ io \in {"top", "test", "next", "wpush", "wpublish", "exited"}

\* The two rings and the two threads between them neither lose, duplicate nor
\* reorder anything, and no slot is written while the other thread still reads
\* it: after two lines for the zeroed slots in front of each ring's first entry,
\* line k of the output is file k - 2, with its own count.
Line(n) == [path |-> n, lines |-> n]
PrintedInOrder ==
  \A k \in 1 .. Len(printed) : printed[k] = Line(IF k <= 2 THEN 0 ELSE k - 2)

\* iothread does not exit with work posted: when main is done it has printed as
\* many lines as it has opened files.
NoPostedWorkLost == main = "done" => Len(printed) = opened

\* Files that are open: main opens them in file_cb and closes them in reap_done.
Open == opened - Cardinality({k \in 1 .. Len(printed) : printed[k].path # 0})

\* Reaping only when the completion ring is more than half full still bounds them
\* well below the limit of 1024 that processes usually have: with rings of 512
\* slots, to 770.
OpenFilesBounded == Open <= FIFO_SIZE + FIFO_SIZE \div 2 + 2

\* iothread spins in wpush on a full completion ring, and main does not reap: it
\* spins in push or waits in pthread_join.
StuckOnFullRing ==
  /\ io = "wpush" /\ wfifo_head_ - wfifo_done_ = FIFO_SIZE - 1
  /\ main \in {"push", "join"}

\* Nobody spins for nothing: while main does in push, iothread has not left and has a
\* batch to do, at the end of which it gives slots back; while main waits in pthread_join,
\* iothread has left or is asked to.
SpinsForTheOther ==
  /\ main = "push" /\ fifo_head_ - fifo_done_ = FIFO_SIZE - 1 =>
       /\ io # "exited"
       /\ io \in {"top", "test"} => fifo_head_ # fifo_tail
  /\ main = "join" => io = "exited" \/ should_exit_

\* The program finishes, unless a file could not be opened or the completion
\* ring has filled up: nothing else can keep it from it.
FinishesUnlessRingFills ==
  <>(main \in {"done", "paused"}) \/ <>[]StuckOnFullRing

\* pwc.c, iothread: "Count newlines in f; push to completion FIFO", of every file
\* posted: when the program is done, each file it opened has been printed.
EveryFilePrinted ==
  main = "done" => \A n \in 1 .. opened : \E k \in 1 .. Len(printed) : printed[k].path = n

\* What the slots of the rings hold that is still to be taken from them, and what
\* iothread has taken and not handed on.
Posted  == [k \in 1 .. fifo_head_ - fifo_tail + 1 |-> fifo[Slot(fifo_tail + k - 1)].path]
Done    == [k \in 1 .. wfifo_head_ - wfifo_tail + 1 |-> wfifo[Slot(wfifo_tail + k - 1)]]
InHand  == CASE io = "wpush" -> <<fifo[Slot(fifo_tail - 1)]>>
             [] io = "wpublish" -> <<wfifo[Slot(wfifo_head_ + 1)]>>
             [] OTHER -> <<>>
Stage   == CASE main = "done" -> "finished"
             [] main # "done" /\ io = "exited" -> "drained"
             [] OTHER -> IF should_exit_ THEN "closing" ELSE "open"

Queues == INSTANCE Pipeline WITH Capacity <- FIFO_SIZE, posted <- Posted, hand <- InHand,
                                 counted <- Done, stage <- Stage

\* The rings, with slots that are written and given back by counters alone, are two
\* queues: what a thread reads from a slot is what the other one posted there, in order
\* and once, and each leaves only when the other is done with its queue.
IsPipeline == Queues!PipelineSpec
================================================================================
