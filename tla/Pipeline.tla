-------------------------------- MODULE Pipeline --------------------------------
(***************************************************************************)
(* What the two threads of pwc.c do together, without rings, slots or      *)
(* counters: files go in order through one queue to the thread that counts *)
(* their lines and through another one back to be printed.  Both queues    *)
(* are late: the last entry stays until another follows it, and a zeroed   *)
(* one is there from the start.  Neither thread leaves while more than     *)
(* that is in its queue.                                                   *)
(***************************************************************************)
EXTENDS Integers, Sequences

CONSTANT Capacity   (* of each queue, its last entry included                  *)

VARIABLES
  posted,           (* files to count, by their numbers                        *)
  hand,             (* the file that is being counted, with its lines, if any  *)
  counted,          (* files with their lines, to print                        *)
  printed,
  stage             (* "open", "closing", "drained": all that can be is        *)
                    (* counted; "finished": it is printed                      *)

pipelineVars == <<posted, hand, counted, printed, stage>>

\* A file with its lines: as many as its number says.
Counted(f) == [path |-> f, lines |-> f]

PipelineInit ==
  /\ posted = <<0>> /\ counted = <<Counted(0)>>
  /\ hand = <<>> /\ printed = <<>> /\ stage = "open"

Post ==
  /\ stage = "open" /\ Len(posted) < Capacity
  /\ posted' = Append(posted, posted[Len(posted)] + 1)
  /\ UNCHANGED <<hand, counted, printed, stage>>

Take ==
  /\ Len(posted) > 1 /\ hand = <<>>
  /\ hand' = <<Counted(Head(posted))>> /\ posted' = Tail(posted)
  /\ UNCHANGED <<counted, printed, stage>>

Deliver ==
  /\ hand # <<>> /\ Len(counted) < Capacity
  /\ counted' = counted \o hand /\ hand' = <<>>
  /\ UNCHANGED <<posted, printed, stage>>

Output ==
  /\ Len(counted) > 1
  /\ printed' = Append(printed, Head(counted)) /\ counted' = Tail(counted)
  /\ UNCHANGED <<posted, hand, stage>>

Close ==
  /\ stage = "open" /\ stage' = "closing"
  /\ UNCHANGED <<posted, hand, counted, printed>>

Drain ==
  /\ stage = "closing" /\ Len(posted) = 1 /\ hand = <<>> /\ stage' = "drained"
  /\ UNCHANGED <<posted, hand, counted, printed>>

Finish ==
  /\ stage = "drained" /\ Len(counted) = 1 /\ stage' = "finished"
  /\ UNCHANGED <<posted, hand, counted, printed>>

PipelineNext == Post \/ Take \/ Deliver \/ Output \/ Close \/ Drain \/ Finish

PipelineSpec == PipelineInit /\ [][PipelineNext]_pipelineVars
================================================================================
