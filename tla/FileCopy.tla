--------------------------------- MODULE FileCopy ---------------------------------
(***************************************************************************)
(* The tools that write one file from another: cp_img, which makes an      *)
(* image equal to another of its size and writes only units that differ,   *)
(* and append and append0, which add a file to the end of another.         *)
(*                                                                         *)
(* A file is a sequence of bytes; nobody else writes to it.  A run may be  *)
(* killed between two system calls, and started again.                     *)
(***************************************************************************)
EXTENDS Naturals, Sequences

CONSTANTS
  Bytes,            (* values of a byte, 0 among them                            *)
  Unit,             (* UNIT of cp_img, and the buffer of append0                 *)
  MaxSize,          (* bound: the size of a file at first                        *)
  MaxRuns           (* bound: times that the tool is started                     *)

FileCopyAssumption == 0 \in Bytes /\ Unit \in Nat \ {0} /\ MaxSize \in Nat

VARIABLES
  tool,
  src, dst,         (* the contents of the two files                             *)
  was,              (* history: of the destination before the first run          *)
  pc,               (* where the program is; "ended" and "killed" are outside it *)
  base,             (* append: the size of the destination, as fstat gave it     *)
  pos,              (* start, off_in                                             *)
  result,           (* 0, or 1 for an exit with -1 or a message of error         *)
  runs

files == <<src, dst, was>>
vars  == <<tool, files, pc, base, pos, result, runs>>

Files == UNION {[1 .. n -> Bytes] : n \in 0 .. MaxSize}

Init ==
  /\ tool \in {"cp_img", "append", "append0"}
  /\ src \in Files /\ dst \in Files /\ was = dst
  /\ pc = "start" /\ base = 0 /\ pos = 0 /\ result = 0 /\ runs = 1

--------------------------------------------------------------------------------
Least(m, n) == IF m < n THEN m ELSE n
Zeros(n)    == [i \in 1 .. n |-> 0]

\* The n bytes of f at offset i, or as many as there are.
pread(f, n, i) == SubSeq(f, i + 1, Least(i + n, Len(f)))

\* f after the bytes of s are written at offset i, at its end or beyond.
pwrite(f, s, i) ==
  [j \in 1 .. IF i + Len(s) > Len(f) THEN i + Len(s) ELSE Len(f) |->
     IF j > i /\ j <= i + Len(s) THEN s[j - i] ELSE IF j <= Len(f) THEN f[j] ELSE 0]

Ends(r) == pc' = "ended" /\ result' = r

\* A file cannot be opened or mapped, or is not of the size it should be.
GivesUp ==
  /\ pc = "start" /\ Ends(1)
  /\ UNCHANGED <<tool, files, base, pos, runs>>

--------------------------------------------------------------------------------
cp_img ==
  /\ tool = "cp_img" /\ pc = "start" /\ Len(src) = Len(dst)
  /\ pc' = "compare"
  /\ UNCHANGED <<tool, files, base, pos, result, runs>>

\* The next unit, the last of which may be shorter, is read and compared.
Compare ==
  /\ pc = "compare" /\ pos < Len(src)
  /\ IF pread(dst, Unit, pos) = pread(src, Unit, pos)
     THEN pos' = pos + Unit /\ UNCHANGED pc
     ELSE pc' = "write" /\ UNCHANGED pos
  /\ UNCHANGED <<tool, files, base, result, runs>>

\* It is written where it differs; a short write is an error.
WriteUnit ==
  LET unit == pread(src, Unit, pos) IN
  /\ pc = "write"
  /\ \/ /\ dst' = pwrite(dst, unit, pos)
        /\ pc' = "compare" /\ pos' = pos + Unit /\ UNCHANGED result
     \/ /\ \E n \in 0 .. Len(unit) - 1 : dst' = pwrite(dst, SubSeq(unit, 1, n), pos)
        /\ Ends(1) /\ UNCHANGED pos
  /\ UNCHANGED <<tool, src, was, base, runs>>

\* A read fails, or gives less than it was asked for; append0 takes less for what there is.
ReadFails ==
  /\ \/ tool = "cp_img" /\ pc = "compare" /\ pos < Len(src)
     \/ tool = "append0" /\ pc = "copy"
  /\ Ends(1)
  /\ UNCHANGED <<tool, files, base, pos, runs>>

AllComparedWhole ==
  /\ pc = "compare" /\ pos + Unit > Len(src) /\ Ends(0)
  /\ UNCHANGED <<tool, files, base, pos, runs>>

AllCompared ==
  /\ pc = "compare" /\ pos >= Len(src) /\ Ends(0)
  /\ UNCHANGED <<tool, files, base, pos, runs>>

--------------------------------------------------------------------------------
\* The destination gets its new size; append does not look whether it did.
ftruncate ==
  /\ tool # "cp_img" /\ pc = "start"
  /\ base' = Len(dst)
  /\ \/ pc' = "copy" /\ dst' = dst \o Zeros(Len(src)) /\ UNCHANGED result
     \/ /\ IF tool = "append0" THEN Ends(1) ELSE (pc' = "copy" /\ UNCHANGED result)
        /\ UNCHANGED dst
  /\ UNCHANGED <<tool, src, was, pos, runs>>

\* append: one copy_file_range, which may copy less; the size is all it looks at.
copy_file_range ==
  /\ tool = "append" /\ pc = "copy"
  /\ \E n \in 0 .. Len(src) :
       /\ dst' = IF n = 0 THEN dst ELSE pwrite(dst, pread(src, n, 0), base)
       /\ Ends(IF n < Len(src) THEN 1 ELSE 0)
  /\ UNCHANGED <<tool, src, was, base, pos, runs>>

\* append0: the offset is advanced before it is used for the write.
CopyBuffer ==
  LET buf == pread(src, Unit, pos) IN
  /\ tool = "append0" /\ pc = "copy"
  /\ IF buf = <<>> THEN Ends(0) /\ UNCHANGED <<dst, pos>>
     ELSE /\ pos' = pos + Len(buf)
          /\ \/ dst' = pwrite(dst, buf, base + pos') /\ UNCHANGED <<pc, result>>
             \/ /\ \E n \in 0 .. Len(buf) - 1 :
                     dst' = IF n = 0 THEN dst ELSE pwrite(dst, SubSeq(buf, 1, n), base + pos')
                /\ Ends(1)
  /\ UNCHANGED <<tool, src, was, base, runs>>

--------------------------------------------------------------------------------
Killed ==
  /\ pc \notin {"start", "ended", "killed"} /\ pc' = "killed"
  /\ UNCHANGED <<tool, files, base, pos, result, runs>>

RunAgain ==
  /\ runs < MaxRuns /\ runs' = runs + 1
  /\ pc = "killed" \/ (pc = "ended" /\ result = 1)
  /\ pc' = "start" /\ pos' = 0 /\ result' = 0
  /\ UNCHANGED <<tool, files, base>>

Next ==
  \/ GivesUp \/ cp_img \/ Compare \/ WriteUnit \/ AllCompared
  \/ ftruncate \/ copy_file_range \/ CopyBuffer \/ ReadFails
  \/ Killed \/ RunAgain

Spec == Init /\ [][Next]_vars

--------------------------------------------------------------------------------
Succeeded == pc = "ended" /\ result = 0

\* However often it was killed or failed before: a run of cp_img that returns 0 leaves
\* the image equal to the source, and no run puts a byte there that is neither the old
\* nor the new one.  append, when it reports no error, leaves the source at the end, and
\* next to the old content if this was the first run.  Of append0 no more is asked than
\* that it never touches what the destination held, as append never does: with success
\* it leaves the source in the wrong place, one buffer too far.
CopyTrue ==
  /\ tool = "cp_img" =>
       /\ Len(dst) = Len(was)
       /\ \A i \in 1 .. Len(dst) : dst[i] = was[i] \/ dst[i] = src[i]
       /\ Succeeded => dst = src
  /\ tool # "cp_img" => SubSeq(dst, 1, Len(was)) = was
  /\ tool = "append" /\ Succeeded =>
       /\ dst = SubSeq(dst, 1, Len(dst) - Len(src)) \o src
       /\ runs = 1 => dst = was \o src
================================================================================
