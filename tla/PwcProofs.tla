------------------------------- MODULE PwcProofs -------------------------------
(***************************************************************************)
(* Proofs about Pwc for rings of every size and every walk.                *)
(***************************************************************************)
EXTENDS Pwc, FiniteSetTheorems, SequenceTheorems, TLAPS

\* What logical entry n of the completion ring is: the zeroed slot, then what
\* iothread took, one entry late.
Late(n) == Line(IF n = 0 THEN 0 ELSE n - 1)

\* The file that is opened but whose head is not stored yet.
Unposted == IF main \in {"push", "publish"} THEN 1 ELSE 0

Counters ==
  /\ fifo_head_ \in Nat /\ fifo_done_ \in Nat /\ fifo_tail \in Nat
  /\ wfifo_head_ \in Nat /\ wfifo_done_ \in Nat /\ wfifo_tail \in Nat
  /\ fifo_done_ <= fifo_tail /\ fifo_tail <= fifo_head_
  /\ fifo_head_ - fifo_done_ <= FIFO_SIZE - 1
  /\ main = "publish" => fifo_head_ + 1 - fifo_done_ <= FIFO_SIZE - 1
  /\ wfifo_done_ <= wfifo_tail /\ wfifo_tail <= wfifo_head_
  /\ wfifo_head_ - wfifo_done_ <= FIFO_SIZE - 1
  /\ io = "wpublish" => wfifo_head_ + 1 - wfifo_done_ <= FIFO_SIZE - 1
  /\ opened = fifo_head_ + Unposted
  /\ fifo_tail = IF io \in {"wpush", "wpublish"} THEN wfifo_head_ + 1 ELSE wfifo_head_
  /\ fifo_done_ <= wfifo_head_
  /\ io \in {"top", "test", "exited"} => fifo_done_ = fifo_tail
  /\ Len(printed) = wfifo_tail

Types ==
  /\ should_exit_ \in BOOLEAN /\ should_exit \in BOOLEAN
  /\ fifo \in [Slots -> [path : Nat, lines : Nat]]
  /\ wfifo \in [Slots -> [path : Nat, lines : Nat]]
  /\ main \in {"ftw", "push", "publish", "wdone", "reap", "join", "lastreap",
               "done", "paused"}
  /\ pos \in 0 .. Len(Walk)
  /\ opened \in 0 .. pos
  /\ printed \in Seq([path : Nat, lines : Nat])
  /\ io \in {"top", "test", "next", "wpush", "wpublish", "exited"}

\* No slot of a ring is overwritten while an entry in it may still be read.
Rings ==
  /\ \A n \in fifo_done_ .. fifo_head_ : fifo[Slot(n)].path = n
  /\ main = "publish" => fifo[Slot(fifo_head_ + 1)].path = fifo_head_ + 1
  /\ io = "wpush" => fifo[Slot(fifo_tail - 1)] = Line(fifo_tail - 1)
  /\ \A n \in wfifo_done_ .. wfifo_head_ : wfifo[Slot(n)] = Late(n)
  /\ io = "wpublish" => wfifo[Slot(wfifo_head_ + 1)] = Late(wfifo_head_ + 1)
  /\ \A k \in 1 .. Len(printed) : printed[k] = Late(k - 1)

\* The end: iothread exits after all that was posted, main reaps all of it.
Ends ==
  /\ should_exit => should_exit_
  /\ should_exit_ <=> main \in {"join", "lastreap", "done"}
  /\ io = "exited" => should_exit /\ fifo_tail = fifo_head_
  /\ main \in {"lastreap", "done"} => io = "exited"
  /\ main = "done" => wfifo_tail = wfifo_head_

\* What is posted and not yet given back in the completion ring.
Bounded ==
  /\ main = "ftw" => fifo_head_ - wfifo_done_ <= FIFO_SIZE - 1 + FIFO_SIZE \div 2
  /\ opened - wfifo_tail <= FIFO_SIZE + FIFO_SIZE \div 2
  /\ main \notin {"reap", "lastreap"} => wfifo_tail = wfifo_done_

PwcInv == Types /\ Counters /\ Rings /\ Ends /\ Bounded

--------------------------------------------------------------------------------
LEMMA Size == FIFO_SIZE \in Nat /\ FIFO_SIZE >= 2 /\ Len(Walk) \in Nat
  BY PwcAssumption

\* Division with remainder, for a divisor that is not a numeral.
LEMMA Division ==
  ASSUME NEW n \in Nat, NEW x \in Nat, n > 0
  PROVE  x % n \in Int /\ \E p \in Int : x = n * p + (x % n)
  <1>1. x \div n \in Int
    OBVIOUS
  <1>2. x = n * (x \div n) + (x % n)
    OBVIOUS
  <1>3. x % n \in Int
    OBVIOUS
  <1> QED
    BY <1>1, <1>2, <1>3

LEMMA Multiple ==
  ASSUME NEW n \in Nat, NEW p \in Int, NEW q \in Int, NEW r \in Int,
         NEW x \in Nat, NEW y \in Nat, x = n * p + r, y = n * q + r, x < y
  PROVE  y - x >= n
  <1>1. y - x = n * (q - p)
    OBVIOUS
  <1>2. ASSUME NEW d \in Int, d >= 1
        PROVE  n * d >= n
    BY <1>2
  <1>3. ASSUME NEW d \in Int, d <= 0
        PROVE  n * d <= 0
    BY <1>3
  <1>4. q - p \in Int /\ (q - p >= 1 \/ q - p <= 0)
    OBVIOUS
  <1>5. CASE q - p >= 1
    BY <1>1, <1>2, <1>4, <1>5
  <1>6. CASE q - p <= 0
    <2>1. n * (q - p) <= 0
      BY <1>3, <1>4, <1>6
    <2> QED
      BY <1>1, <2>1
  <1> QED
    BY <1>4, <1>5, <1>6

\* Entries less than a ring apart are in different slots.
LEMMA Apart ==
  ASSUME NEW a \in Nat, NEW b \in Nat, a # b, a - b < FIFO_SIZE, b - a < FIFO_SIZE
  PROVE  Slot(a) # Slot(b)
  <1>1. ASSUME NEW x \in Nat, NEW y \in Nat, x < y, y - x < FIFO_SIZE
        PROVE  x % FIFO_SIZE # y % FIFO_SIZE
    <2>1. FIFO_SIZE \in Nat /\ FIFO_SIZE > 0
      BY Size
    <2>2. PICK p \in Int : x = FIFO_SIZE * p + (x % FIFO_SIZE)
      BY <2>1, Division
    <2>3. PICK q \in Int : y = FIFO_SIZE * q + (y % FIFO_SIZE)
      BY <2>1, Division
    <2>4. x % FIFO_SIZE \in Int
      BY <2>1, Division
    <2>5. ~(y - x >= FIFO_SIZE)
      BY <1>1, <2>1
    <2> QED
      BY <1>1, <2>1, <2>2, <2>3, <2>4, <2>5, Multiple
  <1>2. CASE a < b
    BY <1>1, <1>2 DEF Slot
  <1>3. CASE b < a
    BY <1>1, <1>3 DEF Slot
  <1> QED
    BY <1>2, <1>3

LEMMA InRing ==
  ASSUME NEW n \in Nat
  PROVE  Slot(n) \in Slots
  BY Size DEF Slot, Slots

LEMMA Initially == Init => PwcInv
  <1> SUFFICES ASSUME Init
               PROVE  PwcInv
    OBVIOUS
  <1> USE Size DEF Init
  <1>1. Types
    <2>1. /\ fifo \in [Slots -> [path : Nat, lines : Nat]]
          /\ wfifo \in [Slots -> [path : Nat, lines : Nat]]
      BY DEF Zeroed
    <2>2. printed \in Seq([path : Nat, lines : Nat])
      OBVIOUS
    <2>3. pos \in 0 .. Len(Walk) /\ opened \in 0 .. pos
      OBVIOUS
    <2>4. should_exit_ = FALSE /\ should_exit = FALSE /\ main = "ftw" /\ io = "top"
      OBVIOUS
    <2> HIDE DEF Init
    <2> QED
      BY <2>1, <2>2, <2>3, <2>4 DEF Types
  <1>2. Counters
    BY DEF Counters, Unposted
  <1>3. Rings
    <2>1. Slot(0) \in Slots
      BY InRing
    <2>2. fifo[Slot(0)].path = 0 /\ wfifo[Slot(0)] = Late(0)
      BY <2>1 DEF Zeroed, Late, Line
    <2> QED
      BY <2>2 DEF Rings
  <1>4. Ends /\ Bounded
    BY DEF Ends, Bounded
  <1> QED
    BY <1>1, <1>2, <1>3, <1>4 DEF PwcInv

--------------------------------------------------------------------------------
LEMMA EntryStored ==
  ASSUME NEW S, NEW f \in [S -> [path : Nat, lines : Nat]], NEW s
  PROVE  [f EXCEPT ![s].lines = f[s].path] \in [S -> [path : Nat, lines : Nat]]
  <1>1. ASSUME NEW r \in [path : Nat, lines : Nat]
        PROVE  [r EXCEPT !.lines = r.path] \in [path : Nat, lines : Nat]
    OBVIOUS
  <1>2. CASE s \in S
    BY <1>1, <1>2
  <1>3. CASE s \notin S
    BY <1>3
  <1> QED
    BY <1>2, <1>3

LEMMA TypesStep ==
  ASSUME PwcInv, [Next]_vars
  PROVE  Types'
  <1>0. Types /\ Counters
    BY DEF PwcInv
  <1> USE <1>0, Size, InRing DEF Types, Counters
  <1>1. CASE file_cb
    <2>0. pos < Len(Walk) /\ pos' = pos + 1 /\ (opened' = opened \/ opened' = opened + 1)
      BY <1>1 DEF file_cb
    <2>1. pos' \in 0 .. Len(Walk) /\ opened' \in 0 .. pos'
      <3>1. /\ pos \in Nat /\ opened \in Nat /\ opened <= pos
            /\ Len(Walk) \in Nat
        OBVIOUS
      <3> QED
        BY ONLY <2>0, <3>1
    <2>2. main' \in {"wdone", "push", "paused"}
      BY <1>1 DEF file_cb
    <2> QED
      BY <1>1, <2>1, <2>2 DEF file_cb, workRing, doneRing, ioVars
  <1>2. CASE push
    <2>0. [path |-> opened, lines |-> 0] \in [path : Nat, lines : Nat]
      OBVIOUS
    <2>1. fifo' \in [Slots -> [path : Nat, lines : Nat]]
      BY <1>2, <2>0 DEF push
    <2> QED
      BY <1>2, <2>1 DEF push, doneRing, ioVars
  <1>3. CASE pushHead \/ ReapIfHalfFull \/ ReapEnd \/ AskToExit \/ Join
    BY <1>3 DEF pushHead, ReapIfHalfFull, ReapEnd, AskToExit, Join, workRing, doneRing, ioVars
  <1>4. CASE ReapOne
    <2>1. printed' \in Seq([path : Nat, lines : Nat])
      BY <1>4 DEF ReapOne
    <2> QED
      BY <1>4, <2>1 DEF ReapOne, workRing, doneRing, ioVars
  <1>5. CASE LoadShouldExit \/ NothingPosted \/ wpushHead \/ BatchEnd
    BY <1>5 DEF LoadShouldExit, NothingPosted, wpushHead, BatchEnd, workRing, doneRing, mainVars
  <1>6. CASE Count
    <2>0. fifo' = [fifo EXCEPT ![Slot(fifo_tail)].lines = fifo[Slot(fifo_tail)].path]
      BY <1>6 DEF Count
    <2>1. fifo' \in [Slots -> [path : Nat, lines : Nat]]
      BY ONLY Types, <2>0, EntryStored DEF Types
    <2> QED
      BY <1>6, <2>1 DEF Count, doneRing, mainVars
  <1>7. CASE wpush
    <2>1. fifo_tail - 1 \in Nat
      BY <1>7 DEF wpush
    <2>2. wfifo' \in [Slots -> [path : Nat, lines : Nat]]
      BY <1>7, <2>1 DEF wpush
    <2> QED
      BY <1>7, <2>2 DEF wpush, workRing, mainVars
  <1>8. CASE UNCHANGED vars
    BY <1>8 DEF vars, workRing, doneRing, mainVars, ioVars
  <1> QED
    BY <1>1, <1>2, <1>3, <1>4, <1>5, <1>6, <1>7, <1>8 DEF Next, Main, iothread

\* Count changes nothing of an entry but its lines.
LEMMA LinesStored ==
  ASSUME NEW r \in [path : Nat, lines : Nat]
  PROVE  [r EXCEPT !.lines = r.path] = [path |-> r.path, lines |-> r.path]
OBVIOUS

LEMMA CountersStep ==
  ASSUME PwcInv, [Next]_vars
  PROVE  Counters'
  <1>0. Counters /\ Ends
    BY DEF PwcInv
  <1> USE <1>0, Size DEF Counters, Ends, Unposted
  <1>1. CASE file_cb
    BY <1>1 DEF file_cb, workRing, doneRing, ioVars
  <1>2. CASE push
    BY <1>2 DEF push, doneRing, ioVars
  <1>3. CASE pushHead
    BY <1>3 DEF pushHead, doneRing, ioVars
  <1>4. CASE ReapOne
    <2>1. Len(printed') = Len(printed) + 1
      BY <1>4 DEF ReapOne, PwcInv, Types
    <2> QED
      BY <1>4, <2>1 DEF ReapOne, workRing, doneRing, ioVars
  <1>5. CASE ReapEnd
    BY <1>5 DEF ReapEnd, workRing, ioVars
  <1>6. CASE ReapIfHalfFull \/ AskToExit \/ Join
    BY <1>6 DEF ReapIfHalfFull, AskToExit, Join, workRing, doneRing, ioVars
  <1>7. CASE LoadShouldExit \/ NothingPosted
    BY <1>7 DEF LoadShouldExit, NothingPosted, workRing, doneRing, mainVars
  <1>8. CASE Count
    <2>1. /\ fifo_tail' = fifo_tail + 1 /\ io \in {"test", "next"} /\ io' = "wpush"
          /\ fifo_head_ # fifo_tail
          /\ UNCHANGED <<fifo_head_, fifo_done_, wfifo_head_, wfifo_done_, wfifo_tail, main,
                         opened, printed>>
      BY <1>8 DEF Count, doneRing, mainVars
    <2> QED
      BY <2>1
  <1>9. CASE wpush
    BY <1>9 DEF wpush, workRing, mainVars
  <1>10. CASE wpushHead
    BY <1>10 DEF wpushHead, workRing, mainVars
  <1>11. CASE BatchEnd
    BY <1>11 DEF BatchEnd, doneRing, mainVars
  <1>12. CASE UNCHANGED vars
    BY <1>12 DEF vars, workRing, doneRing, mainVars, ioVars
  <1> QED
    BY <1>1, <1>2, <1>3, <1>4, <1>5, <1>6, <1>7, <1>8, <1>9, <1>10, <1>11, <1>12
       DEF Next, Main, iothread

LEMMA RingsStep ==
  ASSUME PwcInv, [Next]_vars
  PROVE  Rings'
  <1>0. Types /\ Counters /\ Rings /\ Bounded
    BY DEF PwcInv
  <1> USE <1>0, Size DEF Counters
  <1>1. CASE file_cb \/ ReapIfHalfFull \/ AskToExit \/ Join
    <2>1. UNCHANGED <<workRing, doneRing, ioVars, printed>> /\ main' # "publish"
      BY <1>1 DEF file_cb, ReapIfHalfFull, AskToExit, Join
    <2> QED
      BY <2>1 DEF Rings, workRing, doneRing, ioVars
  <1>2. CASE push
    <2>1. /\ fifo' = [fifo EXCEPT ![Slot(fifo_head_ + 1)] = [path |-> opened, lines |-> 0]]
          /\ UNCHANGED <<fifo_head_, fifo_done_, printed, doneRing, ioVars>>
          /\ opened = fifo_head_ + 1 /\ fifo_head_ + 1 - fifo_done_ <= FIFO_SIZE - 1
      BY <1>2 DEF push, Unposted
    <2>2. \A n \in fifo_done_ .. fifo_head_ :
            n \in Nat /\ Slot(n) \in Slots /\ Slot(n) # Slot(fifo_head_ + 1)
      BY <2>1, Apart, InRing
    <2>3. \A n \in fifo_done_ .. fifo_head_ : fifo'[Slot(n)] = fifo[Slot(n)]
      BY <2>1, <2>2 DEF Types
    <2>4. fifo'[Slot(fifo_head_ + 1)].path = fifo_head_ + 1
      BY <2>1, InRing DEF Types
    <2>5. io = "wpush" => fifo_tail - 1 \in fifo_done_ .. fifo_head_
      OBVIOUS
    <2>6. /\ \A n \in fifo_done_ .. fifo_head_ : fifo'[Slot(n)].path = n
          /\ io = "wpush" => fifo'[Slot(fifo_tail - 1)] = Line(fifo_tail - 1)
      BY <2>3, <2>5 DEF Rings
    <2>7. /\ \A n \in wfifo_done_ .. wfifo_head_ : wfifo[Slot(n)] = Late(n)
          /\ io = "wpublish" => wfifo[Slot(wfifo_head_ + 1)] = Late(wfifo_head_ + 1)
          /\ \A k \in 1 .. Len(printed) : printed[k] = Late(k - 1)
      BY DEF Rings
    <2>8. /\ UNCHANGED <<fifo_head_, fifo_done_, printed>>
          /\ UNCHANGED <<wfifo, wfifo_head_, wfifo_done_>> /\ UNCHANGED <<io, fifo_tail>>
      BY <2>1 DEF doneRing, ioVars
    <2> HIDE <1>0, Size DEF Counters
    <2> QED
      BY <2>4, <2>6, <2>7, <2>8 DEF Rings
  <1>3. CASE pushHead
    <2>1. /\ fifo_head_' = fifo_head_ + 1 /\ main = "publish" /\ main' # "publish"
          /\ UNCHANGED <<fifo, fifo_done_, printed, doneRing, ioVars>>
      BY <1>3 DEF pushHead
    <2> QED
      BY <2>1 DEF Rings, doneRing, ioVars
  <1>4. CASE ReapOne
    <2>1. /\ printed' = Append(printed, wfifo[Slot(wfifo_tail)])
          /\ UNCHANGED <<main, workRing, doneRing, ioVars>>
          /\ wfifo_tail \in wfifo_done_ .. wfifo_head_
      BY <1>4 DEF ReapOne
    <2>2. wfifo[Slot(wfifo_tail)] = Late(wfifo_tail)
      BY <2>1 DEF Rings
    <2>3. ASSUME NEW k \in 1 .. Len(printed')
          PROVE  printed'[k] = Late(k - 1)
      <3>0. /\ printed \in Seq([path : Nat, lines : Nat])
            /\ wfifo[Slot(wfifo_tail)] \in [path : Nat, lines : Nat]
        BY InRing DEF Types
      <3>1. /\ Len(printed') = Len(printed) + 1
            /\ \A j \in 1 .. Len(printed) : printed'[j] = printed[j]
            /\ printed'[Len(printed) + 1] = wfifo[Slot(wfifo_tail)]
        BY ONLY <2>1, <3>0, AppendProperties
      <3>2. Len(printed) \in Nat /\ wfifo_tail = Len(printed)
        BY DEF Types
      <3>3. CASE k = Len(printed) + 1
        <4>1. k - 1 = wfifo_tail
          BY <3>2, <3>3
        <4> QED
          BY <2>2, <3>1, <3>3, <4>1
      <3>4. CASE k # Len(printed) + 1
        <4>1. k \in 1 .. Len(printed)
          BY <3>1, <3>2, <3>4
        <4> QED
          BY <3>1, <3>4, <4>1 DEF Rings
      <3> QED
        BY <3>3, <3>4
    <2> QED
      BY <2>1, <2>3 DEF Rings, workRing, doneRing, ioVars
  <1>5. CASE ReapEnd
    <2>1. /\ wfifo_done_' = wfifo_tail /\ main' # "publish"
          /\ UNCHANGED <<printed, workRing, wfifo, wfifo_head_, ioVars>>
      BY <1>5 DEF ReapEnd
    <2> QED
      BY <2>1 DEF Rings, workRing, ioVars
  <1>6. CASE LoadShouldExit \/ NothingPosted
    <2>1. /\ UNCHANGED <<fifo_tail, workRing, doneRing, mainVars>>
          /\ io' \notin {"wpush", "wpublish"}
      BY <1>6 DEF LoadShouldExit, NothingPosted
    <2> QED
      BY <2>1 DEF Rings, workRing, doneRing, mainVars
  <1>7. CASE Count
    <2>1. /\ fifo' = [fifo EXCEPT ![Slot(fifo_tail)].lines = fifo[Slot(fifo_tail)].path]
          /\ fifo_tail' = fifo_tail + 1 /\ io' = "wpush"
          /\ UNCHANGED <<fifo_head_, fifo_done_, doneRing, mainVars>>
      BY <1>7 DEF Count
    <2>2. fifo_tail \in fifo_done_ .. fifo_head_ /\ Slot(fifo_tail) \in Slots
      BY InRing
    <2>3. \A s \in Slots : fifo'[s].path = fifo[s].path
      BY <2>1, <2>2 DEF Types
    <2>4. fifo'[Slot(fifo_tail)] = Line(fifo_tail)
      <3>1. PICK r \in [path : Nat, lines : Nat] : r = fifo[Slot(fifo_tail)]
        BY <2>2 DEF Types
      <3>2. r.path = fifo_tail
        BY <2>2, <3>1 DEF Rings
      <3>3. fifo'[Slot(fifo_tail)] = [r EXCEPT !.lines = r.path]
        BY <2>1, <2>2, <3>1 DEF Types
      <3>4. [r EXCEPT !.lines = r.path] = [path |-> r.path, lines |-> r.path]
        BY LinesStored
      <3> QED
        BY <3>2, <3>3, <3>4 DEF Line
    <2>5. \A n \in Nat : Slot(n) \in Slots
      BY InRing
    <2>6. \A n \in fifo_done_ .. fifo_head_ : fifo'[Slot(n)].path = n
      <3>1. ASSUME NEW n \in fifo_done_ .. fifo_head_
            PROVE  fifo'[Slot(n)].path = n
        <4>1. Slot(n) \in Slots /\ fifo[Slot(n)].path = n
          BY <2>5 DEF Rings
        <4> QED
          BY <2>3, <4>1
      <3> QED
        BY <3>1
    <2>7. main = "publish" => fifo'[Slot(fifo_head_ + 1)].path = fifo_head_ + 1
      BY <2>3, <2>5 DEF Rings
    <2>8. fifo_tail' - 1 = fifo_tail
      BY <2>1
    <2> QED
      BY <2>1, <2>4, <2>6, <2>7, <2>8 DEF Rings, doneRing, mainVars
  <1>8. CASE wpush
    <2>1. /\ wfifo' = [wfifo EXCEPT ![Slot(wfifo_head_ + 1)] = fifo[Slot(fifo_tail - 1)]]
          /\ UNCHANGED <<fifo_tail, wfifo_head_, wfifo_done_, workRing, mainVars>>
          /\ io = "wpush" /\ io' = "wpublish" /\ fifo_tail = wfifo_head_ + 1
          /\ wfifo_head_ + 1 - wfifo_done_ <= FIFO_SIZE - 1
      BY <1>8 DEF wpush
    <2>2. fifo[Slot(fifo_tail - 1)] = Late(wfifo_head_ + 1)
      BY <2>1 DEF Rings, Late
    <2>3. \A n \in wfifo_done_ .. wfifo_head_ :
            n \in Nat /\ Slot(n) \in Slots /\ Slot(n) # Slot(wfifo_head_ + 1)
      BY <2>1, Apart, InRing
    <2>4. \A n \in wfifo_done_ .. wfifo_head_ : wfifo'[Slot(n)] = wfifo[Slot(n)]
      BY <2>1, <2>3 DEF Types
    <2>5. wfifo'[Slot(wfifo_head_ + 1)] = Late(wfifo_head_ + 1)
      BY <2>1, <2>2, InRing DEF Types
    <2>6. \A n \in wfifo_done_ .. wfifo_head_ : wfifo'[Slot(n)] = Late(n)
      BY <2>4 DEF Rings
    <2>7. /\ io' = "wpublish" /\ wfifo_head_' = wfifo_head_ /\ wfifo_done_' = wfifo_done_
          /\ fifo' = fifo /\ fifo_head_' = fifo_head_ /\ fifo_done_' = fifo_done_
          /\ fifo_tail' = fifo_tail /\ main' = main /\ printed' = printed
      BY <2>1 DEF workRing, mainVars
    <2>8. /\ \A n \in fifo_done_ .. fifo_head_ : fifo'[Slot(n)].path = n
          /\ main' = "publish" => fifo'[Slot(fifo_head_ + 1)].path = fifo_head_ + 1
          /\ \A k \in 1 .. Len(printed') : printed'[k] = Late(k - 1)
      BY <2>7 DEF Rings
    <2> HIDE <1>0, Size DEF Counters
    <2> QED
      BY <2>5, <2>6, <2>7, <2>8 DEF Rings
  <1>9. CASE wpushHead
    <2>1. /\ wfifo_head_' = wfifo_head_ + 1 /\ io = "wpublish" /\ io' = "next"
          /\ UNCHANGED <<fifo_tail, wfifo, wfifo_done_, workRing, mainVars>>
      BY <1>9 DEF wpushHead
    <2>2. \A n \in wfifo_done_ .. wfifo_head_ + 1 : wfifo[Slot(n)] = Late(n)
      <3>1. ASSUME NEW n \in wfifo_done_ .. wfifo_head_ + 1  PROVE wfifo[Slot(n)] = Late(n)
        <4>1. CASE n = wfifo_head_ + 1
          BY <2>1, <4>1 DEF Rings
        <4>2. CASE n # wfifo_head_ + 1
          <5>1. n \in wfifo_done_ .. wfifo_head_
            BY <4>2
          <5> QED
            BY <5>1 DEF Rings
        <4> QED
          BY <4>1, <4>2
      <3> QED
        BY <3>1
    <2>3. /\ \A n \in fifo_done_ .. fifo_head_ : fifo[Slot(n)].path = n
          /\ main = "publish" => fifo[Slot(fifo_head_ + 1)].path = fifo_head_ + 1
          /\ \A k \in 1 .. Len(printed) : printed[k] = Late(k - 1)
      BY DEF Rings
    <2>4. /\ UNCHANGED <<fifo, fifo_head_, fifo_done_>> /\ UNCHANGED <<main, printed>>
          /\ wfifo' = wfifo /\ wfifo_done_' = wfifo_done_
      BY <2>1 DEF workRing, mainVars
    <2> HIDE <1>0, Size DEF Counters
    <2> QED
      BY <2>1, <2>2, <2>3, <2>4 DEF Rings
  <1>10. CASE BatchEnd
    <2>1. /\ fifo_done_' = fifo_tail /\ io' \in {"exited", "top"}
          /\ UNCHANGED <<fifo_tail, fifo, fifo_head_, doneRing, mainVars>>
      BY <1>10 DEF BatchEnd
    <2> QED
      BY <2>1 DEF Rings, doneRing, mainVars
  <1>11. CASE UNCHANGED vars
    BY <1>11 DEF vars, workRing, doneRing, mainVars, ioVars, Rings
  <1> QED
    BY <1>1, <1>2, <1>3, <1>4, <1>5, <1>6, <1>7, <1>8, <1>9, <1>10, <1>11
       DEF Next, Main, iothread

LEMMA EndsStep ==
  ASSUME PwcInv, [Next]_vars
  PROVE  Ends' /\ Bounded'
  <1>0. Types /\ Counters /\ Ends /\ Bounded
    BY DEF PwcInv
  <1>h. FIFO_SIZE \div 2 \in Nat
    BY Size
  <1> USE <1>0, <1>h, Size DEF Types, Counters, Ends, Bounded, Unposted
  <1>1. CASE file_cb
    BY <1>1 DEF file_cb, workRing, doneRing, ioVars
  <1>2. CASE push
    BY <1>2 DEF push, doneRing, ioVars
  <1>3. CASE pushHead
    BY <1>3 DEF pushHead, doneRing, ioVars
  <1>4. CASE ReapOne
    BY <1>4 DEF ReapOne, workRing, doneRing, ioVars
  <1>5. CASE ReapEnd
    BY <1>5 DEF ReapEnd, workRing, ioVars
  <1>6. CASE ReapIfHalfFull
    BY <1>6 DEF ReapIfHalfFull, wdone, workRing, doneRing, ioVars
  <1>7. CASE AskToExit \/ Join
    BY <1>7 DEF AskToExit, Join, workRing, doneRing, ioVars
  <1>8. CASE LoadShouldExit \/ NothingPosted
    BY <1>8 DEF LoadShouldExit, NothingPosted, workRing, doneRing, mainVars
  <1>9. CASE Count
    BY <1>9 DEF Count, doneRing, mainVars
  <1>10. CASE wpush
    BY <1>10 DEF wpush, workRing, mainVars
  <1>11. CASE wpushHead
    BY <1>11 DEF wpushHead, workRing, mainVars
  <1>12. CASE BatchEnd
    BY <1>12 DEF BatchEnd, doneRing, mainVars
  <1>13. CASE UNCHANGED vars
    BY <1>13 DEF vars, workRing, doneRing, mainVars, ioVars
  <1> QED
    BY <1>1, <1>2, <1>3, <1>4, <1>5, <1>6, <1>7, <1>8, <1>9, <1>10, <1>11, <1>12, <1>13
       DEF Next, Main, iothread

--------------------------------------------------------------------------------
\* Every reachable state satisfies the inductive invariant.
THEOREM Invariance == Spec => []PwcInv
  <1>1. PwcInv /\ [Next]_vars => PwcInv'
    BY TypesStep, CountersStep, RingsStep, EndsStep DEF PwcInv
  <1> QED
    BY Initially, <1>1, PTL DEF Spec

\* The types of all variables; in particular neither ring ever holds more entries
\* than it has slots to keep apart.
THEOREM TypeCorrect == Spec => []TypeOK
  <1>1. PwcInv => TypeOK
    <2> SUFFICES ASSUME PwcInv
                 PROVE  TypeOK
      OBVIOUS
    <2>1. fifo_head_ - fifo_done_ \in Slots /\ wfifo_head_ - wfifo_done_ \in Slots
      BY Size DEF PwcInv, Counters, Slots
    <2>2. {fifo_head_, fifo_done_, fifo_tail, wfifo_head_, wfifo_done_, wfifo_tail} \subseteq Nat
      BY DEF PwcInv, Counters
    <2> QED
      BY <2>1, <2>2 DEF PwcInv, Types, TypeOK
  <1> QED
    BY Invariance, <1>1, PTL

\* For rings of any size and any walk, no slot is overwritten while the other thread
\* reads it: the lines come out in the order of the files, with their own counts.
THEOREM OrderCorrect == Spec => []PrintedInOrder
  <1>1. PwcInv => PrintedInOrder
    <2>1. ASSUME PwcInv, NEW k \in 1 .. Len(printed)
          PROVE  printed[k] = Line(IF k <= 2 THEN 0 ELSE k - 2)
      <3>1. k \in Nat /\ k >= 1
        BY <2>1 DEF PwcInv, Counters
      <3>2. printed[k] = Line(IF k - 1 = 0 THEN 0 ELSE k - 1 - 1)
        BY <2>1 DEF PwcInv, Rings, Late
      <3>3. (IF k - 1 = 0 THEN 0 ELSE k - 1 - 1) = IF k <= 2 THEN 0 ELSE k - 2
        BY <3>1
      <3> QED
        BY <3>2, <3>3
    <2> QED
      BY <2>1 DEF PrintedInOrder
  <1> QED
    BY Invariance, <1>1, PTL

\* iothread never exits with work that was posted before it was asked to.
THEOREM ExitCorrect == Spec => []NoPostedWorkLost
  <1>1. PwcInv => NoPostedWorkLost
    BY DEF PwcInv, Types, Counters, Ends, NoPostedWorkLost, Unposted
  <1> QED
    BY Invariance, <1>1, PTL

\* Reaping at half a ring bounds the files that are open at any time.
THEOREM OpenCorrect == Spec => []OpenFilesBounded
  <1>1. PwcInv => OpenFilesBounded
    <2> SUFFICES ASSUME PwcInv
                 PROVE  OpenFilesBounded
      OBVIOUS
    <2>1. Len(printed) = wfifo_tail /\ wfifo_tail \in Nat
      BY DEF PwcInv, Counters
    <2>2. \A k \in 1 .. Len(printed) : (printed[k].path # 0) <=> k >= 3
      BY <2>1 DEF PwcInv, Rings, Late, Line
    <2>3. {k \in 1 .. Len(printed) : printed[k].path # 0} = 3 .. wfifo_tail
      BY <2>1, <2>2
    <2>4. Cardinality(3 .. wfifo_tail) = IF 3 > wfifo_tail THEN 0 ELSE wfifo_tail - 3 + 1
      BY <2>1, FS_Interval
    <2>5. opened - wfifo_tail <= FIFO_SIZE + FIFO_SIZE \div 2 /\ opened \in Nat
      BY DEF PwcInv, Bounded, Types
    <2>6. FIFO_SIZE \in Nat /\ FIFO_SIZE \div 2 \in Nat
      BY Size
    <2>7. Open = opened - (IF 3 > wfifo_tail THEN 0 ELSE wfifo_tail - 3 + 1)
      BY <2>3, <2>4 DEF Open
    <2> QED
      BY <2>1, <2>5, <2>6, <2>7 DEF OpenFilesBounded
  <1> QED
    BY Invariance, <1>1, PTL

\* For rings of any size and any walk: main never spins, in push or in pthread_join, for
\* what iothread has done already or has no reason to do.  That iothread, in wpush, may
\* wait for a main that spins is StuckOnFullRing.
THEOREM SpinsCorrect == Spec => []SpinsForTheOther
  <1>1. PwcInv => SpinsForTheOther
    BY Size DEF PwcInv, Types, Counters, Ends, Bounded, Unposted, SpinsForTheOther
  <1> QED
    BY Invariance, <1>1, PTL

--------------------------------------------------------------------------------
\* The entries a .. b of the two queues, and what iothread has in hand.
From(a, b)  == [k \in 1 .. b - a + 1 |-> a + k - 1]
Lates(a, b) == [k \in 1 .. b - a + 1 |-> Late(a + k - 1)]
Hand(i, t)  == IF i \in {"wpush", "wpublish"} THEN <<Line(t - 1)>> ELSE <<>>

LEMMA FromQueue ==
  ASSUME NEW a \in Nat, NEW b \in Nat, a <= b
  PROVE  /\ Len(From(a, b)) = b - a + 1
         /\ Head(From(a, b)) = a /\ From(a, b)[Len(From(a, b))] = b
         /\ a < b => Tail(From(a, b)) = From(a + 1, b)
         /\ Append(From(a, b), b + 1) = From(a, b + 1)
  <1> DEFINE s == From(a, b)
  <1>1. s \in Seq(Nat) /\ Len(s) = b - a + 1 /\ \A k \in 1 .. b - a + 1 : s[k] = a + k - 1
    BY DEF From
  <1>2. From(a, b + 1) \in Seq(Nat) /\ Len(From(a, b + 1)) = b - a + 2
        /\ \A k \in 1 .. b - a + 2 : From(a, b + 1)[k] = a + k - 1
    BY DEF From
  <1>3. a < b => /\ From(a + 1, b) \in Seq(Nat) /\ Len(From(a + 1, b)) = b - a
                 /\ \A k \in 1 .. b - a : From(a + 1, b)[k] = a + k
    BY DEF From
  <1> HIDE DEF s
  <1>4. Head(s) = a /\ s[Len(s)] = b
    BY <1>1
  <1>5. a < b => Tail(s) = From(a + 1, b)
    <2> SUFFICES ASSUME a < b
                 PROVE  Tail(s) = From(a + 1, b)
      OBVIOUS
    <2>1. Tail(s) \in Seq(Nat) /\ Len(Tail(s)) = b - a /\ \A k \in 1 .. b - a : Tail(s)[k] = s[k + 1]
      BY <1>1
    <2>2. \A k \in 1 .. b - a : Tail(s)[k] = From(a + 1, b)[k]
      BY <1>1, <1>3, <2>1
    <2> QED
      BY <1>3, <2>1, <2>2, SeqEqual
  <1>6. Append(s, b + 1) = From(a, b + 1)
    <2>1. /\ Append(s, b + 1) \in Seq(Nat) /\ Len(Append(s, b + 1)) = b - a + 2
          /\ \A k \in 1 .. b - a + 1 : Append(s, b + 1)[k] = s[k]
          /\ Append(s, b + 1)[b - a + 2] = b + 1
      BY <1>1
    <2>2. \A k \in 1 .. b - a + 2 : Append(s, b + 1)[k] = From(a, b + 1)[k]
      BY <1>1, <1>2, <2>1
    <2> QED
      BY <1>2, <2>1, <2>2, SeqEqual
  <1> QED
    BY <1>1, <1>4, <1>5, <1>6 DEF s

LEMMA LateType ==
  ASSUME NEW n \in Nat
  PROVE  Late(n) \in [path : Nat, lines : Nat]
  BY DEF Late, Line

LEMMA LateOf ==
  ASSUME NEW n \in Nat, NEW m \in Nat, n = m + 1
  PROVE  Late(n) = Line(m)
  BY DEF Late, Line

LEMMA LatesQueue ==
  ASSUME NEW a \in Nat, NEW b \in Nat, a <= b
  PROVE  /\ Len(Lates(a, b)) = b - a + 1
         /\ Head(Lates(a, b)) = Late(a)
         /\ a < b => Tail(Lates(a, b)) = Lates(a + 1, b)
         /\ Lates(a, b) \o <<Late(b + 1)>> = Lates(a, b + 1)
  <1> DEFINE s == Lates(a, b)
             R == [path : Nat, lines : Nat]
  <1>0. \A n \in Nat : Late(n) \in R
    BY LateType
  <1>1. s \in Seq(R) /\ Len(s) = b - a + 1 /\ \A k \in 1 .. b - a + 1 : s[k] = Late(a + k - 1)
    BY <1>0 DEF Lates
  <1>2. Lates(a, b + 1) \in Seq(R) /\ Len(Lates(a, b + 1)) = b - a + 2
        /\ \A k \in 1 .. b - a + 2 : Lates(a, b + 1)[k] = Late(a + k - 1)
    BY <1>0 DEF Lates
  <1>3. a < b => /\ Lates(a + 1, b) \in Seq(R) /\ Len(Lates(a + 1, b)) = b - a
                 /\ \A k \in 1 .. b - a : Lates(a + 1, b)[k] = Late(a + 1 + k - 1)
    BY <1>0 DEF Lates
  <1> HIDE DEF s, R
  <1>4. Head(s) = Late(a)
    <2>1. Head(s) = s[1] /\ a + 1 - 1 = a
      BY <1>1
    <2> QED
      BY <1>1, <2>1
  <1>5. a < b => Tail(s) = Lates(a + 1, b)
    <2> SUFFICES ASSUME a < b
                 PROVE  Tail(s) = Lates(a + 1, b)
      OBVIOUS
    <2>1. Tail(s) \in Seq(R) /\ Len(Tail(s)) = b - a /\ \A k \in 1 .. b - a : Tail(s)[k] = s[k + 1]
      BY <1>1
    <2>2. \A k \in 1 .. b - a : Tail(s)[k] = Lates(a + 1, b)[k]
      <3> TAKE k \in 1 .. b - a
      <3>1. k + 1 \in 1 .. b - a + 1 /\ a + (k + 1) - 1 = a + 1 + k - 1
        OBVIOUS
      <3> QED
        BY <1>1, <1>3, <2>1, <3>1
    <2> QED
      BY <1>3, <2>1, <2>2, SeqEqual
  <1>6. s \o <<Late(b + 1)>> = Lates(a, b + 1)
    <2>0. Late(b + 1) \in R
      BY <1>0
    <2>1. s \o <<Late(b + 1)>> = Append(s, Late(b + 1))
      BY <1>1, <2>0
    <2>2. /\ Append(s, Late(b + 1)) \in Seq(R) /\ Len(Append(s, Late(b + 1))) = b - a + 2
          /\ \A k \in 1 .. b - a + 1 : Append(s, Late(b + 1))[k] = s[k]
          /\ Append(s, Late(b + 1))[b - a + 2] = Late(b + 1)
      BY <1>1, <2>0
    <2>3. a + (b - a + 2) - 1 = b + 1
      OBVIOUS
    <2>4. \A k \in 1 .. b - a + 2 : Append(s, Late(b + 1))[k] = Lates(a, b + 1)[k]
      <3> TAKE k \in 1 .. b - a + 2
      <3>1. CASE k = b - a + 2
        BY <1>2, <2>2, <2>3, <3>1
      <3>2. CASE k # b - a + 2
        <4>1. k \in 1 .. b - a + 1
          BY <3>2
        <4> QED
          BY <1>1, <1>2, <2>2, <4>1
      <3> QED
        BY <3>1, <3>2
    <2> QED
      BY <1>2, <2>1, <2>2, <2>4, SeqEqual
  <1> QED
    BY <1>1, <1>4, <1>5, <1>6 DEF s

\* What the slots hold is what the counters say.
LEMMA DoneOf ==
  ASSUME NEW ring, NEW t \in Nat, NEW h \in Nat, \A n \in t .. h : ring[Slot(n)] = Late(n)
  PROVE  [k \in 1 .. h - t + 1 |-> ring[Slot(t + k - 1)]] = Lates(t, h)
  <1>1. \A k \in 1 .. h - t + 1 : t + k - 1 \in t .. h
    OBVIOUS
  <1>2. \A k \in 1 .. h - t + 1 : ring[Slot(t + k - 1)] = Late(t + k - 1)
    BY <1>1
  <1> QED
    BY <1>2 DEF Lates

\* The same before and after a step.
QueuesOf ==
  /\ Posted = From(fifo_tail, fifo_head_)
  /\ Done = Lates(wfifo_tail, wfifo_head_)
  /\ InHand = Hand(io, fifo_tail)

LEMMA QueuesShown == PwcInv => QueuesOf
  <1> SUFFICES ASSUME PwcInv
               PROVE  QueuesOf
    OBVIOUS
  <1>0. Counters /\ Rings
    BY DEF PwcInv
  <1>1. fifo_tail \in Nat /\ fifo_head_ \in Nat /\ wfifo_tail \in Nat /\ wfifo_head_ \in Nat
    BY <1>0 DEF Counters
  <1>2. /\ \A n \in fifo_tail .. fifo_head_ : n \in fifo_done_ .. fifo_head_
        /\ \A n \in wfifo_tail .. wfifo_head_ : n \in wfifo_done_ .. wfifo_head_
    BY <1>0 DEF Counters
  <1>3. \A n \in fifo_tail .. fifo_head_ : fifo[Slot(n)].path = n
    BY <1>0, <1>2 DEF Rings
  <1>4. \A n \in wfifo_tail .. wfifo_head_ : wfifo[Slot(n)] = Late(n)
    BY <1>0, <1>2 DEF Rings
  <1>5. Posted = From(fifo_tail, fifo_head_)
    <2>1. \A k \in 1 .. fifo_head_ - fifo_tail + 1 :
            /\ fifo_tail + k - 1 \in fifo_tail .. fifo_head_
      BY <1>1
    <2>2. \A k \in 1 .. fifo_head_ - fifo_tail + 1 :
            fifo[Slot(fifo_tail + k - 1)].path = fifo_tail + k - 1
      BY <1>3, <2>1
    <2> QED
      BY <2>2 DEF Posted, From
  <1>6. Done = Lates(wfifo_tail, wfifo_head_)
    BY <1>1, <1>4, DoneOf DEF Done
  <1>7. io = "wpublish" => wfifo[Slot(wfifo_head_ + 1)] = Line(fifo_tail - 1)
    <2> SUFFICES ASSUME io = "wpublish"
                 PROVE  wfifo[Slot(wfifo_head_ + 1)] = Line(fifo_tail - 1)
      OBVIOUS
    <2>1. fifo_tail = wfifo_head_ + 1 /\ wfifo[Slot(wfifo_head_ + 1)] = Late(wfifo_head_ + 1)
      BY <1>0 DEF Counters, Rings
    <2>2. wfifo_head_ + 1 # 0 /\ fifo_tail - 1 = wfifo_head_ + 1 - 1
      BY <1>1, <2>1
    <2> QED
      BY <2>1, <2>2 DEF Late
  <1>8. InHand = Hand(io, fifo_tail)
    BY <1>0, <1>7 DEF InHand, Hand, Rings
  <1> QED
    BY <1>5, <1>6, <1>8 DEF QueuesOf

LEMMA InitialQueues == Init => Queues!PipelineInit
  <1> SUFFICES ASSUME Init
               PROVE  Queues!PipelineInit
    OBVIOUS
  <1>1. QueuesOf
    BY Initially, QueuesShown
  <1>2. /\ fifo_tail = 0 /\ fifo_head_ = 0 /\ wfifo_tail = 0 /\ wfifo_head_ = 0
        /\ io = "top" /\ main = "ftw" /\ should_exit_ = FALSE /\ printed = <<>>
    BY DEF Init
  <1>3. From(0, 0) = <<0>>
    BY DEF From
  <1>4. Lates(0, 0) = <<Late(0)>>
    BY DEF Lates
  <1>5. Late(0) = Queues!Counted(0)
    BY DEF Late, Line, Queues!Counted
  <1>6. Posted = <<0>> /\ Done = <<Queues!Counted(0)>> /\ InHand = <<>>
    BY <1>1, <1>2, <1>3, <1>4, <1>5 DEF QueuesOf, Hand
  <1>7. Stage = "open"
    BY <1>2 DEF Stage
  <1> QED
    BY <1>2, <1>6, <1>7 DEF Queues!PipelineInit

\* One step of a thread is one of the pipeline, or none.
LEMMA QueuesStep ==
  ASSUME PwcInv, PwcInv', [Next]_vars
  PROVE  [Queues!PipelineNext]_(Queues!pipelineVars)
  <1>0. QueuesOf /\ QueuesOf'
    BY QueuesShown, PTL
  <1>a. Counters /\ Ends /\ Types
    BY DEF PwcInv
  <1>b. /\ fifo_tail \in Nat /\ fifo_head_ \in Nat /\ fifo_tail <= fifo_head_
        /\ wfifo_tail \in Nat /\ wfifo_head_ \in Nat /\ wfifo_tail <= wfifo_head_
        /\ FIFO_SIZE \in Nat
    BY <1>a, Size DEF Counters
  <1> DEFINE posted == Posted
             done   == Done
             hand   == InHand
             stage  == Stage
  <1>c. /\ Len(posted) = fifo_head_ - fifo_tail + 1
        /\ Head(posted) = fifo_tail /\ posted[Len(posted)] = fifo_head_
        /\ fifo_tail < fifo_head_ => Tail(posted) = From(fifo_tail + 1, fifo_head_)
        /\ Append(posted, fifo_head_ + 1) = From(fifo_tail, fifo_head_ + 1)
        /\ posted' = From(fifo_tail', fifo_head_')
    BY <1>0, <1>b, FromQueue DEF QueuesOf
  <1>d. /\ Len(done) = wfifo_head_ - wfifo_tail + 1
        /\ Head(done) = Late(wfifo_tail)
        /\ wfifo_tail < wfifo_head_ => Tail(done) = Lates(wfifo_tail + 1, wfifo_head_)
        /\ done \o <<Late(wfifo_head_ + 1)>> = Lates(wfifo_tail, wfifo_head_ + 1)
        /\ done' = Lates(wfifo_tail', wfifo_head_')
    BY <1>0, <1>b, LatesQueue DEF QueuesOf
  <1>e. /\ hand = Hand(io, fifo_tail) /\ hand' = Hand(io', fifo_tail')
        /\ posted = From(fifo_tail, fifo_head_) /\ done = Lates(wfifo_tail, wfifo_head_)
    BY <1>0 DEF QueuesOf
  <1>f. /\ stage = CASE main = "done" -> "finished"
                     [] main # "done" /\ io = "exited" -> "drained"
                     [] OTHER -> IF should_exit_ THEN "closing" ELSE "open"
        /\ stage' = CASE main' = "done" -> "finished"
                      [] main' # "done" /\ io' = "exited" -> "drained"
                      [] OTHER -> IF should_exit_' THEN "closing" ELSE "open"
    BY DEF Stage
  <1> HIDE DEF posted, done, hand, stage
  <1>p. ASSUME posted' = posted, hand' = hand, done' = done, printed' = printed, stage' = stage
        PROVE  UNCHANGED Queues!pipelineVars
    BY <1>p DEF Queues!pipelineVars, posted, done, hand, stage
  <1>q. ASSUME fifo_tail' = fifo_tail, fifo_head_' = fifo_head_
        PROVE  posted' = posted
    BY <1>c, <1>e, <1>q
  <1>r. ASSUME wfifo_tail' = wfifo_tail, wfifo_head_' = wfifo_head_
        PROVE  done' = done
    BY <1>d, <1>e, <1>r
  <1>s. ASSUME fifo_tail' = fifo_tail, io' = io
        PROVE  hand' = hand
    BY <1>e, <1>s
  <1>1. CASE file_cb \/ push \/ ReapIfHalfFull
    <2>1. /\ UNCHANGED <<fifo_tail, fifo_head_, wfifo_tail, wfifo_head_, io, printed, should_exit_>>
          /\ main # "done" /\ main' # "done"
      BY <1>1 DEF file_cb, push, ReapIfHalfFull, workRing, doneRing, ioVars
    <2>2. stage' = stage
      BY <1>f, <2>1
    <2> QED
      BY <1>p, <1>q, <1>r, <1>s, <2>1, <2>2
  <1>2. CASE pushHead
    <2>1. /\ fifo_head_' = fifo_head_ + 1
          /\ UNCHANGED <<fifo_tail, wfifo_tail, wfifo_head_, io, printed, should_exit_>>
          /\ main = "publish" /\ main' = "wdone"
      BY <1>2 DEF pushHead, doneRing, ioVars
    <2>2. ~should_exit_ /\ io # "exited" /\ fifo_head_ + 1 - fifo_tail <= FIFO_SIZE - 1
      BY <1>a, <1>b, <2>1 DEF Counters, Ends
    <2>3. stage = "open" /\ stage' = stage
      BY <1>f, <2>1, <2>2
    <2>4. Len(posted) < FIFO_SIZE /\ posted' = Append(posted, posted[Len(posted)] + 1)
      BY <1>b, <1>c, <2>1, <2>2
    <2>5. hand' = hand /\ done' = done
      BY <1>r, <1>s, <2>1
    <2>6. Queues!Post
      BY <2>1, <2>3, <2>4, <2>5 DEF Queues!Post, posted, done, hand, stage
    <2> QED
      BY <2>6 DEF Queues!PipelineNext
  <1>3. CASE ReapOne
    <2>1. /\ printed' = Append(printed, wfifo[Slot(wfifo_tail)])
          /\ wfifo_tail' = wfifo_tail + 1 /\ wfifo_head_ # wfifo_tail
          /\ UNCHANGED <<fifo_tail, fifo_head_, wfifo_head_, io, main, should_exit_>>
      BY <1>3 DEF ReapOne, workRing, doneRing, ioVars
    <2>2. wfifo[Slot(wfifo_tail)] = Late(wfifo_tail)
      BY <1>a, <1>b DEF PwcInv, Counters, Rings
    <2>3. Len(done) > 1 /\ wfifo_tail < wfifo_head_
      BY <1>b, <1>d, <2>1
    <2>4. printed' = Append(printed, Head(done)) /\ done' = Tail(done)
      BY <1>d, <2>1, <2>2, <2>3
    <2>5. hand' = hand /\ posted' = posted
      BY <1>q, <1>s, <2>1
    <2>6. stage' = stage
      BY <1>f, <2>1
    <2>7. Queues!Output
      BY <2>3, <2>4, <2>5, <2>6 DEF Queues!Output, posted, done, hand, stage
    <2> QED
      BY <2>7 DEF Queues!PipelineNext
  <1>4. CASE ReapEnd
    <2>1. /\ UNCHANGED <<fifo_tail, fifo_head_, wfifo_tail, wfifo_head_, io, printed, should_exit_>>
          /\ wfifo_head_ = wfifo_tail
          /\ \/ main = "reap" /\ main' = "ftw"
             \/ main = "lastreap" /\ main' = "done"
      BY <1>4 DEF ReapEnd, workRing, ioVars
    <2>2. posted' = posted /\ hand' = hand /\ done' = done
      BY <1>q, <1>r, <1>s, <2>1
    <2>3. CASE main = "reap"
      <3>1. stage' = stage
        BY <1>f, <2>1, <2>3
      <3> QED
        BY <1>p, <2>1, <2>2, <3>1
    <2>4. CASE main = "lastreap"
      <3>1. io = "exited"
        BY <1>a, <2>4 DEF Ends
      <3>2. stage = "drained" /\ stage' = "finished"
        BY <1>f, <2>1, <2>4, <3>1
      <3>3. Len(done) = 1
        BY <1>b, <1>d, <2>1
      <3>4. Queues!Finish
        BY <2>1, <2>2, <3>2, <3>3 DEF Queues!Finish, posted, done, hand, stage
      <3> QED
        BY <3>4 DEF Queues!PipelineNext
    <2> QED
      BY <2>1, <2>3, <2>4
  <1>5. CASE AskToExit
    <2>1. /\ UNCHANGED <<fifo_tail, fifo_head_, wfifo_tail, wfifo_head_, io, printed>>
          /\ main = "ftw" /\ main' = "join" /\ should_exit_' = TRUE
      BY <1>5 DEF AskToExit, workRing, doneRing, ioVars
    <2>2. ~should_exit_ /\ io # "exited"
      BY <1>a, <2>1 DEF Ends
    <2>3. stage = "open" /\ stage' = "closing"
      BY <1>f, <2>1, <2>2
    <2>4. posted' = posted /\ hand' = hand /\ done' = done
      BY <1>q, <1>r, <1>s, <2>1
    <2>5. Queues!Close
      BY <2>1, <2>3, <2>4 DEF Queues!Close, posted, done, hand, stage
    <2> QED
      BY <2>5 DEF Queues!PipelineNext
  <1>6. CASE Join
    <2>1. /\ UNCHANGED <<fifo_tail, fifo_head_, wfifo_tail, wfifo_head_, io, printed, should_exit_>>
          /\ main = "join" /\ main' = "lastreap"
      BY <1>6 DEF Join, workRing, doneRing, ioVars
    <2>2. stage' = stage
      BY <1>f, <2>1
    <2> QED
      BY <1>p, <1>q, <1>r, <1>s, <2>1, <2>2
  <1>7. CASE LoadShouldExit
    <2>1. /\ UNCHANGED <<fifo_tail, fifo_head_, wfifo_tail, wfifo_head_, main, printed, should_exit_>>
          /\ io = "top" /\ io' = "test"
      BY <1>7 DEF LoadShouldExit, workRing, doneRing, mainVars
    <2>2. stage' = stage
      BY <1>f, <2>1
    <2>3. hand' = hand
      BY <1>e, <2>1 DEF Hand
    <2> QED
      BY <1>p, <1>q, <1>r, <2>1, <2>2, <2>3
  <1>8. CASE NothingPosted \/ BatchEnd
    <2>1. /\ UNCHANGED <<fifo_tail, fifo_head_, wfifo_tail, wfifo_head_, main, printed, should_exit_,
                         should_exit>>
          /\ io \in {"test", "next"} /\ io' = IF should_exit THEN "exited" ELSE "top"
          /\ fifo_head_ = fifo_tail
      BY <1>8 DEF NothingPosted, BatchEnd, workRing, doneRing, mainVars
    <2>2. hand = <<>> /\ hand' = hand
      BY <1>e, <2>1 DEF Hand
    <2>3. posted' = posted /\ done' = done
      BY <1>q, <1>r, <2>1
    <2>4. main \notin {"lastreap", "done"}
      BY <1>a, <2>1 DEF Ends
    <2>5. CASE should_exit
      <3>1. should_exit_ = TRUE
        BY <1>a, <2>5 DEF Ends, Types
      <3>2. stage = "closing" /\ stage' = "drained"
        BY <1>f, <2>1, <2>4, <2>5, <3>1
      <3>3. Len(posted) = 1
        BY <1>b, <1>c, <2>1
      <3>4. Queues!Drain
        BY <2>1, <2>2, <2>3, <3>2, <3>3 DEF Queues!Drain, posted, done, hand, stage
      <3> QED
        BY <3>4 DEF Queues!PipelineNext
    <2>6. CASE ~should_exit
      <3>1. stage' = stage
        BY <1>f, <2>1, <2>4, <2>6
      <3> QED
        BY <1>p, <2>1, <2>2, <2>3, <3>1
    <2> QED
      BY <2>5, <2>6
  <1>9. CASE Count
    <2>1. /\ fifo_tail' = fifo_tail + 1 /\ fifo_head_ # fifo_tail
          /\ UNCHANGED <<fifo_head_, wfifo_tail, wfifo_head_, main, printed, should_exit_>>
          /\ io \in {"test", "next"} /\ io' = "wpush"
      BY <1>9 DEF Count, doneRing, mainVars
    <2>2. Len(posted) > 1 /\ fifo_tail < fifo_head_ /\ fifo_tail' - 1 = fifo_tail
      BY <1>b, <1>c, <2>1
    <2>3. posted' = Tail(posted)
      BY <1>c, <2>1, <2>2
    <2>4. hand = <<>>
      BY <1>e, <2>1 DEF Hand
    <2>5. hand' = <<Queues!Counted(Head(posted))>>
      BY <1>c, <1>e, <2>1, <2>2 DEF Hand, Line, Queues!Counted
    <2>6. done' = done
      BY <1>r, <2>1
    <2>7. stage' = stage
      BY <1>f, <2>1
    <2>8. Queues!Take
      BY <2>1, <2>2, <2>3, <2>4, <2>5, <2>6, <2>7 DEF Queues!Take, posted, done, hand, stage
    <2> QED
      BY <2>8 DEF Queues!PipelineNext
  <1>10. CASE wpush
    <2>1. /\ UNCHANGED <<fifo_tail, fifo_head_, wfifo_tail, wfifo_head_, main, printed, should_exit_>>
          /\ io = "wpush" /\ io' = "wpublish"
      BY <1>10 DEF wpush, workRing, mainVars
    <2>2. stage' = stage
      BY <1>f, <2>1
    <2>3. hand' = hand
      BY <1>e, <2>1 DEF Hand
    <2> QED
      BY <1>p, <1>q, <1>r, <2>1, <2>2, <2>3
  <1>11. CASE wpushHead
    <2>1. /\ wfifo_head_' = wfifo_head_ + 1
          /\ UNCHANGED <<fifo_tail, fifo_head_, wfifo_tail, main, printed, should_exit_>>
          /\ io = "wpublish" /\ io' = "next"
      BY <1>11 DEF wpushHead, workRing, mainVars
    <2>2. fifo_tail = wfifo_head_ + 1 /\ wfifo_head_ + 1 - wfifo_tail <= FIFO_SIZE - 1
      BY <1>a, <1>b, <2>1 DEF Counters
    <2>3. hand = <<Late(wfifo_head_ + 1)>> /\ hand' = <<>>
      <3>1. fifo_tail - 1 = wfifo_head_ /\ wfifo_head_ \in Nat /\ wfifo_head_ + 1 \in Nat
        BY <1>b, <2>2
      <3>2. Late(wfifo_head_ + 1) = Line(wfifo_head_)
        BY <3>1, LateOf
      <3>3. Hand(io, fifo_tail) = <<Line(fifo_tail - 1)>> /\ Hand(io', fifo_tail') = <<>>
        BY <2>1 DEF Hand
      <3> QED
        BY <1>e, <3>1, <3>2, <3>3
    <2>4. hand # <<>> /\ Len(done) < FIFO_SIZE
      <3>1. Len(done) < FIFO_SIZE
        BY <1>b, <1>d, <2>2
      <3>2. Len(<<Late(wfifo_head_ + 1)>>) = 1 /\ Len(<<>>) = 0
        OBVIOUS
      <3> QED
        BY <2>3, <3>1, <3>2
    <2>5. done' = done \o hand
      BY <1>d, <2>1, <2>3
    <2>6. posted' = posted
      BY <1>q, <2>1
    <2>7. stage' = stage
      BY <1>f, <2>1
    <2>8. Queues!Deliver
      BY <2>1, <2>3, <2>4, <2>5, <2>6, <2>7 DEF Queues!Deliver, posted, done, hand, stage
    <2> QED
      BY <2>8 DEF Queues!PipelineNext
  <1>12. CASE UNCHANGED vars
    <2>1. UNCHANGED <<fifo_tail, fifo_head_, wfifo_tail, wfifo_head_, io, printed, main, should_exit_>>
      BY <1>12 DEF vars, workRing, doneRing, mainVars, ioVars
    <2>2. stage' = stage
      BY <1>f, <2>1
    <2> QED
      BY <1>p, <1>q, <1>r, <1>s, <2>1, <2>2
  <1> QED
    BY <1>1, <1>2, <1>3, <1>4, <1>5, <1>6, <1>7, <1>8, <1>9, <1>10, <1>11, <1>12
       DEF Next, Main, iothread

\* For rings of any size and any walk, the two threads with their rings are two queues:
\* what is read from a slot is what was posted to it, in order and once, and neither
\* thread leaves while there is more than the last entry in its queue.
THEOREM PipelineImplemented == Spec => IsPipeline
  <1>1. PwcInv /\ PwcInv' /\ [Next]_vars => [Queues!PipelineNext]_(Queues!pipelineVars)
    BY QueuesStep
  <1> QED
    BY InitialQueues, <1>1, Invariance, PTL DEF Spec, IsPipeline, Queues!PipelineSpec
================================================================================
