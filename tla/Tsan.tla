---------------------------------- MODULE Tsan ----------------------------------
(***************************************************************************)
(* The data race detector of san/tsan.c: the functions that the compiler   *)
(* calls before every plain access to a byte and instead of every atomic   *)
(* one.  What the instrumented program does is left open: each CPU reads   *)
(* and writes plain bytes, and stores to and loads from atomic ones (with  *)
(* release and acquire), in any order.                                     *)
(*                                                                         *)
(* All of a function that touches shared tables runs under g_location_lock *)
(* and is one action.  The tables are compared with happened, written and  *)
(* released, which the code does not have: the happens-before relation.    *)
(***************************************************************************)
EXTENDS Integers

CONSTANTS
  N,          (* CPUs                                                       *)
  M,          (* entries of g_locations                                     *)
  Plain,      (* addresses of plain bytes                                   *)
  Atomic,     (* addresses of atomic bytes                                  *)
  NoAddr,     (* the address in an entry never used, 0                      *)
  Stores,     (* per CPU, the atomic bytes it may store to                  *)
  Loads,      (* per CPU, the atomic bytes it may load                      *)
  MaxOps      (* bound: operations of a CPU                                 *)

Cpus      == 0 .. N - 1
Addresses == Plain \cup Atomic
Entries   == 0 .. M - 1

ASSUME TsanAssumption ==
  /\ N \in Nat \ {0} /\ M \in Nat \ {0} /\ MaxOps \in Nat
  /\ Plain \cap Atomic = {} /\ NoAddr \notin Addresses
  /\ Stores \in [Cpus -> SUBSET Atomic] /\ Loads \in [Cpus -> SUBSET Atomic]

VARIABLES
  seqno,        (* g_vectortab: per CPU, its own count of operations and,   *)
                (* per other CPU, the operation it last synchronised with   *)
  g_locations,  (* per entry, an address and who wrote it last, and when    *)
  rotor,        (* static int of find                                       *)
  booted,       (* per CPU, cpu_boot has run                                *)
  trapped,      (* int3: the program is stopped                             *)
  ops,          (* per CPU, operations made                                 *)
  happened,     (* per CPU and CPU, how many writes and stores of the other *)
                (* happen before what the first does next (its own: all)    *)
  written,      (* per plain byte, who wrote it last, and which of its       *)
                (* writes and stores that was                               *)
  released      (* per atomic byte, what happens before its last store      *)

tables  == <<seqno, g_locations, rotor>>
history == <<happened, written, released>>
vars    == <<tables, booted, trapped, ops, history>>

Unused == [addr |-> NoAddr, cpu |-> 0, seq |-> 0]
None   == [cpu |-> 0, seq |-> 0]

Init ==
  /\ seqno = [c \in Cpus |-> [d \in Cpus |-> 0]]
  /\ g_locations = [e \in Entries |-> Unused]
  /\ rotor = 0
  /\ booted = [c \in Cpus |-> FALSE]
  /\ trapped = FALSE
  /\ ops = [c \in Cpus |-> 0]
  /\ happened = [c \in Cpus |-> [d \in Cpus |-> 0]]
  /\ written = [a \in Plain |-> None]
  /\ released = [a \in Atomic |-> [d \in Cpus |-> 0]]

--------------------------------------------------------------------------------
(* find: the entry of an address; one is reclaimed if it has none          *)
Known(a) == {e \in Entries : g_locations[e].addr = a}
Reclaimed == rotor % M

find(a) ==
  IF Known(a) # {}
  THEN g_locations[CHOOSE e \in Known(a) : TRUE]
  ELSE [addr |-> a, cpu |-> 0, seq |-> 0]

\* find(a) leaves entry l in the table for a.
Enter(a, l) ==
  IF Known(a) # {}
  THEN /\ g_locations' = [e \in Entries |-> IF e \in Known(a) THEN l ELSE g_locations[e]]
       /\ rotor' = rotor
  ELSE /\ g_locations' = [g_locations EXCEPT ![Reclaimed] = l]
       /\ rotor' = rotor + 1

\* CPU c makes an operation of the program.
Runs(c) ==
  /\ booted[c] /\ ~trapped /\ ops[c] < MaxOps
  /\ ops' = [ops EXCEPT ![c] = @ + 1]

--------------------------------------------------------------------------------
cpu_boot(c) ==
  /\ ~booted[c] /\ ~trapped
  /\ booted' = [booted EXCEPT ![c] = TRUE]
  /\ seqno' = [seqno EXCEPT ![c][c] = @ + 1]
  /\ UNCHANGED <<g_locations, rotor, trapped, ops, history>>

\* The condition of the int3 in __tsan_read1: c last synchronised with the writer
\* before it did this write.
Traps(c, a) == seqno[c][find(a).cpu] < find(a).seq

read1(c, a) ==
  /\ Runs(c)
  /\ Enter(a, find(a))
  /\ trapped' = Traps(c, a)
  /\ UNCHANGED <<seqno, booted, history>>

\* Only c looks at its own count, which it increments before it takes the lock.
write1(c, a) ==
  /\ Runs(c)
  /\ seqno' = [seqno EXCEPT ![c][c] = @ + 1]
  /\ Enter(a, [addr |-> a, cpu |-> c, seq |-> seqno[c][c]])
  /\ written' = [written EXCEPT ![a] = [cpu |-> c, seq |-> happened[c][c] + 1]]
  /\ happened' = [happened EXCEPT ![c][c] = @ + 1]
  /\ UNCHANGED <<booted, trapped, released>>

atomic8_loadCounts(c, a) ==
  /\ Runs(c)
  /\ Enter(a, find(a))
  /\ seqno' = IF find(a).seq # 0 THEN [seqno EXCEPT ![c][find(a).cpu] = find(a).seq + 1]
              ELSE seqno
  /\ happened' = [happened EXCEPT ![c] =
       [d \in Cpus |-> IF released[a][d] > @[d] THEN released[a][d] ELSE @[d]]]
  /\ UNCHANGED <<booted, trapped, written, released>>

\* An acquire load synchronises with the last release store.
atomic8_load(c, a) ==
  /\ Runs(c)
  /\ Enter(a, find(a))
  /\ seqno' = IF find(a).seq # 0 THEN [seqno EXCEPT ![c][find(a).cpu] = find(a).seq]
              ELSE seqno
  /\ happened' = [happened EXCEPT ![c] =
       [d \in Cpus |-> IF released[a][d] > @[d] THEN released[a][d] ELSE @[d]]]
  /\ UNCHANGED <<booted, trapped, written, released>>

atomic8_storeNoCount(c, a) ==
  /\ Runs(c)
  /\ seqno' = seqno
  /\ Enter(a, [addr |-> a, cpu |-> c, seq |-> seqno[c][c]])
  /\ happened' = [happened EXCEPT ![c][c] = @ + 1]
  /\ released' = [released EXCEPT ![a] = [happened[c] EXCEPT ![c] = @ + 1]]
  /\ UNCHANGED <<booted, trapped, written>>

atomic8_store(c, a) ==
  /\ Runs(c)
  /\ seqno' = [seqno EXCEPT ![c][c] = @ + 1]
  /\ Enter(a, [addr |-> a, cpu |-> c, seq |-> seqno[c][c]])
  /\ happened' = [happened EXCEPT ![c][c] = @ + 1]
  /\ released' = [released EXCEPT ![a] = [happened[c] EXCEPT ![c] = @ + 1]]
  /\ UNCHANGED <<booted, trapped, written>>

Cpu(c) ==
  \/ cpu_boot(c)
  \/ \E a \in Plain : read1(c, a) \/ write1(c, a)
  \/ \E a \in Stores[c] : atomic8_store(c, a)
  \/ \E a \in Loads[c] : atomic8_load(c, a)

Next == \E c \in Cpus : Cpu(c)

Spec == Init /\ [][Next]_vars

--------------------------------------------------------------------------------
\* The types of all variables; every address has at most one entry.
TypeOK ==
  /\ seqno \in [Cpus -> [Cpus -> Nat]]
  /\ g_locations \in [Entries -> [addr : Addresses \cup {NoAddr}, cpu : Cpus, seq : Nat]]
  /\ \A e, f \in Entries :
       g_locations[e].addr = g_locations[f].addr /\ g_locations[e].addr # NoAddr => e = f
  /\ rotor \in Nat
  /\ booted \in [Cpus -> BOOLEAN] /\ trapped \in BOOLEAN
  /\ ops \in [Cpus -> 0 .. MaxOps]
  /\ happened \in [Cpus -> [Cpus -> Nat]]
  /\ written \in [Plain -> [cpu : Cpus, seq : Nat]]
  /\ released \in [Atomic -> [Cpus -> Nat]]

\* The last write of byte a does not happen before what c does next.
Races(c, a) == happened[c][written[a].cpu] < written[a].seq

\* No entry in use has been reclaimed yet.
NothingForgotten == rotor <= M

\* A CPU that reads a byte whose last write does not happen before the read is
\* trapped, whatever the program did before, as long as no entry in use was
\* reclaimed: the detector misses no such race.
NoRaceMissed ==
  NothingForgotten => \A c \in Cpus, a \in Plain : Races(c, a) => Traps(c, a)

\* The operation of another CPU that a CPU believes it last synchronised with does
\* happen before what it does next: the vectors are never ahead of the true ones.
VectorsAreSound ==
  \A c, d \in Cpus : c # d => seqno[c][d] <= happened[c][d]

\* tsan.c, __tsan_read1, of the condition of the int3: "We last synchronized with
\* the writer before it did this write, data race."
TrapsOnlyOnRace ==
  \A c \in Cpus, a \in Plain : Traps(c, a) => Races(c, a)
================================================================================
