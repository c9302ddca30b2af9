------------------------------- MODULE SanProofs -------------------------------
(***************************************************************************)
(* The two detectors of san/, for any number of CPUs and bytes.            *)
(*                                                                         *)
(* Tsan misses no race, whatever the number of table entries, in a program *)
(* where no CPU loads what it stores to.  What makes that inductive: a     *)
(* CPU's own count is one ahead of its writes and stores (Counts), the     *)
(* entry of an atomic byte is covered by what its last store released      *)
(* (Entered), and until an entry is reclaimed the table is exact for the   *)
(* plain bytes (Remembered).                                               *)
(*                                                                         *)
(* What a scan of Csan finds is true.  A recent write is in the slot that  *)
(* Place gives for it, and this slot only moves away from cur, as a scan   *)
(* does: one that has not come to it cannot have passed it.                *)
(***************************************************************************)
EXTENDS Tsan, Csan, TLAPS

\* A CPU numbers its next write or store one more than the last.
Counts ==
  \A c \in Cpus :
    /\ booted[c] => seqno[c][c] = happened[c][c] + 1
    /\ ~booted[c] => seqno[c][c] = 0 /\ happened[c][c] = 0

\* Whoever loads an atomic byte is ordered after the store its entry holds.
Entered ==
  \A e \in Entries :
    LET l == g_locations[e] IN
    l.addr \in Atomic =>
      /\ l.seq <= released[l.addr][l.cpu]
      /\ l.seq # 0 => l.addr \in Stores[l.cpu]

\* Until an entry is reclaimed, each byte written has one, the entry of a plain byte
\* holds its last write, and the entries past the rotor are unused.
Remembered ==
  rotor <= M =>
    /\ \A a \in Plain : written[a].seq # 0 => Known(a) # {}
    /\ \A e \in Entries : g_locations[e].addr \in Plain =>
         LET w == written[g_locations[e].addr] IN
         g_locations[e].seq = w.seq /\ (w.seq # 0 => g_locations[e].cpu = w.cpu)
    /\ \A e \in Entries : rotor <= e => g_locations[e].addr = NoAddr

\* A CPU's own writes happen before what it does next.
OwnWrites == \A a \in Plain : written[a].seq <= happened[written[a].cpu][written[a].cpu]

\* No CPU, and no release, is ahead of a CPU's own operations.
NobodyAhead ==
  \A c \in Cpus :
    /\ \A d \in Cpus : happened[d][c] <= happened[c][c]
    /\ \A a \in Atomic : released[a][c] <= happened[c][c]

IInv ==
  /\ TypeOK /\ Counts /\ Entered /\ Remembered /\ OwnWrites /\ NobodyAhead
  /\ VectorsAreSound

\* No CPU loads an atomic byte that it stores to.
NoOwnLoads == \A c \in Cpus : Stores[c] \cap Loads[c] = {}

--------------------------------------------------------------------------------
Locations == [addr : Addresses \cup {NoAddr}, cpu : Cpus, seq : Nat]

\* The index of the entry that is reclaimed.
LEMMA Modulus ==
  ASSUME NEW n \in Nat \ {0}, NEW r \in Nat
  PROVE  /\ r % n \in 0 .. n - 1
         /\ r < n => r % n = r
  OBVIOUS

\* What find returns is the entry of the byte, or a fresh one.
LEMMA Found ==
  ASSUME TypeOK, NEW a \in Addresses
  PROVE  /\ find(a) \in Locations /\ find(a).addr = a
         /\ Known(a) = {} => find(a).seq = 0
         /\ \A e \in Known(a) : find(a) = g_locations[e]
  <1> USE TsanAssumption DEF TypeOK, Locations
  <1>1. CASE Known(a) = {}
    <2>1. find(a) = [addr |-> a, cpu |-> 0, seq |-> 0]
      BY <1>1 DEF find
    <2> QED
      BY <1>1, <2>1 DEF Cpus
  <1>2. CASE Known(a) # {}
    <2>1. PICK x \in Known(a) : x = CHOOSE e \in Known(a) : TRUE
      BY <1>2
    <2>2. find(a) = g_locations[x]
      BY <1>2, <2>1 DEF find
    <2>3. a # NoAddr
      OBVIOUS
    <2>4. \A e \in Known(a) : e = x
      BY <2>1, <2>3 DEF Known
    <2> QED
      BY <1>2, <2>1, <2>2, <2>4 DEF Known
  <1> QED
    BY <1>1, <1>2

\* Entry x, the only one of byte a if it has one, becomes l.
Replaces(x, a, l) ==
  /\ g_locations' = [g_locations EXCEPT ![x] = l]
  /\ \A e \in Entries : e # x => g_locations[e].addr # a
  /\ \/ Known(a) # {} /\ x \in Known(a) /\ rotor' = rotor
     \/ Known(a) = {} /\ x = rotor % M /\ rotor' = rotor + 1

\* Enter replaces one entry: that of the byte, or, if it has none, the rotor's.
LEMMA Entering ==
  ASSUME TypeOK, NEW a \in Addresses, NEW l \in Locations, l.addr = a, Enter(a, l)
  PROVE  \E x \in Entries : Replaces(x, a, l)
  <1> USE TsanAssumption DEF TypeOK, Locations, Replaces
  <1>1. CASE Known(a) = {}
    <2>1. rotor % M \in Entries
      BY Modulus DEF Entries
    <2>2. /\ g_locations' = [g_locations EXCEPT ![rotor % M] = l]
          /\ rotor' = rotor + 1
      BY <1>1 DEF Enter, Reclaimed
    <2> QED
      BY <1>1, <2>1, <2>2 DEF Known
  <1>2. CASE Known(a) # {}
    <2>1. PICK x : x \in Known(a)
      BY <1>2
    <2>2. a # NoAddr
      OBVIOUS
    <2>3. \A e \in Entries : e # x => g_locations[e].addr # a
      BY <2>1, <2>2 DEF Known
    <2>4. Known(a) = {x} /\ x \in Entries
      BY <2>1, <2>3 DEF Known
    <2>5. g_locations' = [e \in Entries |-> IF e \in Known(a) THEN l ELSE g_locations[e]]
      BY <1>2 DEF Enter
    <2>6. g_locations' = [g_locations EXCEPT ![x] = l]
      BY <2>4, <2>5
    <2>7. rotor' = rotor
      BY <1>2 DEF Enter
    <2> QED
      BY <1>2, <2>1, <2>3, <2>4, <2>6, <2>7
  <1> QED
    BY <1>1, <1>2

\* Entering a byte keeps the types of the table, and one entry per address.
LEMMA TableStep ==
  ASSUME TypeOK, NEW a \in Addresses, NEW l \in Locations, l.addr = a, Enter(a, l)
  PROVE  /\ g_locations' \in [Entries -> Locations]
         /\ \A e, f \in Entries :
              g_locations'[e].addr = g_locations'[f].addr /\ g_locations'[e].addr # NoAddr
              => e = f
         /\ rotor' \in Nat
  <1>1. PICK x \in Entries : Replaces(x, a, l)
    BY Entering
  <1>2. g_locations \in [Entries -> Locations] /\ rotor \in Nat
    BY DEF TypeOK, Locations
  <1>3. g_locations' \in [Entries -> Locations] /\ rotor' \in Nat
    BY <1>1, <1>2 DEF Replaces
  <1>4. ASSUME NEW e \in Entries, NEW f \in Entries,
               g_locations'[e].addr = g_locations'[f].addr, g_locations'[e].addr # NoAddr
        PROVE  e = f
    BY <1>1, <1>2, <1>4 DEF TypeOK, Replaces
  <1> QED
    BY <1>3, <1>4

\* Entering a byte keeps the table exact for the plain bytes, if what is entered is.
LEMMA RememberedStep ==
  ASSUME TypeOK, Remembered, NEW a \in Addresses, NEW l \in Locations, l.addr = a,
         Enter(a, l),
         written' \in [Plain -> [cpu : Cpus, seq : Nat]],
         \A p \in Plain : p # a => written'[p] = written[p],
         a \in Plain /\ rotor <= M =>
           l.seq = written'[a].seq /\ (written'[a].seq # 0 => l.cpu = written'[a].cpu)
  PROVE  Remembered'
  <1>1. PICK x \in Entries : Replaces(x, a, l)
    BY Entering
  <1>2. g_locations \in [Entries -> Locations] /\ rotor \in Nat /\ M \in Nat \ {0}
    BY TsanAssumption DEF TypeOK, Locations
  <1>3. /\ g_locations'[x] = l
        /\ \A e \in Entries : e # x => g_locations'[e] = g_locations[e]
    BY <1>1, <1>2 DEF Replaces
  <1> SUFFICES ASSUME rotor' <= M
               PROVE  Remembered'
    BY DEF Remembered
  <1>4. rotor <= M /\ rotor <= rotor'
    BY <1>1, <1>2 DEF Replaces
  <1>5. ASSUME NEW e \in Entries, g_locations'[e].addr \in Plain
        PROVE  LET w == written'[g_locations'[e].addr] IN
               g_locations'[e].seq = w.seq /\ (w.seq # 0 => g_locations'[e].cpu = w.cpu)
    <2>1. CASE e = x
      BY <1>3, <1>4, <1>5, <2>1
    <2>2. CASE e # x
      <3>1. g_locations'[e] = g_locations[e] /\ g_locations[e].addr # a
        BY <1>1, <1>3, <2>2 DEF Replaces
      <3> QED
        BY <1>4, <1>5, <3>1 DEF Remembered
    <2> QED
      BY <2>1, <2>2
  <1>6. Known(a) = {} => x = rotor /\ rotor < M
    <2> SUFFICES ASSUME Known(a) = {}
                 PROVE  x = rotor /\ rotor < M
      OBVIOUS
    <2>1. x = rotor % M /\ rotor' = rotor + 1
      BY <1>1 DEF Replaces
    <2>2. rotor < M
      BY <1>2, <2>1
    <2>3. rotor % M = rotor
      BY <1>2, <2>2, Modulus
    <2> QED
      BY <2>1, <2>2, <2>3
  <1>7. ASSUME NEW e \in Entries, rotor' <= e
        PROVE  g_locations'[e].addr = NoAddr
    <2>1. g_locations[e].addr = NoAddr
      <3>1. e \in Int /\ rotor' \in Int
        BY <1>1, <1>2, TsanAssumption DEF Entries, Replaces
      <3>2. rotor <= e
        BY <1>2, <1>4, <1>7, <3>1
      <3> QED
        BY <1>4, <3>2 DEF Remembered
    <2>2. e # x
      <3>1. CASE Known(a) = {}
        BY <1>1, <1>2, <1>6, <1>7, <3>1 DEF Replaces, Entries
      <3>2. CASE Known(a) # {}
        BY <1>1, <2>1, <3>2, TsanAssumption DEF Replaces, Known
      <3> QED
        BY <3>1, <3>2
    <2> QED
      BY <1>3, <2>1, <2>2
  <1>8. ASSUME NEW p \in Plain, written'[p].seq # 0
        PROVE  Known(p)' # {}
    <2>1. CASE p = a
      BY <1>3, <2>1 DEF Known
    <2>2. CASE p # a
      <3>1. PICK e \in Entries : g_locations[e].addr = p
        BY <1>4, <1>8, <2>2 DEF Remembered, Known
      <3>2. e # x
        <4>1. CASE Known(a) = {}
          BY <1>2, <1>4, <1>6, <3>1, <4>1, TsanAssumption DEF Remembered, Addresses
        <4>2. CASE Known(a) # {}
          BY <1>1, <2>2, <3>1, <4>2 DEF Replaces, Known
        <4> QED
          BY <4>1, <4>2
      <3> QED
        BY <1>3, <3>1, <3>2 DEF Known
    <2> QED
      BY <2>1, <2>2
  <1> QED
    BY <1>5, <1>7, <1>8 DEF Remembered

\* Entering a byte keeps the entries of atomic bytes covered, if what is entered is.
LEMMA EnteredStep ==
  ASSUME TypeOK, Entered, NEW a \in Addresses, NEW l \in Locations, l.addr = a,
         Enter(a, l),
         \A p \in Atomic : p # a => released'[p] = released[p],
         a \in Atomic =>
           l.seq <= released'[a][l.cpu] /\ (l.seq # 0 => a \in Stores[l.cpu])
  PROVE  Entered'
  <1>1. PICK x \in Entries : Replaces(x, a, l)
    BY Entering
  <1>2. g_locations \in [Entries -> Locations]
    BY DEF TypeOK, Locations
  <1> SUFFICES ASSUME NEW e \in Entries, g_locations'[e].addr \in Atomic
               PROVE  LET m == g_locations'[e] IN
                      /\ m.seq <= released'[m.addr][m.cpu]
                      /\ m.seq # 0 => m.addr \in Stores[m.cpu]
    BY DEF Entered
  <1>3. CASE e = x
    BY <1>1, <1>2, <1>3 DEF Replaces
  <1>4. CASE e # x
    <2>1. g_locations'[e] = g_locations[e] /\ g_locations[e].addr # a
      BY <1>1, <1>2, <1>4 DEF Replaces
    <2> QED
      BY <2>1 DEF Entered
  <1> QED
    BY <1>3, <1>4

--------------------------------------------------------------------------------
LEMMA InitIInv == ASSUME Init PROVE IInv
  <1> USE TsanAssumption DEF Init
  <1>1. 0 \in Cpus
    BY DEF Cpus
  <1>2. TypeOK
    <2>1. Unused \in [addr : Addresses \cup {NoAddr}, cpu : Cpus, seq : Nat]
      BY <1>1 DEF Unused
    <2>2. None \in [cpu : Cpus, seq : Nat]
      BY <1>1 DEF None
    <2>3. \A e \in Entries : g_locations[e].addr = NoAddr
      BY DEF Unused
    <2>4. g_locations \in [Entries -> [addr : Addresses \cup {NoAddr}, cpu : Cpus, seq : Nat]]
      BY <2>1
    <2>5. written \in [Plain -> [cpu : Cpus, seq : Nat]]
      BY <2>2
    <2>6. ops \in [Cpus -> 0 .. MaxOps]
      OBVIOUS
    <2> QED
      BY <2>3, <2>4, <2>5, <2>6 DEF TypeOK
  <1>3. Counts
    BY DEF Counts
  <1>4. Entered
    BY DEF Entered, Unused, Addresses
  <1>5. Remembered
    BY DEF Remembered, Unused, Addresses, None
  <1>6. OwnWrites
    BY <1>1 DEF OwnWrites, None
  <1>7. VectorsAreSound
    BY DEF VectorsAreSound
  <1>8. NobodyAhead
    BY DEF NobodyAhead
  <1> QED
    BY <1>2, <1>3, <1>4, <1>5, <1>6, <1>7, <1>8 DEF IInv

LEMMA BootStep ==
  ASSUME IInv, NEW c \in Cpus, cpu_boot(c)
  PROVE  IInv'
  <1> USE DEF IInv
  <1>1. TypeOK'
    BY DEF cpu_boot, TypeOK, history
  <1>2. Counts'
    BY DEF cpu_boot, TypeOK, history, Counts
  <1>3. Entered'
    BY DEF cpu_boot, history, Entered
  <1>4. Remembered'
    BY DEF cpu_boot, history, Remembered, Known
  <1>5. OwnWrites'
    BY DEF cpu_boot, history, OwnWrites
  <1>6. VectorsAreSound'
    BY DEF cpu_boot, TypeOK, history, VectorsAreSound
  <1>7. NobodyAhead'
    BY DEF cpu_boot, history, NobodyAhead
  <1> QED
    BY <1>1, <1>2, <1>3, <1>4, <1>5, <1>6, <1>7

LEMMA ReadStep ==
  ASSUME IInv, NEW c \in Cpus, NEW a \in Plain, read1(c, a)
  PROVE  IInv'
  <1> USE DEF IInv
  <1> DEFINE l == find(a)
  <1>1. /\ a \in Addresses /\ a \notin Atomic /\ Enter(a, l)
        /\ l \in Locations /\ l.addr = a
        /\ UNCHANGED <<seqno, booted, happened, written, released>>
    BY Found, TsanAssumption DEF read1, history, Addresses
  <1> HIDE DEF l
  <1>2. TypeOK'
    <2>1. /\ trapped' \in BOOLEAN /\ ops' \in [Cpus -> 0 .. MaxOps]
      BY TsanAssumption DEF read1, Runs, Traps, TypeOK
    <2> QED
      BY <1>1, <2>1, TableStep DEF TypeOK, Locations
  <1>3. Counts'
    BY <1>1 DEF Counts
  <1>4. Entered'
    BY <1>1, EnteredStep
  <1>5. Remembered'
    <2>1. rotor <= M => l.seq = written[a].seq /\ (written[a].seq # 0 => l.cpu = written[a].cpu)
      <3>1. CASE Known(a) = {}
        BY <1>1, <3>1, Found DEF Remembered, l
      <3>2. CASE Known(a) # {}
        <4>1. PICK e \in Known(a) : l = g_locations[e]
          BY <1>1, <3>2, Found DEF l
        <4> QED
          BY <1>1, <4>1 DEF Remembered, Known
      <3> QED
        BY <3>1, <3>2
    <2> QED
      BY <1>1, <2>1, RememberedStep DEF TypeOK
  <1>6. OwnWrites'
    BY <1>1 DEF OwnWrites
  <1>7. VectorsAreSound'
    BY <1>1 DEF VectorsAreSound
  <1>8. NobodyAhead'
    BY <1>1 DEF NobodyAhead
  <1> QED
    BY <1>2, <1>3, <1>4, <1>5, <1>6, <1>7, <1>8

LEMMA WriteStep ==
  ASSUME IInv, NEW c \in Cpus, NEW a \in Plain, write1(c, a)
  PROVE  IInv'
  <1> USE DEF IInv
  <1> DEFINE l == [addr |-> a, cpu |-> c, seq |-> seqno[c][c]]
  <1>0. seqno[c][c] \in Nat /\ happened[c][c] \in Nat /\ seqno[c][c] = happened[c][c] + 1
    BY DEF write1, Runs, TypeOK, Counts
  <1>1. /\ a \in Addresses /\ a \notin Atomic /\ Enter(a, l)
        /\ l \in Locations /\ l.addr = a /\ l.cpu = c /\ l.seq = seqno[c][c]
    BY <1>0, TsanAssumption DEF write1, Addresses, Locations
  <1> HIDE DEF l
  <1>2. /\ seqno' = [seqno EXCEPT ![c][c] = @ + 1]
        /\ written' = [written EXCEPT ![a] = [cpu |-> c, seq |-> happened[c][c] + 1]]
        /\ happened' = [happened EXCEPT ![c][c] = @ + 1]
        /\ UNCHANGED <<booted, trapped, released>>
    BY DEF write1
  <1>3. /\ written' \in [Plain -> [cpu : Cpus, seq : Nat]]
        /\ \A p \in Plain : p # a => written'[p] = written[p]
        /\ written'[a].cpu = c /\ written'[a].seq = happened[c][c] + 1
    BY <1>0, <1>2 DEF TypeOK
  <1>4. /\ happened' \in [Cpus -> [Cpus -> Nat]] /\ happened'[c][c] = happened[c][c] + 1
        /\ \A b, d \in Cpus : b # c \/ d # c => happened'[b][d] = happened[b][d]
    BY <1>2 DEF TypeOK
  <1>5. /\ seqno' \in [Cpus -> [Cpus -> Nat]] /\ seqno'[c][c] = seqno[c][c] + 1
        /\ \A b, d \in Cpus : b # c \/ d # c => seqno'[b][d] = seqno[b][d]
    BY <1>2 DEF TypeOK
  <1>6. TypeOK'
    <2>1. ops' \in [Cpus -> 0 .. MaxOps]
      BY TsanAssumption DEF write1, Runs, TypeOK
    <2> QED
      BY <1>1, <1>2, <1>3, <1>4, <1>5, <2>1, TableStep DEF TypeOK, Locations
  <1>7. Counts'
    BY <1>0, <1>2, <1>4, <1>5 DEF Counts, write1, Runs
  <1>8. Entered'
    BY <1>1, <1>2, EnteredStep
  <1>9. Remembered'
    BY <1>0, <1>1, <1>3, RememberedStep
  <1>10. OwnWrites'
    <2> SUFFICES ASSUME NEW p \in Plain
                 PROVE  written'[p].seq <= happened'[written'[p].cpu][written'[p].cpu]
      BY DEF OwnWrites
    <2>1. CASE p = a
      BY <1>0, <1>3, <1>4, <2>1
    <2>2. CASE p # a
      <3>1. written[p].cpu \in Cpus /\ written[p].seq \in Nat
        BY DEF TypeOK
      <3>2. happened[written[p].cpu][written[p].cpu] \in Nat
        BY <3>1 DEF TypeOK
      <3> QED
        BY <1>0, <1>3, <1>4, <2>2, <3>1, <3>2 DEF OwnWrites
    <2> QED
      BY <2>1, <2>2
  <1>11. VectorsAreSound'
    BY <1>4, <1>5 DEF VectorsAreSound
  <1>12. NobodyAhead'
    <2>1. \A b, d \in Cpus : happened[b][d] \in Nat
      BY DEF TypeOK
    <2>2. \A p \in Atomic, d \in Cpus : released[p][d] \in Nat
      BY DEF TypeOK
    <2> QED
      BY <1>2, <1>4, <2>1, <2>2 DEF NobodyAhead
  <1> QED
    BY <1>6, <1>7, <1>8, <1>9, <1>10, <1>11, <1>12

LEMMA StoreStep ==
  ASSUME IInv, NEW c \in Cpus, NEW a \in Stores[c], atomic8_store(c, a)
  PROVE  IInv'
  <1> USE DEF IInv
  <1> DEFINE l == [addr |-> a, cpu |-> c, seq |-> seqno[c][c]]
             v == [happened[c] EXCEPT ![c] = @ + 1]
  <1>0. seqno[c][c] \in Nat /\ happened[c][c] \in Nat /\ seqno[c][c] = happened[c][c] + 1
    BY DEF atomic8_store, Runs, TypeOK, Counts
  <1>1. /\ a \in Addresses /\ a \in Atomic /\ a \notin Plain /\ Enter(a, l)
        /\ l \in Locations /\ l.addr = a /\ l.cpu = c /\ l.seq = seqno[c][c]
    BY <1>0, TsanAssumption DEF atomic8_store, Addresses, Locations
  <1>2. v \in [Cpus -> Nat] /\ v[c] = happened[c][c] + 1
    BY DEF TypeOK
  <1>3. /\ seqno' = [seqno EXCEPT ![c][c] = @ + 1]
        /\ released' = [released EXCEPT ![a] = v]
        /\ happened' = [happened EXCEPT ![c][c] = @ + 1]
        /\ UNCHANGED <<booted, trapped, written>>
    BY DEF atomic8_store
  <1> HIDE DEF l, v
  <1>4. /\ released' \in [Atomic -> [Cpus -> Nat]] /\ released'[a] = v
        /\ \A p \in Atomic : p # a => released'[p] = released[p]
    BY <1>1, <1>2, <1>3 DEF TypeOK
  <1>5. /\ happened' \in [Cpus -> [Cpus -> Nat]] /\ happened'[c][c] = happened[c][c] + 1
        /\ \A b, d \in Cpus : b # c \/ d # c => happened'[b][d] = happened[b][d]
    BY <1>3 DEF TypeOK
  <1>6. /\ seqno' \in [Cpus -> [Cpus -> Nat]] /\ seqno'[c][c] = seqno[c][c] + 1
        /\ \A b, d \in Cpus : b # c \/ d # c => seqno'[b][d] = seqno[b][d]
    BY <1>3 DEF TypeOK
  <1>7. TypeOK'
    <2>1. ops' \in [Cpus -> 0 .. MaxOps]
      BY TsanAssumption DEF atomic8_store, Runs, TypeOK
    <2> QED
      BY <1>1, <1>3, <1>4, <1>5, <1>6, <2>1, TableStep DEF TypeOK, Locations
  <1>8. Counts'
    BY <1>0, <1>3, <1>5, <1>6 DEF Counts, atomic8_store, Runs
  <1>9. Entered'
    BY <1>0, <1>1, <1>2, <1>4, EnteredStep
  <1>10. Remembered'
    BY <1>1, <1>3, RememberedStep DEF TypeOK
  <1>11. OwnWrites'
    <2> SUFFICES ASSUME NEW p \in Plain
                 PROVE  written[p].seq <= happened'[written[p].cpu][written[p].cpu]
      BY <1>3 DEF OwnWrites
    <2>1. written[p].cpu \in Cpus /\ written[p].seq \in Nat
      BY DEF TypeOK
    <2>2. happened[written[p].cpu][written[p].cpu] \in Nat
      BY <2>1 DEF TypeOK
    <2> QED
      BY <1>0, <1>5, <2>1, <2>2 DEF OwnWrites
  <1>12. VectorsAreSound'
    BY <1>5, <1>6 DEF VectorsAreSound
  <1>13. NobodyAhead'
    <2>1. \A b, d \in Cpus : happened[b][d] \in Nat
      BY DEF TypeOK
    <2>2. \A p \in Atomic, d \in Cpus : released[p][d] \in Nat
      BY DEF TypeOK
    <2>3. \A d \in Cpus : d # c => v[d] = happened[c][d]
      BY DEF v, TypeOK
    <2>4. \A d \in Cpus : happened[d][d] <= happened'[d][d]
      BY <1>0, <1>5, <2>1
    <2>5. ASSUME NEW d \in Cpus, NEW b \in Cpus
          PROVE  happened'[b][d] <= happened'[d][d]
      BY <1>5, <2>1, <2>4, <2>5 DEF NobodyAhead
    <2>6. ASSUME NEW d \in Cpus, NEW p \in Atomic
          PROVE  released'[p][d] <= happened'[d][d]
      <3>1. released'[p][d] \in {released[p][d], v[d]}
        BY <1>4
      <3>2. released[p][d] <= happened'[d][d]
        BY <1>5, <2>1, <2>2, <2>4 DEF NobodyAhead
      <3>3. v[d] <= happened'[d][d]
        BY <1>2, <1>5, <2>1, <2>3, <2>4, <2>5 DEF NobodyAhead
      <3> QED
        BY <3>1, <3>2, <3>3
    <2> QED
      BY <2>5, <2>6 DEF NobodyAhead
  <1> QED
    BY <1>7, <1>8, <1>9, <1>10, <1>11, <1>12, <1>13

LEMMA LoadStep ==
  ASSUME IInv, NoOwnLoads, NEW c \in Cpus, NEW a \in Loads[c], atomic8_load(c, a)
  PROVE  IInv'
  <1> USE DEF IInv
  <1> DEFINE l == find(a)
  <1>1. /\ a \in Addresses /\ a \in Atomic /\ a \notin Plain /\ Enter(a, l)
        /\ l \in Locations /\ l.addr = a
        /\ UNCHANGED <<booted, trapped, written, released>>
    BY Found, TsanAssumption DEF atomic8_load, Addresses
  <1>2. /\ happened' = [happened EXCEPT ![c] =
             [d \in Cpus |-> IF released[a][d] > @[d] THEN released[a][d] ELSE @[d]]]
        /\ seqno' = IF l.seq # 0 THEN [seqno EXCEPT ![c][l.cpu] = l.seq] ELSE seqno
    BY DEF atomic8_load
  \* The entry of a says who stored last, not c, and no later than what is released.
  <1>3. l.seq <= released[a][l.cpu] /\ (l.seq # 0 => a \in Stores[l.cpu])
    <2>1. released[a][l.cpu] \in Nat
      BY <1>1 DEF TypeOK, Locations
    <2>2. CASE Known(a) = {}
      BY <1>1, <2>1, <2>2, Found
    <2>3. CASE Known(a) # {}
      <3>1. PICK e \in Known(a) : l = g_locations[e]
        BY <1>1, <2>3, Found
      <3> QED
        BY <1>1, <3>1 DEF Entered, Known
    <2> QED
      BY <2>2, <2>3
  <1> HIDE DEF l
  <1>4. l.cpu \in Cpus /\ l.seq \in Nat /\ (l.seq # 0 => l.cpu # c)
    BY <1>1, <1>3 DEF Locations, NoOwnLoads
  <1>5. /\ happened' \in [Cpus -> [Cpus -> Nat]]
        /\ \A b, d \in Cpus : b # c => happened'[b][d] = happened[b][d]
        /\ \A d \in Cpus : happened[c][d] <= happened'[c][d] /\ released[a][d] <= happened'[c][d]
    <2>1. \A d \in Cpus : released[a][d] \in Nat /\ happened[c][d] \in Nat
      BY <1>1 DEF TypeOK
    <2> QED
      BY <1>2, <2>1 DEF TypeOK
  <1>6. /\ seqno' \in [Cpus -> [Cpus -> Nat]]
        /\ \A b, d \in Cpus : b # c \/ d # l.cpu => seqno'[b][d] = seqno[b][d]
        /\ seqno'[c][l.cpu] \in {seqno[c][l.cpu], l.seq}
        /\ seqno'[c][c] = seqno[c][c]
    BY <1>2, <1>4 DEF TypeOK
  <1>7. TypeOK'
    <2>1. ops' \in [Cpus -> 0 .. MaxOps]
      BY TsanAssumption DEF atomic8_load, Runs, TypeOK
    <2> QED
      BY <1>1, <1>5, <1>6, <2>1, TableStep DEF TypeOK, Locations
  <1>8. happened'[c][c] = happened[c][c]
    BY <1>1, <1>2 DEF TypeOK, NobodyAhead
  <1>9. Counts'
    BY <1>1, <1>5, <1>6, <1>8 DEF Counts
  <1>10. Entered'
    BY <1>1, <1>3, EnteredStep
  <1>11. Remembered'
    BY <1>1, RememberedStep DEF TypeOK
  <1>12. OwnWrites'
    <2>1. \A d \in Cpus : happened'[d][d] = happened[d][d]
      BY <1>5, <1>8
    <2>2. \A p \in Plain : written[p].cpu \in Cpus
      BY DEF TypeOK
    <2> QED
      BY <1>1, <2>1, <2>2 DEF OwnWrites
  <1>13. NobodyAhead'
    <2>1. \A d \in Cpus : happened'[c][d] \in {released[a][d], happened[c][d]}
      BY <1>2 DEF TypeOK
    <2>2. \A d \in Cpus : happened'[d][d] = happened[d][d]
      BY <1>5, <1>8
    <2> QED
      BY <1>1, <1>5, <2>1, <2>2 DEF NobodyAhead
  <1>14. VectorsAreSound'
    <2> SUFFICES ASSUME NEW b \in Cpus, NEW d \in Cpus, b # d
                 PROVE  seqno'[b][d] <= happened'[b][d]
      BY DEF VectorsAreSound
    <2>1. /\ seqno[b][d] \in Nat /\ happened[b][d] \in Nat
          /\ released[a][d] \in Nat /\ happened'[b][d] \in Nat
      BY <1>1, <1>5 DEF TypeOK
    <2>2. seqno[b][d] <= happened[b][d]
      BY DEF VectorsAreSound
    <2>3. CASE b # c
      BY <1>5, <1>6, <2>2, <2>3
    <2>4. CASE b = c /\ seqno'[b][d] = seqno[b][d]
      BY <1>5, <2>1, <2>2, <2>4
    <2>5. CASE b = c /\ d = l.cpu /\ seqno'[b][d] = l.seq
      BY <1>3, <1>4, <1>5, <2>1, <2>5
    <2> QED
      BY <1>6, <2>3, <2>4, <2>5
  <1> QED
    BY <1>7, <1>9, <1>10, <1>11, <1>12, <1>13, <1>14

--------------------------------------------------------------------------------
LEMMA Invariance ==
  ASSUME IInv, NoOwnLoads, [Next]_vars
  PROVE  IInv'
  <1>1. ASSUME NEW c \in Cpus, Cpu(c)
        PROVE  IInv'
    BY <1>1, BootStep, ReadStep, WriteStep, StoreStep, LoadStep DEF Cpu
  <1>2. CASE UNCHANGED vars
    BY <1>2 DEF vars, tables, history, IInv, TypeOK, Counts, Entered, Remembered, Known,
                OwnWrites, NobodyAhead, VectorsAreSound
  <1> QED
    BY <1>1, <1>2 DEF Next

\* The invariant says what NoRaceMissed does.
LEMMA Caught == ASSUME IInv PROVE NoRaceMissed
  <1> SUFFICES ASSUME rotor <= M, NEW c \in Cpus, NEW a \in Plain, Races(c, a)
               PROVE  Traps(c, a)
    BY DEF NoRaceMissed, NothingForgotten
  <1> USE DEF IInv
  <1> DEFINE w == written[a]
  <1>1. w.cpu \in Cpus /\ w.seq \in Nat /\ happened[c][w.cpu] \in Nat /\ seqno[c][w.cpu] \in Nat
    BY DEF TypeOK
  <1>2. happened[c][w.cpu] < w.seq
    BY DEF Races
  <1>3. w.seq # 0 /\ c # w.cpu
    BY <1>1, <1>2 DEF OwnWrites
  <1>4. PICK e \in Known(a) : find(a) = g_locations[e]
    BY <1>3, Found DEF Remembered, Addresses
  <1>5. find(a).seq = w.seq /\ find(a).cpu = w.cpu
    BY <1>3, <1>4 DEF Remembered, Known
  <1>6. seqno[c][w.cpu] <= happened[c][w.cpu]
    BY <1>1, <1>3 DEF VectorsAreSound
  <1> QED
    BY <1>1, <1>2, <1>5, <1>6 DEF Traps

\* What __tsan_atomic8_load makes a CPU believe of another is never ahead of what
\* happens before.
THEOREM VectorsSound == NoOwnLoads => (Spec => []VectorsAreSound)
  <1> SUFFICES ASSUME NoOwnLoads
               PROVE  Spec => []VectorsAreSound
    OBVIOUS
  <1>1. Init => IInv
    BY InitIInv
  <1>2. IInv /\ [Next]_vars => IInv'
    BY Invariance
  <1>3. IInv => VectorsAreSound
    BY DEF IInv
  <1> QED
    BY <1>1, <1>2, <1>3, PTL DEF Spec

\* __tsan_read1 misses no race with an earlier write, until an entry is reclaimed.
THEOREM RacesCaught == NoOwnLoads => (Spec => []NoRaceMissed)
  <1> SUFFICES ASSUME NoOwnLoads
               PROVE  Spec => []NoRaceMissed
    OBVIOUS
  <1>1. Init => IInv
    BY InitIInv
  <1>2. IInv /\ [Next]_vars => IInv'
    BY Invariance
  <1>3. IInv => NoRaceMissed
    BY Caught
  <1> QED
    BY <1>1, <1>2, <1>3, PTL DEF Spec

--------------------------------------------------------------------------------
(* Csan: the scan of the slots of another CPU                              *)
Slots     == 0 .. 3
Functions == {"program", "arm", "disarm", "store", "clear", "match", "reread"}

\* The slot where the j-th write of d, a recent one, is for certain.
Place(d, j) ==
  IF pc[d] = "arm" THEN IF k[d] > 1 THEN 1 ELSE 2
  ELSE IF pc[d] # "disarm" THEN IF j = Len(writes[d]) THEN 1 ELSE 3
  ELSE IF j = Len(writes[d]) THEN IF k[d] = 0 THEN 1 ELSE 0
  ELSE IF k[d] = 3 THEN 2 ELSE 3

CsanTypeOK ==
  /\ slots \in [Cores -> [Slots -> Bytes \cup {NULL}]]
  /\ pc \in [Cores -> Functions]
  /\ addr \in [Cores -> Bytes \cup {NULL}]
  /\ k \in [Cores -> Slots] /\ at \in [Cores -> Cores]
  /\ writes \in [Cores -> Seq(Bytes)] /\ oldest \in [Cores -> Nat \ {0}]
  /\ uncleared \in [Cores -> SUBSET Bytes]
  /\ owed \in [Cores -> SUBSET (Cores \X Nat)]

\* What is recent: at most two writes, one while the next is armed, none in a clear.
FewRecent(d) ==
  /\ pc[d] \in {"arm", "disarm", "store", "match", "reread"} => addr[d] \in Bytes
  /\ Len(writes[d]) <= oldest[d] + 1
  /\ pc[d] = "arm" => Len(writes[d]) <= oldest[d]
  /\ pc[d] = "clear" => Len(writes[d]) < oldest[d]

Held(d) == \A j \in Recent(d) : slots[d][Place(d, j)] = writes[d][j]

\* Slots hold what was armed since the last clear, which empties them from the end.
Emptied(d) ==
  /\ \A s \in Slots : slots[d][s] # NULL => slots[d][s] \in uncleared[d]
  /\ pc[d] = "arm" => addr[d] \in uncleared[d]
  /\ pc[d] = "clear" => \A s \in Slots : s > k[d] => slots[d][s] = NULL

\* A scan is still to come to what it is owed.
Ahead(c) ==
  /\ owed[c] # {} => pc[c] \in {"match", "reread"}
  /\ \A w \in owed[c] :
       /\ w[2] <= Len(writes[w[1]])
       /\ w[2] \in Recent(w[1]) =>
            /\ writes[w[1]][w[2]] = addr[c] /\ pc[c] = "match"
            /\ \/ w[1] > at[c]
               \/ w[1] = at[c] /\ k[c] <= Place(w[1], w[2])

CsanInv ==
  /\ CsanTypeOK
  /\ \A d \in Cores : FewRecent(d) /\ Held(d) /\ Emptied(d) /\ Ahead(d)

\* The invariant says of a scan what MatchTrue promises.
LEMMA InvImpliesMatchTrue == CsanInv => MatchTrue
  <1> SUFFICES ASSUME CsanInv, NEW c \in Cores
               PROVE  /\ pc[c] = "reread" => \A w \in owed[c] : w[2] \notin Recent(w[1])
                      /\ pc[c] = "match" /\ slots[at[c]][k[c]] = addr[c]
                           => addr[c] \in uncleared[at[c]]
    BY DEF MatchTrue
  <1>1. pc[c] = "reread" => \A w \in owed[c] : w[2] \notin Recent(w[1])
    BY DEF CsanInv, Ahead
  <1>2. ASSUME pc[c] = "match", slots[at[c]][k[c]] = addr[c]
        PROVE  addr[c] \in uncleared[at[c]]
    <2>1. at[c] \in Cores /\ k[c] \in Slots /\ addr[c] # NULL
      BY <1>2, CsanAssumption DEF CsanInv, CsanTypeOK, FewRecent
    <2>2. QED
      BY <1>2, <2>1 DEF CsanInv, Emptied
  <1>3. QED
    BY <1>1, <1>2

\* Every CPU starts with empty slots, nothing written and nothing owed.
LEMMA InitInv == CsanInit => CsanInv
  <1> SUFFICES ASSUME CsanInit PROVE CsanInv
    OBVIOUS
  <1> USE CsanAssumption DEF CsanInit
  <1>1. CsanTypeOK
    <2>1. 0 \in Cores
      BY DEF Cores
    <2>2. <<>> \in Seq(Bytes)
      OBVIOUS
    <2>3. QED
      BY <2>1, <2>2 DEF CsanTypeOK, Slots, Functions
  <1>2. ASSUME NEW d \in Cores PROVE FewRecent(d) /\ Held(d) /\ Emptied(d) /\ Ahead(d)
    BY DEF FewRecent, Held, Emptied, Ahead, Recent, Slots
  <1>3. QED
    BY <1>1, <1>2 DEF CsanInv
--------------------------------------------------------------------------------
\* A CPU that does not scan moves what it holds only away from cur: no other CPU is
\* disturbed by what it does.
LEMMA OwnStep ==
  ASSUME CsanInv, CsanTypeOK', NEW c \in Cores,
         pc[c] \notin {"match", "reread"},
         owed' = owed, at' = at,
         \A d \in Cores : d # c =>
           /\ slots'[d] = slots[d] /\ pc'[d] = pc[d] /\ addr'[d] = addr[d] /\ k'[d] = k[d]
           /\ writes'[d] = writes[d] /\ oldest'[d] = oldest[d] /\ uncleared'[d] = uncleared[d],
         Len(writes[c]) <= Len(writes'[c]),
         \A j \in Recent(c)' : j <= Len(writes[c]) =>
           /\ j \in Recent(c) /\ writes'[c][j] = writes[c][j]
           /\ Place(c, j) <= Place(c, j)',
         FewRecent(c)', Held(c)', Emptied(c)'
  PROVE  CsanInv'
  <1>1. ASSUME NEW d \in Cores, d # c PROVE FewRecent(d)' /\ Held(d)' /\ Emptied(d)'
    <2>1. FewRecent(d)'
      BY <1>1 DEF CsanInv, FewRecent
    <2>2. Held(d)'
      BY <1>1 DEF CsanInv, Held, Recent, Place
    <2>3. Emptied(d)'
      BY <1>1 DEF CsanInv, Emptied
    <2>4. QED
      BY <2>1, <2>2, <2>3
  <1>2. ASSUME NEW r \in Cores PROVE Ahead(r)'
    <2>1. CASE r = c
      BY <2>1 DEF CsanInv, Ahead
    <2>2. CASE r # c
      <3>1. Ahead(r) /\ pc'[r] = pc[r] /\ addr'[r] = addr[r] /\ k'[r] = k[r]
        BY <2>2 DEF CsanInv
      <3>2. ASSUME NEW w \in owed'[r]
            PROVE  /\ w[2] <= Len(writes'[w[1]])
                   /\ w[2] \in Recent(w[1])' =>
                        /\ writes'[w[1]][w[2]] = addr'[r] /\ pc'[r] = "match"
                        /\ \/ w[1] > at'[r]
                           \/ w[1] = at'[r] /\ k'[r] <= Place(w[1], w[2])'
        <4>1. w \in owed[r] /\ w[1] \in Cores /\ w[2] \in Nat /\ w[2] <= Len(writes[w[1]])
          BY <3>1, <3>2 DEF CsanInv, CsanTypeOK, Ahead
        <4>2. CASE w[1] # c
          <5>1. /\ writes'[w[1]] = writes[w[1]] /\ oldest'[w[1]] = oldest[w[1]]
                /\ pc'[w[1]] = pc[w[1]] /\ k'[w[1]] = k[w[1]]
            BY <4>1, <4>2
          <5>2. QED
            BY <3>1, <4>1, <5>1 DEF Ahead, Recent, Place
        <4>3. CASE w[1] = c
          <5>1. w[2] <= Len(writes'[c])
            BY <4>1, <4>3 DEF CsanInv, CsanTypeOK
          <5>2. ASSUME w[2] \in Recent(c)'
                PROVE  /\ writes'[c][w[2]] = addr'[r] /\ pc'[r] = "match"
                       /\ \/ c > at'[r]
                          \/ c = at'[r] /\ k'[r] <= Place(c, w[2])'
            <6>1. /\ w[2] \in Recent(c) /\ writes'[c][w[2]] = writes[c][w[2]]
                  /\ Place(c, w[2]) <= Place(c, w[2])'
              BY <4>1, <4>3, <5>2
            <6>2. /\ writes[c][w[2]] = addr[r] /\ pc[r] = "match"
                  /\ \/ c > at[r]
                     \/ c = at[r] /\ k[r] <= Place(c, w[2])
              BY <3>1, <4>1, <4>3, <6>1 DEF Ahead
            <6>3. k[r] \in Int /\ Place(c, w[2]) \in Int /\ Place(c, w[2])' \in Int
              BY DEF CsanInv, CsanTypeOK, Place, Slots
            <6>4. QED
              BY <3>1, <6>1, <6>2, <6>3
          <5>3. QED
            BY <4>3, <5>1, <5>2
        <4>4. QED
          BY <4>2, <4>3
      <3>3. owed'[r] # {} => pc'[r] \in {"match", "reread"}
        BY <3>1 DEF Ahead
      <3>4. QED
        BY <3>2, <3>3 DEF Ahead
    <2>3. QED
      BY <2>1, <2>2
  <1>3. QED
    BY <1>1, <1>2 DEF CsanInv
--------------------------------------------------------------------------------
\* Slots are numbered 0 to 3, and CPUs likewise.
LEMMA Numbers ==
  /\ \A s \in Slots : s \in Int /\ (s # 0 => s - 1 \in Slots) /\ (s < 3 => s + 1 \in Slots)
  /\ 0 \in Slots /\ 3 \in Slots /\ 0 \in Cores
  /\ \A d \in Cores : d \in Int /\ (d < NCPU - 1 => d + 1 \in Cores)
  BY CsanAssumption DEF Slots, Cores

LEMMA GoesType ==
  ASSUME CsanTypeOK, NEW c \in Cores, NEW f \in Functions, NEW s \in Slots, Goes(c, f, s)
  PROVE  pc' \in [Cores -> Functions] /\ k' \in [Cores -> Slots]
  BY DEF CsanTypeOK, Goes

LEMMA StoreType ==
  ASSUME CsanTypeOK, NEW c \in Cores, NEW s \in Slots, NEW b \in Bytes \cup {NULL},
         Store(c, s, b)
  PROVE  slots' \in [Cores -> [Slots -> Bytes \cup {NULL}]]
  BY DEF CsanTypeOK, Store

LEMMA ShiftedType ==
  ASSUME CsanTypeOK, NEW c \in Cores, NEW s \in Slots, NEW b \in Bytes \cup {NULL}
  PROVE  Shifted(c, s, b) \in Bytes \cup {NULL}
  BY Numbers DEF CsanTypeOK, Shifted

\* What the CPUs do preserves the types.
LEMMA TypeStep == CsanTypeOK /\ (\A d \in Cores : FewRecent(d)) /\ CsanNext => CsanTypeOK'
  <1> SUFFICES ASSUME CsanTypeOK, \A d \in Cores : FewRecent(d), NEW c \in Cores,
                      \/ \E a \in Bytes : csan_read1(c, a) \/ csan_write1(c, a)
                      \/ release(c) \/ arm(c) \/ disarm(c) \/ store(c) \/ clear(c)
                      \/ match(c) \/ reread(c)
               PROVE  CsanTypeOK'
    BY DEF CsanNext
  <1>0. {"program", "arm", "disarm", "store", "clear", "match", "reread"} \subseteq Functions
    BY DEF Functions
  <1>k. k[c] \in Slots /\ at[c] \in Cores
    BY DEF CsanTypeOK
  <1>1. ASSUME NEW a \in Bytes, csan_read1(c, a) PROVE CsanTypeOK'
    <2>1. pc' \in [Cores -> Functions] /\ k' \in [Cores -> Slots]
      BY <1>0, <1>1, Numbers, GoesType DEF csan_read1
    <2>2. owed' \in [Cores -> SUBSET (Cores \X Nat)]
      <3>1. {w \in Cores \X (1 .. MaxCalls) : w[2] \in Recent(w[1]) /\ writes[w[1]][w[2]] = a}
              \in SUBSET (Cores \X Nat)
        BY CsanAssumption
      <3>2. QED
        BY <1>1, <3>1 DEF csan_read1, CsanTypeOK
    <2>3. QED
      BY <1>1, <2>1, <2>2, Numbers DEF csan_read1, CsanTypeOK, csanHistory
  <1>2. ASSUME NEW a \in Bytes, csan_write1(c, a) PROVE CsanTypeOK'
    <2>1. pc' \in [Cores -> Functions] /\ k' \in [Cores -> Slots]
      BY <1>0, <1>2, Numbers, GoesType DEF csan_write1, Calls
    <2>2. oldest' \in [Cores -> Nat \ {0}] /\ uncleared' \in [Cores -> SUBSET Bytes]
      BY <1>2 DEF csan_write1, CsanTypeOK
    <2>3. QED
      BY <1>2, <2>1, <2>2 DEF csan_write1, Calls, CsanTypeOK
  <1>3. CASE release(c)
    <2>1. pc' \in [Cores -> Functions] /\ k' \in [Cores -> Slots]
      BY <1>0, <1>3, Numbers, GoesType DEF release, Calls
    <2>2. oldest' \in [Cores -> Nat \ {0}]
      BY <1>3 DEF release, CsanTypeOK
    <2>3. QED
      BY <1>3, <2>1, <2>2 DEF release, Calls, CsanTypeOK
  <1>4. CASE arm(c)
    <2>1. addr[c] \in Bytes
      BY <1>4 DEF arm, FewRecent
    <2>2. slots' \in [Cores -> [Slots -> Bytes \cup {NULL}]]
      BY <1>k, <1>4, <2>1, ShiftedType, StoreType DEF arm
    <2>3. pc' \in [Cores -> Functions] /\ k' \in [Cores -> Slots]
      BY <1>0, <1>k, <1>4, Numbers, GoesType DEF arm
    <2>4. writes' \in [Cores -> Seq(Bytes)]
      <3>1. Append(writes[c], addr[c]) \in Seq(Bytes)
        BY <2>1 DEF CsanTypeOK
      <3>2. writes' = writes \/ writes' = [writes EXCEPT ![c] = Append(@, addr[c])]
        BY <1>4 DEF arm
      <3>3. QED
        BY <3>1, <3>2 DEF CsanTypeOK
    <2>5. QED
      BY <1>4, <2>2, <2>3, <2>4 DEF arm, CsanTypeOK
  <1>5. CASE disarm(c)
    <2>1. slots' \in [Cores -> [Slots -> Bytes \cup {NULL}]]
      BY <1>k, <1>5, ShiftedType, StoreType DEF disarm
    <2>2. pc' \in [Cores -> Functions] /\ k' \in [Cores -> Slots]
      BY <1>0, <1>k, <1>5, Numbers, GoesType DEF disarm
    <2>3. QED
      BY <1>5, <2>1, <2>2 DEF disarm, CsanTypeOK, csanHistory
  <1>6. CASE store(c)
    <2>1. pc' \in [Cores -> Functions] /\ k' \in [Cores -> Slots]
      BY <1>0, <1>6, Numbers, GoesType DEF store
    <2>2. QED
      BY <1>6, <2>1 DEF store, CsanTypeOK, csanHistory
  <1>7. CASE clear(c)
    <2>1. slots' \in [Cores -> [Slots -> Bytes \cup {NULL}]]
      BY <1>k, <1>7, StoreType DEF clear
    <2>2. pc' \in [Cores -> Functions] /\ k' \in [Cores -> Slots]
      BY <1>0, <1>k, <1>7, Numbers, GoesType DEF clear
    <2>3. uncleared' \in [Cores -> SUBSET Bytes]
      BY <1>7 DEF clear, CsanTypeOK
    <2>4. QED
      BY <1>7, <2>1, <2>2, <2>3 DEF clear, CsanTypeOK
  <1>8. CASE match(c)
    <2>1. pc' \in [Cores -> Functions] /\ k' \in [Cores -> Slots]
      <3>1. \/ UNCHANGED <<pc, k>>
            \/ \E f \in {"match", "reread"}, s \in Slots : Goes(c, f, s)
        BY <1>k, <1>8, Numbers DEF match
      <3>2. QED
        BY <1>0, <3>1, GoesType DEF CsanTypeOK
    <2>2. at' \in [Cores -> Cores]
      BY <1>k, <1>8, Numbers DEF match, CsanTypeOK
    <2>3. QED
      BY <1>8, <2>1, <2>2 DEF match, CsanTypeOK, csanHistory
  <1>9. CASE reread(c)
    <2>1. pc' \in [Cores -> Functions] /\ k' \in [Cores -> Slots]
      BY <1>0, <1>9, Numbers, GoesType DEF reread
    <2>2. owed' \in [Cores -> SUBSET (Cores \X Nat)]
      BY <1>9 DEF reread, CsanTypeOK
    <2>3. QED
      BY <1>9, <2>1, <2>2 DEF reread, CsanTypeOK, csanHistory
  <1>10. QED
    BY <1>1, <1>2, <1>3, <1>4, <1>5, <1>6, <1>7, <1>8, <1>9
--------------------------------------------------------------------------------
\* The invariant survives each operation.

LEMMA CsanWriteStep ==
  ASSUME CsanInv, CsanTypeOK', NEW c \in Cores, NEW a \in Bytes, csan_write1(c, a)
  PROVE  CsanInv'
  <1>1. /\ pc[c] = "program" /\ pc'[c] = "arm" /\ k'[c] = 3 /\ addr'[c] = a
        /\ slots' = slots /\ writes' = writes /\ owed' = owed /\ at' = at
        /\ oldest'[c] = IF Len(writes[c]) > oldest[c] THEN Len(writes[c]) ELSE oldest[c]
        /\ uncleared'[c] = uncleared[c] \cup {a}
    BY DEF CsanInv, CsanTypeOK, csan_write1, Calls, Goes
  <1>2. Len(writes[c]) \in Nat /\ oldest[c] \in Nat /\ Len(writes[c]) <= oldest[c] + 1
    BY DEF CsanInv, CsanTypeOK, FewRecent
  <1>3. \A d \in Cores : d # c =>
           /\ slots'[d] = slots[d] /\ pc'[d] = pc[d] /\ addr'[d] = addr[d] /\ k'[d] = k[d]
           /\ writes'[d] = writes[d] /\ oldest'[d] = oldest[d] /\ uncleared'[d] = uncleared[d]
    BY DEF CsanInv, CsanTypeOK, csan_write1, Calls, Goes
  <1>4. \A j \in Recent(c)' : j \in Recent(c) /\ j = Len(writes[c])
    BY <1>1, <1>2 DEF Recent
  <1>5. \A j \in Recent(c)' : Place(c, j) = 1 /\ Place(c, j)' = 1
    BY <1>1, <1>4 DEF Place
  <1>6. FewRecent(c)' /\ Emptied(c)'
    BY <1>1, <1>2 DEF FewRecent, CsanInv, Emptied
  <1>7. Held(c)'
    BY <1>1, <1>4, <1>5 DEF CsanInv, Held
  <1>8. QED
    BY <1>1, <1>2, <1>3, <1>4, <1>5, <1>6, <1>7, OwnStep

LEMMA ReleaseStep ==
  ASSUME CsanInv, CsanTypeOK', NEW c \in Cores, release(c)
  PROVE  CsanInv'
  <1>1. /\ pc[c] = "program" /\ pc'[c] = "clear" /\ k'[c] = 3
        /\ slots' = slots /\ writes' = writes /\ owed' = owed /\ at' = at
        /\ oldest'[c] = Len(writes[c]) + 1
        /\ uncleared' = uncleared
    BY DEF CsanInv, CsanTypeOK, release, Calls, Goes
  <1>2. Len(writes[c]) \in Nat
    BY DEF CsanInv, CsanTypeOK
  <1>3. \A d \in Cores : d # c =>
           /\ slots'[d] = slots[d] /\ pc'[d] = pc[d] /\ addr'[d] = addr[d] /\ k'[d] = k[d]
           /\ writes'[d] = writes[d] /\ oldest'[d] = oldest[d] /\ uncleared'[d] = uncleared[d]
    BY DEF CsanInv, CsanTypeOK, release, Calls, Goes
  <1>4. Recent(c)' = {}
    BY <1>1, <1>2 DEF Recent
  <1>5. FewRecent(c)' /\ Emptied(c)' /\ Held(c)'
    BY <1>1, <1>2, <1>4 DEF FewRecent, CsanInv, Emptied, Held, Slots
  <1>6. QED
    BY <1>1, <1>2, <1>3, <1>4, <1>5, OwnStep

LEMMA CsanStoreStep ==
  ASSUME CsanInv, CsanTypeOK', NEW c \in Cores, store(c)
  PROVE  CsanInv'
  <1>1. /\ pc[c] = "store" /\ pc'[c] = "program"
        /\ UNCHANGED <<slots, addr, at, writes, oldest, uncleared, owed>>
    BY DEF CsanInv, CsanTypeOK, store, Goes, csanHistory
  <1>2. Len(writes[c]) \in Nat
    BY DEF CsanInv, CsanTypeOK
  <1>3. \A d \in Cores : d # c => pc'[d] = pc[d] /\ k'[d] = k[d]
    BY DEF CsanInv, CsanTypeOK, store, Goes
  <1>4. Recent(c)' = Recent(c)
    BY <1>1 DEF Recent
  <1>5. \A j \in Recent(c) : Place(c, j)' = Place(c, j) /\ Place(c, j) \in Int
    BY <1>1 DEF Place
  <1>6. FewRecent(c)' /\ Emptied(c)' /\ Held(c)'
    BY <1>1, <1>4, <1>5 DEF FewRecent, CsanInv, Emptied, Held
  <1>7. QED
    BY <1>1, <1>2, <1>3, <1>4, <1>5, <1>6, OwnStep

LEMMA ClearStep ==
  ASSUME CsanInv, CsanTypeOK', NEW c \in Cores, clear(c)
  PROVE  CsanInv'
  <1>1. /\ pc[c] = "clear" /\ k[c] \in Slots
        /\ slots' = [slots EXCEPT ![c][k[c]] = NULL]
        /\ IF k[c] = 0 THEN pc'[c] = "program" /\ uncleared'[c] = {}
           ELSE pc'[c] = "clear" /\ k'[c] = k[c] - 1 /\ uncleared'[c] = uncleared[c]
        /\ UNCHANGED <<addr, at, writes, oldest, owed>>
    BY DEF CsanInv, CsanTypeOK, clear, Goes, Store
  <1>2. Len(writes[c]) \in Nat /\ oldest[c] \in Nat /\ Len(writes[c]) < oldest[c]
    BY <1>1 DEF CsanInv, CsanTypeOK, FewRecent
  <1>3. \A d \in Cores : d # c =>
           /\ slots'[d] = slots[d] /\ pc'[d] = pc[d] /\ k'[d] = k[d]
           /\ uncleared'[d] = uncleared[d]
    BY DEF CsanInv, CsanTypeOK, clear, Goes, Store
  <1>4. Recent(c)' = {}
    BY <1>1, <1>2 DEF Recent
  <1>5. FewRecent(c)' /\ Held(c)'
    BY <1>1, <1>2, <1>4 DEF FewRecent, Held
  <1>6. \A s \in Slots : slots'[c][s] = IF s = k[c] THEN NULL ELSE slots[c][s]
    BY <1>1 DEF CsanInv, CsanTypeOK
  <1>7. Emptied(c)'
    BY <1>1, <1>6 DEF CsanInv, Emptied, Slots
  <1>8. QED
    BY <1>1, <1>2, <1>3, <1>4, <1>5, <1>7, OwnStep

LEMMA ArmStep ==
  ASSUME CsanInv, CsanTypeOK', NEW c \in Cores, arm(c)
  PROVE  CsanInv'
  <1> DEFINE n == Len(writes[c])
             stored == IF k[c] = 0 THEN addr[c] ELSE slots[c][k[c] - 1]
  <1>1. /\ pc[c] = "arm" /\ k[c] \in Slots /\ addr[c] \in Bytes
        /\ slots' = [slots EXCEPT ![c][k[c]] = stored]
        /\ UNCHANGED <<addr, at, oldest, uncleared, owed>>
    BY DEF CsanInv, CsanTypeOK, FewRecent, arm, Store, Shifted
  <1>2. CASE k[c] # 0
    <2>1. pc'[c] = "arm" /\ k'[c] = k[c] - 1 /\ writes' = writes
      BY <1>1, <1>2 DEF arm, Goes, CsanInv, CsanTypeOK
    <2>2. n \in Nat /\ oldest[c] \in Nat /\ n <= oldest[c]
      BY <1>1 DEF CsanInv, CsanTypeOK, FewRecent
    <2>3. \A d \in Cores : d # c =>
             slots'[d] = slots[d] /\ pc'[d] = pc[d] /\ k'[d] = k[d]
      BY <1>1 DEF CsanInv, CsanTypeOK, arm, Goes
    <2>4. \A s \in Slots : slots'[c][s] = IF s = k[c] THEN stored ELSE slots[c][s]
      BY <1>1 DEF CsanInv, CsanTypeOK
    <2>5. \A j \in Recent(c) : j \in Recent(c)' /\ j = n
      BY <1>1, <2>1, <2>2 DEF Recent
    <2>6. Recent(c)' = Recent(c)
      BY <1>1, <2>1 DEF Recent
    <2>7. \A j \in Recent(c) : /\ Place(c, j) = IF k[c] > 1 THEN 1 ELSE 2
                              /\ Place(c, j)' = IF k[c] > 2 THEN 1 ELSE 2
      BY <1>1, <1>2, <2>1 DEF Place, Slots
    <2>8. Held(c)'
      <3>1. SUFFICES ASSUME NEW j \in Recent(c) PROVE slots'[c][Place(c, j)'] = writes[c][j]
        BY <2>1, <2>6 DEF Held
      <3>2. slots[c][Place(c, j)] = writes[c][j]
        BY DEF CsanInv, Held
      <3>3. QED
        BY <1>1, <1>2, <2>4, <2>7, <3>2 DEF Slots
    <2>9. FewRecent(c)'
      BY <1>1, <2>1, <2>2 DEF FewRecent
    <2>10. Emptied(c)'
      BY <1>1, <1>2, <2>1, <2>4 DEF CsanInv, Emptied, Slots
    <2>11. \A j \in Recent(c)' : j <= n =>
             j \in Recent(c) /\ writes'[c][j] = writes[c][j] /\ Place(c, j) <= Place(c, j)'
      BY <1>1, <1>2, <2>1, <2>6, <2>7 DEF Slots
    <2>12. QED
      BY <1>1, <2>1, <2>2, <2>3, <2>8, <2>9, <2>10, <2>11, OwnStep
  <1>3. CASE k[c] = 0
    <2>1. /\ pc'[c] = "disarm" /\ k'[c] = 3
          /\ writes' = [writes EXCEPT ![c] = Append(@, addr[c])]
      BY <1>1, <1>3 DEF arm, Goes, CsanInv, CsanTypeOK
    <2>2. n \in Nat /\ oldest[c] \in Nat /\ n <= oldest[c] /\ writes[c] \in Seq(Bytes)
      BY <1>1 DEF CsanInv, CsanTypeOK, FewRecent
    <2>3. \A d \in Cores : d # c =>
             /\ slots'[d] = slots[d] /\ pc'[d] = pc[d] /\ k'[d] = k[d]
             /\ writes'[d] = writes[d]
      BY <1>1, <2>1 DEF CsanInv, CsanTypeOK, arm, Goes
    <2>4. \A s \in Slots : slots'[c][s] = IF s = 0 THEN addr[c] ELSE slots[c][s]
      BY <1>1, <1>3 DEF CsanInv, CsanTypeOK
    <2>5. writes'[c] = Append(writes[c], addr[c])
      BY <2>1 DEF CsanInv, CsanTypeOK
    <2>6. /\ Len(writes'[c]) = n + 1 /\ writes'[c][n + 1] = addr[c]
          /\ \A j \in 1 .. n : writes'[c][j] = writes[c][j]
      BY <1>1, <2>2, <2>5
    <2>7. \A j \in Recent(c)' : j = n + 1 \/ (j = n /\ j \in Recent(c) /\ j \in 1 .. n)
      BY <1>1, <2>2, <2>6 DEF Recent, CsanInv, CsanTypeOK
    <2>8. \A j \in Recent(c)' : /\ Place(c, j)' = IF j = n + 1 THEN 0 ELSE 2
                               /\ Place(c, j) = 2
      BY <1>1, <1>3, <2>1, <2>6 DEF Place
    <2>9. Held(c)'
      <3>1. SUFFICES ASSUME NEW j \in Recent(c)' PROVE slots'[c][Place(c, j)'] = writes'[c][j]
        BY DEF Held
      <3>2. CASE j = n + 1
        BY <2>4, <2>6, <2>8, <3>2 DEF Slots
      <3>3. CASE j # n + 1
        <4>1. j \in Recent(c) /\ j \in 1 .. n
          BY <2>7, <3>3
        <4>2. slots[c][2] = writes[c][j]
          BY <2>8, <4>1 DEF CsanInv, Held
        <4>3. QED
          BY <2>4, <2>6, <2>8, <3>3, <4>1, <4>2 DEF Slots
      <3>4. QED
        BY <3>2, <3>3
    <2>10. FewRecent(c)'
      BY <1>1, <2>1, <2>2, <2>6 DEF FewRecent
    <2>11. Emptied(c)'
      BY <1>1, <1>3, <2>1, <2>4 DEF CsanInv, Emptied, Slots
    <2>12. \A j \in Recent(c)' : j <= n =>
             j \in Recent(c) /\ writes'[c][j] = writes[c][j] /\ Place(c, j) <= Place(c, j)'
      BY <2>2, <2>6, <2>7, <2>8
    <2>13. n <= Len(writes'[c])
      BY <2>2, <2>6
    <2>14. QED
      BY <1>1, <2>1, <2>3, <2>9, <2>10, <2>11, <2>12, <2>13, OwnStep
  <1>4. QED
    BY <1>2, <1>3

LEMMA DisarmStep ==
  ASSUME CsanInv, CsanTypeOK', NEW c \in Cores, disarm(c)
  PROVE  CsanInv'
  <1> DEFINE n == Len(writes[c])
             stored == IF k[c] = 0 THEN NULL ELSE slots[c][k[c] - 1]
  <1>1. /\ pc[c] = "disarm" /\ k[c] \in Slots /\ addr[c] \in Bytes
        /\ slots' = [slots EXCEPT ![c][k[c]] = stored]
        /\ UNCHANGED <<addr, at, writes, oldest, uncleared, owed>>
        /\ IF k[c] = 0 THEN pc'[c] = "store" ELSE pc'[c] = "disarm" /\ k'[c] = k[c] - 1
    BY DEF CsanInv, CsanTypeOK, FewRecent, disarm, Store, Shifted, Goes, csanHistory
  <1>2. n \in Nat /\ oldest[c] \in Nat /\ n <= oldest[c] + 1
    BY <1>1 DEF CsanInv, CsanTypeOK, FewRecent
  <1>3. \A d \in Cores : d # c =>
           slots'[d] = slots[d] /\ pc'[d] = pc[d] /\ k'[d] = k[d]
    BY <1>1 DEF CsanInv, CsanTypeOK, disarm, Goes
  <1>4. \A s \in Slots : slots'[c][s] = IF s = k[c] THEN stored ELSE slots[c][s]
    BY <1>1 DEF CsanInv, CsanTypeOK
  <1>5. Recent(c)' = Recent(c)
    BY <1>1 DEF Recent
  <1>6. \A j \in Recent(c) :
          /\ Place(c, j)  = IF j = n THEN (IF k[c] = 0 THEN 1 ELSE 0) ELSE IF k[c] = 3 THEN 2 ELSE 3
          /\ Place(c, j)' = IF j = n THEN (IF k[c] <= 1 THEN 1 ELSE 0) ELSE 3
    BY <1>1 DEF Place, Slots
  <1>7. Held(c)'
    <2>1. SUFFICES ASSUME NEW j \in Recent(c) PROVE slots'[c][Place(c, j)'] = writes[c][j]
      BY <1>1, <1>5 DEF Held
    <2>2. slots[c][Place(c, j)] = writes[c][j]
      BY DEF CsanInv, Held
    <2>3. QED
      BY <1>1, <1>4, <1>6, <2>2 DEF Slots
  <1>8. FewRecent(c)'
    BY <1>1, <1>2 DEF FewRecent
  <1>9. Emptied(c)'
    BY <1>1, <1>4 DEF CsanInv, Emptied, Slots
  <1>10. \A j \in Recent(c) : Place(c, j) <= Place(c, j)'
    BY <1>1, <1>6 DEF Slots
  <1>11. QED
    BY <1>1, <1>2, <1>3, <1>5, <1>7, <1>8, <1>9, <1>10, OwnStep

\* A step of a scan disturbs no slot; it is enough that it does not pass what it is owed.
LEMMA ScanStep ==
  ASSUME CsanInv, CsanTypeOK', NEW c \in Cores,
         UNCHANGED <<slots, writes, oldest, uncleared>>,
         pc[c] \in {"program", "match", "reread"},
         pc'[c] \in {"program", "match", "reread"},
         \A d \in Cores : d # c =>
           /\ pc'[d] = pc[d] /\ addr'[d] = addr[d] /\ k'[d] = k[d] /\ at'[d] = at[d]
           /\ owed'[d] = owed[d],
         pc'[c] \in {"match", "reread"} => addr'[c] \in Bytes,
         Ahead(c)'
  PROVE  CsanInv'
  <1>1. \A d \in Cores : Recent(d)' = Recent(d)
    BY DEF Recent
  <1>2. \A d \in Cores, j \in Int : Place(d, j)' = Place(d, j)
    <2>1. SUFFICES ASSUME NEW d \in Cores, NEW j \in Int PROVE Place(d, j)' = Place(d, j)
      OBVIOUS
    <2>2. CASE d = c
      BY <2>2 DEF Place
    <2>3. CASE d # c
      BY <2>3 DEF Place
    <2>4. QED
      BY <2>2, <2>3
  <1>3. ASSUME NEW d \in Cores PROVE FewRecent(d)' /\ Held(d)' /\ Emptied(d)'
    <2>1. FewRecent(d)'
      BY DEF CsanInv, FewRecent
    <2>2. Emptied(d)'
      BY DEF CsanInv, Emptied
    <2>3. Recent(d) \subseteq Int
      BY DEF Recent
    <2>4. Held(d)'
      BY <1>1, <1>2, <2>3 DEF CsanInv, Held
    <2>5. QED
      BY <2>1, <2>2, <2>4
  <1>4. ASSUME NEW d \in Cores, d # c PROVE Ahead(d)'
    <2>1. \A w \in owed[d] : w[1] \in Cores /\ w[2] \in Int
      BY DEF CsanInv, CsanTypeOK
    <2>2. QED
      BY <1>1, <1>2, <1>4, <2>1 DEF CsanInv, Ahead
  <1>5. QED
    BY <1>3, <1>4 DEF CsanInv

LEMMA CsanReadStep ==
  ASSUME CsanInv, CsanTypeOK', NEW c \in Cores, NEW a \in Bytes, csan_read1(c, a)
  PROVE  CsanInv'
  <1>1. /\ pc[c] = "program" /\ pc'[c] = "match" /\ k'[c] = 0 /\ at'[c] = 0 /\ addr'[c] = a
        /\ owed'[c] = {w \in Cores \X (1 .. MaxCalls) :
                         w[2] \in Recent(w[1]) /\ writes[w[1]][w[2]] = a}
        /\ UNCHANGED <<slots, writes, oldest, uncleared>>
    BY DEF CsanInv, CsanTypeOK, csan_read1, Goes, csanHistory
  <1>2. \A d \in Cores : d # c =>
           /\ pc'[d] = pc[d] /\ addr'[d] = addr[d] /\ k'[d] = k[d] /\ at'[d] = at[d]
           /\ owed'[d] = owed[d]
    BY DEF CsanInv, CsanTypeOK, csan_read1, Goes
  <1>3. Ahead(c)'
    <2>1. SUFFICES ASSUME NEW w \in owed'[c]
                   PROVE  /\ w[2] <= Len(writes[w[1]])
                          /\ writes[w[1]][w[2]] = a
                          /\ w[1] > 0 \/ (w[1] = 0 /\ 0 <= Place(w[1], w[2])')
      BY <1>1 DEF Ahead
    <2>2. w[1] \in Cores /\ w[2] \in Recent(w[1]) /\ writes[w[1]][w[2]] = a
      BY <1>1
    <2>3. w[1] > 0 \/ w[1] = 0
      BY <2>2, CsanAssumption DEF Cores
    <2>4. 0 <= Place(w[1], w[2])'
      BY DEF Place
    <2>5. QED
      BY <2>2, <2>3, <2>4 DEF Recent
  <1>4. QED
    BY <1>1, <1>2, <1>3, ScanStep

LEMMA MatchStep ==
  ASSUME CsanInv, CsanTypeOK', NEW c \in Cores, match(c)
  PROVE  CsanInv'
  <1>1. /\ pc[c] = "match" /\ addr[c] \in Bytes /\ k[c] \in Slots /\ at[c] \in Cores
        /\ UNCHANGED <<slots, addr, writes, oldest, uncleared, owed>>
    BY DEF CsanInv, CsanTypeOK, FewRecent, match, csanHistory
  <1>2. \A d \in Cores : d # c => pc'[d] = pc[d] /\ k'[d] = k[d] /\ at'[d] = at[d]
    BY DEF CsanInv, CsanTypeOK, match, Goes
  <1>3. /\ pc'[c] \in {"match", "reread"}
        /\ slots[at[c]][k[c]] = addr[c] => pc'[c] = "match" /\ k'[c] = k[c] /\ at'[c] = at[c]
        /\ slots[at[c]][k[c]] # addr[c] =>
             /\ k[c] < 3 => pc'[c] = "match" /\ k'[c] = k[c] + 1 /\ at'[c] = at[c]
             /\ k[c] >= 3 /\ at[c] < NCPU - 1 =>
                  pc'[c] = "match" /\ k'[c] = 0 /\ at'[c] = at[c] + 1
             /\ k[c] >= 3 /\ ~(at[c] < NCPU - 1) => pc'[c] = "reread"
    BY <1>1 DEF match, Goes, CsanInv, CsanTypeOK, Slots
  <1>4. \A d \in Cores, j \in Int : /\ Place(d, j)' = Place(d, j) /\ Place(d, j) \in Slots
    <2>1. SUFFICES ASSUME NEW d \in Cores, NEW j \in Int
                   PROVE  Place(d, j)' = Place(d, j) /\ Place(d, j) \in Slots
      OBVIOUS
    <2>2. CASE d = c
      BY <1>1, <1>3, <2>2 DEF Place, Slots
    <2>3. CASE d # c
      BY <1>1, <1>2, <2>3 DEF Place, Slots
    <2>4. QED
      BY <2>2, <2>3
  <1>5. ASSUME NEW w \in owed[c], w[2] \in Recent(w[1])
        PROVE  /\ pc'[c] = "match"
               /\ w[1] > at'[c] \/ (w[1] = at'[c] /\ k'[c] <= Place(w[1], w[2])')
    <2>0. w[1] \in Cores /\ w[2] \in Int
      BY DEF CsanInv, CsanTypeOK
    <2>1. /\ w[1] \in Int /\ w[1] <= NCPU - 1 /\ at[c] \in Int /\ NCPU \in Int
          /\ Place(w[1], w[2]) \in Slots
      BY <1>1, <1>4, <2>0, CsanAssumption DEF Cores
    <2>2. /\ writes[w[1]][w[2]] = addr[c]
          /\ w[1] > at[c] \/ (w[1] = at[c] /\ k[c] <= Place(w[1], w[2]))
      BY <1>5 DEF CsanInv, Ahead
    <2>3. slots[w[1]][Place(w[1], w[2])] = addr[c]
      BY <1>5, <2>0, <2>2 DEF CsanInv, Held
    <2>4. slots[at[c]][k[c]] # addr[c] /\ w[1] = at[c] => k[c] < Place(w[1], w[2])
      BY <1>1, <2>1, <2>2, <2>3 DEF Slots
    <2>5. k[c] \in Int /\ Place(w[1], w[2]) \in 0 .. 3
      BY <1>1, <2>1 DEF Slots
    <2>6. Place(w[1], w[2])' = Place(w[1], w[2])
      BY <1>4, <2>0
    <2>7. CASE slots[at[c]][k[c]] = addr[c]
      BY <1>3, <2>2, <2>6, <2>7
    <2>8. CASE slots[at[c]][k[c]] # addr[c] /\ k[c] < 3
      BY <1>3, <2>1, <2>2, <2>4, <2>5, <2>6, <2>8
    <2>9. CASE slots[at[c]][k[c]] # addr[c] /\ k[c] >= 3
      <3>1. w[1] > at[c] /\ at[c] < NCPU - 1
        BY <2>1, <2>2, <2>4, <2>5, <2>9
      <3>2. QED
        BY <1>3, <2>1, <2>5, <2>6, <2>9, <3>1
    <2>10. QED
      BY <2>5, <2>7, <2>8, <2>9
  <1>6. Ahead(c)'
    <2>1. \A w \in owed[c] : Recent(w[1])' = Recent(w[1])
      BY <1>1 DEF Recent
    <2>2. QED
      BY <1>1, <1>3, <1>5, <2>1 DEF CsanInv, Ahead
  <1>7. QED
    BY <1>1, <1>2, <1>3, <1>6, ScanStep

LEMMA RereadStep ==
  ASSUME CsanInv, CsanTypeOK', NEW c \in Cores, reread(c)
  PROVE  CsanInv'
  <1>1. /\ pc[c] = "reread" /\ pc'[c] = "program" /\ owed'[c] = {}
        /\ UNCHANGED <<slots, addr, at, writes, oldest, uncleared>>
    BY DEF CsanInv, CsanTypeOK, reread, Goes, csanHistory
  <1>2. \A d \in Cores : d # c => pc'[d] = pc[d] /\ k'[d] = k[d] /\ owed'[d] = owed[d]
    BY DEF CsanInv, CsanTypeOK, reread, Goes
  <1>3. Ahead(c)'
    BY <1>1 DEF Ahead
  <1>4. QED
    BY <1>1, <1>2, <1>3, ScanStep

LEMMA NextInv == CsanInv /\ [CsanNext]_csanVars => CsanInv'
  <1> SUFFICES ASSUME CsanInv, [CsanNext]_csanVars PROVE CsanInv'
    OBVIOUS
  <1>1. CASE CsanNext
    <2>1. CsanTypeOK'
      BY <1>1, TypeStep DEF CsanInv
    <2>2. QED
      BY <1>1, <2>1, CsanReadStep, CsanWriteStep, ReleaseStep, ArmStep, DisarmStep, CsanStoreStep,
         ClearStep, MatchStep, RereadStep DEF CsanNext
  <1>2. CASE UNCHANGED csanVars
    BY <1>2 DEF csanVars, csanHistory, CsanInv, CsanTypeOK, FewRecent, Held, Emptied, Ahead,
                Recent, Place
  <1>3. QED
    BY <1>1, <1>2

\* For any number of CPUs and bytes and any program, a scan misses no write that was
\* recent all along and finds nothing that was cleared (san/csan.c, match and arm).
THEOREM ScanCorrect == CsanSpec => []MatchTrue
  <1>1. CsanSpec => []CsanInv
    BY InitInv, NextInv, PTL DEF CsanSpec
  <1>2. QED
    BY <1>1, InvImpliesMatchTrue, PTL
================================================================================
