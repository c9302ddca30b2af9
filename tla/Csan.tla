---------------------------------- MODULE Csan ----------------------------------
(***************************************************************************)
(* The other detector, san/csan.c: every CPU has four slots with the bytes *)
(* it wrote last, the newest in cur; a read of a byte that is in any slot  *)
(* is a race.  No lock: a CPU moves its slots while the others scan them.  *)
(*                                                                         *)
(* Slots 0 to 3 are the tables cur, old1, old2 and old3.  A step is one    *)
(* load or store of a slot or a byte.  Stores take effect when the other   *)
(* CPUs can see them, in the order in which they were made.  What the      *)
(* program does is left open.                                              *)
(***************************************************************************)
EXTENDS Integers, Sequences

CONSTANTS
  NCPU,       (* CPUs                                                       *)
  Bytes,      (* addresses of plain bytes                                   *)
  NULL,
  MaxCalls    (* bound: operations of a CPU                                 *)

Cores == 0 .. NCPU - 1

ASSUME CsanAssumption == NCPU \in Nat \ {0} /\ NULL \notin Bytes /\ MaxCalls \in Nat

VARIABLES
  slots,      (* per CPU, its slots                                         *)
  mem,        (* per byte, its value                                        *)
  pc,         (* per CPU, the function it is in                             *)
  addr,       (* per CPU, the argument of that function                     *)
  k,          (* per CPU, the slot it is at                                 *)
  at,         (* per CPU, whose slots it scans                              *)
  t0,         (* per CPU, what it read first                                *)
  int3,       (* the program is stopped                                     *)
  calls,      (* per CPU, operations made                                   *)
  writes,     (* history: per CPU, the bytes it has armed                   *)
  oldest,     (* history: per CPU, the first of its recent writes: the last *)
              (* one or two, and none of before a release                   *)
  uncleared,  (* history: per CPU, what it armed since a clear ended        *)
  owed        (* history: per CPU, the writes of the byte it scans for that *)
              (* were recent when the scan began                            *)

csanHistory == <<writes, oldest, uncleared>>
csanVars == <<slots, mem, pc, addr, k, at, t0, int3, calls, csanHistory, owed>>

CsanInit ==
  /\ slots = [c \in Cores |-> [s \in 0 .. 3 |-> NULL]]
  /\ mem = [a \in Bytes |-> 0]
  /\ pc = [c \in Cores |-> "program"]
  /\ addr = [c \in Cores |-> NULL]
  /\ k = [c \in Cores |-> 0] /\ at = [c \in Cores |-> 0] /\ t0 = [c \in Cores |-> 0]
  /\ int3 = FALSE
  /\ calls = [c \in Cores |-> 0]
  /\ writes = [c \in Cores |-> <<>>] /\ oldest = [c \in Cores |-> 1]
  /\ uncleared = [c \in Cores |-> {}]
  /\ owed = [c \in Cores |-> {}]

--------------------------------------------------------------------------------
Recent(c) == oldest[c] .. Len(writes[c])

\* CPU c goes on in function f, at slot s.
Goes(c, f, s) == pc' = [pc EXCEPT ![c] = f] /\ k' = [k EXCEPT ![c] = s]

\* CPU c makes an operation of the program, on byte a.
Calls(c, f, s, a) ==
  /\ pc[c] = "program" /\ calls[c] < MaxCalls
  /\ calls' = [calls EXCEPT ![c] = @ + 1]
  /\ Goes(c, f, s) /\ addr' = [addr EXCEPT ![c] = a]
  /\ UNCHANGED <<mem, at, t0, int3>>

Store(c, s, a) == slots' = [slots EXCEPT ![c][s] = a]

--------------------------------------------------------------------------------
csan_write1(c, a) ==
  /\ Calls(c, "arm", 3, a)
  /\ oldest' = [oldest EXCEPT ![c] = IF Len(writes[c]) > @ THEN Len(writes[c]) ELSE @]
  /\ uncleared' = [uncleared EXCEPT ![c] = @ \cup {a}]
  /\ UNCHANGED <<slots, writes, owed>>

\* What arm(a) stores in slot s of c.
Shifted(c, s, a) == IF s = 0 THEN a ELSE slots[c][s - 1]

armUpwards(c) ==
  /\ pc[c] = "arm" /\ Store(c, 3 - k[c], Shifted(c, 3 - k[c], addr[c]))
  /\ IF k[c] = 0
     THEN Goes(c, "disarm", 3) /\ writes' = [writes EXCEPT ![c] = Append(@, addr[c])]
     ELSE Goes(c, "arm", k[c] - 1) /\ UNCHANGED writes
  /\ UNCHANGED <<mem, addr, at, t0, int3, calls, oldest, uncleared, owed>>

\* arm: from old3 down to cur, each slot takes what is in the one before it.
arm(c) ==
  /\ pc[c] = "arm" /\ Store(c, k[c], Shifted(c, k[c], addr[c]))
  /\ IF k[c] = 0
     THEN Goes(c, "disarm", 3) /\ writes' = [writes EXCEPT ![c] = Append(@, addr[c])]
     ELSE Goes(c, "arm", k[c] - 1) /\ UNCHANGED writes
  /\ UNCHANGED <<mem, addr, at, t0, int3, calls, oldest, uncleared, owed>>

\* arm(NULL), and back to the program, which stores the byte.
disarm(c) ==
  /\ pc[c] = "disarm" /\ Store(c, k[c], Shifted(c, k[c], NULL))
  /\ IF k[c] = 0 THEN Goes(c, "store", 0) ELSE Goes(c, "disarm", k[c] - 1)
  /\ UNCHANGED <<mem, addr, at, t0, int3, calls, csanHistory, owed>>

store(c) ==
  /\ pc[c] = "store" /\ Goes(c, "program", 0)
  /\ \E v \in {0, 1} : mem' = [mem EXCEPT ![addr[c]] = v]
  /\ UNCHANGED <<slots, addr, at, t0, int3, calls, csanHistory, owed>>

\* atomic8_store, atomic8_fetch_add and atomic_thread_fence that release: what they do
\* to the atomic byte is seen by others from here on, and then comes clear.
release(c) ==
  /\ Calls(c, "clear", 3, NULL)
  /\ oldest' = [oldest EXCEPT ![c] = Len(writes[c]) + 1]
  /\ UNCHANGED <<slots, writes, uncleared, owed>>

clear(c) ==
  /\ pc[c] = "clear" /\ Store(c, k[c], NULL)
  /\ IF k[c] = 0
     THEN Goes(c, "program", 0) /\ uncleared' = [uncleared EXCEPT ![c] = {}]
     ELSE Goes(c, "clear", k[c] - 1) /\ UNCHANGED uncleared
  /\ UNCHANGED <<mem, addr, at, t0, int3, calls, writes, oldest, owed>>

--------------------------------------------------------------------------------
csan_read1(c, a) ==
  /\ pc[c] = "program" /\ calls[c] < MaxCalls
  /\ calls' = [calls EXCEPT ![c] = @ + 1]
  /\ Goes(c, "match", 0) /\ addr' = [addr EXCEPT ![c] = a]
  /\ at' = [at EXCEPT ![c] = 0]
  /\ t0' = [t0 EXCEPT ![c] = mem[a]]
  /\ owed' = [owed EXCEPT ![c] =
       {w \in Cores \X (1 .. MaxCalls) : w[2] \in Recent(w[1]) /\ writes[w[1]][w[2]] = a}]
  /\ UNCHANGED <<slots, mem, int3, csanHistory>>

\* match: the slots of a CPU from cur to old3, and then those of the next.
match(c) ==
  /\ pc[c] = "match"
  /\ IF slots[at[c]][k[c]] = addr[c]
     THEN int3' = TRUE /\ UNCHANGED <<pc, k, at>>
     ELSE /\ int3' = FALSE
          /\ IF k[c] < 3 THEN Goes(c, "match", k[c] + 1) /\ UNCHANGED at
             ELSE IF at[c] < NCPU - 1 THEN Goes(c, "match", 0) /\ at' = [at EXCEPT ![c] = @ + 1]
             ELSE Goes(c, "reread", 0) /\ UNCHANGED at
  /\ UNCHANGED <<slots, mem, addr, t0, calls, csanHistory, owed>>

\* After the wait: the byte must be what it was.
reread(c) ==
  /\ pc[c] = "reread" /\ Goes(c, "program", 0)
  /\ int3' = (mem[addr[c]] # t0[c])
  /\ owed' = [owed EXCEPT ![c] = {}]
  /\ UNCHANGED <<slots, mem, addr, at, t0, calls, csanHistory>>

CsanNext ==
  /\ ~int3
  /\ \E c \in Cores :
       \/ \E a \in Bytes : csan_read1(c, a) \/ csan_write1(c, a)
       \/ release(c)
       \/ arm(c) \/ disarm(c) \/ store(c) \/ clear(c) \/ match(c) \/ reread(c)

CsanSpec == CsanInit /\ [][CsanNext]_csanVars

--------------------------------------------------------------------------------
\* Although the slots move under it, a scan that ends has not missed a write that was
\* recent from its beginning to its end; and what a scan finds was written by that
\* CPU since the end of its last clear.
MatchTrue ==
  \A c \in Cores :
    /\ pc[c] = "reread" => \A w \in owed[c] : w[2] \notin Recent(w[1])
    /\ pc[c] = "match" /\ slots[at[c]][k[c]] = addr[c] => addr[c] \in uncleared[at[c]]
================================================================================
