# Specifications of xtest

`xtest` is a collection of some eighty small C and C++ programs: file tools
that copy, hash and compare trees, the thread primitives they are built on, a
data race detector for a small kernel, hardware tests, and number searches.
There is no common `main`; what the programs share is `workqueue.c`,
`barrier.c`, `pwq.cc`, the hash functions, and idioms each file repeats (a
bit-array sieve, a hash set filled by `ftw`, a ring between two threads).

This directory holds TLA+ specifications of the parts in which something can go
wrong that a test would hardly reach, the configurations that check them with
TLC, and proofs that TLAPS checks.

- [Inventory](#inventory) of the system
- [The modules](#the-modules) and how they correspond to the code
- [The runs](#the-runs), their bounds, and what they show
- [Fairness](#fairness)
- [What is proved](#what-is-proved)
- [What the code does that its comments do not say](#findings)
- [What is not modelled, and the plan](#not-modelled-and-plan)

Run a configuration with `tlc -config X.cfg M`, check a proof with
`tlapm M.tla`.

## Inventory

The column *module* says where a part is modelled; a dash is a part that is not
modelled yet. `PROJECT.json` lists the parts with all their files, each
definition with the lines it stands for, and the hazards at their lines.

| part | state | operations | what is hard | module |
|---|---|---|---|---|
| thread pool: `workqueue.c`, `barrier.c`, `pwq.cc` | per queue a list, a count, an exit flag under one mutex; `rover`, unlocked; per barrier a count | `workqueue`, `PWQ::Run`, `bwait`; worker loop; `workqueue_exit` through `atexit` | signals against waits, spurious wakeups, callbacks that submit, exit while work remains | `WorkQueue`, `Pool` |
| sense-reversed barrier: `sense.c` | count, `sense`, `closed`; a private sense per thread | `await`, `bwait`, `bgo`, `bclose` | slow leavers of one phase against early arrivals of the next, one condition variable for two kinds of waiters, closing at any time | `SenseBarrier`, `PhaseBarrier` |
| parallel line counter: `pwc.c` | two single-producer rings, `should_exit_` | `push`/`iothread`, `wpush`/`reap_done`, exit | lock-free order of loads and stores, wrap-around, full rings in both directions | `Pwc`, `Pipeline` |
| CPU and memory tester: `pcpucheck.cc` | source, copy, `g_args`, `g_go`, `g_ack`, `g_should_exit` | rounds of main, `check` on every CPU | a rendezvous by two counters read twice; plain data published by an atomic | `PcpuCheck` |
| race detector: `san/tsan.c` | table of last writes, vector clock per CPU | `__tsan_read1`, `__tsan_write1`, atomic loads and stores | soundness against the happens-before order; table at its limit | `Tsan` |
| deduplicating copiers: `cphash.cc`, `cpex.cc` | two hash sets, counters, the trees on disk | prefill walk, copy walk | crash between any two steps, the source changing under the walk, MD5 collisions, one step failing | `CpHash` |
| sieves and primality tests: `test_prime.c`, and in `35`, `37`, `216`, `381`, `387`, `387b` | bit array of the odd numbers | `sieve`, `sieve2`, `isprime` | the wheel, the end of the loop, both sides of the limit | `Sieve`, `NumberTheory` |
| number searches: `27`, `35`, `37`, `146`, `146y`, `216`, `381`, `387`, `387b`, `443`, `92`, `jacobi`, `primeyr` | sum, memos | the loop of `main` | memos, order of filters, digit arithmetic | `Euler` |
| tree walk on the pool: `fftw.c` | items on the pool; the tree on disk | `stat`, `opendir`, `readdir`, `fn`; directory items submit their entries; `bwait` | a barrier that grows while it is waited for, a tree that changes under the walk | `Fftw`, `Pool` |
| tools on the pool: `cpcr2.cc`, `transactor.cc`, `cp.c` | set under a mutex, counters, the destination | hash, look up and copy from workers | hash recorded before the copy, a hash freed while it is in the set, reads without the lock | `PoolTools` |
| concurrency sanitizer: `san/csan.c` | per CPU the last four addresses being written | `arm`, `disarm`, `match`, `clear` | tables that move while other CPUs scan them, without a lock | `Csan` |
| other threads: `credit.h`, `munmap.h`, `readn.cc`, `span.c` | budget; ranges to unmap | `Get`/`Put`; `Push`/`Pull`/`Stop` | used by no program | – |
| file copying: `cp_img.cc`, `append.c`, `append0.c` | an offset, the destination | compare and write a unit; extend and copy | short writes, kills, runs on what an earlier run left | `FileCopy` |
| comparing: `xdiff.c`, `bdiff.c`, `zerorun.c`, `cmpdir.cc`, `countcphash.cc` | – ; counts and sets of hashes | compare buffers; walk and hash | ends of buffers and files, a variable that is not initialised, collisions | `CompareTools` |
| other scanning: `bdiff2.c`, `out.c`, `xscan.c`, `sampzero.c` | – | print, sample | – | – |
| hash databases: `ftwdb*`, `log2leveldb`, `dbmerge`, `dbtransactor`, converters | LevelDB or Berkeley DB, a log of lines | walk, put, merge, look up, replay | a crash in the middle of a log line or of a merge, iterators that fail, calls whose result is not looked at | `HashDb` |
| lock file and parallel commands: `lockx.c`, `acquirex.c`, `phash.cc` | a lock file; the list of arguments under `mtx` | acquire, run, release; take, hash, leave, wait | a lock that outlives its holder, a command that outlives its `lockx`, the last signal | `ShellTools` |
| processes and sockets: `pexec.c`, `popen_noshell.c`, `while.c`, `uds/`, `nbd.c` | child processes; descriptors in flight | start, collect; send, receive | – | – |
| byte sieves: `146.c`, `sieve.c`, `27.c`, `prime.c`, `primeyr.c` | array of a byte per number, or of the numbers | strike out the multiples | index and number, product that wraps around | `ByteSieve`, `Euler` |
| OpenMP search: `211.c` | `v`, a sum per thread | the loop of `main` | a variable shared by all threads | `SquareSum` |
| other searches: `146x.c`, `142*.c`, `932.c`, ... | byte array | sieve, also under OpenMP | as `211.c` | – |
| hash functions: `hashes.c`, `murmur3.c`, `md5.c` | – | FNV, Murmur, MD5 | bit arithmetic | as functions in `PcpuCheck`, `CpHash` |
| machine tests: `cpuid.c`, `msr.c`, `mxm*.c`, `xram*.c`, `calltrack/`, `spec/`, assembly | the machine | measure and print | none a model could decide | – |

How the parts meet: the file tools call `workqueue` through `PWQ::Run` and wait
with `bwait`; callbacks run on workers and may submit again. `pwc.c` and
`pcpucheck.cc` bring their own threads and synchronise by atomics; `sense.c` is
a barrier of its own, with the same names (`struct barrier`, `bwait`) as
`barrier.c`, and is used by nothing in the repository but its comments say
how. The detector of `san/` is called by instrumented code. The number searches
are sequential but for OpenMP loops.

The property that makes each part correct:

- the pool runs every item once, and a `bwait` that returns covers all that the
  caller was owed, however deep callbacks submitted; nobody sleeps for ever;
- the sense barrier passes phases in lock step;
- the rings of `pwc.c` lose, duplicate and reorder nothing;
- `pcpucheck` blames the hardware exactly when it failed;
- the detector misses no race, and the scan of the other one no write that was recent all along;
- the walk on the pool visits every name that stays, once, and is over when `fftw` returns;
- a copy that reports success is one, and one that was cut short can be completed;
- what a comparing tool says is so;
- one command runs under a lock, and `phash` runs one for each argument;
- the copiers lose no content, overwrite nothing, and may be killed and rerun;
- a hash database ends up with what was walked or merged into it, and loses nothing it had;
- the sieves leave the primes, and each search adds what its problem asks for.

## The modules

| module | models | extends or instantiates |
|---|---|---|
| `Pool` | abstract pool: what a user of `workqueue.c` may rely on | |
| `WorkQueue` | `workqueue.c`, `barrier.c`, `pwq.cc` | `Pool` by refinement |
| `MCWorkQueue` | a program on the pool | `WorkQueue` |
| `WorkQueueProofs` | proofs, with the refinement | `WorkQueue` |
| `PhaseBarrier` | abstract barrier: what `sense.c` promises | |
| `SenseBarrier` | `sense.c` | `PhaseBarrier` by refinement |
| `SenseBarrierProofs` | proofs, with the refinement | `SenseBarrier` |
| `Pipeline` | abstract pair of queues: what the rings of `pwc.c` come to | |
| `Pwc`, `MCPwc` | `pwc.c`; trees to walk | `Pipeline` by refinement |
| `PwcProofs` | proofs, with the refinement | `Pwc` |
| `PcpuCheck` | `pcpucheck.cc` with its hardware | |
| `PcpuCheckProofs` | proofs | `PcpuCheck` |
| `Tsan`, `MCTsan` | `san/tsan.c`; instrumented programs | |
| `Csan` | `san/csan.c` | |
| `SanProofs` | proofs about both detectors | `Tsan`, `Csan` |
| `MCSan` | a program is built with one of the two detectors | `MCTsan`, `Csan` |
| `CpHash`, `MCCpHash` | `cphash.cc` and `cpex.cc`; trees and hashes | |
| `Fftw` | `fftw.c` | `Pool`: the items of the walk are those of the pool |
| `PoolTools` | `cpcr2.cc`, `transactor.cc`, `cp.c` | takes the pool for what `Pool` says of it |
| `FileCopy` | `cp_img.cc`, `append.c`, `append0.c` | |
| `CompareTools` | `xdiff.c`, `bdiff.c`, `zerorun.c`, `cmpdir.cc`, `countcphash.cc` | |
| `ShellTools` | `lockx.c`, `acquirex.c`, `phash.cc` | |
| `Tools` | five families of tools side by side, one of which runs | `PoolTools`, `Fftw`, `FileCopy`, `ShellTools`, `CompareTools` |
| `ToolsProofs` | proofs about the copiers and about the tools of `Tools` | `CpHash`, `Tools` |
| `MCTools` | all the file tools, one of which runs; their files and trees | `MCCpHash`, `Tools` |
| `HashDb`, `MCHashDb` | `ftwdb2*`, `ftwdb_bdb`, `ftwdb2log`, `log2leveldb`, `dbmerge`, `dbtransactor`, the converters; stores to start from | |
| `HashDbProofs` | proofs | `HashDb` |
| `Sieve` | the three packed sieves | |
| `ByteSieve` | the sieves with a byte per number | |
| `SieveProofs` | proofs about both kinds of sieves, about the digits and recursions of the searches, and about what these look up, remember and count | `Euler` |
| `NumberTheory` | pure functions of the searches, with reference definitions | |
| `Euler`, `MCEuler` | the searches; their ranges | `Sieve`, `ByteSieve`, `NumberTheory` |
| `SquareSum` | `211.c` under OpenMP | |

Names of operators and variables are those of the source where TLA+ has room for
them. Some definitions come twice, the second with a name that says what is
missing or changed (`InsertNoSignal`, `AwaitLate`, `armUpwards`): these
are the faults the properties are known to catch, and no specification uses
them.

### WorkQueue and Pool

Every stretch of code between a lock and its unlock, or the release inside
`pthread_cond_wait`, is one action, since the mutex of a queue (`wq_mtx`) and
that of a barrier (`b_mtx`) protect all state but `rover`. So `workqueue` is
four actions: `workqueue` (start the pool once, allocate, `binc`), `LoadRover`
and `StoreRover` (the unlocked `rover++`), `Insert` (under the lock: append,
count, signal). The worker is `LoopTop`, `Woken`, `TakeFirst`,
`CallbackReturns`, `bdec` and `Relock`; `SpuriousWakeup` may wake any sleeper,
as POSIX allows. A client program submits in stages and ends each with a
`bwait`, with the future of an item, or with nothing; what it submits is a
constant (`Parent`, `Stage`, `Bar`, `Key`), so that one specification stands for
every program on the pool. `exit` runs `workqueue_exit`, which asks and joins one
worker after the other. Not kept: the statistics `wq_processed` and `wq_pulls`,
and the memory of an item, which its state `freed` stands for.

`Pool` is what is left of this for somebody who uses it: an item is `new`, `pending`,
`running` or `done`, two items of one key never run at once, and a client leaves its stage
when what it waited for is over. The mapping (`Progress`) takes an item for pending from
`binc` on, whatever queue it is on or still has to get to, and for done when its callback has
returned and its barrier has been counted down. No queue, worker, count, signal or lock is
left, and exit is a stutter.

### Fftw

An item is a name that a directory lists; its callback takes four kinds of steps: `Stat`, `opendir`,
a `readdir` for each name (which submits it to the pool), and the call of `fn`. Items start and
finish by the actions of `Pool`, so that any number of callbacks interleave. The root is no item,
since the caller processes it, and waits in `bwait` for all others. The tree changes meanwhile, by
`Remove` of a name with all below it and `Add`, and a directory may not be readable; each is bounded
(`MaxChanges`, `MaxErrors`). `readdir_r` may fail in the middle of one, at which the code closes it
as if it had ended (`readdirFails`). A directory is read in any order; a name that appears or
disappears after `opendir` may be listed or not, and one that was there throughout is (`unread`).
Links are left out: `stat` follows them, and a link to a directory above itself ends with an error
of `stat` only. What is below a name is a constant (`Below`), of which the assumption says that it
is the least set closed under `Up`; that is what makes the names a tree.

### SenseBarrier and PhaseBarrier

`PhaseBarrier` is what a user may rely on: workers enter a phase one by one, the
coordinator holds the barrier only when all are in, and a single step lets all of
them out; closing lets everybody leave for good. `SenseBarrier` is `sense.c`
under its mutex, one condition variable for workers and coordinator, spurious
wakeups included, with the callers the comment at the head of `sense.c`
describes. The refinement mapping (`at`, `coord`) takes a released worker that
has still to wake up for outside, so that `bgo` is the one step of the
abstraction in which all leave.

### Pwc and Pipeline

Main (`file_cb`, `push`, `reap_done`, exit) and `iothread` (batch by batch,
`wpush`), one action per access to a shared variable, both rings with the
head that is published, the local copy, and the tail. A file is its position in
the walk and has that many lines, so that a result of the wrong file is seen. A
failed `open` leads to `pause()`, from which the program does not return.

`Pipeline` has two queues of files instead: posted, counted, and one file in the hand of `iothread`.
Both queues are one entry late, as the code leaves them: the zeroed slot is there from the start, and
neither thread leaves while more than the last entry is in its queue. The mapping reads the queues
from the slots between tail and head of each ring (`Posted`, `Done`), so that a slot that was
overwritten too early, read twice or not yet filled breaks it (`IsPipeline`); the batches, the local
copies of the heads and the `done` counters are gone. `PrintedInOrder` and `NoPostedWorkLost`, which
the refinement implies, are theorems of their own and checked by no run.

### PcpuCheck

One action per access to `g_go`, `g_ack`, `g_should_exit`, `g_args` and per use
of a buffer. The hardware is an actor: `Corrupt` may change any of the buffers at
any moment, at most `MaxFaults` times. A buffer is the pattern it holds or `Bad`;
the two hashes are injective functions of it. The copy is read at an offset, and
reads `Bad` at any other offset than the one it was written to. An acknowledgement
is a decrement modulo `UINT`, as every checker takes the count below zero when it
leaves.

### Tsan

The instrumentation functions on the tables they share under
`g_location_lock`, for any program of plain reads and writes and of atomic loads
and stores with acquire and release. The true happens-before order is kept beside
the detector's own state as vectors (`happened`, `released`, `written`); no
guard of the code reads them. `int3` is `trapped`, after which nothing happens.

### Csan

Four slots for each CPU, and one step for each load or store of a slot or a byte: `arm` and `disarm`
shift the slots one by one from the oldest on, `clear` empties them in the same order, `match` reads
those of all CPUs from the newest on, and `reread` is the second load of the byte after the
wait. What is armed, cleared and scanned by whom is left open. A scan is no snapshot: a write
may move from a slot that is still to be read to the one after it, never to one that was read
already, since both go in the direction of age. The model keeps beside the slots
what was written (`writes`), which of it is recent (`oldest`: the last write, the one before
it while it is being stored, and nothing of before a release), what was armed since the
last `clear` ended (`uncleared`) and what a scan may not miss (`owed`). Stores become visible in
the order they are made, as on the machine the detector is written for.

### CpHash

Both programs, told apart by `tool`. Each read of a file is a step, since the
source may be written to in between (`Change`): the first read is for MD5, the
second for FNV, the third is the copy. `Restart` starts the program once more from
any step, with what a machine that went down may have lost of the file being
written. `found` and `before` are history: what the MD5 walk saw, and the
destination at the start of the run. Directories, modes and times are left out.

### PoolTools

Two programs, told apart by `tool`, whose callbacks run on the pool. An item submitted may run at
any time and beside any other; `WaitedFor` is the guard of `Pass` in `Pool`, which `IsPool` shows
`WorkQueue` to implement. `Visit` is the part of a callback of `ftw` before the item; a small file
of `transactor` is hashed by the walk itself, which stops for it (`inline`). The item is cut where
another could see or change something: `md5sum`, the stretch under the mutex (`Lookup`), the
number and the exclusive creation (`Create`), the copy, the second hash (`Verify`), the partner.
After a bad copy `copy_file_hash` frees the hash that the set still holds: from then on `find` may
answer either way for it (`Found`). Nothing is said of what the heap makes of that, nor of the
second `free` at the end of main.

### FileCopy

Files are sequences of bytes, and an action is a system call that changes the destination or
decides what comes next. A read may fail (`ReadFails`), a write be short, or fail (a prefix, perhaps
nothing, arrives); `ftruncate` may fail, at which `append0` ends and `append` does not look; the
program may be killed before any step and be started again on what it left. Nobody else writes to
the files. `CopyTrue` says what the success of `cp_img` and of `append` means, and of all three that
no run spoils what was there. Of the success of `append0` it says nothing more: that program writes
every buffer to the wrong place (see the end of this file), so that what its name promises is false.

### CompareTools

Each of the five programs step by step, on two files or two trees as `nftw` lists them: a buffer of
each file is a step (`xdiff`, `bdiff`, `zerorun`), and so is a call of the callback (`cmpdir`,
`countcphash`), which may skip its entry, meet a file that cannot be mapped, or hash it. The `s`
that `cmpdir.cc` has not set where it skips an entry is a choice at each of them, and where it is
zero the walk is cut short (`cut`). What the program prints is kept, and at the end compared with
what the inputs are (`Differences`, `ZeroRuns`, `FilesOf`, `BytesOf`). The inputs do not change
while they are read. `ToolsTrue` takes the output of `zerorun` for pairs of a first and a last
block, while the program prints them as `[%lx, %lx)` (line 65), with a bracket that leaves the
second out: read as printed, every run is one block short, and one of a single block is empty. Of
`cmpdir` it says that 0 is returned if and only if what was walked of the two trees agrees: the
whole of both, unless a callback has returned -1 (`cut`), and else what is in front of an entry at
which one may (`Stops`). So two trees that differ behind there are the same to it, although line 122
says "Make sure files, bytes, and hashes are all the same": an empty tree, and one with a file
behind a directory that it cuts the walk at, get 0.

### ShellTools

`lockx` and `acquirex` take the same lock file by exclusive creation, and may be killed at any
step, with the lock held and the command still running. Whoever called `acquirex` removes
its file, and a killed holder's file stays: then nobody gets in. `phash` is its threads under
`mtx` (`Take`, `Leave`) and main, with spurious wakeups.

### HashDb

Nine programs, run one after the other in any order on three stores and a log; `prog` is the one
that runs, and a store is a map from keys to hashes. A put, an iteration or a file of a walk is a
step, so that a call can fail (`VisitFails`, `StoreFails`, `Unreadable`) or the machine (`Crash`)
between any two. A program that ends without closing its store, or with the machine, leaves a prefix
of its puts in LevelDB, any of them in Berkeley DB (`Survived`). `ftwdb2log` syncs the log at its
end only: of what it has written by then a crash keeps any part that lies over an older log, and of
what lies behind the end of that the first part, of any length (`SurvivedLog`), so that lines are
lost, torn, or old again. A crash leaves no holes in a file, and what a program that has ended wrote
is taken to be on disk when the next one starts; nobody looks at what `fsync` returns. `ftwdb_bdb`
does not look at what `put` returns, and its callback always returns 0. A line of the log is in
three parts, two halves of a hash and the newline, written by one `write` that may be short; the log
is opened without `O_TRUNC`, so a walk writes over what an earlier one left. `dbmerge` and
`dbtransactor` look at the status of the iterator while it is valid only: an error at the last key
leaves the loop as an end does. A file that is empty, or gone, is passed over (`Gone`).

### Tools

The composition of `PoolTools`, `Fftw`, `FileCopy`, `ShellTools` and `CompareTools`: `program` says
which tool runs, and the variables of the other families stay `None`. The tools are programs of
their own and have nothing in common but what is on disk, so a step of `ToolsNext` is a step of the
one that runs. Its properties are those of the five modules, each under the condition that one of
its tools runs; `ToolsProofs` proves them of this composition and `MCTools` checks them of it.

### Sieve, ByteSieve, NumberTheory, Euler

`Sieve` is the loop of the three functions, a state per number tried; the array of bytes is the set
of the odd numbers whose bit is set. That is exact when 16 divides the limit, which is so for each
limit in the sources, and is the assumption `LimitAssumption`. `NumberTheory` has the pure functions
as the code computes them (square and multiply, digits taken off by division, gcd by remainders)
beside reference definitions on digit sequences and divisors. Its recursion is written as functions
rather than operators, because a function is a value that a theorem can speak of (`gcdfast` takes a
pair). `ByteSieve` is the two kinds of sieve that keep a byte for each number: by number (`146.c`,
`sieve.c`), and over a list of candidates (`27.c`, `prime.c`, `primeyr.c`), where products are
unsigned and wrap around; the list is filled a candidate at a time (`addel`, `Filled`). `prime.c`
has a list and no bytes: it ends at `"index"`, where it prints how long its list is. `Euler` runs
the loop of `main` of thirteen programs after the sieve each of them uses, with all they remember
between iterations. The inner loop of `92.cc` is a step for each link of a chain (`InnerLoop`, at
the number `t`), since nothing but digit sums says that it ends. The bound `RowBound` stands for the
10 000 000 of `27.c`; `RowAssumption` says of the constants what `27.c` relies on: every quadratic
it tries has a value that is no prime before it gets to the end of the array, behind which nothing
may be looked up.

### SquareSum

The loop of `211.c` as OpenMP runs it: each thread has a stretch of the range and a sum of its
own, and the store of `v` and the call that reads it are two steps on one variable. `sqd`,
`jacobi` and `issquare` are the functions of the file.

## The runs

| run | states | properties |
|---|---|---|
| `workqueue` | 83 412 | `BwaitCovers` `WorkerNotForgotten` `WaiterNotForgotten` `ExitDrains` `Terminates` `IsPool` |
| `sense_barrier` | 3 030 | `PhaseBarrierSpec` `BwaitReturns` `ClosedWorkersLeave` |
| `pwc` | 44 874 | `OpenFilesBounded` `SpinsForTheOther` `FinishesUnlessRingFills` `IsPipeline` |
| `pcpucheck` | 14 029 | `RoundsAreExclusive` `NoFalseAlarm` `CorruptionDetected` `Finishes` |
| `san` | 2 234 853 | `NoRaceMissed` `VectorsAreSound` `MatchTrue` |
| `tools` | 2 108 472 | `NothingOverwritten` `EverythingStored` `StoredOnce` `ReportTrue` `RerunIsHarmless` `CopiesDistinct` `ReportsTrue` `WalkCovers` `CopyTrue` `ToolsTrue` `CommandsTrue` |
| `euler` | 20 188 | `SieveCorrect` `BytesCorrect` `PrimeTestCorrect` `MemosTrue` `SearchCorrect` |
| `hashdb` | 7 477 609 | `SourceArrives` `MergeKeeps` `TransactorTrue` `LogReplays` |
| `same_key`, `pwc_printed`, `tsan_trap`, `square_sum` | | one property each, violated: see [below](#findings) |

`TypeOK` of `WorkQueue`, `SenseBarrier`, `Pwc`, `PcpuCheck` and `CpHash` is checked by no run, as it
is a theorem of each. So are `PrintedInOrder` and `NoPostedWorkLost`, `BarrierCount`, which
`BwaitCovers` rests on, and `KeyedItemsShareWorker`, which `IsPool` rests on.

**workqueue.** Three queues; six items: two submitted with a barrier, one of which
submits a third from its callback; one that nobody waits for and that submits another one
from its callback; and one whose future is awaited after the barrier. Two have one key, the others
go round robin. That is the least in which the count of a barrier
could touch zero too early (an item submitted from a callback), a callback could still submit
while exit joins the workers (the one nobody waits for), `rover` can lose an increment
(main and a worker in `workqueue` at once), and items of one key could run at once, since
`rover` moves on between them. The run shows that the whole is a `Pool`; that `bwait` covers all it
should (`BwaitCovers`); that no sleeper is forgotten; that exit leaves nothing behind but what a
callback submits to a worker already joined; and that the program ends. `WaiterNotForgotten` is
about one waiter per barrier, which is what every program has: `bdec` signals one waiter only,
and a second one on the same barrier would be left asleep.

**sense_barrier.** Three workers and the coordinator, closing at any time. Three are
enough for one that leaves late, one that arrives early and one in between; two
consecutive phases are covered because the state is finite and phases repeat without
bound. The run has no bound on the number of phases.

**pwc.** Rings of eight slots and 22 files in two directories: each ring wraps around
twice and can fill, in any interleaving of the two threads. The code has 512 slots
and no other constant that depends on it but half of it, at which main reaps. The run shows that the
rings are the queues of `Pipeline`, that files open are bounded by the rings and not by the tree,
and that the only wait in a circle is the one on a full completion ring: while main spins in `push`,
`iothread` has a batch before it (`SpinsForTheOther`).

**pcpucheck.** Three checkers, three rounds over two misalignments, one corruption at
any moment. With two rounds a checker could lag by one; the third lets it lag by the
period of the misalignment. `UINT` is 2^16, only its wrap-around below zero matters.

**san.** A program is built with one of the two detectors. `tsan`: three CPUs with two
operations each, two plain and two atomic bytes, three
entries: enough for a chain of two synchronisations through three CPUs, and for an
entry to be reclaimed. `csan`: two CPUs with three operations each on two bytes, so that a
CPU can push a byte out of its slots, or clear them, at any point of a scan by the other.

**tools.** One of the file tools at a time, told apart by `tool` for the copiers and by `program`
for those of `Tools`; the processes that share a lock file count as one. The trees and files are in
`MCTools.cfg` and `MCTools`:

- `cphash`, `cpex`: three paths, three contents of which two collide in MD5, five trees, for each
  program all combinations of source, reference and destination; two runs and one write to the
  source. A third run would start from a destination the second may start from as well, since Init
  already takes destinations with other files.
- `cpcr2`, `transactor`: three CR2 files, two of one name, with an earlier run's files possibly in
  the way; or two files of a reference and three candidates in two directories, one of each hashed
  by its walk. All assignments of three contents, of which two collide, and one write by others:
  enough for a duplicate that is looked up while the first is copied, for a hash that is freed,
  looked up and put into the set again, and for two directories walked at once.
- `fftw`: a tree of three levels with two files, a hidden directory with a file in it and a name
  that may be added or is there; one change at any moment and one error, of a directory that cannot
  be opened or whose entries cannot be read to the end (what is behind the error is not asked for).
  Three levels are the least in which the caller may wait while a callback submits a directory whose
  callback has still to submit.
- `cp_img`, `append`, `append0`: all pairs of files of three bytes at most with a unit of two, so
  that there are whole and partial units; any number of kills and errors, in two runs.
- `xdiff`, `bdiff`, `zerorun`: all pairs of files of four bytes at most, with buffers of two: less
  than, exactly and more than one buffer, and two. `cmpdir`, `countcphash`: all pairs of trees of
  three entries at most, among them two contents that collide, one that cannot be read or has hash
  zero, and entries the callbacks skip.
- `lockx`, `acquirex`: two of the one and one of the other on one lock, each of which may be
  killed.
- `phash`: two threads and three arguments, so that one thread takes a second one.

**hashdb.** Two programs, one after the other, so that each reads what the other has written, been
killed at, or overwritten; one failed call or crash; one file that changes under a walk. Three
paths, three contents of which two have one hash; stores that agree, that one extends, and that
contradict each other; two trees, and a log that is empty or longer than what a walk writes (three
lines of nine parts; a crash keeps any subset of those parts that were written over). `changes` and
`errors` are bounded by one, so that it is seen what a single fault does: with more of them the
properties say less, as they ask for a run without. What an earlier program lost is what the second
one starts from, so that `LogReplays` is checked of a walk over a log that a crash has torn.

**euler.** Limit 1024, which is more than one turn of the wheel (30) with
multiples of every residue, and has 31 as the last number to be swept. Ranges in
`MCEuler` are chosen so that every search meets some of its answers, and goes on
both below and above the limit. The ring of `387b.c` has four slots instead of
32 and wraps around. The products of the list sieves wrap around at 4096 (`UintRange`)
instead of 2^32, so that `i * i` does. `146y.c` tests with four bases and no proof that they are
enough; `SearchCorrect` says that they are on the range that is checked.

**square_sum.** 40 to 43 and two threads: 42 is one of the numbers sought.

Deadlock is checked wherever the system may not stop (`workqueue`, `sense_barrier`,
`pcpucheck`: a terminated process stutters explicitly). The other programs end, or
may stop for good in `pause()`, and their configurations say so.

## Fairness

Weak fairness says that a thread that can go on does. It is assumed of

- `WorkQueue`: each call of `workqueue`, each worker, each client at the end of a
  stage, and exit. A mutex that is free is eventually granted. Not of spurious
  wakeups: nothing may depend on them;
- `SenseBarrier`: each worker and the coordinator come back to the barrier, as the
  comment of `sense.c` has them do. Not of `bclose`: nobody has to close;
- `Pwc`: main and `iothread`. Spinning loops are fair because the scheduler is;
- `PcpuCheck`: main and each checker. Not of `Corrupt`: the hardware need not fail.

The detectors, the file tools, the databases and the searches have no liveness property, and no
fairness. That `fftw`, `cpcr2` and `transactor` come to an end is `Terminates` of the pool they
run on.

## What is proved

TLAPS checks all of the following for every value of the constants the assumptions
of the module admit. TLC has checked the invariants on the instances above first.

**WorkQueueProofs** (any program of items, clients and barriers, any `NUMPROC`; the assumption is
`ProgramAssumption`, which says no more than that the program is well-formed). `IInv` adds to the
types: an item inside `workqueue()` belongs to its thread (`CallInv`), queued items are on their
queue, once (`QueueInv`), a worker's item is the one that runs (`RunInv`), a callback that has
returned has submitted all it submits (`SubmitInv`), and clients have made the calls of their past
stages (`StageInv`). These say where each item is, which is what it takes to prove that the count
of a barrier is the number of outstanding items: `BarrierCount` is not inductive by itself, since
`bdec` could meet an item that was never counted. From `BarrierCount` and `SubmitInv` follows
`BwaitCovers`: the freed items are closed under what callbacks submit. `TypeOK`,
`WorkerNotForgotten` and `KeyedItemsShareWorker` follow as well.

On top of it: `Ownership` (an item that is under way is in one place: the call that submits it,
its queue, or the worker that runs it); with it and `KeysCorrect` the refinement,
`PoolImplemented`, where each step is a step of `Pool` or none: two items of one key are with one
worker, who runs one item, and a client that passes its `bwait` has seen the count of a barrier at
zero, which is to say that nothing is outstanding. `NoWaiterForgotten` has the condition
`OneWaiter`: no two clients wait on one barrier. `ExitCorrect` proves `ExitDrains` from three more
layers: `DoneInv` (when main leaves, every client has been through all its stages), `OrderInv`
(workers are asked and joined in the order of their numbers, and have exited with an empty queue)
and `LateInv` (what is in the queue of a worker that has exited was submitted later by a callback
of a worker with a higher number). Only model-checked: `Terminates`.

**SenseBarrierProofs** (any finite, non-empty set of workers). The invariant says that the
coordinator's sense is opposite to the barrier's, that before closure a worker outside `await` has
the coordinator's, and that `val` is what is missing to all being inside. `AggregationIsExclusive`
and `NoLostWakeup` are proved and not run: the refinement implies the first, and the run checks
the second by `BwaitReturns`. From the invariant: types, `AggregationIsExclusive`, `NoLostWakeup`,
and `Refinement`: every step of `sense.c` is a step of `PhaseBarrier` or changes nothing of it.
Only model-checked: `BwaitReturns`, `ClosedWorkersLeave`.

**PwcProofs** (rings of any size from two on, any walk). `PwcInv` has the types; `Counters` (tail,
`done` and `head` of each ring are in order, and less than a ring apart); `Rings` (the slots
between `done` and `head` hold what was put there); `Ends` (who has exited had seen the flag, and
all of the ring); and `Bounded`, on the files that are open. A store to the slot of `head + 1`
leaves the others alone because entries less than a ring apart are in different slots (`Apart`,
which rests on two lemmas about division, `Division` and `Multiple`). Proved: `TypeOK`,
`PrintedInOrder`, `NoPostedWorkLost`, `OpenFilesBounded`, `SpinsForTheOther`, and the refinement
`IsPipeline`: with `Rings` each slot that is read is the entry of the queue it stands for, so a step
that moves a head appends, a step that moves a tail takes, and the stores into slots ahead of the
head change neither queue (`LatesQueue`, `QueuesStep`). For `SpinsForTheOther` and for the exit the
invariant says that `iothread` has given all slots back whenever it is not in a batch, and that the
flag is set exactly from the moment main goes to join. Only model-checked:
`FinishesUnlessRingFills`, which is liveness.

**PcpuCheckProofs** (any finite, non-empty set of CPUs, any number of rounds,
misalignments and faults). The invariant is `RInv`, on the rendezvous, and `Sound`, on
the data. Its centre is `Counted`: while main waits for a round, `g_ack` is the number of
checkers that have still to acknowledge it, so that zero, which is all that main sees, means
all. `Placed` adds that a checker at the buffers has not done this round yet, so that it counts,
and main, who waits for it, does not touch them. From them follow the types
(that `g_ack` does not wrap around in a round) and `RoundsAreExclusive`. `Sound` says that,
as long as nothing was corrupted, hashes, copy and arguments are those of the source; with
the exclusion of rounds it gives `NoFalseAlarm`. Only model-checked, as they are
liveness properties: `CorruptionDetected` and `Finishes`.

**SanProofs**, first part (any number of CPUs, bytes, entries and operations). Under
`NoOwnLoads`, no CPU loads an atomic byte it stores to: `NoRaceMissed` and
`VectorsAreSound`. The invariant relates the detector's tables to the true order: a
CPU's own number is one ahead of its writes, the entry of an atomic byte is covered by
what its last store released, and until an entry is reclaimed the table is exact for
plain bytes. The condition is needed: without it a CPU sets its own number back
(finding `tsan_trap`), two of its writes get one number, and a race can be missed.

**SanProofs**, second part (`Csan`; any number of CPUs, bytes and operations). `CsanInv` says of
each CPU that at most two of its writes are recent (`FewRecent`), that each of them is in the slot
that its age and the progress of `arm`, `disarm` or `clear` give it (`Held`, with `Place`), that
slots hold only what was armed since the end of the last `clear` (`Emptied`), and that what a scan
is owed is still ahead of it (`Ahead`). `Ahead` is where the order of the stores counts: an entry
only moves to the slot after its own, where the scan is still to come. Proved: `MatchTrue`, both
halves.

**ToolsProofs**, the copiers (any paths, contents, hashes, trees, runs and changes). The invariant
comes in layers, each proved with the help of those before it: `Places` (types, what a file at each
step is, `NothingOverwritten`), `Counts` (the counters against the sets), `Tables` (an MD5 that is
known was put there by a file that was met, and is new once), `Rerun`, and `Stored` (what is known
by FNV is a content, and each that was met is stored). Proved: `TypeOK` and all five properties that
`tools` checks of it. `EverythingStored` has a condition, `FnvTells`: the FNV hash tells the
contents apart. It is needed, since a content with a known MD5 and a known FNV hash is taken for a
duplicate, and both may come from different files; MD5 may collide as it likes. The assumption on
the constants says that paths are finite and that a missing, an empty or a partial file is told from
a content.

**ToolsProofs**, the tools of `Tools` (any constants that satisfy `ToolsAssumption`, which is the
assumptions of its modules and which TLC evaluates). `ToolsInv` is the invariant of the family
that runs; `StepOfOne` splits a step of the composition into one of that family.

- *Files* (`CopyInv`; contents and units of any size, any number of runs, kills and short writes).
  `ImageSoFar`: `cp_img` has made the destination equal to the source up to its position and changed
  nothing to what was in neither file. `OldKept`: the old content is where it was, and what `append`
  adds begins behind it, of whose success alone it is said where the source is. `pread` and `pwrite`
  are characterised byte by byte first (`PreadBytes` and what follows it). Proved: `CopyTrue`.
- *Locks and commands* (`ShellInv`; any number of processes, threads and arguments). `LockHeld`:
  who runs a command holds the lock, and at most one does, dead or alive. `ArgumentsKept`: an
  argument is on the list, with one thread, or done. `ThreadsCounted`: `running` is the number of
  threads that have not left, which is why the one signal is enough. Proved: `CommandsTrue`.
- *The walk* (`WalkInv`; any tree, any changes and errors). `Listed`: an item is only there once its
  directory is being read, and under no hidden one. `SteadyMet`: a name that was there all along is
  still to be listed by its directory, or was submitted; what an error of `readdir` hides is no longer
  among those. `Over`: when `bwait` has let the caller go,
  nothing is left that could submit. `WalkCovers` follows by an argument on the tree that needs no
  induction over its depth: with `Below` as the least closed set, whatever holds of the root and
  goes from a directory to its entries holds of all names. Proved: `WalkCovers`.
- *Comparing* (`CompareInv`; files, buffers and trees of any size). For the first three, what was
  printed is what the definition gives for the part that was read, with a run of zeros that is still
  open accounted for (`zerorun`); for the walks, the counts and sets are those of the entries met so
  far, and nothing of it depends on the order of the list. That sets of what was counted grow by one
  element at a time, and only where the element is new, is what makes counts and cardinalities
  agree. A walk that has ended has counted what
  is in front of one of the places where it may (`Ended`). Proved: `ToolsTrue`.
- *The tools on the pool* (`PoolInv`; any files, hashes and interleaving). `Ownership`: a hash that
  is in the set, with its string not freed, belongs to one file at most, which has a number of its
  own, so that no two callbacks write one copy. `KeysRemembered`: whatever was looked up is in the
  set and, as long as no copy failed, has an owner. `InPhases`: no candidate is looked up before the
  last file of the reference is done. `Counted`: the counters against the files at each stage.
  Proved: `CopiesDistinct`, `ReportsTrue`.

**HashDbProofs** (any paths, contents, hashes, trees, stores and logs to start from, any number of
programs, crashes, failed calls and changes). `DbInv` has five parts, proved in this order.
`DbTypeOK` has the types, that stores are finite, and that a program under way has lost none of the
keys it found. `Arrives`: what has been read is in the destination, and all the rest is as it was.
`Merged`: the keys of a merge come in order, so that those that were read are before those to come;
this is what it takes to say where a merge has stopped. `Compared`: the hashes and the misses of
`dbtransactor` are those of the keys it has read. `Logged`: as long as a walk has written all its
lines in full, they are the first of the log, as many as the walk has files and with the same
hashes, the offset is behind them (`Lines`), and what is behind the offset is as it was when the
walk began (`RestIsOld`); nothing is asked of what an earlier crash or short write has left, but a
log that was whole lines stays one, since a line that is written over another one leaves the lines
after it whole: both begin at multiples of three. A walk that is aborted may leave any parts in any
place (`SurvivedLog`), and the next one starts from those. While `log2leveldb` reads a whole log,
the keys it has put are the lines up to its offset. The assumption on `Logs` says that the log
before the first program is one that `ftwdb2log` can have written in full. A crash leaves between
what a program began with and what it put (`Survived`), which `Arrives` and `Merged` allow at any
moment. Proved: `SourceArrives`, `MergeKeeps`, `TransactorTrue` and `LogReplays`, all that `hashdb`
checks; TLC has checked `DbInv` on its instance.

**SieveProofs** (any limit that 16 divides). `SieveLeavesPrimes`: each variant ends with
exactly the bits of 1 and of the odd primes. The main part of the invariant is
`Covered`: no product `a * b` with `2 <= a <= b` and `a` already passed has its bit
set. A number `i` whose bit is already cleared is a product `c * d` with `c` passed,
so that `i * b` is the product of `c` and `d * b`, already covered: this is what spares
the proof an induction over the numbers. `OnWheel` says that the position on the
wheel belongs to `i` modulo 30, so that the numbers `sieve2` jumps over are multiples
of 2, 3 or 5. With it `memcmp` in `test_prime.c` is proved never to fail.

The sieves over bytes have an invariant of the same kind (`ByteInv`): products of what was passed
are struck out (`BytesStruck`); the `k`th entry of the list is the `k`th number that neither 2 nor 3
divides (`ListFilled`, with `Cand` as a closed form); and what is struck out of the list is
composite (`ListStruck`). That the list is struck from the index of a square on, or from less where
it wraps around, skips no multiple that is not struck already, as candidates grow faster than their
indices. Proved: `BytesCorrect`. The assumption on the limit excludes those where the loop of
`sieve.c`, which ends before the root, would leave the square of a prime.

On these stand the searches of `Euler`, for any ranges, ring size, starting points and
coefficients. `EulerInv` has two parts. `TablesRight`: each table obeys the invariant of its sieve
until the search reads it, and tells primes from then on. `MemosRight`: what `387b.c` has in its
ring are right truncatable Harshad numbers (`RingRight`); the one entry of `443.c` is that of the
number before (`EntryRight`); the numbers that `92.cc` keeps reach 1, and where it is on a chain
leads to the same end as the number it started from (`OnesRight`); the best row so far of `27.c` is
that of the quadratic kept with it (`BestRight`). `PlaceRight` says how far the
loop of main has come. Proved: `MemosTrue`; `LookupsTrue`, that a lookup below
either limit tells exactly the primes; and `CountsTrue`, that every iteration which the tables
alone can tell (`Tabulated`) adds what its problem asks for (`Contribution`): each one of `92.cc`,
`27.c` and `jacobi.c`, and for the others those that ask about numbers below the limit: the number
with its rotations in `35.c`, the number in `37.c` and `387.c`, `2n^2 - 1` in `216.c`, the 27 numbers
behind `n^2` in `146.c`, what `primeyr.c` prints. `35.c` and `37.c` stop at 1 000 000 and sieve up to
1024 * 1024, so that they never ask beyond the table; `TablesSuffice` says that every one of their
iterations is then right, given bounds of that shape.

What a recursive function computes is needed for this, and is proved without the induction theorems,
whose parameter is an operator: a set of counterexamples has a least member (`LeastNumber`,
`ByMeasure`), and functions and predicates are passed as values (`RecursionExists`,
`RecursionUnique`). From these come that taking digits off by division gives the digit sequence
(`DigitsRight`) and its sums, that `HarshadDown` is the definition of a right truncatable Harshad
number (`HarshadRight`, `HarshadPasses`), that the loop of remainders is the greatest common divisor
(`GcdFastIsGcd`), that `g` obeys its recurrence (`GIs`), and the end of a chain of digit squares
(`ChainIs`). The last is defined by the least set closed under taking predecessors; that every chain
does end in 1 or 89 is not needed, and not claimed.

For `35.c`, `37.c` and `387.c` the arithmetic is related to the digits: what is in front of a digit and
behind it are the quotient and the remainder of a division by a power of ten (`CutsRight`), so that
the two loops of `37.c` ask about exactly the truncations (`RightCuts`, `LeftCuts`,
`TruncatableFound`). A rotation of a prime has as many digits as the prime (`DigitsKept`): a 0 can
only come to the front from the end of the number, where no prime of two digits has it. That is
why `rotate`, which forgets leading zeros, is right where `35.c` uses it: the loop stops at the first
number that is no prime, so that it goes once through all rotations or finds one that is not prime
(`CircularFound`). The loop need not end for every number (one that never comes back), and what the
function that stands for it is then, is only known to obey its equation; with the first number that
is no prime or is the first again, that is enough. For `jacobi.c` each of the nine squares modulo 17
is followed through `jacobi`'s loops (`JacobiOfResidue`), which shows that the two filters of
`issquare` stop no square (`IsSquareRight`).

Out of the prover's reach and left to TLC: liveness (`Terminates`, `BwaitReturns`,
`ClosedWorkersLeave`, `FinishesUnlessRingFills`, `CorruptionDetected`, `Finishes`). Left to TLC as
well are `PrimeTestCorrect` and `SearchCorrect`. The first rests on facts of number theory that are
not facts about this code (which composites the Miller-Rabin and Fermat tests let pass, below what
bounds); the second rests on the first for numbers above the limit (and for `387b.c` and `146y.c`,
which use such a test below it too), and on Wilson's theorem for `381.c`; the rest of it is a
theorem (`CountsTrue`). The sums of `SquareSum` are left to TLC too. Every other property of the
passing runs is a theorem, some of them under the condition named with it (`OneWaiter`,
`NoOwnLoads`, `FnvTells`).

## Findings

Each is a run that TLC must find violated.

- `same_key`: `pwq.h:15` promises that callbacks with one key run on one thread; `PWQ::Run`
  (`pwq.cc:23`) passes key 0 on, and items are distributed round robin.
- `pwc_printed`: `push` and `wpush` store at head + 1 (`pwc.c:87`, `98`), the readers begin at
  slot 0. Output begins with two lines for no file, and the last two files of a walk are never
  printed.
- `tsan_trap`: an acquire load of a byte that the CPU itself stored to takes the old number for
  its own (`tsan.c:108`); it is then trapped reading what it wrote itself, which is not the race
  that the comment at `tsan.c:69` names.
- `square_sum`: `v` is declared outside the loop that `omp parallel for` distributes (`211.c:78`,
  `85`), so that one thread tests the number another has just stored (line 87); the sum is not the
  one that the comment at `211.c:84` asks for.

Met while modelling, without a run: `pwc.c` does not finish once the completion ring is full: main
waits in `push` or in `pthread_join` for `iothread`, which waits in `wpush` (line 94) for main to
reap (`FinishesUnlessRingFills` says that nothing else keeps it from finishing); `ftwdb2log.cc`
opens its log without `O_TRUNC` (line 133), so that behind the lines of a walk those of an earlier,
longer one remain, which are no "log mapping every file to its MD5SUM" of this tree (line 128), and
does not notice a short write (line 113), on which an assertion of `log2leveldb.cc` fails;
`dbmerge.cc` and `dbtransactor.cc` take an error at the last key for the end of the store, and
`fftw.c` one of `readdir_r` for the end of the directory; two comments (`pcpucheck.cc:166`, `245`)
have source and destination hashed again after a round, and only the source is; `copy_file_hash`
frees a hash that `cpcr2.cc` keeps in its set and frees again; `md5sum` gives `NULL` for an empty
file, which `transactor.cc` does not filter out and dereferences; `cphash.cc` and `cpex.cc` do not
`fsync` the directory of a new file; a rerun of `cpex` ends at the first file that an earlier run
has already copied; a file from 2 GiB on is always left partial, as one `pwrite` does not write
more; `387b.c` starts some ranges at an even `llimit` and then visits even numbers only (lines
205-209); `prime.c` prints the number of its candidates, not that of primes; `146x.c` shares `j`
among OpenMP threads as `211.c` does `v`; `cpcr2.cc`, `transactor.cc` and `fftw.c` call `PWQ::Run`
and `workqueue` with arguments their headers no longer have; `append0.c` advances its offset before
it writes (lines 49 to 51), so that what it appends is shifted by the first buffer, with zeros in
the gap, although line 12 calls it "append"; `append.c` does not look whether `ftruncate` worked; a
second run of either appends after what the first one left; `cmpdir.cc` returns the `s` that it has
not set for an entry it skips (line 84), and the walk stops there if it happens to be zero, after
which two trees that differ may count as the same; `zerorun.c` prints the last block of a run as the
end of a half-open range (line 65) and does not print a run that reaches the end of the file;
`xdiff.c` takes a longer second file for equal when the first one ends with a buffer; a release of
`csan.c` is seen by others before `clear` has emptied the slots, so that an ordered read may be
stopped; `munmap.h` uses a member that it does not declare.

## Not modelled, and plan

Not modelled for good: the machine tests, which print what a processor does and keep no
state; the bit arithmetic of the hash functions, which the programs use only to tell
contents apart; LevelDB and Berkeley DB, which are external, and the tools that only print them
(`dumpdb.c`, `dumpdb2.cc`); `cpdb.c`, which copies to a path it never builds; layout and wording of
output; progress reports.

Nor are these: `credit.h` and `munmap.h`, as no program uses the one and the other does not
compile (the option of `readn.cc` that would use it is never given one); `span.c` and `readn.cc`,
which time or print; `bdiff2.c`, `out.c`, `xscan.c` and `sampzero.c`, variants of `bdiff` and
`zerorun` that print more or sample at random; `pexec.c`, `popen_noshell.c`, `while.c`, `uds/` and
`nbd.c`, which show what the kernel does with processes, sockets and block devices; `146x.c`,
whose sieve is in `ByteSieve` and whose race is the one of `SquareSum`; and the searches that are
a single loop over digits or sums. The `REF_DB` part of `transactor.cc`, a LevelDB of earlier
hashes, is left out of `PoolTools`, and so are files that cannot be read there.

Two more hazards have no property that asks for something where they bite, as the code promises
nothing there: the write that `san/tsan.c` forgets when its table is full (`NoRaceMissed` holds until
an entry was reclaimed), and an iterator of `dbtransactor.cc` that ends early (`TransactorTrue` speaks
of the misses only where all keys could be read).

Known limits of what is modelled: `rover` is unbounded, so that its signed overflow after 2^31
submissions (`workqueue.c:80`) is listed as a hazard but not checked; a coordinator that calls
`bwait` after somebody closed the sense barrier (`sense.c:66`) waits for ever, and no property
says otherwise, as the comment of the file leaves open who may close; memory is sequentially
consistent, which is what the atomics of `pwc.c` and `pcpucheck.cc` ask for, and what x86 gives to
the stores of `csan.c`, which are made visible in order.

What could come next, the most useful first:

1. An abstract store that each program of `HashDb` implements, so that a sequence of programs is one
   of atomic merges where nothing fails.
2. `REF_DB` of `transactor.cc` on the stores of `HashDb`.
3. `credit.h` as a counting semaphore, should a program come to use it.
