# TLA+ models of SPHT with paging

This directory holds a formal model of the persistent-transaction library under
`nvhtm/` and of the HTM retry template under `deps/htm_alg/`: TLA+ modules, the
TLC configurations that check them on small instances, and theorems that the
TLA+ proof system (TLAPS) checks for every instance. Paths below are relative to
the repository's root.

## 1. The system

An application runs transactions with `NV_HTM_BEGIN` / `NV_HTM_END`
(`nvhtm/include/impl.h`). A transaction executes in hardware (Intel TSX) on a
volatile copy of the persistent heap and logs its writes in a per-thread ring in
persistent memory. After the hardware commit, a *commit protocol* decides when
the log is durable and when the transaction may return. A background *replayer*
process applies the logs to the persistent heap. With *paging*, the volatile copy
holds a bounded number of pages, which are mapped on demand from the persistent
heap and evicted.

### Components

| Component | State | Operations | Talks to |
|---|---|---|---|
| Retry template and single global lock (`htm_retry_template.h`, `htm.cpp`, `htm_impl.h`) | lock word, per-thread budget | `HTM_SGL_begin`, `HTM_SGL_commit`, `HTM_block`, `HTM_enter_fallback`, `HTM_exit_fallback` | calls `reset_timestamp` / `renew_timestamp` and the abort hook of the commit protocol |
| SPHT-NL commit protocol (`impl_pcwm.c`) | `gs_ts_array[t].pcwm` (ts with bit 63, isUpdate, flushedMarker), `P_last_safe_ts`, per-thread clock value and flags, log | begin, abort, write, before-commit, after-commit hooks, `wait_commit_pcwm` | the template; log ring; page timestamps |
| Log ring and replayer (`impl_log_replayer.cpp`) | `write_log_next` / `write_log_start` per thread, cursor per thread, replayed clock | choose the oldest visible log, apply it, publish the clock; legacy variants that sort, link, go backward or run in parallel | reads the rings, gives back log space, advances the clock that page-ins wait for |
| Paging (`paging.c`) | bitmap of mapped pages, heap size, two mutexes, two condition variables, swap bitmap | `add_page`, `rm_page`, `select_page_out`, `pager_thread_fn`, SIGSEGV handler | page timestamps, replayed clock, page faults of transactions |
| Page timestamps (`hashmap.c`) | buckets | `ht_add` (in the transaction), `ht_get` (in the fault handler) | commit protocol, paging |
| Physical clocks (`impl_pc.c`) | published timestamp with bit 63, log | the same hooks, `wait_commit_pc_simple` before the commit marker | template, replayer |
| Logical clocks (`impl_lc.c`) | `gs_globalClock`, published timestamp, `isInTX`, log | the same hooks, `wait_commit_lc` after the commit marker | template, replayer |
| Other commit protocols (`impl_pcwm2.c`, `impl_pcwm3.c`, `impl_pcwc*.c`, `impl_epoch_*.c`) | links between logs, epochs | the same hooks | template, replayer |
| Competing systems (`impl_ccHTM.c`, `impl_PHTM.c`, `impl_crafty.c`), baselines, eADR variants | own protocol state | the same hooks | template |
| Start-up and allocation (`global_structs*.c`), support libraries, drivers, benchmarks | segments, options | initialisation, I/O | all |

### What is hard, and what correctness means

* *Template.* Threads move between hardware attempts and the lock; a hardware
  transaction must not commit while the lock is owned, the lock must be
  exclusive, and everyone must get through.
* *Commit protocol.* Every thread decides alone, from unsynchronised reads of the
  others' timestamps, that every older transaction is durable; the cache writes
  lines back at any time; a crash may come at any time. Correct means: what a
  crash recovers is a prefix of the history, holds every transaction that
  returned, and contains whole logs only; and no wait is circular. Where the
  order of commit markers is all that a replayer knows (`impl_pc.c`,
  `impl_lc.c`), that order must have no holes.
* *Replayer.* Logs become visible in the order in which transactions return, which
  is not timestamp order. Correct means: per address, values are applied in
  commit order; no word of a log is overwritten before it is applied; the clock
  it publishes is one that page-ins may rely on.
* *Paging.* Fault handlers, the pager and committing transactions race for pages
  under two mutexes. Correct means: the bitmap stays near the limit of the heap
  and agrees with the mappings, the assertions of the eviction hold, nobody sleeps
  for ever, a page-in never shows data older than what was evicted. The code keeps
  these promises in part only; section 5 says where it does not.
* *Page timestamps.* A lookup never returns less than the last commit to the page.

`PROJECT.json` lists each hazard at its line with the properties that watch it,
or why none does.

## 2. Modules

| Module | Models |
|---|---|
| `HtmSgl` | the retry template: one action per step of a thread, per outcome of an attempt |
| `HtmSgl_proofs` | its safety theorems |
| `DurableHistory` | abstract specification: what any commit protocol here promises |
| `Pcwm` | the commit protocol on top of `HtmSgl`, with timestamps, logs, caches |
| `MCPcwm` | a view for TLC |
| `Replay` | the log rings between the workers and the replayer |
| `MCReplay` | transactions for TLC |
| `Replay_proofs` | the safety theorems of the rings and the replayer |
| `Pcwm_proofs` | the safety theorems of the protocol and its refinement of `DurableHistory` |
| `Pcwm_wait_proofs` | that no threads wait for each other in a circle |
| `Pcwm_marker_proofs` | that a commit which leaves the marker to others has somebody who writes it |
| `Clocks` | the commit protocols with physical and with logical clocks, on top of `HtmSgl` |
| `Clocks_proofs` | its safety theorems and the refinement of `DurableHistory` with physical clocks |
| `Pager` | fault handlers and the pager thread, in the synchronous and the asynchronous build |
| `Pager_proofs` | the safety theorems of the paging |

`Pcwm` extends `HtmSgl` and strengthens its actions: `PEnter`, `PCheckTaken`,
`PFallback` and so on are the template's actions with what the hooks write to the
timestamps. `Clocks` extends it the same way. Both instantiate `DurableHistory`
with a refinement mapping.

### HtmSgl

`hpc[t]` is the thread's place (listed at the head of the module), `budget[t]` is
`HTM_SGL_vars.budget`, `sgl` is the lock word with -1 for free. A hardware
transaction is abstracted to its one shared read, the lock word, which puts it in
the transaction's read set: taking the lock turns every transaction at `htm` into
one at `doomed`, which can only abort. Data conflicts, capacity aborts and
interrupts are the choice of `Abort`; a fault is the choice of `AbortFault`,
which zeroes the budget (`CHECK_PAGE_FAULT`). `begun` only bounds the instance.

### Pcwm

`cpc[t]` is the phase after and around the template; one action is one access to
shared memory, apart from these merges, each of which is safe:

* `renew_timestamp` reads the counter and stores it in one step. A store
  that comes later shows the others an older value longer, as a slower clock read
  would; the value is always below the clock that later reads return.
* `FlushSafe` is the flush, the fence and the store of `flushedMarker`: the store
  follows the fence, and nobody looks for one without the other.
* `Flush` ends `smart_close_log_pcwm` and stores bit 63; a crash in between sees
  what it would have seen after an eviction (`EvictMarker`) before `Flush`.

Physical clocks are one counter that advances when it is read. `rdtscp` returns a
value above the thread's own last read, but two threads may get the same one,
which `LARGER_THAN` breaks by thread number: `Stamp` takes `clock` or
`clock + 1`. A transaction is a record of its thread, timestamp and log
size: 0 for read-only, 1 for a log that lies with its marker in one cache line, 2
for a longer one; this is all `smart_close_log_pcwm` distinguishes. Persistent
memory is the sets `entries` (the lines before the marker's line), `durable` (the marker's
line) and `pLastSafe`; a crash at any moment recovers `Recoverable`, the logs
whose marker is durable and not above the durable `P_last_safe_ts`. There is no
crash action: every property of recovery is an invariant of `Recoverable`, so it
speaks of a crash in every state. Write-backs by the cache are `EvictMarker` and `EvictSafe`;
write-backs of other log lines are left out because they only make `entries` grow sooner.

A page-in is modelled where it can deadlock the commit protocol: under the lock a
transaction may need (`need[t]`) a committed transaction's effects and waits
(`Stamp`) until it was published to the replayer (`add_page` with `ht_get`). In
hardware a page fault is `AbortFault`.

The memory model is sequentially consistent for the timestamps and the markers:
the code uses acquire loads, release stores and locked instructions on x86. A
plain store may still sit in the store buffer, and others then see the older value
longer; a locked instruction, a fence and the commit of a hardware transaction empty
it. For most stores the delay is harmless, because the older value makes others
wait longer or choose the slower path: bit 63 and `flushedMarker` follow a fence and
say that something is done; INVALID_TIMESTAMP has bit 63 and a locked
instruction follows; the timestamp announced after the commit replaces a smaller one
of the same thread; without `isUpdate` nobody jumps; a lock released late is a lock
held longer. One store is different: `renew_timestamp` before a hardware
transaction replaces a timestamp *with* bit 63 by one without, and nothing
orders it before the transaction reads its commit timestamp. A newer transaction that scans
in that window would not wait. `Pcwm` and `Clocks` make the store visible at once and do
not cover this window; it is a listed hazard.

`WaitsFor(t)` collects the threads that `t` waits for, in the four places where a
thread waits: for the lock, under the lock for the transactions a page must
reflect, in `wait_commit`, and in `waitTheMarker`.

### DurableHistory

Transactions commit into a volatile history; the set a crash would recover only
grows and is a prefix; a transaction returns only when it is in it; a commit is
never older than what is recoverable. The mapping is `hist`, `Recoverable` and
`acked`, restricted to logs of several cache lines (`Spanning`), because of the
finding below.

### Replay

`log[t]` is a ring of words, each a pair of bit 63 and the rest, so that the
replayer's search can tell a commit marker from a value no better than the code
does. `next` and `start` are `write_log_next` and `write_log_start`, `cur` is
`curPtrs`. A worker begins (`fetch_log` clears two words), waits for `MinSpace`
free words, commits and returns, which makes its log visible. Commit and closing
are one step because they write past `write_log_next` only, which the replayer
never reads. Of the commit protocol the module keeps what the replayer sees:
timestamps grow with commits and logs are whole, but they appear in any order.
The replayer reads one word or pointer per step. `pending`, `wanted` and
`inSight` are history: the logs not replayed, the heap that the replayed ones
amount to, the timestamps visible when the round over the threads began.
Timestamps here are distinct numbers, so the tie-break of `LARGER_THAN` is
translated but decides nothing. `MaxN` is the largest number a word holds beside
bit 63; that timestamps, addresses and values fit it is `ReplayAssumption`.

### Clocks

`protocol` is chosen in the initial state, `pc` or `lc`; `Pc` and `Lc` guard what
is particular to one. `cpc[t]` is the phase around and after the template, as in
`Pcwm`, and one action is one access to shared memory. Both protocols publish
their timestamp in the word `ts[t]` that the template's `reset_timestamp` and
`renew_timestamp` also write, because these hooks are defined in `impl_pcwm.c`
for every back end and the members of `gs_ts_array`'s union overlap. For `pc`
that is a clock value among others. For `lc` it is a physical time where other
threads expect a logical one; since it is larger than every logical clock and is
compared with nothing else, it is modelled as `MaxClock`.

The log is abstracted to three facts about a transaction: its marker is written
(`marked`), its entries are durable (`entries`), its marker is durable
(`durable`). `FlushEntries` is `FLUSH_RANGE` and the fence; `WriteMarker` is the
store with its flush, after which the cache may write it back at any time
(`EvictMarker`) and the fence makes sure of it. `Scan` and `WaitFor` are the two
passes of `wait_commit_pc_simple`, one thread per step. `ReadTs`, `ReadIn` and
`EndRound` are a round of `wait_commit_lc`, including its `targetWaitFor`: once it has
seen the thread with the preceding timestamp, it looks at that thread only.

### Pager

`async` says whether the build has `ASYNC_PAGER`; it is chosen in the initial
state and never changes. Sizes are counted in pages. `pages` is the bitmap,
`mapped` what is really mapped, `size` is `curr_size_of_heap`; the three change at
different moments, which is what the module is about. `pc[t]` is the place of a
thread in `add_page`, `ppc` the place of the pager thread, `mpc` the place of
`main` in the shutdown; the places are listed at the head of the module. A mutex has
no variable: who holds `pager_mtx` or `mt_memory_used` between two steps follows
from the places (`MtxFree`, `MemFree`). What a thread does under a mutex without
letting anybody see an intermediate value is one step. The exceptions are the accesses
that another thread makes without that mutex: `add_page` reads the size in `Claim` and
writes it in `Grow`, the pager reads it in `PagerRead` and writes it in
`PagerWrite` ("TODO: mutex"), and between these an update can be lost.
`select_page_out` may return any page of the bitmap: which one depends on a
cursor that no property mentions. An assertion that fails sets `aborted` and
ends the process. Waiting on a condition variable is the place `sleep`, with spurious
wake-ups; a signal to nobody is lost. The pager that was signalled is at `woken` until
it has `mt_memory_used` again, and other threads may take that mutex first; it then goes on
without another look at the size, because the code tests with an `if`.

`pages` and `mapped` are kept apart because the code does: everything it
decides, it decides from the bitmap and `curr_size_of_heap`. The bound (`BitmapBound`) is
one on the bitmap; section 5 says what becomes of the mapped pages.

A fault (`Fault`) is an access to a page that is not mapped; a handler that
returns because the bit was already set leads to the access being repeated, which
may fault again.

## 3. Runs

| Run | Instance | Shows |
|---|---|---|
| `htm_sgl` | 3 threads, budget 2, 2 transactions each | type and budget bounds, lock exclusive and isolating; with fairness every transaction commits |
| `pcwm_two` | 2 threads, 2 transactions each, logs of one or several lines | types, whole logs, monotone marker, refinement of `DurableHistory` |
| `pcwm_three` | 3 threads, 1 long-log transaction each, page-ins | recovery is a prefix and holds what returned; nobody waits in a circle; a thread that waits for the marker has somebody who writes it |
| `pcwm_live` | 2 threads, 1 transaction each, of every size, page-ins, fairness | every transaction returns |
| `pcwm_one_line` | 2 threads, 1 transaction each | *violation*: a returned one-line transaction is lost |
| `replay` | 2 workers, 3 transactions each of 3 words or 5, rings of 8 words, 7 to be free, fairness | the rings wrap and are never overrun; the oldest of the logs visible at the start of a round is picked; logs are applied whole; a replayer that leaves has left no log behind; all drains and the clock reaches the last commit |
| `replay_order` | 2 workers, 1 transaction each | *violation*: the log picked is not the oldest visible any more |
| `replay_fetch` | 1 worker, ring of 8 words, 4 to be free | *violation*: `fetch_log` clears a word not applied yet |
| `replay_negative` | 2 workers, a value with bit 63 | *violation*: a value is taken for a commit marker |
| `pager` | 2 threads, 4 pages, room for 2, 2 faults each, both builds, fairness | accounting, the bitmap's bound, bitmap against mappings, both assertions of the eviction; handlers return; a full heap gets space |
| `clocks` | 2 threads, one of which repeats, both protocols, fairness | whole logs; with physical clocks markers in timestamp order and refinement of `DurableHistory`; every transaction returns |
| `clocks_hole` | 2 threads, 1 transaction each, logical clocks | *violation*: a transaction returns with a hole before it |

Bounds and why they are enough. Two attempts are enough for every way of using
the budget (abort with budget left, abort with none, fault); with the commit
protocol one attempt already leads through hardware commit, abort, fallback. Two
transactions per thread let a thread's second transaction meet the leftovers of
its first (its old timestamp, `isUpdate`, `flushedMarker`). Three threads are what
a chain needs: one waits for a second whose marker a third pushes. `MaxClock` is
never reached: a transaction advances the clock at most five times with
`Budget = 1`. It exists because the counter is finite; `PcwmAssumption` does not
ask that it be large, and the theorems hold for every value. `PcwmView` identifies states that differ only in clock values but
not in their order, or in local variables that are not read again, which the
actions cannot tell apart; `pcwm_live`, a liveness run, uses no view. It has two threads, so
it shows progress of direct waits; that longer chains of waits, which three
threads can form, neither close nor end in nobody is what `NoCircularWait` and
`MarkerPromised` say in `pcwm_three`, and for any number of threads by proof. Deadlock is checked in
every `Pcwm` run and in `clocks` (`Finished` is the one legal end), and switched off in
`htm_sgl`, where threads stop at their bound, and in `pager`, which may stop for good: at an
assertion, at the bound on faults, or asleep (see section 5).

The ring's sizes are scaled down: 8 or 16 words for the configured size, 4, 7 or 8 for the
512 of `MIN_SPACE_IN_LOG`, 1 or 2 for the 8 of `fetch_log`. The passing run uses
transactions short enough that the word `fetch_log` clears is free (length below
`MinSpace - FetchAhead`, as 503 words are in the code); `replay_fetch` has the
next length. Three transactions of 3 or 5 words are longer than a ring of 8, so
each ring wraps and a worker waits for space; two workers are needed for
the order of replay.

In `clocks` a thread's second transaction meets what its first left behind: its
old timestamp and `isInTX`. `MayRepeat` lets one thread begin more than one
transaction, so that either thread has a second one beside the other's first.
`MaxClock = 18` is never reached. In `pager` there are two more pages than room,
and a batch of 2 empties the heap: with 2 faults a thread comes back to a heap that it filled itself,
and the pager goes through its loop several times. The batch of the code is 100;
what counts is whether it exceeds the heap, and the theorems hold for every size that
does not.

What the bounds and preconditions leave open. The number of transactions is bounded
(`MaxTx`), and so is the number of faults (`MaxFaults`): the liveness properties show that
nobody is stuck, not that nobody is overtaken for ever. The test-and-set lock is unfair, and
so may a mutex be; a thread that others outrun without end is out of their scope. With the two
threads of `clocks`, the `targetWaitFor` of `wait_commit_lc` has a single candidate:
`EveryTxReturns` shows that the wait ends, not that the choice among several threads is
right. `SizeIsBits` and `FindsPage` speak of the synchronous build, because with
`ASYNC_PAGER` an update of the size is lost, and `FindsPage` of batches not larger
than the heap, because the code does not check that; section 5 gives the formulas
that fail.

Fairness. Threads are scheduled preemptively and every spin re-reads its
location, so each thread's next step is weakly fair. Aborts of healthy hardware
transactions are the hardware's choice and get none, and the budget makes them
finite; a doomed transaction does abort. In `Replay` the
replayer, each worker and the final `Quit` are weakly fair. In `PcwmFairSpec` each thread starts a
first transaction: `gs_ts_array` is zeroed, so a thread that never starts one
keeps timestamp 0 without bit 63 and every other commit waits for it. `ClocksFairSpec`
makes the same assumption for the same reason. In `PagerFairSpec` the handlers and the pager
thread are weakly fair; nothing is assumed of spurious wake-ups, of further
faults or of the end of the run.

Finding (`pcwm_one_line`). `FLUSH_RANGE(firstCL, lastCL)` of one cache line is an
empty range (`nvhtm/include/spins.h:62-66`), so `smart_close_log_pcwm`
(`nvhtm/src/impl_pcwm.c:291`) flushes nothing for a log that fits the cache line
of its marker, and the comment "tells the others flush done!" (line 363) is not
true. The safety properties are therefore stated, and proved, for logs of
several lines; `NoTornLog` holds for all.

Findings of `Replay`. `replay_order`: the replayer looks at the threads one after
the other, and logs appear in the order of returns; a newer log may be applied
before an older one of the same address, which then overwrites it in the
persistent heap. What does hold is `PicksOldestSeen`. `replay_fetch`: after a transaction of 504
to 511 words that has not been applied, `fetch_log` clears a word of it, because
it comes before the wait. `replay_negative`: the search for the marker steps by
one word and takes a negative value for a marker; `apply_log`, which steps by
two, does not, so only the order suffers.

Finding of `Clocks`. `wait_commit_lc` (`nvhtm/src/impl_lc.c:148-195`) compares
logical clocks, but while a transaction runs its word holds what
`renew_timestamp` stored there, a physical time above every logical clock. An
older transaction that has committed and not yet announced its logical clock
looks newer, and is not waited for: a younger one returns although the log has a
hole before it (`clocks_hole`), which the comment on line 140 says the replayer
discards together with what follows.

## 4. Proofs

All by TLAPS with SMT, Zenon and LS4, for every number of threads, budget, number
of transactions, clock bound and set of sizes allowed by `HtmAssumption` and
`PcwmAssumption`.

* `HtmSgl_proofs`: `HtmInv` adds to the three invariants that a thread between the
  budget test and the abort has budget left. It is inductive; `HtmTypeCorrect`,
  `SglIsExclusive` and `SglIsolated` follow.
* `Pcwm_proofs`: the recovery properties say nothing of the threads' knowledge and
  are not inductive. `PcwmInv` adds it:
  * `Timestamps`: a thread that may still commit, or whose log is not durable
    yet, shows a timestamp without bit 63, not above the one it commits with;
  * `Waits`: what a thread concluded of another in `wait_commit_pcwm` (flushed,
    or newer) stays true. A thread leaves it only by taking a new timestamp, and
    a new timestamp is above every old one (`ClearedStep`);
  * `Marker`: hence `P_last_safe_ts` is not above any timestamp without bit 63,
    and the compare-and-swap replaces an older value only;
  * `Logs`, `AckedSafe`: a longer log that is not durable belongs to a
    transaction its thread is closing, so its timestamp bounds `P_last_safe_ts`.

  There is one lemma per conjunct, one step per action. From `PcwmInv` follow
  `PcwmTypeCorrect`, `LogsAreWhole`, `RecoversPrefix`, `AckedSurvives`,
  `MarkerNeverMovesBack`, and `ImplementsDurableHistory`: a commit is `CommitTx`,
  a return is `Ack`, every other step is `Stabilise` or a stutter.
* `Pager_proofs`, for every number of threads, finite set of pages, limit, thresholds
  and batch (`PagerAssumption`): `PagerInv` adds to the checked invariants
  * `OneOwner`, `Handlers`: `pager_mtx` has one owner, and a thread that adds a page
    still knows the current size, because in the synchronous build all updates
    are under that mutex (`NoPager`);
  * `Room`: the pages in the bitmap and the threads that passed the test of the
    size and have not set their bit are together at most `Max + N - 1`. The test
    is made when nobody is adding, hence `size` is exact and below `Max`, and
    then at most `N` threads wait for the mutex; a bit that is set takes a
    thread from the second number to the first;
  * `EnoughPages`: a batch in progress finds as many pages as it has left.

  One lemma per conjunct, one step per action, with the counting in `Counts`. From
  it follow `PagerTypeCorrect`, `SizeCounts`, `BitmapBounded`, `NoPhantom`,
  `SelectedIsMapped` and `EvictionFinds`.

* `Clocks_proofs`, for every number of threads, transactions and clock values
  (`ClocksAssumption`) and both protocols: `MarkerOrder` says nothing of what the threads
  know of each other. `ClocksInv` adds, for physical clocks,
  * `Timestamps`, `Waits`: as in `Pcwm`, a thread shows a timestamp without bit 63
    from the beginning of a transaction until its marker is durable, and what
    another concluded of it while it waited stays true;
  * `Pending`: a transaction whose marker is not durable is the one its thread is
    committing, and a thread that runs began after its last commit;
  * `Markers`: hence, when a marker is written, every older transaction is
    durable, and no thread can commit an older one any more.

  With logical clocks the counter is the number of transactions (`Counted`), and
  that it stays in range is a counting argument: each transaction takes the slot
  of its rank among its thread's, of which there are `MaxTx` (`CommitsBounded`). From it
  follow `ClocksTypeCorrect`, `ClocksLogsAreWhole`, `MarkersInOrder` and
  `PcImplementsDurableHistory`, where a marker that reaches persistent memory is
  `Stabilise`.
* `Pcwm_wait_proofs`: for `NoCircularWait`, `WaitInv` adds four facts to `PcwmInv`. A
  transaction that has not returned is the one its thread is committing (`Inside`);
  pages reflect committed transactions only (`NeedsHist`); a thread that waits for the lock or for
  the marker shows bit 63 (`KeptOut`); and every thread that is committing has an older
  timestamp than the thread under the lock (`LockIsNewest`). Take any set of threads that
  all wait for one of the set. Nobody in `wait_commit` waits for the owner of the lock, which is
  newer, nor for threads that wait for the lock or the marker, which have bit 63;
  so those of the set in `wait_commit` would wait for each other, and the oldest of them
  waits for none: there are none. Those in `waitTheMarker` wait for threads on their way to write
  the marker, which wait in `wait_commit` or not at all: there are none either. The owner of the lock
  waits for threads that are committing, and those that wait for the lock wait for
  the owner, so nobody is left (`NobodyWaitsInACircle`).
* `Pcwm_marker_proofs`: that nobody waits in a circle does not say that a thread waits for
  anybody. For `MarkerPromised`, `MarkInv` adds that a commit which jumps, or waits for
  the marker, is covered by a flushed marker or has a thread `Ahead`: one about to write the
  marker with a timestamp not below, or an update transaction that is newer, by timestamp
  and then by number, and has not decided to jump (`Promises`). Because newer is a strict order, when a
  thread ahead decides to jump in turn, the one it jumps for is ahead of both, and no
  circle of commits leaves the marker to each other. Four facts carry it: the thread that
  wrote `P_last_safe_ts` last has flushed it or is about to (`LastWriter`), which covers those
  that a compare-and-swap overtook; `isUpdate` vouches for the timestamp beside it until its
  thread begins another transaction (`Updates`), because the scan reads the two one after
  the other; a thread whose `isUpdate` is about to be read still has the larger
  timestamp (`Overtakers`); and nobody has flushed a marker above its own timestamp (`FlushedOwn`).
  `MarkerIsPromised` follows.
* `Replay_proofs`, for every number of workers and transactions, every size of the ring
  and set of transactions allowed by `ReplayAssumption` that satisfy `TransactionsFit`: a
  log and the words that `fetch_log` clears past it fit the space waited for
  (logs of up to 503 words, as the code is configured), and no value has bit 63 set. Both are needed, as
  `replay_fetch` and `replay_negative` show; the instance of `replay` satisfies both. In
  `ReplayInv`
  * `Ring`, `Laid` place everything by its distance from `write_log_start`: the logs
    not replayed follow each other up to `write_log_next` and, with what the worker
    may write before it looks again, stay short of a full turn;
  * `Written`: so no store hits a log that is not replayed. `Distances`, `Shift` and
    `Behind` are the arithmetic of the ring behind it;
  * `Walking`: the replayer's search stays in the first log of a worker and ends
    at its marker, because no other word of it has bit 63 (`LogWords`);
  * `Picking`: the pick is the first log of its worker, and not newer than any log
    in sight of the threads looked at; a log that becomes visible meanwhile was
    not in sight, because timestamps are distinct (`Ordered`);
  * `Applying`: the heap is what was replayed and the first writes of the log, up to
    `pos` (`StoreNext`: one more write is one more store);
  * `Counted`: the clock is the number of commits, hence at most `N * MaxTx`.

  From it follow `ReplayTypeCorrect`, `LogsAreKept`, `HeapIsWhole` and
  `PickIsOldestSeen`. `QuitIsSafe` needs three more facts: once `isExit` is set no worker
  moves (`Quiet`), so a round that began after it has every visible log in sight
  (`Sighted`), and the last timestamp is replayed, about to be told or in a log (`Told`).

Only model-checked: `EveryTxCommits`, `EveryCommitReturns`, `Drains`,
`EveryTxReturns`, `HandlerReturns` and `SpaceReturns`. They are liveness under fairness, which is
out of the prover's reach; of `Drains` the theorem `QuitIsSafe` states the part that is
safety: if the replayer leaves, everything is replayed. `PicksOldest`, `NoHoleBefore` and
`AckedRecoverable` are violated, and what does hold in their place is proved.

## 5. Not modelled, and the plan

Left out on purpose: statistics, `DISABLE_PCWM_OPT` builds, thread numbering,
start-up and mapping of segments, drivers and benchmarks, third-party code, which
is most of the repository's lines. The durability of `write_log_next`, which is
never flushed, is a listed hazard.

*Contents of pages.* A module that composes paging, replayed clock and page
timestamps would have to promise that a page-in never shows data older than what
was evicted. The code does not keep that promise, for reasons that are already on
record: logs become visible in the order of returns (`replay_order`), so the replayed
clock passes logs that are not applied, and `add_page` waits for that
clock only; `ht_add` stores a timestamp without taking a maximum; `add_page` looks the
timestamp up before it takes `pager_mtx`; and a synchronous eviction may take
pages that the faulting transaction itself has modified. What remains true
holds only under conditions the code does not establish, so the hazards are listed and no
property is stated. The swap build, which keeps such pages, calls `memcpy` from the
pager into a page that may fault in turn; it is left out with them.

*Paging.* `Pager` shows, when asked, where the paging breaks what its text or its
purpose asks for. These are listed as hazards, with these formulas, and are not
properties of a run.

* The mapped pages exceed the limit. "we cannot allow a thread to mmap if there is no free
  space" (`nvhtm/src/paging.c:211`) is not kept: up to one page per other thread is added after a
  test that held (`BitmapBound` says so of the bitmap), and a page that is removed between the
  setting of its bit (283) and its `mmap` (300) is mapped afterwards without a bit, is not
  counted and is never removed. `~ async => Cardinality(mapped) <= Max + N - 1` holds with the
  constants of `Pager.cfg` and fails with `Batch = 1` and `MaxFaults = 3`.
* With `ASYNC_PAGER`, `rm_page` subtracts from `curr_size_of_heap` outside `pager_mtx`
  ("TODO: mutex", 465), and an update is lost; the pager then finds nothing to remove.
  `async => ~ aborted` fails with the constants of `Pager.cfg`.
* The synchronous eviction removes 100 pages, whatever the heap holds; the default heap
  has 64 (`nvhtm/src/main.c:1283`). `~ async => ~ aborted` fails with `Batch = 3`, which exceeds `Max`.
* With `ASYNC_PAGER` one signal wakes one of several waiting threads, and the others may sleep
  on; `HandlerReturns` is stated for the synchronous build.
* `paging_finish` can signal before the pager waits and then joins it for ever;
  `SpaceReturns` is stated until `isExit` is set.

In `PAGE_INDEX` builds pages are replaced in another order, which the free choice of the
victim covers. It does not cover that the search starts at an entry of `pagelist`, which
is allocated without being initialised (711) and read as an index into the bitmap (502); this is a
listed hazard.

*Physical clocks.* `impl_pc.c` has further forms of the wait (with a bitmap, with
sorting) that `install_bindings_pc` does not select.

*Replayer.* The sorter and the linked, backward and parallel searches are not
reached by the concurrent replayer that paging needs, and are left to later modules.

Next, in this order:

1. `Hashmap`: insertion and lookup of page timestamps against a reference map, as
   a module with proofs.
2. `pcwm2` and `pcwm3` as extensions of `Pcwm`, then the legacy replayers' searches.
