-------------------------------- MODULE Pcwm --------------------------------
(***************************************************************************)
(* The SPHT-NL commit protocol (nvhtm/src/impl_pcwm.c): a transaction runs *)
(* under the retry template, takes a physical timestamp just before it     *)
(* commits, persists its log, waits until every older transaction has      *)
(* persisted its own, and advances the durable marker P_last_safe_ts, up   *)
(* to which recovery reproduces the logs.                                  *)
(*                                                                         *)
(* The commit phase of thread t is cpc[t]:                                 *)
(*   idle     between transactions                                         *)
(*   body     in the retry template, see hpc[t]                            *)
(*   stamped  readClockVal taken, still inside HTM or the lock             *)
(*   announce committed; the timestamp is about to be published            *)
(*   update   published; a read-only transaction returns here              *)
(*   close    closing the log: the entries' lines are about to be flushed  *)
(*   marker   they are durable, the marker is about to be written          *)
(*   flush    the marker is written and is about to be flushed             *)
(*   scan     first pass of wait_commit, at thread scan[t]                 *)
(*   isupd    same, about to read isUpdate of thread scan[t]               *)
(*   wait     second pass, for the threads of waiting[t]                   *)
(*   put      about to compare P_last_safe_ts with its timestamp           *)
(*   loop     head of the compare-and-swap loop                            *)
(*   cas      in its body                                                  *)
(*   safe     about to flush P_last_safe_ts                                *)
(*   await    looking for a flushedMarker not below its timestamp          *)
(*   publish  about to make its log visible to the replayer and return     *)
(***************************************************************************)
EXTENDS HtmSgl

CONSTANTS MaxClock,     \* largest value of the time-stamp counter (2^63 - 2)
          Sizes,        \* log sizes a transaction may have, in cache lines
          PageIns       \* whether transactions may fault in a page

(* 0 stands for a read-only transaction, 1 for a log that fits the cache   *)
(* line of its marker, 2 for a longer one.                                 *)
ASSUME PcwmAssumption == /\ MaxClock \in Nat
                         /\ Sizes \subseteq 0 .. 2
                         /\ PageIns \in BOOLEAN

VARIABLES clock,        \* the time-stamp counter
          ts,           \* gs_ts_array[t].pcwm.ts: value and bit 63
          isUpdate,     \* gs_ts_array[t].pcwm.isUpdate
          flushed,      \* gs_ts_array[t].pcwm.flushedMarker
          cpc,          \* place of each thread in the commit protocol
          rcv,          \* readClockVal of each thread
          size,         \* lines of the thread's log
          need,         \* transactions the pages t faults in must reflect
          scan,         \* index of the first pass of wait_commit
          waiting,      \* threads not discarded by the first pass
          jump,         \* canJumpToWait
          oldVal,       \* value the compare-and-swap expects
          success,      \* outcome of the last compare-and-swap
          lastSafe,     \* P_last_safe_ts, as the threads see it
          pLastSafe,    \* its value in persistent memory
          hist,         \* update transactions committed so far
          marked,       \* those whose commit marker was written
          entries,      \* those whose lines before the marker's are durable
          durable,      \* those whose marker's line is durable
          acked         \* those that returned to the application

threadVars == <<rcv, size, need, scan, waiting, jump, oldVal, success>>
sharedVars == <<clock, ts, isUpdate, flushed, lastSafe>>
logVars    == <<hist, marked, entries, durable, pLastSafe, acked>>
pcwmVars   == <<htmVars, cpc, threadVars, sharedVars, logVars>>

(* INVALID_TIMESTAMP is -1: bit 63 is set and the rest exceeds any clock.  *)
Word(v, done) == [v |-> v, done |-> done]
Invalid == Word(MaxClock + 1, TRUE)

(* LARGER_THAN                                                             *)
Larger(v, w, i, j) == v > w \/ (v = w /\ i > j)

Tx == [t : Threads, v : 0 .. MaxClock, size : 1 .. 2]
MyTx(t) == [t |-> t, v |-> rcv[t], size |-> size[t]]

Phases == {"idle", "body", "stamped", "announce", "update", "close", "marker",
           "flush", "scan", "isupd", "wait", "put", "loop", "cas", "safe",
           "await", "publish"}

PcwmInit == /\ HtmInit
            /\ clock = 0
            /\ ts = [t \in Threads |-> Word(0, FALSE)]
            /\ isUpdate = [t \in Threads |-> FALSE]
            /\ flushed = [t \in Threads |-> 0]
            /\ cpc = [t \in Threads |-> "idle"]
            /\ rcv = [t \in Threads |-> 0]
            /\ size = [t \in Threads |-> 0]
            /\ need = [t \in Threads |-> {}]
            /\ scan = [t \in Threads |-> 0]
            /\ waiting = [t \in Threads |-> {}]
            /\ jump = [t \in Threads |-> FALSE]
            /\ oldVal = [t \in Threads |-> 0]
            /\ success = [t \in Threads |-> FALSE]
            /\ lastSafe = 0
            /\ pLastSafe = 0
            /\ hist = {} /\ marked = {} /\ entries = {} /\ durable = {}
            /\ acked = {}

Phase(t, from, to) == /\ cpc[t] = from
                      /\ cpc' = [cpc EXCEPT ![t] = to]

SetTs(t, v, done) == ts' = [ts EXCEPT ![t] = Word(v, done)]

(* rdtsc: the counter runs while it is not read.                           *)
RenewTs(t) == /\ clock < MaxClock
              /\ clock' = clock + 1
              /\ SetTs(t, clock + 1, FALSE)

ResetTs(t) == /\ ts' = [ts EXCEPT ![t] = Invalid]
              /\ UNCHANGED clock
-----------------------------------------------------------------------------
(* NV_HTM_BEGIN: on_before_htm_begin_pcwm, then the retry template. The    *)
(* actions below are the template's, with the timestamps its hooks write.  *)
PEnter(t) == /\ Enter(t)
             /\ Phase(t, "idle", "body")
             /\ isUpdate' = [isUpdate EXCEPT ![t] = FALSE]
             /\ UNCHANGED <<threadVars, logVars, clock, ts, flushed, lastSafe>>

PCheckFree(t) == /\ CheckFree(t)
                 /\ UNCHANGED <<cpc, threadVars, sharedVars, logVars>>

PCheckTaken(t) == /\ CheckTaken(t)
                  /\ ResetTs(t)
                  /\ UNCHANGED <<cpc, threadVars, logVars, isUpdate, flushed, lastSafe>>

PUnblock(t) == /\ Unblock(t)
               /\ UNCHANGED <<cpc, threadVars, sharedVars, logVars>>

PRenew(t) == /\ Renew(t)
             /\ RenewTs(t)
             /\ UNCHANGED <<cpc, threadVars, logVars, isUpdate, flushed, lastSafe>>

PSubscribe(t) == /\ Subscribe(t)
                 /\ UNCHANGED <<cpc, threadVars, sharedVars, logVars>>

(* on_htm_abort_pcwm; a timestamp taken in the transaction is lost.        *)
PAborts(t) == /\ AbortTaken(t) \/ Abort(t) \/ AbortFault(t)
              /\ RenewTs(t)
              /\ cpc' = [cpc EXCEPT ![t] = "body"]
              /\ UNCHANGED <<threadVars, logVars, isUpdate, flushed, lastSafe>>

(* Mutant: ENTER_SGL without reset_timestamp.                              *)
PFallbackNoReset(t) == /\ Fallback(t)
                       /\ UNCHANGED <<cpc, threadVars, sharedVars, logVars>>

PFallback(t) == /\ Fallback(t)
                /\ ResetTs(t)
                /\ UNCHANGED <<cpc, threadVars, logVars, isUpdate, flushed, lastSafe>>

PAcquire(t) == /\ Acquire(t)
               /\ UNCHANGED <<cpc, threadVars, sharedVars, logVars>>

(* Mutant: AFTER_SGL_BEGIN empty, as impl.h alone defines it.              *)
PRenewLockedEmpty(t) == /\ RenewLocked(t)
                        /\ UNCHANGED <<cpc, threadVars, sharedVars, logVars>>

(* Under the lock the transaction may fault in a page last written by a    *)
(* committed transaction: add_page then waits for the replayer to have     *)
(* reproduced it. (In a hardware transaction a fault is an abort.)         *)
PRenewLocked(t) == /\ RenewLocked(t)
                   /\ RenewTs(t)
                   /\ need' = [need EXCEPT ![t] = {}]
                      \/ /\ PageIns
                         /\ \E x \in hist : need' = [need EXCEPT ![t] = {x}]
                   /\ UNCHANGED <<cpc, rcv, size, scan, waiting, jump, oldVal, success,
                                  logVars, isUpdate, flushed, lastSafe>>

(* on_before_htm_commit_pcwm, at the end of the transaction's body: rdtscp *)
(* reads a later time than the thread's last rdtsc, though not necessarily *)
(* later than another thread's. A page-in ended when the replayer, which   *)
(* reproduces published logs only, had reached the page's transaction.     *)
Stamp(t) == /\ hpc[t] \in {"htm", "sgl"}
            /\ Phase(t, "body", "stamped")
            /\ need[t] \subseteq acked
            /\ \E now \in {clock, clock + 1} :
                  /\ now <= MaxClock
                  /\ now > ts[t].v \/ ts[t] = Invalid
                  /\ clock' = now
                  /\ rcv' = [rcv EXCEPT ![t] = now]
            /\ \E n \in Sizes : size' = [size EXCEPT ![t] = n]
            /\ need' = [need EXCEPT ![t] = {}]
            /\ UNCHANGED <<htmVars, scan, waiting, jump, oldVal, success, logVars,
                           ts, isUpdate, flushed, lastSafe>>

(* HTM_SGL_commit: the transaction's writes become visible.                *)
PCommit(t) == /\ CommitHtm(t) \/ Release(t)
              /\ Phase(t, "stamped", "announce")
              /\ hist' = IF size[t] = 0 THEN hist ELSE hist \cup {MyTx(t)}
              /\ UNCHANGED <<threadVars, sharedVars, marked, entries, durable,
                             pLastSafe, acked>>
-----------------------------------------------------------------------------
(* on_after_htm_commit_pcwm, the timestamp taken inside the transaction is *)
(* told to the others.                                                     *)
Announce(t) == /\ Phase(t, "announce", "update")
               /\ SetTs(t, rcv[t], FALSE)
               /\ UNCHANGED <<htmVars, threadVars, logVars, clock, isUpdate, flushed,
                              lastSafe>>

(* An empty log: "tells the others to move on" and returns.                *)
ReadOnly(t) == /\ size[t] = 0
               /\ Phase(t, "update", "idle")
               /\ SetTs(t, rcv[t], TRUE)
               /\ UNCHANGED <<htmVars, threadVars, logVars, clock, isUpdate, flushed,
                              lastSafe>>

MarkUpdate(t) == /\ size[t] > 0
                 /\ Phase(t, "update", "close")
                 /\ isUpdate' = [isUpdate EXCEPT ![t] = TRUE]
                 /\ UNCHANGED <<htmVars, threadVars, logVars, clock, ts, flushed,
                                lastSafe>>

(* Mutant: the entries are flushed without the fence before the marker.    *)
FlushEntriesUnfenced(t) == /\ Phase(t, "close", "marker")
                           /\ UNCHANGED <<htmVars, threadVars, sharedVars, logVars>>

(* smart_close_log_pcwm. A longer log has all lines but the marker's       *)
(* flushed and fenced before the marker is written; a log of one line has  *)
(* no such lines, and that line persists as a whole.                       *)
FlushEntries(t) == /\ Phase(t, "close", "marker")
                   /\ entries' = entries \cup {MyTx(t)}
                   /\ UNCHANGED <<htmVars, threadVars, sharedVars, hist, marked,
                                  durable, pLastSafe, acked>>

WriteMarker(t) == /\ Phase(t, "marker", "flush")
                  /\ marked' = marked \cup {MyTx(t)}
                  /\ UNCHANGED <<htmVars, threadVars, sharedVars, hist, entries,
                                 durable, pLastSafe, acked>>

(* The rest of it, the fence and bit 63: "tells the others flush done!".   *)
(* The marker's line of a longer log is flushed. For a log of one line,    *)
(* FLUSH_RANGE(firstCL, lastCL) with firstCL = lastCL runs its loop no     *)
(* time and nothing is. Then canJumpToWait is cleared, wait_commit starts. *)
Flush(t) == /\ Phase(t, "flush", "scan")
            /\ durable' = IF size[t] = 2 THEN durable \cup {MyTx(t)} ELSE durable
            /\ SetTs(t, rcv[t], TRUE)
            /\ scan' = [scan EXCEPT ![t] = 0]
            /\ waiting' = [waiting EXCEPT ![t] = {}]
            /\ jump' = [jump EXCEPT ![t] = FALSE]
            /\ UNCHANGED <<htmVars, rcv, size, need, oldVal, success, clock, isUpdate,
                           flushed, lastSafe, hist, marked, entries, pLastSafe, acked>>
-----------------------------------------------------------------------------
(* wait_commit_pcwm, first pass: a snapshot of every other thread.         *)
Older(t, i) == ~ ts[i].done /\ ~ Larger(ts[i].v, rcv[t], i, t)

AfterScan(i) == IF i + 1 = N THEN "wait" ELSE "scan"

ScanTs(t) == LET i == scan[t] IN
             /\ cpc[t] = "scan"
             /\ IF i # t /\ Larger(ts[i].v, rcv[t], i, t)
                THEN Phase(t, "scan", "isupd") /\ UNCHANGED scan
                ELSE /\ Phase(t, "scan", AfterScan(i))
                     /\ scan' = [scan EXCEPT ![t] = i + 1]
             /\ waiting' = [waiting EXCEPT ![t] =
                               IF i # t /\ Older(t, i) THEN @ \cup {i} ELSE @]
             /\ UNCHANGED <<htmVars, rcv, size, need, jump, oldVal, success,
                            sharedVars, logVars>>

(* Mutant: any newer timestamp lets the commit jump.                       *)
ScanUpdateAny(t) == /\ Phase(t, "isupd", AfterScan(scan[t]))
                    /\ jump' = [jump EXCEPT ![t] = TRUE]
                    /\ scan' = [scan EXCEPT ![t] = @ + 1]
                    /\ UNCHANGED <<htmVars, rcv, size, need, waiting, oldVal, success,
                                   sharedVars, logVars>>

(* A newer update transaction will push P_last_safe_ts past this one.      *)
ScanUpdate(t) == /\ Phase(t, "isupd", AfterScan(scan[t]))
                 /\ jump' = [jump EXCEPT ![t] = @ \/ isUpdate[scan[t]]]
                 /\ scan' = [scan EXCEPT ![t] = @ + 1]
                 /\ UNCHANGED <<htmVars, rcv, size, need, waiting, oldVal, success,
                                sharedVars, logVars>>

(* Mutant: the second pass reads each timestamp once.                      *)
WaitForOnce(t, i) == /\ cpc[t] = "wait"
                     /\ i \in waiting[t]
                     /\ waiting' = [waiting EXCEPT ![t] = @ \ {i}]
                     /\ UNCHANGED <<htmVars, cpc, rcv, size, need, scan, jump, oldVal,
                                    success, sharedVars, logVars>>

(* Second pass: spins, in index order, on those still older and unflushed. *)
WaitFor(t, i) == /\ cpc[t] = "wait"
                 /\ i \in waiting[t] /\ \A j \in waiting[t] : i <= j
                 /\ ~ Older(t, i)
                 /\ waiting' = [waiting EXCEPT ![t] = @ \ {i}]
                 /\ UNCHANGED <<htmVars, cpc, rcv, size, need, scan, jump, oldVal, success,
                                sharedVars, logVars>>

EndWait(t) == /\ waiting[t] = {}
              /\ Phase(t, "wait", IF jump[t] THEN "await" ELSE "put")
              /\ UNCHANGED <<htmVars, threadVars, sharedVars, logVars>>
-----------------------------------------------------------------------------
(* putTheMarker                                                            *)
ReadSafe(t) == /\ Phase(t, "put", IF lastSafe < rcv[t] THEN "loop" ELSE "await")
               /\ oldVal' = [oldVal EXCEPT ![t] = lastSafe]
               /\ success' = [success EXCEPT ![t] = FALSE]
               /\ UNCHANGED <<htmVars, rcv, size, need, scan, waiting, jump, sharedVars,
                              logVars>>

LoopTest(t) == /\ Phase(t, "loop", IF lastSafe < rcv[t] THEN "cas"
                                   ELSE IF success[t] THEN "safe" ELSE "await")
               /\ UNCHANGED <<htmVars, threadVars, sharedVars, logVars>>

(* Mutant: a plain store of the marker.                                    *)
CasPlainStore(t) == /\ Phase(t, "cas", "loop")
                    /\ success' = [success EXCEPT ![t] = TRUE]
                    /\ lastSafe' = rcv[t]
                    /\ UNCHANGED <<htmVars, rcv, size, need, scan, waiting, jump, oldVal,
                                   logVars, clock, ts, isUpdate, flushed>>

Cas(t) == /\ Phase(t, "cas", "loop")
          /\ success' = [success EXCEPT ![t] = lastSafe = oldVal[t]]
          /\ oldVal' = [oldVal EXCEPT ![t] = lastSafe]
          /\ lastSafe' = IF lastSafe = oldVal[t] THEN rcv[t] ELSE lastSafe
          /\ UNCHANGED <<htmVars, rcv, size, need, scan, waiting, jump, logVars,
                         clock, ts, isUpdate, flushed>>

(* The line of P_last_safe_ts is flushed and fenced, then flushedMarker.   *)
FlushSafe(t) == /\ Phase(t, "safe", "publish")
                /\ pLastSafe' = lastSafe
                /\ flushed' = [flushed EXCEPT ![t] = rcv[t]]
                /\ UNCHANGED <<htmVars, threadVars, clock, ts, isUpdate, lastSafe,
                               hist, marked, entries, durable, acked>>

(* Mutant: the older waitTheMarker, which looks at P_last_safe_ts itself.  *)
AwaitVisible(t) == /\ Phase(t, "await", "publish")
                   /\ lastSafe >= rcv[t]
                   /\ UNCHANGED <<htmVars, threadVars, sharedVars, logVars>>

(* waitTheMarker                                                           *)
Await(t) == /\ Phase(t, "await", "publish")
            /\ \E i \in Threads : flushed[i] >= rcv[t]
            /\ UNCHANGED <<htmVars, threadVars, sharedVars, logVars>>

(* write_log_next moves past the marker, and NV_HTM_END returns.           *)
Publish(t) == /\ Phase(t, "publish", "idle")
              /\ acked' = acked \cup {MyTx(t)}
              /\ UNCHANGED <<htmVars, threadVars, sharedVars, hist, marked, entries,
                             durable, pLastSafe>>
-----------------------------------------------------------------------------
(* The cache may write a dirty line back at any time. Evicting the entries *)
(* before the marker's line only makes them durable sooner than anything   *)
(* asks, so the evictions that matter are the marker's line's and          *)
(* P_last_safe_ts's.                                                       *)
EvictMarker(x) == /\ x \in marked \ durable
                  /\ durable' = durable \cup {x}
                  /\ UNCHANGED <<htmVars, cpc, threadVars, sharedVars, hist, marked,
                                 entries, pLastSafe, acked>>

EvictSafe == /\ pLastSafe # lastSafe
             /\ pLastSafe' = lastSafe
             /\ UNCHANGED <<htmVars, cpc, threadVars, sharedVars, hist, marked, entries,
                            durable, acked>>
-----------------------------------------------------------------------------
Finished == /\ \A t \in Threads : cpc[t] = "idle" /\ begun[t] = MaxTx
            /\ UNCHANGED pcwmVars

TemplateStep(t) == \/ PEnter(t) \/ PCheckFree(t) \/ PCheckTaken(t) \/ PUnblock(t)
                   \/ PRenew(t) \/ PSubscribe(t) \/ PAborts(t) \/ PFallback(t)
                   \/ PAcquire(t) \/ PRenewLocked(t) \/ Stamp(t) \/ PCommit(t)

CommitStep(t) == \/ Announce(t) \/ ReadOnly(t) \/ MarkUpdate(t) \/ FlushEntries(t)
                 \/ WriteMarker(t) \/ Flush(t) \/ ScanTs(t) \/ ScanUpdate(t)
                 \/ (\E i \in Threads : WaitFor(t, i)) \/ EndWait(t) \/ ReadSafe(t)
                 \/ LoopTest(t) \/ Cas(t) \/ FlushSafe(t) \/ Await(t) \/ Publish(t)

Evict == EvictSafe \/ \E x \in marked : EvictMarker(x)

PcwmNext == Finished \/ Evict \/ \E t \in Threads : TemplateStep(t) \/ CommitStep(t)

PcwmSpec == PcwmInit /\ [][PcwmNext]_pcwmVars

(* Threads are preemptively scheduled, spins re-read what they spin on,     *)
(* and a doomed transaction aborts; other aborts are the hardware's choice. *)
(* Every thread starts a first transaction: one that never does keeps its   *)
(* initial timestamp 0, for which all others wait.                          *)
Healthy(t) == hpc[t] = "htm" => hpc'[t] # "top"

PcwmFairSpec == /\ PcwmSpec
                /\ \A t \in Threads :
                      /\ WF_pcwmVars((TemplateStep(t) \/ CommitStep(t)) /\ cpc[t] # "idle"
                                     /\ Healthy(t))
                      /\ WF_pcwmVars(PEnter(t) /\ begun[t] = 0)
-----------------------------------------------------------------------------
PcwmTypeOK == /\ HtmTypeOK
              /\ clock \in 0 .. MaxClock
              /\ ts \in [Threads -> [v : 0 .. MaxClock, done : BOOLEAN] \cup {Invalid}]
              /\ isUpdate \in [Threads -> BOOLEAN]
              /\ flushed \in [Threads -> 0 .. MaxClock]
              /\ cpc \in [Threads -> Phases]
              /\ rcv \in [Threads -> 0 .. MaxClock]
              /\ size \in [Threads -> 0 .. 2]
              /\ need \in [Threads -> SUBSET Tx]
              /\ scan \in [Threads -> 0 .. N]
              /\ waiting \in [Threads -> SUBSET Threads]
              /\ jump \in [Threads -> BOOLEAN]
              /\ oldVal \in [Threads -> 0 .. MaxClock]
              /\ success \in [Threads -> BOOLEAN]
              /\ lastSafe \in 0 .. MaxClock
              /\ pLastSafe \in 0 .. MaxClock
              /\ hist \in SUBSET Tx
              /\ marked \in SUBSET Tx
              /\ entries \in SUBSET Tx
              /\ durable \in SUBSET Tx
              /\ acked \in SUBSET Tx

(* The logs a crash at this moment would reproduce: their marker is in     *)
(* persistent memory and is not above the persistent P_last_safe_ts.       *)
Recoverable == {x \in durable : x.v <= pLastSafe}

(* The transactions whose log spans several cache lines.                   *)
Spanning(S) == {x \in S : x.size = 2}

(* A marker found in persistent memory vouches for its log: whatever the   *)
(* cache evicts and when, the entries before it are there (the fence       *)
(* between the flush of the entries and the marker, smart_close_log_pcwm). *)
NoTornLog == durable \subseteq entries

(* Recovery reproduces a prefix of the committed history: no transaction   *)
(* is reproduced while an older one is lost, although every thread decides *)
(* on its own, from a snapshot of the others' timestamps, that P_last_safe *)
(* may pass its transaction (wait_commit_pcwm, putTheMarker). Logs of one  *)
(* line are left out as the older one, see AckedRecoverable.               *)
PrefixRecoverable ==
    \A x \in Recoverable, y \in Spanning(hist) : y.v < x.v => y \in Recoverable

(* Durability: a transaction with a longer log that returned survives a    *)
(* crash at any later moment.                                              *)
SpanningRecoverable == Spanning(acked) \subseteq Recoverable

(* Durability of every transaction: smart_close_log_pcwm has flushed the   *)
(* log by the time "tells the others flush done!" is reached.              *)
AckedRecoverable == acked \subseteq Recoverable

(* P_last_safe_ts never moves back, in the cache or in persistent memory,  *)
(* whatever the order in which threads read it, compare and swap.          *)
MarkerMonotone == [][lastSafe' >= lastSafe /\ pLastSafe' >= pLastSafe]_pcwmVars

(* The protocol implements the durable history, for longer logs.           *)
History == INSTANCE DurableHistory
           WITH Tx <- Spanning(Tx), hist <- Spanning(hist),
                stable <- Spanning(Recoverable), acked <- Spanning(acked)
DurablePrefix == History!HistorySpec

(* Update transactions that have said so and have not returned, except for *)
(* those that leave the marker to another one.                             *)
Pushing == {"close", "marker", "flush", "scan", "isupd", "wait", "put", "loop", "cas",
            "safe"}

(* Somebody has flushed a marker that covers the transaction of t.         *)
Marked(t) == \E i \in Threads : flushed[i] >= rcv[t]

(* The threads t waits for: the owner of the lock; under the lock, the     *)
(* thread whose transaction a page must reflect; in wait_commit, those     *)
(* still older; in waitTheMarker, those that may write a marker not below  *)
(* its timestamp.                                                          *)
WaitsFor(t) ==
    {k \in Threads :
       \/ hpc[t] \in {"block", "enter"} /\ sgl = k
       \/ hpc[t] = "sgl" /\ \E x \in need[t] \ acked : x.t = k
       \/ cpc[t] = "wait" /\ k \in waiting[t] /\ Older(t, k)
       \/ cpc[t] = "await" /\ ~ Marked(t) /\ cpc[k] \in Pushing /\ rcv[k] >= rcv[t]}

(* No set of threads wait for each other, through the lock, page-ins under *)
(* it, wait_commit and waitTheMarker: a thread has no timestamp while it   *)
(* waits for the lock, and takes a new one once it has it. (In a cycle,    *)
(* each thread would wait for a member of the cycle.)                      *)
NoCircularWait ==
    \A S \in SUBSET Threads : S # {} => \E t \in S : WaitsFor(t) \cap S = {}

(* A thread that waits for the marker has somebody who will write it: it   *)
(* skipped putTheMarker for a newer update transaction that does not skip  *)
(* it in turn without a newer one still, or it was overtaken by a compare- *)
(* and-swap whose thread is about to flush it.                             *)
MarkerPromised == \A t \in Threads : cpc[t] = "await" => Marked(t) \/ WaitsFor(t) # {}

(* Every transaction that begins returns: wait_commit never waits for a    *)
(* thread that (through the lock, or a page-in under the lock) waits for   *)
(* it, and a commit that jumps to waitTheMarker finds a newer one there    *)
(* that pushes the marker.                                                 *)
EveryCommitReturns == \A t \in Threads : cpc[t] # "idle" ~> cpc[t] = "idle"
=============================================================================
