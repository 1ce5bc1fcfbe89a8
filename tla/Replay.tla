------------------------------- MODULE Replay -------------------------------
(***************************************************************************)
(* The log rings of the worker threads and the single replayer that        *)
(* applies them to the persistent heap while the workers run               *)
(* (nvhtm/src/impl_log_replayer.cpp; the workers' side of the ring is in   *)
(* nvhtm/src/impl_pcwm.c).                                                 *)
(*                                                                         *)
(* Of the commit protocol only this matters here: transactions commit with *)
(* increasing timestamps, have closed their log when they return, and      *)
(* return in any order; returning is what makes the log visible. Words of  *)
(* a ring are pairs of bit 63 and the rest, so that an address, a value    *)
(* and a commit marker are told apart by that bit only, as in the code.    *)
(*                                                                         *)
(* A worker is idle, fetched (waiting for log space), body (in its         *)
(* transaction) or close (committed, its log not visible yet). The         *)
(* replayer is at                                                          *)
(*   top     the head of its loop                                          *)
(*   scan    about to read write_log_next of thread ri                     *)
(*   walk    looking for the commit marker of that thread's log at pos     *)
(*   apply   applying the log of thread pick, at word pos                  *)
(*   clock   about to publish the timestamp it applied                     *)
(*   done    past its loop                                                 *)
(***************************************************************************)
EXTENDS Integers, Sequences

CONSTANTS N,            \* worker threads
          LogSize,      \* allocLogSize: words of a ring
          MinSpace,     \* MIN_SPACE_IN_LOG: free words a transaction needs
          FetchAhead,   \* fetch_log clears a word this far past the log's end
          Addrs,        \* addresses of the heap
          Bodies,       \* writes transactions make: sequences of [a, val]
          MaxTx,        \* bound: transactions of each worker
          MaxN          \* largest word less its bit 63: timestamp, address, value

Word(bit63, n) == [mark |-> bit63, n |-> n]
Words == [mark : BOOLEAN, n : 0 .. MaxN]

ASSUME ReplayAssumption ==
    /\ N \in Nat \ {0}
    /\ {LogSize, MinSpace, FetchAhead} \subseteq Nat \ {0}
    /\ MinSpace < LogSize /\ FetchAhead < LogSize
    /\ MaxTx \in Nat /\ MaxN \in Nat /\ N * MaxTx <= MaxN
    /\ Addrs \subseteq 1 .. MaxN
    /\ \A b \in Bodies : /\ b \in Seq([a : Addrs, val : Words])
                        /\ b # <<>> /\ 2 * Len(b) + 1 < LogSize

Workers == 0 .. N - 1
Positions == 0 .. LogSize - 1
Wrap(p) == p % LogSize

VARIABLES log,          \* writeLog[t]: the ring of each worker
          next,         \* write_log_next: end of what is visible
          start,        \* write_log_start: end of what may be overwritten
          wpc,          \* place of each worker
          end,          \* writeLogEnd of each worker
          now,          \* the last timestamp taken
          begun,        \* transactions begun (the bound only)
          quit,         \* G_flag_checkpointer_exit
          rpc,          \* place of the replayer
          leaving,      \* isExit, as it read it
          cur,          \* curPtrs
          ri, pos,      \* loop variables
          pick, pickTs, \* curThread; curTs, then curTSs[curThread]
          heap,         \* the persistent heap
          replayed,     \* htReadClockVal
          pending,      \* history: logs closed but not replayed, per worker
          wanted,       \* history: the heap after the replayed transactions
          inSight       \* history: timestamps visible when the scan began

workerVars == <<wpc, end, now, begun, quit>>
replayerVars == <<rpc, leaving, cur, ri, pos, pick, pickTs, replayed, wanted, inSight>>
replayVars == <<log, next, start, heap, pending, workerVars, replayerVars>>

None == -1
MaxTs == N * MaxTx
NoTs == MaxN + 1        \* (uint64_t)-1, larger than any word less its bit 63

ReplayInit ==
    /\ log = [t \in Workers |-> [p \in Positions |-> Word(FALSE, 0)]]
    /\ next = [t \in Workers |-> 0] /\ start = [t \in Workers |-> 0]
    /\ wpc = [t \in Workers |-> "idle"] /\ end = [t \in Workers |-> 0]
    /\ now = 0 /\ begun = [t \in Workers |-> 0] /\ quit = FALSE
    /\ rpc = "top" /\ leaving = FALSE
    /\ cur = [t \in Workers |-> 0]
    /\ ri = 0 /\ pos = 0 /\ pick = None /\ pickTs = NoTs
    /\ heap = [a \in Addrs \cup {0} |-> Word(FALSE, 0)] /\ wanted = heap
    /\ replayed = 0
    /\ pending = [t \in Workers |-> <<>>] /\ inSight = {}
-----------------------------------------------------------------------------
(* The words of a closed log: address and value of each write, the marker. *)
Length(x) == 2 * Len(x.body) + 1
Encoded(x, k) == IF k = Length(x) - 1 THEN Word(TRUE, x.ts)
                 ELSE LET write == x.body[k \div 2 + 1]
                      IN IF k % 2 = 0 THEN Word(FALSE, write.a) ELSE write.val

Store(mem, body) ==
    [a \in DOMAIN mem |->
        LET to == {k \in DOMAIN body : body[k].a = a}
        IN IF to = {} THEN mem[a]
           ELSE body[CHOOSE k \in to : \A j \in to : j <= k].val]

(* The logs the replayer may see: all but one that is not published.       *)
Visible(t) == IF wpc[t] = "close" THEN 1 .. Len(pending[t]) - 1 ELSE DOMAIN pending[t]
VisibleTs == UNION {{pending[t][k].ts : k \in Visible(t)} : t \in Workers}

At(t, from, to) == /\ wpc[t] = from
                   /\ wpc' = [wpc EXCEPT ![t] = to]
-----------------------------------------------------------------------------
(* on_before_htm_begin_pcwm: fetch_log clears two words, whatever they are, *)
(* and only then is there a wait for space.                                *)
Begin(t) == /\ begun[t] < MaxTx
            /\ At(t, "idle", "fetched")
            /\ end' = [end EXCEPT ![t] = next[t]]
            /\ log' = [log EXCEPT ![t] = [p \in Positions |->
                          IF p \in {next[t], Wrap(next[t] + FetchAhead)}
                          THEN Word(FALSE, 0) ELSE @[p]]]
            /\ begun' = [begun EXCEPT ![t] = @ + 1]
            /\ UNCHANGED <<next, start, heap, pending, now, quit, replayerVars>>

(* Mutant: the wait for space looks at the visible log only, not at what   *)
(* the transaction will add.                                               *)
RoomForNow(t) == /\ At(t, "fetched", "body")
                 /\ Wrap(next[t] - start[t]) <= LogSize
                 /\ UNCHANGED <<log, next, start, heap, pending, end, now, begun, quit,
                                replayerVars>>

Room(t) == /\ At(t, "fetched", "body")
           /\ Wrap(next[t] - start[t]) + MinSpace <= LogSize
           /\ UNCHANGED <<log, next, start, heap, pending, end, now, begun, quit,
                          replayerVars>>

(* The transaction logs its writes, commits, and smart_close_log writes    *)
(* the marker. All of it lies past write_log_next, where the replayer does *)
(* not look, so it is one step here.                                       *)
Commit(t) == \E body \in Bodies :
    LET x == [ts |-> now + 1, at |-> end[t], body |-> body] IN
    /\ At(t, "body", "close")
    /\ now' = now + 1
    /\ log' = [log EXCEPT ![t] = [p \in Positions |->
                  IF Wrap(p - x.at) < Length(x) THEN Encoded(x, Wrap(p - x.at)) ELSE @[p]]]
    /\ end' = [end EXCEPT ![t] = Wrap(@ + Length(x) - 1)]
    /\ pending' = [pending EXCEPT ![t] = Append(@, x)]
    /\ UNCHANGED <<next, start, heap, begun, quit, replayerVars>>

(* Mutant: write_log_next is left at the marker.                           *)
PublishAtMarker(t) == /\ At(t, "close", "idle")
                      /\ next' = [next EXCEPT ![t] = end[t]]
                      /\ UNCHANGED <<log, start, heap, pending, end, now, begun, quit,
                                     replayerVars>>

Publish(t) == /\ At(t, "close", "idle")
              /\ next' = [next EXCEPT ![t] = Wrap(end[t] + 1)]
              /\ UNCHANGED <<log, start, heap, pending, end, now, begun, quit, replayerVars>>

(* The application has joined its threads and tells the replayer.          *)
Quit == /\ \A t \in Workers : wpc[t] = "idle" /\ begun[t] = MaxTx
        /\ ~ quit
        /\ quit' = TRUE
        /\ UNCHANGED <<log, next, start, heap, pending, wpc, end, now, begun, replayerVars>>
-----------------------------------------------------------------------------
(* new_single_replayer_apply and get_current_thread_whom_log_need_to_be_   *)
(* replayed: one round over the threads.                                   *)
Top == /\ rpc = "top"
       /\ rpc' = "scan"
       /\ leaving' = quit
       /\ ri' = 0 /\ pick' = None /\ pickTs' = NoTs
       /\ inSight' = VisibleTs
       /\ UNCHANGED <<log, next, start, heap, pending, workerVars, cur, pos, replayed, wanted>>

(* Reads write_log_next of thread ri; an empty log is passed over.         *)
Scan == /\ rpc = "scan" /\ ri < N
        /\ \/ /\ cur[ri] = next[ri]
              /\ ri' = ri + 1
              /\ UNCHANGED <<rpc, pos>>
           \/ /\ cur[ri] # next[ri]
              /\ rpc' = "walk" /\ pos' = cur[ri]
              /\ UNCHANGED ri
        /\ UNCHANGED <<log, next, start, heap, pending, workerVars, leaving, cur, pick, pickTs,
                       replayed, wanted, inSight>>

(* Word by word, until a set bit 63 or write_log_next, read again.         *)
WalkOn == /\ rpc = "walk"
          /\ ~ log[ri][pos].mark
          /\ \/ /\ Wrap(pos + 1) # next[ri] \/ log[ri][Wrap(pos + 1)].mark
                /\ pos' = Wrap(pos + 1)
                /\ UNCHANGED <<rpc, ri>>
             \/ /\ Wrap(pos + 1) = next[ri] /\ ~ log[ri][Wrap(pos + 1)].mark
                /\ rpc' = "scan" /\ ri' = ri + 1
                /\ UNCHANGED pos
          /\ UNCHANGED <<log, next, start, heap, pending, workerVars, leaving, cur, pick, pickTs,
                         replayed, wanted, inSight>>

(* Mutant: the comparison keeps the newest timestamp.                      *)
WalkEndNewest == /\ rpc = "walk"
                 /\ log[ri][pos].mark
                 /\ IF pick = None \/ pickTs < log[ri][pos].n
                    THEN pick' = ri /\ pickTs' = log[ri][pos].n
                    ELSE UNCHANGED <<pick, pickTs>>
                 /\ rpc' = "scan" /\ ri' = ri + 1
                 /\ UNCHANGED <<log, next, start, heap, pending, workerVars, leaving, cur, pos,
                                replayed, wanted, inSight>>

(* A set bit 63 is taken for the marker; the oldest so far is kept.        *)
WalkEnd == /\ rpc = "walk"
           /\ log[ri][pos].mark
           /\ LET ts == log[ri][pos].n IN
              IF pickTs > ts \/ (pickTs = ts /\ pick > ri)
              THEN pick' = ri /\ pickTs' = ts
              ELSE UNCHANGED <<pick, pickTs>>
           /\ rpc' = "scan" /\ ri' = ri + 1
           /\ UNCHANGED <<log, next, start, heap, pending, workerVars, leaving, cur, pos,
                          replayed, wanted, inSight>>

(* After the round: apply what was picked, go round again, or leave.       *)
Choose == /\ rpc = "scan" /\ ri = N /\ pick # None
          /\ rpc' = "apply"
          /\ pos' = cur[pick]
          /\ UNCHANGED <<log, next, start, heap, pending, workerVars, leaving, cur, ri, pick,
                         pickTs, replayed, wanted, inSight>>

(* Mutant: whether the application has quit is read after the search.      *)
NoLogQuitNow == /\ rpc = "scan" /\ ri = N /\ pick = None
                /\ rpc' = IF quit THEN "done" ELSE "top"
                /\ UNCHANGED <<log, next, start, heap, pending, workerVars, leaving, cur, ri,
                               pos, pick, pickTs, replayed, wanted, inSight>>

(* Nothing found: leave if isExit was set before the search.               *)
NoLog == /\ rpc = "scan" /\ ri = N /\ pick = None
         /\ rpc' = IF leaving THEN "done" ELSE "top"
         /\ UNCHANGED <<log, next, start, heap, pending, workerVars, leaving, cur, ri, pos,
                        pick, pickTs, replayed, wanted, inSight>>
-----------------------------------------------------------------------------
(* Mutant: the cursor is not wrapped.                                      *)
ApplyUnwrapped == LET word(k) == log[pick][Wrap(pos + k)] IN
                  /\ rpc = "apply"
                  /\ ~ word(0).mark
                  /\ heap' = [heap EXCEPT ![word(0).n] = word(1)]
                  /\ pos' = pos + 2
                  /\ UNCHANGED <<log, next, start, pending, workerVars, rpc, leaving, cur, ri,
                                 pick, pickTs, replayed, wanted, inSight>>

(* apply_log: pairs of address and value up to the word with bit 63.       *)
Apply == LET word(k) == log[pick][Wrap(pos + k)] IN
         /\ rpc = "apply"
         /\ ~ word(0).mark
         /\ heap' = [heap EXCEPT ![word(0).n] = word(1)]
         /\ pos' = Wrap(pos + 2)
         /\ UNCHANGED <<log, next, start, pending, workerVars, rpc, leaving, cur, ri, pick,
                        pickTs, replayed, wanted, inSight>>

(* Mutant: the cursor moves on but write_log_start stays.                  *)
FinishKept == /\ rpc = "apply"
              /\ log[pick][pos].mark
              /\ rpc' = "clock"
              /\ cur' = [cur EXCEPT ![pick] = Wrap(pos + 1)]
              /\ wanted' = Store(wanted, pending[pick][1].body)
              /\ pending' = [pending EXCEPT ![pick] = Tail(@)]
              /\ pickTs' = log[pick][pos].n
              /\ UNCHANGED <<log, next, start, heap, workerVars, leaving, ri, pos, pick,
                             replayed, inSight>>

(* The space is given back, "so that the worker threads can reuse" it.     *)
Finish == /\ rpc = "apply"
          /\ log[pick][pos].mark
          /\ rpc' = "clock"
          /\ cur' = [cur EXCEPT ![pick] = Wrap(pos + 1)]
          /\ start' = [start EXCEPT ![pick] = Wrap(pos + 1)]
          /\ wanted' = Store(wanted, pending[pick][1].body)
          /\ pending' = [pending EXCEPT ![pick] = Tail(@)]
          /\ pickTs' = log[pick][pos].n
          /\ UNCHANGED <<log, next, heap, workerVars, leaving, ri, pos, pick, replayed, inSight>>

(* Page-ins wait for this clock, which is the newest timestamp replayed.   *)
TellClock == /\ rpc = "clock"
             /\ rpc' = "top"
             /\ replayed' = IF pickTs > replayed THEN pickTs ELSE replayed
             /\ UNCHANGED <<log, next, start, heap, pending, workerVars, leaving, cur, ri, pos,
                            pick, pickTs, wanted, inSight>>
-----------------------------------------------------------------------------
WorkerStep(t) == Begin(t) \/ Room(t) \/ Commit(t) \/ Publish(t)

ReplayerStep == \/ Top \/ Scan \/ WalkOn \/ WalkEnd \/ Choose \/ NoLog
                \/ Apply \/ Finish \/ TellClock

Stopped == rpc = "done" /\ UNCHANGED replayVars

ReplayNext == Quit \/ ReplayerStep \/ Stopped \/ \E t \in Workers : WorkerStep(t)

ReplaySpec == ReplayInit /\ [][ReplayNext]_replayVars

(* Workers and the replayer process are scheduled preemptively and spin by *)
(* reading again; the application runs its transactions and then quits.    *)
ReplayFairSpec == /\ ReplaySpec
                  /\ WF_replayVars(ReplayerStep)
                  /\ WF_replayVars(Quit)
                  /\ \A t \in Workers : WF_replayVars(WorkerStep(t))
-----------------------------------------------------------------------------
ReplayTypeOK ==
    /\ log \in [Workers -> [Positions -> Words]]
    /\ next \in [Workers -> Positions]
    /\ start \in [Workers -> Positions]
    /\ wpc \in [Workers -> {"idle", "fetched", "body", "close"}]
    /\ end \in [Workers -> Positions]
    /\ now \in 0 .. MaxTs
    /\ begun \in [Workers -> 0 .. MaxTx]
    /\ quit \in BOOLEAN
    /\ rpc \in {"top", "scan", "walk", "apply", "clock", "done"}
    /\ leaving \in BOOLEAN
    /\ cur \in [Workers -> Positions]
    /\ ri \in 0 .. N
    /\ pos \in Positions
    /\ pick \in Workers \cup {None}
    /\ pickTs \in 0 .. NoTs
    /\ heap \in [Addrs \cup {0} -> Words]
    /\ wanted \in [Addrs \cup {0} -> Words]
    /\ replayed \in 0 .. MaxTs
    /\ inSight \subseteq 1 .. MaxTs

(* The ring is not overrun: every word of a log that is visible and not    *)
(* replayed is as its transaction wrote it, whatever the worker has begun  *)
(* since. apply_log gives words back "so that the worker threads can reuse *)
(* log space", and before that they must not.                              *)
WordsKept ==
    \A t \in Workers : \A k \in Visible(t) :
        LET x == pending[t][k] IN
        \A j \in 0 .. Length(x) - 1 : log[t][Wrap(x.at + j)] = Encoded(x, j)

(* The replayer stores what transactions wrote and nothing else, each      *)
(* transaction as a whole: between logs the heap is the effect of the logs *)
(* replayed so far, and within one it is that and the first of its writes. *)
HeapWhole ==
    IF rpc # "apply" THEN heap = wanted
    ELSE /\ pending[pick] # <<>>
         /\ LET body == pending[pick][1].body IN
            \E k \in 0 .. Len(body) : heap = Store(wanted, SubSeq(body, 1, k))

(* Of the logs that were visible when the round over the threads began,    *)
(* the replayer picks the oldest, although the logs it walks grow and      *)
(* others become visible while it looks.                                   *)
PicksOldestSeen ==
    rpc = "apply" => \A ts \in inSight : pending[pick][1].ts <= ts

(* "we know the app has quit, but there might still be logs to be          *)
(* replayed [...] no more logs, we are safe to quit": a replayer that has  *)
(* left its loop leaves no log behind, and page-ins that wait for its      *)
(* clock find the last timestamp in it.                                    *)
SafeToQuit ==
    rpc = "done" => replayed = now /\ \A t \in Workers : pending[t] = <<>>

(* get_current_thread_whom_log_need_to_be_replayed returns "the thread id  *)
(* of the log with the oldest timestamp".                                  *)
PicksOldest ==
    [][Choose => \A ts \in VisibleTs : pending[pick][1].ts <= ts]_replayVars

(* When the replayer leaves, every log has been replayed and the clock     *)
(* that page-ins wait for has reached the last transaction; and it leaves: *)
(* no worker waits for ever for log space, no log stays behind.            *)
Drains == <>[](/\ rpc = "done" /\ replayed = now
               /\ \A t \in Workers : pending[t] = <<>>)
=============================================================================
