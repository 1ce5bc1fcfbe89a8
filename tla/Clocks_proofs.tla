--------------------------- MODULE Clocks_proofs ---------------------------
(***************************************************************************)
(* Safety of the physical- and the logical-clock commit for every number   *)
(* of threads, of transactions and of clock values. MarkerOrder is not     *)
(* inductive. What carries it, with physical clocks:                       *)
(*                                                                         *)
(*   Timestamps  a thread shows a timestamp without bit 63 from the        *)
(*               beginning of a transaction until its marker is durable,   *)
(*               and it is not above the one the transaction commits with; *)
(*   Waits       a thread past u in wait_commit has seen u flushed or with *)
(*               a larger timestamp, and that stays so;                    *)
(*   Pending     a transaction whose marker is not durable is the one its  *)
(*               thread is committing;                                     *)
(*   Markers     hence a marker is written when every older transaction is *)
(*               durable, and none can commit behind it any more.          *)
(*                                                                         *)
(* With logical clocks the counter stands for the transactions committed   *)
(* so far, so that the bound on these (Counted) bounds it.                 *)
(***************************************************************************)
EXTENDS Clocks, HtmSgl_proofs, FiniteSetTheorems, WellFoundedInduction

Running == {"begin", "htm", "doomed", "sgl"}
Published == {"close", "marker", "fence", "done"}
Unfinished == {"announce", "close", "marker", "fence"}
Logged == {"marker", "fence", "done", "readts", "readin"}

(* How the two places of a thread, its log and its pass go together.       *)
PlacesAgree == \A t \in Threads :
   /\ cpc[t] = "body" => hpc[t] # "out"
   /\ cpc[t] = "stamped" => hpc[t] \in {"htm", "doomed", "sgl"}
   /\ cpc[t] \notin {"body", "stamped"} => hpc[t] = "out"
   /\ cpc[t] \in Logged \/ (Lc /\ cpc[t] = "close") => update[t]
   /\ cpc[t] = "done" => Pc
   /\ cpc[t] \in {"readts", "readin", "ret"} => Lc
   /\ cpc[t] = "readin" => toRead[t] # {}

Timestamps == Pc => \A t \in Threads :
   /\ ts[t] # Invalid => ts[t].v <= clock
   /\ rcv[t] <= clock
   /\ hpc[t] \in Running => ~ ts[t].done
   /\ cpc[t] \in {"stamped", "announce"} => ~ ts[t].done /\ ts[t].v < rcv[t]
   /\ cpc[t] \in Published => ~ ts[t].done /\ ts[t].v = rcv[t]

Cleared(t, u) == ts[u].done \/ Larger(ts[u].v, rcv[t], u, t)

Waits == Pc => \A t, u \in Threads :
   cpc[t] = "marker" /\ u # t => u \in toRead[t] \cup waiting[t] \/ Cleared(t, u)

Logs ==
    /\ marked \subseteq hist /\ marked \subseteq entries
    /\ durable \subseteq marked /\ acked \subseteq durable
    /\ \A t \in Threads :
          /\ cpc[t] \in {"announce", "close"} \cup Logged /\ update[t] => MyTx(t) \in hist
          /\ cpc[t] \in Logged => MyTx(t) \in entries
          /\ cpc[t] \in Logged \ {"marker"} => MyTx(t) \in marked
          /\ cpc[t] \in {"done", "readts", "readin", "ret"} /\ update[t]
                => MyTx(t) \in durable

Below == \A x \in hist : x.v <= clock

Pending == Pc => \A x \in hist :
   /\ x \notin durable => cpc[x.t] \in Unfinished /\ update[x.t] /\ x.v = rcv[x.t]
   /\ hpc[x.t] \in Running => x.v < ts[x.t].v

Markers == Pc => \A x \in marked :
   /\ \A y \in hist : y.v < x.v => y \in durable
   /\ \A u \in Threads : ~ ts[u].done => x.v <= ts[u].v

(* The update transactions of a thread, and whether one may still commit.  *)
CommitsOf(t) == {x \in hist : x.t = t}
Open(t) == IF cpc[t] \in {"body", "stamped"} THEN 1 ELSE 0

Counted == /\ IsFiniteSet(hist)
           /\ Lc => clock = Cardinality(hist)
           /\ \A t \in Threads : Cardinality(CommitsOf(t)) + Open(t) <= begun[t]

ClocksInv == /\ ClocksTypeOK
             /\ HtmInv
             /\ PlacesAgree
             /\ Timestamps
             /\ Waits
             /\ Logs
             /\ Below
             /\ Pending
             /\ Markers
             /\ Counted
-----------------------------------------------------------------------------

(* A non-empty set of threads has a first one.                             *)
LEMMA FirstThread ==
  ASSUME NEW S, S \subseteq Threads, S # {}
  PROVE  Next1(S) \in S
  <1>1. \E i \in S : \A j \in S : <<j, i>> \notin OpToRel(<, Nat)
    <2>1. S \subseteq Nat
      BY HtmAssumption DEF Threads
    <2> QED
      BY <2>1, WFMin, NatLessThanWellFounded, Zenon
  <1>2. \A i, j \in S : i \in Nat /\ j \in Nat
    BY HtmAssumption DEF Threads
  <1>3. \A i, j \in S : j < i => <<j, i>> \in OpToRel(<, Nat)
    BY <1>2, Zenon DEF OpToRel
  <1>4. \E i \in S : \A j \in S : ~ (j < i)
    BY <1>1, <1>3, Zenon
  <1>5. \E i \in S : \A j \in S : i <= j
    BY <1>2, <1>4
  <1> QED
    BY <1>5 DEF Next1

(* Transactions that each thread commits at most MaxTx times with distinct *)
(* timestamps are N * MaxTx at most: each takes the slot of its rank among *)
(* its thread's.                                                           *)
LEMMA CommitsBounded ==
  ASSUME NEW H, IsFiniteSet(H), H \subseteq [t : Threads, v : Int],
         \A t \in Threads : Cardinality({x \in H : x.t = t}) <= MaxTx
  PROVE  Cardinality(H) <= N * MaxTx
  <1> DEFINE Of(t) == {x \in H : x.t = t}
             UpTo(x) == {y \in H : y.t = x.t /\ y.v <= x.v}
             Slots == Threads \X (1 .. MaxTx)
             f == [x \in H |-> <<x.t, Cardinality(UpTo(x))>>]
  <1>1. \A x \in H : x.t \in Threads /\ x.v \in Int
    OBVIOUS
  <1>2. \A x, y \in H : x.t = y.t /\ x.v = y.v => x = y
    OBVIOUS
  <1>3. \A x \in H : IsFiniteSet(UpTo(x)) /\ IsFiniteSet(Of(x.t))
    BY FS_Subset
  <1>4. \A x \in H : Cardinality(UpTo(x)) \in 1 .. MaxTx
    <2> TAKE x \in H
    <2>1. Cardinality(UpTo(x)) <= Cardinality(Of(x.t))
      BY <1>3, FS_Subset
    <2>2. UpTo(x) # {}
      BY <1>1
    <2>3. Cardinality(UpTo(x)) \in Nat /\ Cardinality(Of(x.t)) \in Nat
      BY <1>3, FS_CardinalityType
    <2>4. Cardinality(UpTo(x)) # 0
      BY <2>2, <1>3, FS_EmptySet
    <2>5. Cardinality(Of(x.t)) <= MaxTx
      BY <1>1
    <2> HIDE DEF UpTo, Of
    <2> QED
      BY <2>1, <2>3, <2>4, <2>5, HtmAssumption
  <1>5. \A x, y \in H : x.t = y.t /\ x.v < y.v
           => Cardinality(UpTo(x)) < Cardinality(UpTo(y))
    <2> SUFFICES ASSUME NEW x \in H, NEW y \in H, x.t = y.t, x.v < y.v
                 PROVE  Cardinality(UpTo(x)) < Cardinality(UpTo(y))
      OBVIOUS
    <2>1. UpTo(x) \subseteq UpTo(y)
      BY <1>1
    <2>2. y \in UpTo(y) /\ y \notin UpTo(x)
      BY <1>1
    <2>3. /\ Cardinality(UpTo(x)) \in Nat /\ Cardinality(UpTo(y)) \in Nat
          /\ Cardinality(UpTo(x)) <= Cardinality(UpTo(y))
          /\ Cardinality(UpTo(x)) # Cardinality(UpTo(y))
      <3> HIDE DEF UpTo
      <3> QED
        BY <1>3, <2>1, <2>2, FS_Subset, FS_CardinalityType
    <2> HIDE DEF UpTo
    <2> QED
      BY <2>3
  <1>6. f \in Injection(H, Slots)
    <2>1. f \in [H -> Slots]
      BY <1>1, <1>4
    <2>2. ASSUME NEW x \in H, NEW y \in H, f[x] = f[y] PROVE x = y
      <3>1. x.t = y.t /\ Cardinality(UpTo(x)) = Cardinality(UpTo(y))
        BY <2>2
      <3>2. Cardinality(UpTo(x)) \in Int
        BY <1>4, HtmAssumption
      <3> HIDE DEF UpTo
      <3> QED
        BY <1>1, <1>2, <1>5, <3>1, <3>2
    <2> QED
      BY <2>1, <2>2 DEF Injection, IsInjective
  <1>7. IsFiniteSet(Slots) /\ Cardinality(Slots) = N * MaxTx
    <2>1. IsFiniteSet(Threads) /\ Cardinality(Threads) = N
      BY FS_Interval, HtmAssumption DEF Threads
    <2>2. IsFiniteSet(1 .. MaxTx) /\ Cardinality(1 .. MaxTx) = MaxTx
      BY FS_Interval, HtmAssumption
    <2> QED
      BY <2>1, <2>2, FS_Product
  <1> HIDE DEF f, Slots
  <1> QED
    BY <1>6, <1>7, FS_Injection
-----------------------------------------------------------------------------
(* Every step takes a step of the template or leaves it alone, and none    *)
(* changes the protocol.                                                   *)
LEMMA TemplateFrame == ClocksNext => HtmNext \/ UNCHANGED htmVars
  <1>1. ASSUME NEW t \in Threads, TemplateStep(t) PROVE HtmNext \/ UNCHANGED htmVars
    BY <1>1 DEF TemplateStep, CEnter, CheckedFree, Hidden, Renewed, CAborts, Stamp, CCommit,
         HtmNext
  <1>2. ASSUME NEW t \in Threads, CommitStep(t) PROVE UNCHANGED htmVars
    BY <1>2 DEF CommitStep, Announce, PcReadOnly, LcReadOnly, FlushEntries, Scan, WaitFor,
         WriteMarker, PcFence, PcReturn, LcFence, ReadTs, ReadIn, EndRound, LcReturn
  <1>3. ASSUME NEW x \in marked, EvictMarker(x) PROVE UNCHANGED htmVars
    BY <1>3 DEF EvictMarker
  <1>4. Finished => UNCHANGED htmVars
    BY DEF Finished, clocksVars
  <1> QED
    BY <1>1, <1>2, <1>3, <1>4 DEF ClocksNext

(* The invariant of the retry template carries over to the whole           *)
(* protocol.                                                               *)
LEMMA TemplateInv == HtmInv /\ ClocksNext => HtmInv'
  BY TemplateFrame, HtmStepInv

(* No step changes which of the two protocols the program was built        *)
(* with.                                                                   *)
LEMMA SameProtocol == ClocksNext => UNCHANGED protocol
  <1>1. ASSUME NEW t \in Threads, TemplateStep(t) PROVE UNCHANGED protocol
    BY <1>1 DEF TemplateStep, CEnter, CheckedFree, Hidden, Renewed, CAborts, Stamp, CCommit
  <1>2. ASSUME NEW t \in Threads, CommitStep(t) PROVE UNCHANGED protocol
    BY <1>2 DEF CommitStep, Announce, PcReadOnly, LcReadOnly, FlushEntries, Scan, WaitFor,
         WriteMarker, PcFence, PcReturn, LcFence, ReadTs, ReadIn, EndRound, LcReturn
  <1>3. ASSUME NEW x \in marked, EvictMarker(x) PROVE UNCHANGED protocol
    BY <1>3 DEF EvictMarker
  <1>4. Finished => UNCHANGED protocol
    BY DEF Finished, clocksVars
  <1> QED
    BY <1>1, <1>2, <1>3, <1>4 DEF ClocksNext

(* The values of gs_ts_array.                                              *)
TsTypes == [Threads -> [v : 0 .. MaxClock, done : BOOLEAN] \cup {Invalid}]

(* What storing a timestamp does to its thread and leaves to the others.   *)
LEMMA SetTsAt ==
  ASSUME ts \in TsTypes, NEW t \in Threads, NEW v, NEW done, SetTs(t, v, done)
  PROVE  /\ ts'[t].v = v /\ ts'[t].done = done
         /\ \A u \in Threads \ {t} : ts'[u] = ts[u]
         /\ v \in 0 .. MaxClock /\ done \in BOOLEAN => ts' \in TsTypes
  BY DEF TsTypes, SetTs, Word

(* The same of on_before_htm_begin: a new value of the clock (pc), or      *)
(* the largest one (lc).                                                   *)
LEMMA RenewTsAt ==
  ASSUME clock \in 0 .. MaxClock, ts \in TsTypes, NEW t \in Threads, RenewTs(t)
  PROVE  /\ clock' \in 0 .. MaxClock /\ ts' \in TsTypes
         /\ Pc => clock' = clock + 1 /\ ts'[t].v = clock + 1
         /\ ~ ts'[t].done
         /\ \A u \in Threads \ {t} : ts'[u] = ts[u]
         /\ Lc => UNCHANGED clock
  <1>1. CASE Lc
    <2>1. SetTs(t, MaxClock, FALSE) /\ UNCHANGED clock
      BY <1>1 DEF RenewTs
    <2>2. MaxClock \in 0 .. MaxClock
      BY ClocksAssumption
    <2> QED
      BY <1>1, <2>1, <2>2, SetTsAt DEF Pc, Lc
  <1>2. CASE ~ Lc
    <2>0. MaxClock \in Nat
      BY ClocksAssumption
    <2>1. clock < MaxClock /\ clock' = clock + 1 /\ SetTs(t, clock + 1, FALSE)
      BY <1>2, Zenon DEF RenewTs
    <2>2. clock + 1 \in 0 .. MaxClock
      BY <2>0, <2>1
    <2> QED
      BY <1>2, <2>1, <2>2, SetTsAt
  <1> QED
    BY <1>1, <1>2

(* The same of reset_timestamp, which hides the thread.                    *)
LEMMA ResetTsAt ==
  ASSUME ts \in TsTypes, NEW t \in Threads, ResetTs(t)
  PROVE  /\ ts'[t].done /\ ts'[t] = Invalid /\ UNCHANGED clock
         /\ \A u \in Threads \ {t} : ts'[u] = ts[u]
         /\ ts' \in TsTypes
  BY DEF TsTypes, ResetTs, Invalid, Word

(* What the type invariant says of one thread, one timestamp or one        *)
(* transaction.                                                            *)
LEMMA TypeParts ==
  ASSUME ClocksTypeOK
  PROVE  /\ clock \in 0 .. MaxClock /\ ts \in TsTypes
         /\ \A t \in Threads : rcv[t] \in 0 .. MaxClock
         /\ \A t \in Threads : ~ ts[t].done => ts[t].v \in 0 .. MaxClock /\ ts[t] # Invalid
         /\ \A x \in hist : x \in Tx /\ x.t \in Threads /\ x.v \in 0 .. MaxClock
         /\ \A t \in Threads : MyTx(t).t = t /\ MyTx(t).v = rcv[t] /\ MyTx(t) \in Tx
         /\ \A t \in Threads, x \in Tx : x.t = t /\ x.v = rcv[t] => x = MyTx(t)
  BY DEF ClocksTypeOK, TsTypes, Tx, MyTx, Invalid, Word
-----------------------------------------------------------------------------
(* One transaction more in the history is one more of its thread.          *)
LEMMA HistCounts ==
  ASSUME ClocksTypeOK, Counted, NEW t \in Threads, cpc[t] = "stamped", NEW x, x.t = t
  PROVE  LET H == hist \cup {x} IN
         /\ IsFiniteSet(H)
         /\ x \notin hist => Cardinality(H) = Cardinality(hist) + 1
         /\ \A u \in Threads : Cardinality({y \in H : y.t = u}) + (IF u = t THEN 0 ELSE Open(u))
                                  <= begun[u]
  <1> DEFINE H == hist \cup {x}
             Of(u) == {y \in H : y.t = u}
  <1>1. IsFiniteSet(H) /\ (x \notin hist => Cardinality(H) = Cardinality(hist) + 1)
    BY FS_AddElement DEF Counted
  <1>2. ASSUME NEW u \in Threads
        PROVE  Cardinality(Of(u)) + (IF u = t THEN 0 ELSE Open(u)) <= begun[u]
    <2>1. /\ IsFiniteSet(CommitsOf(u)) /\ Cardinality(CommitsOf(u)) \in Nat
          /\ Cardinality(CommitsOf(u)) + Open(u) <= begun[u]
          /\ begun[u] \in Int
      <3>1. CommitsOf(u) \subseteq hist /\ IsFiniteSet(hist)
        BY DEF CommitsOf, Counted
      <3>2. IsFiniteSet(CommitsOf(u))
        BY <3>1, FS_Subset
      <3>3. begun[u] \in Int
        BY HtmAssumption DEF ClocksTypeOK, HtmTypeOK
      <3> QED
        BY <3>2, <3>3, FS_CardinalityType DEF Counted
    <2>2. CASE u # t
      <3>1. Of(u) = CommitsOf(u)
        BY <2>2 DEF CommitsOf
      <3> QED
        BY <2>1, <2>2, <3>1
    <2>3. CASE u = t
      <3>1. Of(u) = CommitsOf(u) \cup {x}
        BY <2>3 DEF CommitsOf
      <3>2. Cardinality(Of(u)) = IF x \in CommitsOf(u) THEN Cardinality(CommitsOf(u))
                                 ELSE Cardinality(CommitsOf(u)) + 1
        <4> HIDE DEF Of
        <4> QED
          BY <2>1, <3>1, FS_AddElement
      <3>3. Open(u) = 1
        BY <2>3 DEF Open
      <3> QED
        BY <2>1, <2>3, <3>2, <3>3
    <2> QED
      BY <2>2, <2>3
  <1> QED
    BY <1>1, <1>2

(* The counter of logical clocks stays below its largest value.            *)
LEMMA TickFits ==
  ASSUME ClocksTypeOK, Counted, Below, Lc, NEW t \in Threads, cpc[t] = "stamped"
  PROVE  /\ clock + 1 \in 0 .. MaxClock
         /\ Cardinality(hist \cup {[t |-> t, v |-> clock + 1]}) = clock + 1
  <1> DEFINE x == [t |-> t, v |-> clock + 1]
             H == hist \cup {x}
  <1>1. clock \in Int /\ clock >= 0 /\ MaxClock \in Int
    BY ClocksAssumption DEF ClocksTypeOK
  <1>2. x \notin hist
    BY <1>1 DEF Below
  <1>3. IsFiniteSet(H) /\ Cardinality(H) = clock + 1
    BY <1>2, HistCounts DEF Counted
  <1>4. H \subseteq [t : Threads, v : Int]
    BY <1>1 DEF ClocksTypeOK, Tx
  <1>5. ASSUME NEW u \in Threads PROVE Cardinality({y \in H : y.t = u}) <= MaxTx
    <2>1. Cardinality({y \in H : y.t = u}) + (IF u = t THEN 0 ELSE Open(u)) <= begun[u]
      BY HistCounts
    <2>2. IsFiniteSet({y \in H : y.t = u})
      BY <1>3, FS_Subset
    <2>3. Cardinality({y \in H : y.t = u}) \in Int
      BY <2>2, FS_CardinalityType
    <2>4. begun[u] \in Int /\ begun[u] <= MaxTx /\ MaxTx \in Int
      BY HtmAssumption DEF ClocksTypeOK, HtmTypeOK
    <2> QED
      BY <2>1, <2>3, <2>4 DEF Open
  <1>6. clock + 1 <= N * MaxTx
    BY <1>3, <1>4, <1>5, CommitsBounded
  <1>7. N * MaxTx \in Int /\ N * MaxTx < MaxClock
    BY HtmAssumption, ClocksAssumption
  <1>8. clock + 1 <= MaxClock
    BY <1>1, <1>6, <1>7
  <1> QED
    BY <1>1, <1>3, <1>8
-----------------------------------------------------------------------------
(* Every step keeps the types; that the counter has room is TickFits.      *)
LEMMA TypesStep ==
  ASSUME ClocksTypeOK, HtmTypeOK', PlacesAgree, Below, Counted, ClocksNext
  PROVE  ClocksTypeOK'
  <1> USE DEF ClocksTypeOK, threadVars, waitVars, logVars
  <1>1. ASSUME NEW t \in Threads, CEnter(t) PROVE ClocksTypeOK'
    <2>1. clock' \in 0 .. MaxClock /\ ts' \in TsTypes
      <3>1. CASE Lc
        BY <1>1, <3>1 DEF CEnter, TsTypes
      <3>2. CASE ~ Lc
        BY <1>1, <3>2, RenewTsAt DEF CEnter, TsTypes
      <3> QED
        BY <3>1, <3>2
    <2>2. inTx' \in [Threads -> BOOLEAN]
      BY <1>1 DEF CEnter
    <2> QED
      BY <1>1, <2>1, <2>2 DEF CEnter, Phase, TsTypes
  <1>2. ASSUME NEW t \in Threads, CheckedFree(t) PROVE ClocksTypeOK'
    BY <1>2 DEF CheckedFree
  <1>3. ASSUME NEW t \in Threads, Hidden(t) PROVE ClocksTypeOK'
    <2>1. clock' \in 0 .. MaxClock /\ ts' \in TsTypes
      BY <1>3, ResetTsAt DEF Hidden, TsTypes
    <2> QED
      BY <1>3, <2>1 DEF Hidden, TsTypes
  <1>4. ASSUME NEW t \in Threads, Renewed(t) PROVE ClocksTypeOK'
    <2>1. clock' \in 0 .. MaxClock /\ ts' \in TsTypes
      BY <1>4, RenewTsAt DEF Renewed, TsTypes
    <2> QED
      BY <1>4, <2>1 DEF Renewed, TsTypes
  <1>5. ASSUME NEW t \in Threads, CAborts(t) PROVE ClocksTypeOK'
    <2>1. clock' \in 0 .. MaxClock /\ ts' \in TsTypes
      BY <1>5, RenewTsAt DEF CAborts, TsTypes
    <2> QED
      BY <1>5, <2>1 DEF CAborts, TsTypes
  <1>6. ASSUME NEW t \in Threads, Stamp(t) PROVE ClocksTypeOK'
    <2>1. clock' \in 0 .. MaxClock /\ rcv' \in [Threads -> 0 .. MaxClock]
      <3>1. CASE Lc
        BY <1>6, <3>1 DEF Stamp
      <3>2. CASE ~ Lc
        BY <1>6, <3>2, ClocksAssumption DEF Stamp
      <3> QED
        BY <3>1, <3>2
    <2>2. update' \in [Threads -> BOOLEAN]
      BY <1>6 DEF Stamp
    <2> QED
      BY <1>6, <2>1, <2>2 DEF Stamp, Phase
  <1>7. ASSUME NEW t \in Threads, CCommit(t) PROVE ClocksTypeOK'
    <2>1. clock' \in 0 .. MaxClock /\ rcv' \in [Threads -> 0 .. MaxClock]
      <3>1. CASE Lc /\ update[t]
        BY <1>7, <3>1, TickFits DEF CCommit, Phase
      <3>2. CASE ~ (Lc /\ update[t])
        BY <1>7, <3>2 DEF CCommit
      <3> QED
        BY <3>1, <3>2
    <2>2. hist' \subseteq Tx
      BY <1>7, <2>1 DEF CCommit, Tx
    <2> QED
      BY <1>7, <2>1, <2>2 DEF CCommit, Phase
  <1>8. ASSUME NEW t \in Threads, Announce(t) PROVE ClocksTypeOK'
    <2>1. ts' \in TsTypes
      <3>1. SetTs(t, rcv[t], FALSE)
        BY <1>8 DEF Announce
      <3>2. ts \in TsTypes /\ rcv[t] \in 0 .. MaxClock
        BY <1>8, TypeParts
      <3> QED
        BY <1>8, <3>1, <3>2, SetTsAt
    <2> QED
      BY <1>8, <2>1 DEF Announce, Phase, TsTypes
  <1>9. ASSUME NEW t \in Threads, PcReadOnly(t) PROVE ClocksTypeOK'
    <2>1. ts' \in TsTypes
      <3>1. SetTs(t, rcv[t], TRUE)
        BY <1>9 DEF PcReadOnly
      <3>2. ts \in TsTypes /\ rcv[t] \in 0 .. MaxClock
        BY <1>9, TypeParts
      <3> QED
        BY <1>9, <3>1, <3>2, SetTsAt
    <2> QED
      BY <1>9, <2>1 DEF PcReadOnly, Phase, TsTypes
  <1>10. ASSUME NEW t \in Threads, LcReadOnly(t) PROVE ClocksTypeOK'
    BY <1>10 DEF LcReadOnly, Phase
  <1>11. ASSUME NEW t \in Threads, FlushEntries(t) PROVE ClocksTypeOK'
    BY <1>11 DEF FlushEntries, Phase, MyTx, Tx, Others
  <1>12. ASSUME NEW t \in Threads, Scan(t) PROVE ClocksTypeOK'
    <2>1. Next1(toRead[t]) \in Threads
      BY <1>12, FirstThread DEF Scan
    <2> QED
      BY <1>12, <2>1 DEF Scan
  <1>13. ASSUME NEW t \in Threads, WaitFor(t) PROVE ClocksTypeOK'
    BY <1>13 DEF WaitFor
  <1>14. ASSUME NEW t \in Threads, WriteMarker(t) PROVE ClocksTypeOK'
    BY <1>14 DEF WriteMarker, Phase, MyTx, Tx
  <1>15. ASSUME NEW t \in Threads, PcFence(t) PROVE ClocksTypeOK'
    BY <1>15 DEF PcFence, Phase, MyTx, Tx
  <1>16. ASSUME NEW t \in Threads, PcReturn(t) PROVE ClocksTypeOK'
    <2>1. ts' \in TsTypes
      <3>1. SetTs(t, rcv[t], TRUE)
        BY <1>16 DEF PcReturn
      <3>2. ts \in TsTypes /\ rcv[t] \in 0 .. MaxClock
        BY <1>16, TypeParts
      <3> QED
        BY <1>16, <3>1, <3>2, SetTsAt
    <2>2. acked' \subseteq Tx
      BY <1>16 DEF PcReturn, MyTx, Tx
    <2> QED
      BY <1>16, <2>1, <2>2 DEF PcReturn, Phase, TsTypes
  <1>17. ASSUME NEW t \in Threads, LcFence(t) PROVE ClocksTypeOK'
    BY <1>17 DEF LcFence, Phase, MyTx, Tx, Others
  <1>18. ASSUME NEW t \in Threads, ReadTs(t) PROVE ClocksTypeOK'
    <2>1. Next1(toRead[t]) \in Threads
      BY <1>18, FirstThread DEF ReadTs
    <2>2. ts[Next1(toRead[t])].v \in 0 .. MaxClock + 1
      BY <2>1, ClocksAssumption DEF Invalid, Word
    <2> QED
      BY <1>18, <2>2 DEF ReadTs, Phase
  <1>19. ASSUME NEW t \in Threads, ReadIn(t) PROVE ClocksTypeOK'
    <2>1. Next1(toRead[t]) \in Threads
      BY <1>19, FirstThread DEF ReadIn, Phase, PlacesAgree
    <2>2. /\ target' \in [Threads -> Threads \cup {None}]
          /\ allDone' \in [Threads -> BOOLEAN]
          /\ toRead' \in [Threads -> SUBSET Threads]
      BY <1>19, <2>1 DEF ReadIn
    <2> QED
      BY <1>19, <2>2 DEF ReadIn, Phase
  <1>20. ASSUME NEW t \in Threads, EndRound(t) PROVE ClocksTypeOK'
    <2>1. toRead' \in [Threads -> SUBSET Threads]
      BY <1>20 DEF EndRound, Others
    <2> QED
      BY <1>20, <2>1 DEF EndRound, Phase
  <1>21. ASSUME NEW t \in Threads, LcReturn(t) PROVE ClocksTypeOK'
    BY <1>21 DEF LcReturn, Phase, MyTx, Tx
  <1>22. ASSUME NEW e \in marked, EvictMarker(e) PROVE ClocksTypeOK'
    BY <1>22 DEF EvictMarker
  <1>23. CASE Finished
    BY <1>23 DEF Finished, clocksVars
  <1> QED
    BY <1>1, <1>2, <1>3, <1>4, <1>5, <1>6, <1>7, <1>8, <1>9, <1>10, <1>11, <1>12,
       <1>13, <1>14, <1>15, <1>16, <1>17, <1>18, <1>19, <1>20, <1>21, <1>22,
       <1>23
    DEF ClocksNext, TemplateStep, CommitStep

(* The places of a thread, its log and its pass over the others.           *)
LEMMA PlacesStep ==
  ASSUME ClocksTypeOK, HtmTypeOK', PlacesAgree, ClocksNext
  PROVE  PlacesAgree'
  <1> USE DEF ClocksTypeOK, HtmTypeOK, PlacesAgree, Logged, threadVars, waitVars, logVars,
              htmVars, Pc, Lc
  <1>1. ASSUME NEW t \in Threads, CEnter(t) PROVE PlacesAgree'
    BY <1>1 DEF CEnter, Enter, Goto, Phase, RenewTs, SetTs
  <1>2. ASSUME NEW t \in Threads, CheckedFree(t) PROVE PlacesAgree'
    BY <1>2 DEF CheckedFree, CheckFree, Unblock, Subscribe, Acquire, Goto
  <1>3. ASSUME NEW t \in Threads, Hidden(t) PROVE PlacesAgree'
    BY <1>3 DEF Hidden, CheckTaken, Fallback, Goto, ResetTs
  <1>4. ASSUME NEW t \in Threads, Renewed(t) PROVE PlacesAgree'
    BY <1>4 DEF Renewed, Renew, RenewLocked, Goto, RenewTs, SetTs
  <1>5. ASSUME NEW t \in Threads, CAborts(t) PROVE PlacesAgree'
    BY <1>5 DEF CAborts, AbortTaken, Abort, AbortFault, Retry, RenewTs, SetTs
  <1>6. ASSUME NEW t \in Threads, Stamp(t) PROVE PlacesAgree'
    BY <1>6 DEF Stamp, Phase
  <1>7. ASSUME NEW t \in Threads, CCommit(t) PROVE PlacesAgree'
    BY <1>7 DEF CCommit, CommitHtm, Release, Goto, Phase
  <1>8. ASSUME NEW t \in Threads, Announce(t) PROVE PlacesAgree'
    BY <1>8 DEF Announce, Phase, SetTs
  <1>9. ASSUME NEW t \in Threads, PcReadOnly(t) PROVE PlacesAgree'
    BY <1>9 DEF PcReadOnly, Phase, SetTs
  <1>10. ASSUME NEW t \in Threads, LcReadOnly(t) PROVE PlacesAgree'
    BY <1>10 DEF LcReadOnly, Phase
  <1>11. ASSUME NEW t \in Threads, FlushEntries(t) PROVE PlacesAgree'
    BY <1>11 DEF FlushEntries, Phase
  <1>12. ASSUME NEW t \in Threads, Scan(t) PROVE PlacesAgree'
    BY <1>12 DEF Scan
  <1>13. ASSUME NEW t \in Threads, WaitFor(t) PROVE PlacesAgree'
    BY <1>13 DEF WaitFor
  <1>14. ASSUME NEW t \in Threads, WriteMarker(t) PROVE PlacesAgree'
    BY <1>14 DEF WriteMarker, Phase
  <1>15. ASSUME NEW t \in Threads, PcFence(t) PROVE PlacesAgree'
    BY <1>15 DEF PcFence, Phase
  <1>16. ASSUME NEW t \in Threads, PcReturn(t) PROVE PlacesAgree'
    BY <1>16 DEF PcReturn, Phase, SetTs
  <1>17. ASSUME NEW t \in Threads, LcFence(t) PROVE PlacesAgree'
    BY <1>17 DEF LcFence, Phase
  <1>18. ASSUME NEW t \in Threads, ReadTs(t) PROVE PlacesAgree'
    BY <1>18 DEF ReadTs, Phase
  <1>19. ASSUME NEW t \in Threads, ReadIn(t) PROVE PlacesAgree'
    BY <1>19 DEF ReadIn, Phase
  <1>20. ASSUME NEW t \in Threads, EndRound(t) PROVE PlacesAgree'
    BY <1>20 DEF EndRound, Phase
  <1>21. ASSUME NEW t \in Threads, LcReturn(t) PROVE PlacesAgree'
    BY <1>21 DEF LcReturn, Phase
  <1>22. ASSUME NEW e \in marked, EvictMarker(e) PROVE PlacesAgree'
    BY <1>22 DEF EvictMarker, htmVars
  <1>23. CASE Finished
    BY <1>23 DEF Finished, clocksVars
  <1> QED
    BY <1>1, <1>2, <1>3, <1>4, <1>5, <1>6, <1>7, <1>8, <1>9, <1>10, <1>11, <1>12,
       <1>13, <1>14, <1>15, <1>16, <1>17, <1>18, <1>19, <1>20, <1>21, <1>22,
       <1>23
    DEF ClocksNext, TemplateStep, CommitStep

(* What the steps that write a timestamp do, with physical clocks: those   *)
(* that begin or retry a transaction renew it, those that announce a       *)
(* commit or end it store the one taken in the transaction.                *)
LEMMA RenewFrame ==
  ASSUME ClocksTypeOK, PlacesAgree, Pc, NEW t \in Threads,
         CEnter(t) \/ Renewed(t) \/ CAborts(t)
  PROVE  /\ clock' = clock + 1
         /\ ts'[t].v = clock + 1 /\ ~ ts'[t].done
         /\ cpc[t] \in {"idle", "body", "stamped"} /\ cpc'[t] = "body"
         /\ \A u \in Threads \ {t} : ts'[u] = ts[u] /\ cpc'[u] = cpc[u] /\ hpc'[u] = hpc[u]
         /\ UNCHANGED <<rcv, update, toRead, waiting, hist, marked, entries, durable, acked>>
  <1>1. RenewTs(t)
    BY DEF CEnter, Renewed, CAborts, Pc, Lc
  <1>2. /\ clock' = clock + 1
        /\ ts'[t].v = clock + 1 /\ ~ ts'[t].done
        /\ \A u \in Threads \ {t} : ts'[u] = ts[u]
    BY <1>1, TypeParts, RenewTsAt
  <1>3. cpc[t] \in {"idle", "body", "stamped"} /\ cpc'[t] = "body"
    <2>1. CASE CEnter(t)
      BY <2>1 DEF CEnter, Phase, ClocksTypeOK
    <2>2. CASE Renewed(t)
      BY <2>2 DEF Renewed, Renew, RenewLocked, Goto, ClocksTypeOK, PlacesAgree
    <2>3. CASE CAborts(t)
      BY <2>3 DEF CAborts, AbortTaken, Abort, AbortFault, Retry, ClocksTypeOK, PlacesAgree
    <2> QED
      BY <2>1, <2>2, <2>3
  <1>4. \A u \in Threads \ {t} : cpc'[u] = cpc[u] /\ hpc'[u] = hpc[u]
    BY DEF CEnter, Renewed, CAborts, Enter, Renew, RenewLocked, AbortTaken, Abort,
           AbortFault, Retry, Goto, Phase, ClocksTypeOK, HtmTypeOK
  <1>5. UNCHANGED <<rcv, update, toRead, waiting, hist, marked, entries, durable, acked>>
    BY DEF CEnter, Renewed, CAborts, threadVars, waitVars, logVars
  <1> QED
    BY <1>2, <1>3, <1>4, <1>5

(* Announcing or ending a commit stores the timestamp taken in the         *)
(* transaction.                                                            *)
LEMMA StoreFrame ==
  ASSUME ClocksTypeOK, NEW t \in Threads, NEW done, SetTs(t, rcv[t], done)
  PROVE  /\ ts'[t].v = rcv[t] /\ ts'[t].done = done
         /\ \A u \in Threads \ {t} : ts'[u] = ts[u]
  BY TypeParts, SetTsAt

(* With physical clocks readClockVal is newer than the timestamp its       *)
(* thread shows, and not behind the clock.                                 *)
LEMMA StampFrame ==
  ASSUME ClocksTypeOK, PlacesAgree, Timestamps, Pc, NEW t \in Threads, Stamp(t)
  PROVE  /\ clock <= clock' /\ clock' \in Int /\ rcv'[t] = clock'
         /\ ~ ts[t].done /\ ts[t].v < clock' /\ hpc[t] \in Running
         /\ cpc[t] = "body" /\ cpc'[t] = "stamped"
         /\ \A u \in Threads \ {t} : /\ rcv'[u] = rcv[u] /\ cpc'[u] = cpc[u]
                                     /\ update'[u] = update[u]
         /\ UNCHANGED <<hpc, ts, toRead, waiting, hist, marked, entries, durable, acked>>
  <1>1. hpc[t] \in Running /\ ~ ts[t].done
    BY DEF Stamp, Timestamps, Running
  <1>2. ts[t] # Invalid
    BY <1>1, TypeParts
  <1>3. /\ clock <= clock' /\ clock' \in Int /\ rcv'[t] = clock' /\ ts[t].v < clock'
        /\ \A u \in Threads \ {t} : rcv'[u] = rcv[u]
    BY <1>2, TypeParts DEF Stamp, Pc, Lc, ClocksTypeOK
  <1>4. /\ cpc[t] = "body" /\ cpc'[t] = "stamped"
        /\ \A u \in Threads \ {t} : cpc'[u] = cpc[u] /\ update'[u] = update[u]
    BY DEF Stamp, Phase, ClocksTypeOK
  <1>5. UNCHANGED <<hpc, ts, toRead, waiting, hist, marked, entries, durable, acked>>
    BY DEF Stamp, htmVars, waitVars, logVars
  <1> QED
    BY <1>1, <1>3, <1>4, <1>5

(* With physical clocks no step hides a thread that has yet to commit or   *)
(* whose marker is not durable.                                            *)
LEMMA TimestampsStep ==
  ASSUME ClocksTypeOK, ClocksTypeOK', PlacesAgree, Pc, Pc', Timestamps, ClocksNext
  PROVE  Timestamps'
  <1> USE DEF ClocksTypeOK, HtmTypeOK, PlacesAgree, Timestamps, Published, Running,
              threadVars, waitVars, logVars, htmVars, Pc, Lc
  <1>1. ASSUME NEW t \in Threads, CEnter(t) PROVE Timestamps'
    BY <1>1, RenewFrame, TypeParts
  <1>2. ASSUME NEW t \in Threads, CheckedFree(t) PROVE Timestamps'
    BY <1>2 DEF CheckedFree, CheckFree, Unblock, Subscribe, Acquire, Goto
  <1>3. ASSUME NEW t \in Threads, Hidden(t) PROVE Timestamps'
    BY <1>3 DEF Hidden, CheckTaken, Fallback, Goto, ResetTs
  <1>4. ASSUME NEW t \in Threads, Renewed(t) PROVE Timestamps'
    BY <1>4, RenewFrame, TypeParts
  <1>5. ASSUME NEW t \in Threads, CAborts(t) PROVE Timestamps'
    BY <1>5, RenewFrame, TypeParts
  <1>6. ASSUME NEW t \in Threads, Stamp(t) PROVE Timestamps'
    <2> HIDE DEF ClocksTypeOK, HtmTypeOK, PlacesAgree
    <2>1. /\ clock \in Int /\ \A u \in Threads : rcv[u] \in Int
          /\ \A u \in Threads : ts[u] # Invalid => ts[u].v \in Int
      BY TypeParts DEF TsTypes
    <2> QED
      BY <1>6, <2>1, StampFrame
  <1>7. ASSUME NEW t \in Threads, CCommit(t) PROVE Timestamps'
    BY <1>7 DEF CCommit, CommitHtm, Release, Goto, Phase
  <1>8. ASSUME NEW t \in Threads, Announce(t) PROVE Timestamps'
    <2>1. /\ ts'[t].v = rcv[t] /\ ~ ts'[t].done
          /\ \A u \in Threads \ {t} : ts'[u] = ts[u]
      BY <1>8, StoreFrame DEF Announce
    <2> QED
      BY <1>8, <2>1, TypeParts DEF Announce, Phase
  <1>9. ASSUME NEW t \in Threads, PcReadOnly(t) PROVE Timestamps'
    <2>1. /\ ts'[t].v = rcv[t]
          /\ \A u \in Threads \ {t} : ts'[u] = ts[u]
      BY <1>9, StoreFrame DEF PcReadOnly
    <2> QED
      BY <1>9, <2>1, TypeParts DEF PcReadOnly, Phase
  <1>10. ASSUME NEW t \in Threads, LcReadOnly(t) PROVE Timestamps'
    BY <1>10 DEF LcReadOnly, Phase
  <1>11. ASSUME NEW t \in Threads, FlushEntries(t) PROVE Timestamps'
    BY <1>11 DEF FlushEntries, Phase
  <1>12. ASSUME NEW t \in Threads, Scan(t) PROVE Timestamps'
    BY <1>12 DEF Scan
  <1>13. ASSUME NEW t \in Threads, WaitFor(t) PROVE Timestamps'
    BY <1>13 DEF WaitFor
  <1>14. ASSUME NEW t \in Threads, WriteMarker(t) PROVE Timestamps'
    BY <1>14 DEF WriteMarker, Phase
  <1>15. ASSUME NEW t \in Threads, PcFence(t) PROVE Timestamps'
    BY <1>15 DEF PcFence, Phase
  <1>16. ASSUME NEW t \in Threads, PcReturn(t) PROVE Timestamps'
    <2>1. /\ ts'[t].v = rcv[t]
          /\ \A u \in Threads \ {t} : ts'[u] = ts[u]
      BY <1>16, StoreFrame DEF PcReturn
    <2>2. /\ cpc[t] = "done" /\ cpc'[t] = "idle"
          /\ \A u \in Threads \ {t} : cpc'[u] = cpc[u]
          /\ UNCHANGED <<clock, hpc, rcv, protocol>>
      BY <1>16 DEF PcReturn, Phase
    <2>3. Pc => hpc[t] \notin Running /\ rcv[t] <= clock
      BY <1>16, <2>2
    <2> QED
      BY <2>1, <2>2, <2>3
  <1>17. ASSUME NEW t \in Threads, LcFence(t) PROVE Timestamps'
    BY <1>17 DEF LcFence, Phase
  <1>18. ASSUME NEW t \in Threads, ReadTs(t) PROVE Timestamps'
    BY <1>18 DEF ReadTs, Phase
  <1>19. ASSUME NEW t \in Threads, ReadIn(t) PROVE Timestamps'
    BY <1>19 DEF ReadIn, Phase
  <1>20. ASSUME NEW t \in Threads, EndRound(t) PROVE Timestamps'
    BY <1>20 DEF EndRound, Phase
  <1>21. ASSUME NEW t \in Threads, LcReturn(t) PROVE Timestamps'
    BY <1>21 DEF LcReturn, Phase
  <1>22. ASSUME NEW e \in marked, EvictMarker(e) PROVE Timestamps'
    BY <1>22 DEF EvictMarker, htmVars
  <1>23. CASE Finished
    BY <1>23 DEF Finished, clocksVars
  <1> QED
    BY <1>1, <1>2, <1>3, <1>4, <1>5, <1>6, <1>7, <1>8, <1>9, <1>10, <1>11, <1>12,
       <1>13, <1>14, <1>15, <1>16, <1>17, <1>18, <1>19, <1>20, <1>21, <1>22,
       <1>23
    DEF ClocksNext, TemplateStep, CommitStep

(* How a step may move the clock and a timestamp: a thread hides it,       *)
(* renews it, or lets it grow; the one of a transaction that committed is  *)
(* not taken again.                                                        *)
ClockMoves ==
  /\ clock <= clock'
  /\ \A u \in Threads :
        /\ \/ ts'[u] = ts[u]
           \/ ts'[u].done
           \/ clock < ts'[u].v
           \/ ~ ts[u].done /\ ts[u].v <= ts'[u].v
        /\ cpc[u] \notin {"body", "stamped"} => rcv'[u] = rcv[u] /\ update'[u] = update[u]

(* Every step moves the clock and the timestamps in this way.              *)
LEMMA ClockStep ==
  ASSUME ClocksTypeOK, ClocksTypeOK', PlacesAgree, Pc, Timestamps, ClocksNext
  PROVE  ClockMoves
  <1>0. /\ clock \in Int /\ \A u \in Threads : rcv[u] \in Int
        /\ \A u \in Threads : ~ ts[u].done => ts[u].v \in Int
    BY TypeParts
  <1> USE <1>0 DEF ClockMoves, threadVars, waitVars, logVars, htmVars
  <1>1. ASSUME NEW t \in Threads, CEnter(t) PROVE ClockMoves
    BY <1>1, RenewFrame
  <1>2. ASSUME NEW t \in Threads, CheckedFree(t) PROVE ClockMoves
    BY <1>2 DEF CheckedFree
  <1>3. ASSUME NEW t \in Threads, Hidden(t) PROVE ClockMoves
    <2>1. ts'[t].done /\ UNCHANGED clock /\ \A u \in Threads \ {t} : ts'[u] = ts[u]
      BY <1>3, TypeParts, ResetTsAt DEF Hidden
    <2> QED
      BY <1>3, <2>1 DEF Hidden
  <1>4. ASSUME NEW t \in Threads, Renewed(t) PROVE ClockMoves
    BY <1>4, RenewFrame
  <1>5. ASSUME NEW t \in Threads, CAborts(t) PROVE ClockMoves
    BY <1>5, RenewFrame
  <1>6. ASSUME NEW t \in Threads, Stamp(t) PROVE ClockMoves
    BY <1>6, StampFrame
  <1>7. ASSUME NEW t \in Threads, CCommit(t) PROVE ClockMoves
    BY <1>7 DEF CCommit, Phase, Pc, Lc
  <1>8. ASSUME NEW t \in Threads, Announce(t) PROVE ClockMoves
    <2>1. /\ ts'[t].v = rcv[t] /\ ts'[t].done = FALSE
          /\ \A u \in Threads \ {t} : ts'[u] = ts[u]
      BY <1>8, StoreFrame DEF Announce
    <2>2. UNCHANGED <<clock, rcv, update>>
      BY <1>8 DEF Announce
    <2>3. cpc[t] = "announce" => ~ ts[t].done /\ ts[t].v < rcv[t]
      BY DEF Timestamps
    <2> QED
      BY <1>8, <2>1, <2>2, <2>3 DEF Announce, Phase
  <1>9. ASSUME NEW t \in Threads, PcReadOnly(t) PROVE ClockMoves
    <2>1. /\ ts'[t].v = rcv[t] /\ ts'[t].done = TRUE
          /\ \A u \in Threads \ {t} : ts'[u] = ts[u]
      BY <1>9, StoreFrame DEF PcReadOnly
    <2>2. UNCHANGED <<clock, rcv, update>>
      BY <1>9 DEF PcReadOnly
    <2>3. cpc[t] = "announce" => ~ ts[t].done /\ ts[t].v < rcv[t]
      BY DEF Timestamps
    <2> QED
      BY <1>9, <2>1, <2>2, <2>3 DEF PcReadOnly, Phase
  <1>10. ASSUME NEW t \in Threads, LcReadOnly(t) PROVE ClockMoves
    BY <1>10 DEF LcReadOnly, Phase
  <1>11. ASSUME NEW t \in Threads, FlushEntries(t) PROVE ClockMoves
    BY <1>11 DEF FlushEntries, Phase
  <1>12. ASSUME NEW t \in Threads, Scan(t) PROVE ClockMoves
    BY <1>12 DEF Scan
  <1>13. ASSUME NEW t \in Threads, WaitFor(t) PROVE ClockMoves
    BY <1>13 DEF WaitFor
  <1>14. ASSUME NEW t \in Threads, WriteMarker(t) PROVE ClockMoves
    BY <1>14 DEF WriteMarker, Phase
  <1>15. ASSUME NEW t \in Threads, PcFence(t) PROVE ClockMoves
    BY <1>15 DEF PcFence, Phase
  <1>16. ASSUME NEW t \in Threads, PcReturn(t) PROVE ClockMoves
    <2>1. /\ ts'[t].v = rcv[t] /\ ts'[t].done = TRUE
          /\ \A u \in Threads \ {t} : ts'[u] = ts[u]
      BY <1>16, StoreFrame DEF PcReturn
    <2>2. UNCHANGED <<clock, rcv, update>>
      BY <1>16 DEF PcReturn
    <2>3. cpc[t] = "announce" => ~ ts[t].done /\ ts[t].v < rcv[t]
      BY DEF Timestamps
    <2> QED
      BY <1>16, <2>1, <2>2, <2>3 DEF PcReturn, Phase
  <1>17. ASSUME NEW t \in Threads, LcFence(t) PROVE ClockMoves
    BY <1>17 DEF LcFence, Phase
  <1>18. ASSUME NEW t \in Threads, ReadTs(t) PROVE ClockMoves
    BY <1>18 DEF ReadTs, Phase
  <1>19. ASSUME NEW t \in Threads, ReadIn(t) PROVE ClockMoves
    BY <1>19 DEF ReadIn, Phase
  <1>20. ASSUME NEW t \in Threads, EndRound(t) PROVE ClockMoves
    BY <1>20 DEF EndRound, Phase
  <1>21. ASSUME NEW t \in Threads, LcReturn(t) PROVE ClockMoves
    BY <1>21 DEF LcReturn, Phase
  <1>22. ASSUME NEW e \in marked, EvictMarker(e) PROVE ClockMoves
    BY <1>22 DEF EvictMarker
  <1>23. CASE Finished
    BY <1>23 DEF Finished, clocksVars
  <1> QED
    BY <1>1, <1>2, <1>3, <1>4, <1>5, <1>6, <1>7, <1>8, <1>9, <1>10, <1>11, <1>12,
       <1>13, <1>14, <1>15, <1>16, <1>17, <1>18, <1>19, <1>20, <1>21, <1>22,
       <1>23
    DEF ClocksNext, TemplateStep, CommitStep

(* A thread seen as flushed or newer is so for good.                       *)
LEMMA ClearedStep ==
  ASSUME ClocksTypeOK, ClocksTypeOK', Timestamps, Pc, ClockMoves,
         NEW t \in Threads, NEW u \in Threads, cpc[t] = "marker", Cleared(t, u)
  PROVE  Cleared(t, u)'
  <1>1. /\ clock \in Int /\ rcv[t] \in Int /\ rcv[t] <= clock /\ rcv'[t] = rcv[t]
        /\ ~ ts[u].done => ts[u].v \in Int
        /\ ~ ts'[u].done => ts'[u].v \in Int
    BY TypeParts DEF Timestamps, ClockMoves, ClocksTypeOK, Invalid, Word
  <1> QED
    BY <1>1 DEF ClockMoves, Cleared, Larger

(* A thread leaves the pass over the others only past those it has         *)
(* cleared.                                                                *)
LEMMA WaitsStep ==
  ASSUME ClocksTypeOK, ClocksTypeOK', PlacesAgree, Pc, Pc', Waits, ClocksNext,
         \A w, u \in Threads : cpc[w] = "marker" /\ Cleared(w, u) => Cleared(w, u)'
  PROVE  Waits'
  <1> USE DEF Waits, threadVars, waitVars, logVars, htmVars
  <1>0. /\ cpc = [s \in Threads |-> cpc[s]] /\ toRead \in [Threads -> SUBSET Threads]
        /\ waiting \in [Threads -> SUBSET Threads]
    BY DEF ClocksTypeOK
  <1> USE <1>0
  <1>1. ASSUME NEW t \in Threads, CEnter(t) PROVE Waits'
    BY <1>1, RenewFrame
  <1>2. ASSUME NEW t \in Threads, CheckedFree(t) PROVE Waits'
    BY <1>2 DEF CheckedFree, CheckFree, Unblock, Subscribe, Acquire, Goto
  <1>3. ASSUME NEW t \in Threads, Hidden(t) PROVE Waits'
    BY <1>3 DEF Hidden, CheckTaken, Fallback, Goto, ResetTs
  <1>4. ASSUME NEW t \in Threads, Renewed(t) PROVE Waits'
    BY <1>4, RenewFrame
  <1>5. ASSUME NEW t \in Threads, CAborts(t) PROVE Waits'
    BY <1>5, RenewFrame
  <1>6. ASSUME NEW t \in Threads, Stamp(t) PROVE Waits'
    BY <1>6 DEF Stamp, Phase
  <1>7. ASSUME NEW t \in Threads, CCommit(t) PROVE Waits'
    BY <1>7 DEF CCommit, CommitHtm, Release, Goto, Phase
  <1>8. ASSUME NEW t \in Threads, Announce(t) PROVE Waits'
    BY <1>8 DEF Announce, Phase, SetTs
  <1>9. ASSUME NEW t \in Threads, PcReadOnly(t) PROVE Waits'
    BY <1>9 DEF PcReadOnly, Phase, SetTs
  <1>10. ASSUME NEW t \in Threads, LcReadOnly(t) PROVE Waits'
    BY <1>10 DEF LcReadOnly, Phase
  <1>11. ASSUME NEW t \in Threads, FlushEntries(t) PROVE Waits'
    BY <1>11 DEF FlushEntries, Phase, Others, Pc
  <1>12. ASSUME NEW t \in Threads, Scan(t) PROVE Waits'
    <2> DEFINE i == Next1(toRead[t])
    <2>1. /\ toRead'[t] = toRead[t] \ {i} /\ UNCHANGED cpc
          /\ waiting[t] \subseteq waiting'[t]
          /\ Older(t, i) => i \in waiting'[t]
          /\ \A s \in Threads \ {t} : toRead'[s] = toRead[s] /\ waiting'[s] = waiting[s]
      BY <1>12 DEF Scan
    <2>2. ~ Older(t, i) => Cleared(t, i)
      BY DEF Older, Cleared
    <2> HIDE DEF i
    <2> QED
      BY <1>12, <2>1, <2>2 DEF Scan
  <1>13. ASSUME NEW t \in Threads, WaitFor(t) PROVE Waits'
    <2> DEFINE i == Next1(waiting[t])
    <2>1. /\ waiting'[t] = waiting[t] \ {i} /\ UNCHANGED <<cpc, toRead>>
          /\ \A s \in Threads \ {t} : waiting'[s] = waiting[s]
          /\ Cleared(t, i)
      BY <1>13 DEF WaitFor, Older, Cleared
    <2> HIDE DEF i
    <2> QED
      BY <1>13, <2>1 DEF WaitFor
  <1>14. ASSUME NEW t \in Threads, WriteMarker(t) PROVE Waits'
    BY <1>14 DEF WriteMarker, Phase
  <1>15. ASSUME NEW t \in Threads, PcFence(t) PROVE Waits'
    BY <1>15 DEF PcFence, Phase
  <1>16. ASSUME NEW t \in Threads, PcReturn(t) PROVE Waits'
    BY <1>16 DEF PcReturn, Phase, SetTs
  <1>17. ASSUME NEW t \in Threads, LcFence(t) PROVE Waits'
    BY <1>17 DEF LcFence, Phase
  <1>18. ASSUME NEW t \in Threads, ReadTs(t) PROVE Waits'
    BY <1>18 DEF ReadTs, Phase
  <1>19. ASSUME NEW t \in Threads, ReadIn(t) PROVE Waits'
    BY <1>19 DEF ReadIn, Phase
  <1>20. ASSUME NEW t \in Threads, EndRound(t) PROVE Waits'
    BY <1>20 DEF EndRound, Phase
  <1>21. ASSUME NEW t \in Threads, LcReturn(t) PROVE Waits'
    BY <1>21 DEF LcReturn, Phase
  <1>22. ASSUME NEW e \in marked, EvictMarker(e) PROVE Waits'
    BY <1>22 DEF EvictMarker
  <1>23. CASE Finished
    BY <1>23 DEF Finished, clocksVars
  <1> QED
    BY <1>1, <1>2, <1>3, <1>4, <1>5, <1>6, <1>7, <1>8, <1>9, <1>10, <1>11, <1>12,
       <1>13, <1>14, <1>15, <1>16, <1>17, <1>18, <1>19, <1>20, <1>21, <1>22,
       <1>23
    DEF ClocksNext, TemplateStep, CommitStep
-----------------------------------------------------------------------------
(* The logs: what the history, the entries and the markers hold of the     *)
(* transaction a thread is committing.                                     *)
LEMMA LogsStep ==
  ASSUME ClocksTypeOK, ClocksTypeOK', PlacesAgree, PlacesAgree', Logs, ClocksNext
  PROVE  Logs'
  <1> USE DEF ClocksTypeOK, PlacesAgree, Logs, Logged, MyTx, threadVars, waitVars, logVars,
              htmVars, Pc, Lc
  <1>1. ASSUME NEW t \in Threads, CEnter(t) PROVE Logs'
    BY <1>1 DEF CEnter, Enter, Goto, Phase, RenewTs, SetTs
  <1>2. ASSUME NEW t \in Threads, CheckedFree(t) PROVE Logs'
    BY <1>2 DEF CheckedFree, CheckFree, Unblock, Subscribe, Acquire, Goto
  <1>3. ASSUME NEW t \in Threads, Hidden(t) PROVE Logs'
    BY <1>3 DEF Hidden, CheckTaken, Fallback, Goto, ResetTs
  <1>4. ASSUME NEW t \in Threads, Renewed(t) PROVE Logs'
    BY <1>4 DEF Renewed, Renew, RenewLocked, Goto, RenewTs, SetTs
  <1>5. ASSUME NEW t \in Threads, CAborts(t) PROVE Logs'
    BY <1>5 DEF CAborts, AbortTaken, Abort, AbortFault, Retry, RenewTs, SetTs
  <1>6. ASSUME NEW t \in Threads, Stamp(t) PROVE Logs'
    BY <1>6 DEF Stamp, Phase
  <1>7. ASSUME NEW t \in Threads, CCommit(t) PROVE Logs'
    BY <1>7 DEF CCommit, CommitHtm, Release, Goto, Phase
  <1>8. ASSUME NEW t \in Threads, Announce(t) PROVE Logs'
    BY <1>8 DEF Announce, Phase, SetTs
  <1>9. ASSUME NEW t \in Threads, PcReadOnly(t) PROVE Logs'
    BY <1>9 DEF PcReadOnly, Phase, SetTs
  <1>10. ASSUME NEW t \in Threads, LcReadOnly(t) PROVE Logs'
    BY <1>10 DEF LcReadOnly, Phase
  <1>11. ASSUME NEW t \in Threads, FlushEntries(t) PROVE Logs'
    BY <1>11 DEF FlushEntries, Phase
  <1>12. ASSUME NEW t \in Threads, Scan(t) PROVE Logs'
    BY <1>12 DEF Scan
  <1>13. ASSUME NEW t \in Threads, WaitFor(t) PROVE Logs'
    BY <1>13 DEF WaitFor
  <1>14. ASSUME NEW t \in Threads, WriteMarker(t) PROVE Logs'
    BY <1>14 DEF WriteMarker, Phase
  <1>15. ASSUME NEW t \in Threads, PcFence(t) PROVE Logs'
    BY <1>15 DEF PcFence, Phase
  <1>16. ASSUME NEW t \in Threads, PcReturn(t) PROVE Logs'
    BY <1>16 DEF PcReturn, Phase, SetTs
  <1>17. ASSUME NEW t \in Threads, LcFence(t) PROVE Logs'
    BY <1>17 DEF LcFence, Phase
  <1>18. ASSUME NEW t \in Threads, ReadTs(t) PROVE Logs'
    BY <1>18 DEF ReadTs, Phase
  <1>19. ASSUME NEW t \in Threads, ReadIn(t) PROVE Logs'
    BY <1>19 DEF ReadIn, Phase
  <1>20. ASSUME NEW t \in Threads, EndRound(t) PROVE Logs'
    BY <1>20 DEF EndRound, Phase
  <1>21. ASSUME NEW t \in Threads, LcReturn(t) PROVE Logs'
    BY <1>21 DEF LcReturn, Phase
  <1>22. ASSUME NEW e \in marked, EvictMarker(e) PROVE Logs'
    BY <1>22 DEF EvictMarker, htmVars
  <1>23. CASE Finished
    BY <1>23 DEF Finished, clocksVars
  <1> QED
    BY <1>1, <1>2, <1>3, <1>4, <1>5, <1>6, <1>7, <1>8, <1>9, <1>10, <1>11, <1>12,
       <1>13, <1>14, <1>15, <1>16, <1>17, <1>18, <1>19, <1>20, <1>21, <1>22,
       <1>23
    DEF ClocksNext, TemplateStep, CommitStep

(* The program runs exactly one of the two protocols.                      *)
LEMMA TwoProtocols == ClocksTypeOK => (Pc \/ Lc) /\ ~ (Pc /\ Lc)
  BY ClocksAssumption DEF ClocksTypeOK, Pc, Lc

(* Beginning a transaction never moves the clock back.                     *)
LEMMA RenewGrows ==
  ASSUME clock \in Int, NEW t \in Threads, RenewTs(t)
  PROVE  clock <= clock'
  <1>1. clock' = clock \/ clock' = clock + 1
    BY Zenon DEF RenewTs
  <1> QED
    BY <1>1

(* No timestamp of the history is ahead of the clock.                      *)
LEMMA BelowStep ==
  ASSUME ClocksTypeOK, ClocksTypeOK', PlacesAgree, Timestamps, Below, ClocksNext
  PROVE  Below'
  <1>0. /\ clock \in Int /\ clock' \in Int /\ (\A x \in hist : x.v \in Int)
        /\ \A t \in Threads : rcv[t] \in Int
    BY TypeParts DEF ClocksTypeOK
  <1> USE <1>0 DEF Below, threadVars, waitVars, logVars, htmVars
  <1>1. ASSUME NEW t \in Threads, CEnter(t) PROVE Below'
    <2>1. clock' = clock \/ RenewTs(t)
      BY <1>1 DEF CEnter
    <2>2. UNCHANGED hist
      BY <1>1 DEF CEnter
    <2> QED
      BY <2>1, <2>2, RenewGrows
  <1>2. ASSUME NEW t \in Threads, CheckedFree(t) PROVE Below'
    BY <1>2 DEF CheckedFree, CheckFree, Unblock, Subscribe, Acquire, Goto
  <1>3. ASSUME NEW t \in Threads, Hidden(t) PROVE Below'
    BY <1>3 DEF Hidden, CheckTaken, Fallback, Goto, ResetTs
  <1>4. ASSUME NEW t \in Threads, Renewed(t) PROVE Below'
    <2>1. RenewTs(t) /\ UNCHANGED hist
      BY <1>4 DEF Renewed
    <2> QED
      BY <2>1, RenewGrows
  <1>5. ASSUME NEW t \in Threads, CAborts(t) PROVE Below'
    <2>1. RenewTs(t) /\ UNCHANGED hist
      BY <1>5 DEF CAborts
    <2> QED
      BY <2>1, RenewGrows
  <1>6. ASSUME NEW t \in Threads, Stamp(t) PROVE Below'
    <2>1. clock <= clock' /\ UNCHANGED hist
      BY <1>6 DEF Stamp
    <2> QED
      BY <2>1
  <1>7. ASSUME NEW t \in Threads, CCommit(t) PROVE Below'
    <2>1. clock <= clock'
      BY <1>7 DEF CCommit
    <2>2. \/ hist' = hist
          \/ hist' = hist \cup {[t |-> t, v |-> rcv'[t]]} /\ update[t]
      BY <1>7 DEF CCommit
    <2>3. update[t] => rcv'[t] <= clock'
      <3>1. CASE Lc
        BY <1>7, <3>1 DEF CCommit, ClocksTypeOK
      <3>2. CASE ~ Lc
        BY <1>7, <3>2, TwoProtocols DEF CCommit, Timestamps
      <3> QED
        BY <3>1, <3>2
    <2> QED
      BY <2>1, <2>2, <2>3
  <1>8. ASSUME NEW t \in Threads, Announce(t) PROVE Below'
    BY <1>8 DEF Announce, Phase, SetTs
  <1>9. ASSUME NEW t \in Threads, PcReadOnly(t) PROVE Below'
    BY <1>9 DEF PcReadOnly, Phase, SetTs
  <1>10. ASSUME NEW t \in Threads, LcReadOnly(t) PROVE Below'
    BY <1>10 DEF LcReadOnly, Phase
  <1>11. ASSUME NEW t \in Threads, FlushEntries(t) PROVE Below'
    BY <1>11 DEF FlushEntries, Phase
  <1>12. ASSUME NEW t \in Threads, Scan(t) PROVE Below'
    BY <1>12 DEF Scan
  <1>13. ASSUME NEW t \in Threads, WaitFor(t) PROVE Below'
    BY <1>13 DEF WaitFor
  <1>14. ASSUME NEW t \in Threads, WriteMarker(t) PROVE Below'
    BY <1>14 DEF WriteMarker, Phase
  <1>15. ASSUME NEW t \in Threads, PcFence(t) PROVE Below'
    BY <1>15 DEF PcFence, Phase
  <1>16. ASSUME NEW t \in Threads, PcReturn(t) PROVE Below'
    BY <1>16 DEF PcReturn, Phase, SetTs
  <1>17. ASSUME NEW t \in Threads, LcFence(t) PROVE Below'
    BY <1>17 DEF LcFence, Phase
  <1>18. ASSUME NEW t \in Threads, ReadTs(t) PROVE Below'
    BY <1>18 DEF ReadTs, Phase
  <1>19. ASSUME NEW t \in Threads, ReadIn(t) PROVE Below'
    BY <1>19 DEF ReadIn, Phase
  <1>20. ASSUME NEW t \in Threads, EndRound(t) PROVE Below'
    BY <1>20 DEF EndRound, Phase
  <1>21. ASSUME NEW t \in Threads, LcReturn(t) PROVE Below'
    BY <1>21 DEF LcReturn, Phase
  <1>22. ASSUME NEW e \in marked, EvictMarker(e) PROVE Below'
    BY <1>22 DEF EvictMarker
  <1>23. CASE Finished
    BY <1>23 DEF Finished, clocksVars
  <1> QED
    BY <1>1, <1>2, <1>3, <1>4, <1>5, <1>6, <1>7, <1>8, <1>9, <1>10, <1>11, <1>12,
       <1>13, <1>14, <1>15, <1>16, <1>17, <1>18, <1>19, <1>20, <1>21, <1>22,
       <1>23
    DEF ClocksNext, TemplateStep, CommitStep

(* With physical clocks only what is not past its fence is not durable.    *)
LEMMA PendingStep ==
  ASSUME ClocksTypeOK, ClocksTypeOK', PlacesAgree, Timestamps, Logs, Below, Pc, Pc',
         Pending, ClocksNext
  PROVE  Pending'
  <1>0. /\ clock \in Int /\ clock' \in Int
        /\ \A x \in hist : x.t \in Threads /\ x.v \in Int
        /\ \A x \in hist, t \in Threads : x.t = t /\ x.v = rcv[t] => x = MyTx(t)
        /\ \A t \in Threads : cpc[t] = "stamped" => ts[t].v < rcv[t]
        /\ cpc = [t \in Threads |-> cpc[t]] /\ hpc = [t \in Threads |-> hpc[t]]
    BY TypeParts DEF ClocksTypeOK, HtmTypeOK, Timestamps
  <1> USE <1>0 DEF Pending, Unfinished, Running, Below, threadVars, waitVars, logVars, htmVars
  <1>1. ASSUME NEW t \in Threads, CEnter(t) PROVE Pending'
    BY <1>1, RenewFrame
  <1>2. ASSUME NEW t \in Threads, CheckedFree(t) PROVE Pending'
    BY <1>2 DEF CheckedFree, CheckFree, Unblock, Subscribe, Acquire, Goto
  <1>3. ASSUME NEW t \in Threads, Hidden(t) PROVE Pending'
    BY <1>3 DEF Hidden, CheckTaken, Fallback, Goto, ResetTs
  <1>4. ASSUME NEW t \in Threads, Renewed(t) PROVE Pending'
    BY <1>4, RenewFrame
  <1>5. ASSUME NEW t \in Threads, CAborts(t) PROVE Pending'
    BY <1>5, RenewFrame
  <1>6. ASSUME NEW t \in Threads, Stamp(t) PROVE Pending'
    BY <1>6, StampFrame
  <1>7. ASSUME NEW t \in Threads, CCommit(t) PROVE Pending'
    BY <1>7 DEF CCommit, CommitHtm, Release, Goto, Phase
  <1>8. ASSUME NEW t \in Threads, Announce(t) PROVE Pending'
    <2>1. \A u \in Threads \ {t} : ts'[u] = ts[u]
      BY <1>8, StoreFrame DEF Announce
    <2>2. hpc[t] = "out"
      BY <1>8 DEF Announce, Phase, PlacesAgree
    <2> QED
      BY <1>8, <2>1, <2>2 DEF Announce, Phase
  <1>9. ASSUME NEW t \in Threads, PcReadOnly(t) PROVE Pending'
    <2>1. \A u \in Threads \ {t} : ts'[u] = ts[u]
      BY <1>9, StoreFrame DEF PcReadOnly
    <2>2. hpc[t] = "out"
      BY <1>9 DEF PcReadOnly, Phase, PlacesAgree
    <2> QED
      BY <1>9, <2>1, <2>2 DEF PcReadOnly, Phase
  <1>10. ASSUME NEW t \in Threads, LcReadOnly(t) PROVE Pending'
    BY <1>10 DEF LcReadOnly, Phase
  <1>11. ASSUME NEW t \in Threads, FlushEntries(t) PROVE Pending'
    BY <1>11 DEF FlushEntries, Phase
  <1>12. ASSUME NEW t \in Threads, Scan(t) PROVE Pending'
    BY <1>12 DEF Scan
  <1>13. ASSUME NEW t \in Threads, WaitFor(t) PROVE Pending'
    BY <1>13 DEF WaitFor
  <1>14. ASSUME NEW t \in Threads, WriteMarker(t) PROVE Pending'
    BY <1>14 DEF WriteMarker, Phase
  <1>15. ASSUME NEW t \in Threads, PcFence(t) PROVE Pending'
    BY <1>15 DEF PcFence, Phase
  <1>16. ASSUME NEW t \in Threads, PcReturn(t) PROVE Pending'
    <2>1. \A u \in Threads \ {t} : ts'[u] = ts[u]
      BY <1>16, StoreFrame DEF PcReturn
    <2>2. hpc[t] = "out"
      BY <1>16 DEF PcReturn, Phase, PlacesAgree
    <2> QED
      BY <1>16, <2>1, <2>2 DEF PcReturn, Phase, Logs
  <1>17. ASSUME NEW t \in Threads, LcFence(t) PROVE Pending'
    BY <1>17 DEF LcFence, Phase
  <1>18. ASSUME NEW t \in Threads, ReadTs(t) PROVE Pending'
    BY <1>18 DEF ReadTs, Phase
  <1>19. ASSUME NEW t \in Threads, ReadIn(t) PROVE Pending'
    BY <1>19 DEF ReadIn, Phase
  <1>20. ASSUME NEW t \in Threads, EndRound(t) PROVE Pending'
    BY <1>20 DEF EndRound, Phase
  <1>21. ASSUME NEW t \in Threads, LcReturn(t) PROVE Pending'
    BY <1>21 DEF LcReturn, Phase
  <1>22. ASSUME NEW e \in marked, EvictMarker(e) PROVE Pending'
    BY <1>22 DEF EvictMarker
  <1>23. CASE Finished
    BY <1>23 DEF Finished, clocksVars
  <1> QED
    BY <1>1, <1>2, <1>3, <1>4, <1>5, <1>6, <1>7, <1>8, <1>9, <1>10, <1>11, <1>12,
       <1>13, <1>14, <1>15, <1>16, <1>17, <1>18, <1>19, <1>20, <1>21, <1>22,
       <1>23
    DEF ClocksNext, TemplateStep, CommitStep

(* Only a commit adds to the history and only WriteMarker marks.           *)
LogsGrow == UNCHANGED <<hist, marked>> /\ durable \subseteq durable'

(* Every step leaves the history and the markers alone and lets durable    *)
(* logs only grow, or is a commit or the writing of a marker.              *)
LEMMA LogsMove ==
  ClocksNext => \/ LogsGrow
                \/ \E t \in Threads : CCommit(t) \/ WriteMarker(t)
  <1> USE DEF LogsGrow, threadVars, waitVars, logVars
  <1>1. ASSUME NEW t \in Threads, TemplateStep(t) PROVE LogsGrow \/ CCommit(t)
    BY <1>1 DEF TemplateStep, CEnter, CheckedFree, Hidden, Renewed, CAborts, Stamp
  <1>2. ASSUME NEW t \in Threads, CommitStep(t) PROVE LogsGrow \/ WriteMarker(t)
    BY <1>2 DEF CommitStep, Announce, PcReadOnly, LcReadOnly, FlushEntries, Scan, WaitFor,
         PcFence, PcReturn, LcFence, ReadTs, ReadIn, EndRound, LcReturn
  <1>3. ASSUME NEW x \in marked, EvictMarker(x) PROVE LogsGrow
    BY <1>3 DEF EvictMarker
  <1>4. Finished => LogsGrow
    BY DEF Finished, clocksVars
  <1> QED
    BY <1>1, <1>2, <1>3, <1>4 DEF ClocksNext

(* A marker, once written, stays below what can still commit.              *)
LEMMA MarkedBelow ==
  ASSUME ClocksTypeOK, ClocksTypeOK', Pc, Logs, Below, ClockMoves,
         NEW x \in marked, NEW u \in Threads,
         ~ ts[u].done => x.v <= ts[u].v, ~ ts'[u].done
  PROVE  x.v <= ts'[u].v
  <1>1. /\ x.v \in Int /\ clock \in Int /\ x.v <= clock
        /\ ~ ts[u].done => ts[u].v \in Int
        /\ ts'[u].v \in Int
    BY TypeParts DEF ClocksTypeOK, Logs, Below, Invalid, Word
  <1> QED
    BY <1>1 DEF ClockMoves

(* A thread commits after what is marked; when it writes its own marker,   *)
(* the pass over the others has left no older transaction pending.         *)
LEMMA MarkersStep ==
  ASSUME ClocksTypeOK, ClocksTypeOK', PlacesAgree, Timestamps, Waits, Logs, Below, Pending,
         Pc, Pc', Markers, ClockMoves, ClocksNext
  PROVE  Markers'
  <1>0. /\ \A x \in hist : x.t \in Threads /\ x.v \in Int
        /\ marked \subseteq hist
        /\ \A u \in Threads : rcv[u] \in Int
        /\ \A u \in Threads : ~ ts[u].done => ts[u].v \in Int
    BY TypeParts DEF Logs
  <1>1. \A x \in marked, u \in Threads : ~ ts'[u].done => x.v <= ts'[u].v
    BY MarkedBelow DEF Markers
  <1>2. CASE LogsGrow
    BY <1>1, <1>2 DEF LogsGrow, Markers
  <1>3. ASSUME NEW t \in Threads, CCommit(t) PROVE Markers'
    <2>1. /\ UNCHANGED <<marked, durable>>
          /\ \A y \in hist' : y \in hist \/ y.v = rcv[t]
      BY <1>3 DEF CCommit, Pc, Lc
    <2>2. ~ ts[t].done /\ ts[t].v < rcv[t]
      BY <1>3 DEF CCommit, Phase, Timestamps
    <2>3. \A x \in marked : ~ (rcv[t] < x.v)
      BY <1>0, <2>2 DEF Markers
    <2> QED
      BY <1>1, <2>1, <2>3 DEF Markers
  <1>4. ASSUME NEW t \in Threads, WriteMarker(t) PROVE Markers'
    <2>1. /\ UNCHANGED <<hist, durable, ts>>
          /\ marked' = marked \cup {MyTx(t)} /\ MyTx(t).v = rcv[t]
      BY <1>4 DEF WriteMarker, MyTx
    <2>2. /\ cpc[t] = "marker" /\ ~ ts[t].done /\ ts[t].v = rcv[t]
          /\ \A u \in Threads \ {t} : Cleared(t, u)
      BY <1>4 DEF WriteMarker, Phase, Timestamps, Published, Waits
    <2>3. \A u \in Threads : ~ ts[u].done => rcv[t] <= ts[u].v
      BY <1>0, <2>2 DEF Cleared, Larger
    <2>4. ASSUME NEW y \in hist, y.v < rcv[t] PROVE y \in durable
      <3>1. SUFFICES ASSUME y \notin durable PROVE FALSE
        OBVIOUS
      <3>2. y.t \in Threads /\ cpc[y.t] \in Unfinished /\ y.v = rcv[y.t]
        BY <1>0, <3>1 DEF Pending
      <3>3. ~ ts[y.t].done /\ ts[y.t].v <= rcv[y.t]
        BY <1>0, <3>2 DEF Timestamps, Unfinished, Published
      <3> QED
        BY <1>0, <2>3, <2>4, <3>2, <3>3
    <2> QED
      BY <1>1, <2>1, <2>3, <2>4 DEF Markers
  <1> QED
    BY <1>2, <1>3, <1>4, LogsMove
-----------------------------------------------------------------------------
(* A step that commits nothing keeps the count: a transaction in flight    *)
(* was begun.                                                              *)
LEMMA CountsKept ==
  ASSUME ClocksTypeOK, ClocksTypeOK', Counted, UNCHANGED <<protocol, hist>>,
         Lc => UNCHANGED clock,
         \A u \in Threads : Open(u)' - Open(u) <= begun'[u] - begun[u]
  PROVE  Counted'
  <1>1. \A u \in Threads : CommitsOf(u)' = CommitsOf(u)
    BY DEF CommitsOf
  <1>2. ASSUME NEW u \in Threads
        PROVE  Cardinality(CommitsOf(u)) + Open(u)' <= begun'[u]
    <2>1. CommitsOf(u) \subseteq hist /\ IsFiniteSet(hist)
      BY DEF CommitsOf, Counted
    <2>2. Cardinality(CommitsOf(u)) \in Int
      BY <2>1, FS_Subset, FS_CardinalityType
    <2>3. begun[u] \in Int /\ begun'[u] \in Int
      BY HtmAssumption DEF ClocksTypeOK, HtmTypeOK
    <2>4. Open(u) \in Int /\ Open(u)' \in Int
      BY DEF Open
    <2>5. Cardinality(CommitsOf(u)) + Open(u) <= begun[u]
      BY DEF Counted
    <2> QED
      BY <2>2, <2>3, <2>4, <2>5
  <1> QED
    BY <1>1, <1>2 DEF Counted, Lc

(* A commit uses up the transaction its thread has begun.                  *)
LEMMA CommitCounts ==
  ASSUME ClocksTypeOK, ClocksTypeOK', Counted, Below, NEW t \in Threads, CCommit(t)
  PROVE  Counted'
  <1>1. /\ cpc[t] = "stamped" /\ cpc' = [cpc EXCEPT ![t] = "announce"]
        /\ UNCHANGED <<begun, protocol>>
    BY DEF CCommit, Phase, CommitHtm, Release, Goto
  <1>2. Open(t)' = 0 /\ Open(t) = 1 /\ \A u \in Threads \ {t} : Open(u)' = Open(u)
    BY <1>1 DEF Open, ClocksTypeOK
  <1>3. CASE ~ update[t]
    <2>1. UNCHANGED <<hist, clock>>
      BY <1>3 DEF CCommit
    <2>2. \A u \in Threads : begun'[u] = begun[u] /\ begun[u] \in Int /\ Open(u) \in Int
      BY <1>1, HtmAssumption DEF ClocksTypeOK, HtmTypeOK, Open
    <2>3. \A u \in Threads : Open(u)' - Open(u) <= begun'[u] - begun[u]
      BY <1>2, <2>2
    <2> QED
      BY <1>1, <2>1, <2>3, CountsKept
  <1>4. CASE update[t]
    <2> DEFINE x == [t |-> t, v |-> rcv'[t]]
    <2>1. hist' = hist \cup {x} /\ x.t = t
      BY <1>4 DEF CCommit
    <2>2. ASSUME NEW u \in Threads
          PROVE  Cardinality(CommitsOf(u)') + Open(u)' <= begun'[u]
      <3>1. CommitsOf(u)' = {y \in hist \cup {x} : y.t = u}
        BY <2>1 DEF CommitsOf
      <3>2. Cardinality({y \in hist \cup {x} : y.t = u}) + (IF u = t THEN 0 ELSE Open(u))
               <= begun[u]
        BY <1>1, <2>1, HistCounts
      <3> HIDE DEF x
      <3> QED
        BY <1>1, <1>2, <3>1, <3>2
    <2>3. IsFiniteSet(hist')
      BY <2>1, FS_AddElement DEF Counted
    <2>4. Lc => clock' = Cardinality(hist')
      <3> SUFFICES ASSUME Lc PROVE clock' = Cardinality(hist')
        OBVIOUS
      <3>1. clock' = clock + 1 /\ rcv'[t] = clock + 1
        BY <1>4 DEF CCommit, ClocksTypeOK
      <3> QED
        BY <1>1, <2>1, <3>1, TickFits
    <2> QED
      BY <1>1, <2>2, <2>3, <2>4 DEF Counted, Lc
  <1> QED
    BY <1>3, <1>4, TypeParts DEF ClocksTypeOK

(* Every step keeps the count of transactions.                             *)
LEMMA CountedStep ==
  ASSUME ClocksTypeOK, ClocksTypeOK', PlacesAgree, Below, Counted, ClocksNext
  PROVE  Counted'
  <1>0. UNCHANGED protocol
    BY SameProtocol
  <1>1. \A u \in Threads : begun[u] \in Int /\ begun'[u] \in Int
    BY HtmAssumption DEF ClocksTypeOK, HtmTypeOK
  <1> DEFINE Kept(t) == /\ UNCHANGED hist /\ (Lc => UNCHANGED clock)
                        /\ \A u \in Threads \ {t} : cpc'[u] = cpc[u] /\ begun'[u] = begun[u]
                        /\ \/ Open(t)' <= Open(t) /\ begun'[t] = begun[t]
                           \/ Open(t)' <= Open(t) + 1 /\ begun'[t] = begun[t] + 1
  <1>2. ASSUME NEW t \in Threads, Kept(t) PROVE Counted'
    <2>1. \A u \in Threads : Open(u) \in Int /\ Open(u)' \in Int
      BY DEF Open
    <2>2. \A u \in Threads \ {t} : Open(u)' = Open(u) /\ begun'[u] = begun[u]
      BY <1>2 DEF Open
    <2>3. Open(t)' - Open(t) <= begun'[t] - begun[t]
      BY <1>1, <1>2, <2>1
    <2>4. \A u \in Threads : Open(u)' - Open(u) <= begun'[u] - begun[u]
      BY <1>1, <2>1, <2>2, <2>3
    <2> HIDE DEF Kept
    <2>5. UNCHANGED hist /\ (Lc => UNCHANGED clock)
      BY <1>2 DEF Kept
    <2> QED
      BY <1>0, <2>4, <2>5, CountsKept
  <1>3. ASSUME NEW t \in Threads, TemplateStep(t) PROVE Counted'
    <2> USE DEF threadVars, waitVars, logVars, htmVars
    <2>0. cpc = [u \in Threads |-> cpc[u]] /\ begun = [u \in Threads |-> begun[u]]
      BY DEF ClocksTypeOK, HtmTypeOK
    <2>1. CASE CEnter(t)
      BY <2>0, <2>1, <1>2 DEF CEnter, Enter, Goto, Phase, Open
    <2>2. CASE CheckedFree(t)
      BY <2>0, <2>2, <1>2 DEF CheckedFree, CheckFree, Unblock, Subscribe, Acquire, Goto, Open
    <2>3. CASE Hidden(t)
      BY <2>0, <2>3, <1>2 DEF Hidden, CheckTaken, Fallback, Goto, ResetTs, Open
    <2>4. CASE Renewed(t)
      <3>1. RenewTs(t) /\ UNCHANGED <<cpc, hist, begun>>
        BY <2>4 DEF Renewed, Renew, RenewLocked
      <3>2. Lc => UNCHANGED clock
        BY <3>1 DEF RenewTs
      <3> QED
        BY <1>2, <3>1, <3>2 DEF Open
    <2>5. CASE CAborts(t)
      <3>1. cpc[t] \in {"body", "stamped"} /\ cpc' = [cpc EXCEPT ![t] = "body"]
        BY <2>5 DEF CAborts, AbortTaken, Abort, AbortFault, Retry, ClocksTypeOK, PlacesAgree
      <3>2. RenewTs(t) /\ UNCHANGED <<hist, begun>>
        BY <2>5 DEF CAborts, AbortTaken, Abort, AbortFault, Retry
      <3>3. Lc => UNCHANGED clock
        BY <3>2 DEF RenewTs
      <3>4. Open(t)' = Open(t) /\ \A u \in Threads \ {t} : cpc'[u] = cpc[u]
        BY <2>0, <3>1 DEF Open
      <3> QED
        BY <1>2, <3>2, <3>3, <3>4 DEF Open
    <2>6. CASE Stamp(t)
      BY <2>0, <2>6, <1>2 DEF Stamp, Phase, Open
    <2>7. CASE CCommit(t)
      BY <2>7, CommitCounts
    <2> QED
      BY <1>3, <2>1, <2>2, <2>3, <2>4, <2>5, <2>6, <2>7 DEF TemplateStep
  <1>4. ASSUME NEW t \in Threads, CommitStep(t) PROVE Counted'
    <2>1. UNCHANGED <<hist, clock, begun>>
      BY <1>4 DEF CommitStep, Announce, PcReadOnly, LcReadOnly, FlushEntries, Scan, WaitFor,
         WriteMarker, PcFence, PcReturn, LcFence, ReadTs, ReadIn, EndRound, LcReturn,
         threadVars, waitVars, logVars, htmVars
    <2>2. /\ cpc[t] \notin {"body", "stamped"} /\ cpc'[t] \notin {"body", "stamped"}
          /\ \A u \in Threads \ {t} : cpc'[u] = cpc[u]
      <3>0. cpc = [u \in Threads |-> cpc[u]]
        BY DEF ClocksTypeOK
      <3>1. CASE Scan(t) \/ WaitFor(t)
        BY <3>1 DEF Scan, WaitFor
      <3>2. CASE Announce(t) \/ PcReadOnly(t) \/ LcReadOnly(t) \/ FlushEntries(t)
        BY <3>0, <3>2 DEF Announce, PcReadOnly, LcReadOnly, FlushEntries, Phase
      <3>3. CASE WriteMarker(t) \/ PcFence(t) \/ PcReturn(t) \/ LcFence(t)
        BY <3>0, <3>3 DEF WriteMarker, PcFence, PcReturn, LcFence, Phase
      <3>4. CASE ReadTs(t) \/ ReadIn(t) \/ EndRound(t) \/ LcReturn(t)
        BY <3>0, <3>4 DEF ReadTs, ReadIn, EndRound, LcReturn, Phase
      <3> QED
        BY <1>4, <3>1, <3>2, <3>3, <3>4 DEF CommitStep
    <2> QED
      BY <1>2, <2>1, <2>2 DEF Open
  <1>5. ASSUME NEW x \in marked, EvictMarker(x) PROVE Counted'
    <2>1. /\ UNCHANGED <<hist, clock, begun, cpc>>
      BY <1>5 DEF EvictMarker, htmVars
    <2>2. \A u \in Threads : Open(u)' = Open(u) /\ Open(u) \in Int
      BY <2>1 DEF Open
    <2> QED
      BY <1>0, <1>1, <2>1, <2>2, CountsKept
  <1>6. CASE Finished
    <2>1. /\ UNCHANGED <<hist, clock, begun, cpc>>
      BY <1>6 DEF Finished, clocksVars, htmVars, logVars
    <2>2. \A u \in Threads : Open(u)' = Open(u) /\ Open(u) \in Int
      BY <2>1 DEF Open
    <2> QED
      BY <1>0, <1>1, <2>1, <2>2, CountsKept
  <1> QED
    BY <1>3, <1>4, <1>5, <1>6 DEF ClocksNext
-----------------------------------------------------------------------------
(* The initial states satisfy the invariant.                               *)
LEMMA ClocksInitInv == ClocksInit => ClocksInv
  <1> SUFFICES ASSUME ClocksInit PROVE ClocksInv
    OBVIOUS
  <1>1. HtmInv
    BY HtmInitInv DEF ClocksInit
  <1>2. ClocksTypeOK
    <2>1. MaxClock \in Nat
      BY ClocksAssumption
    <2> QED
      BY <1>1, <2>1 DEF ClocksInit, ClocksTypeOK, HtmInv, Word
  <1>3. PlacesAgree /\ Timestamps /\ Waits
    BY <1>1, HtmAssumption DEF ClocksInit, HtmInit, PlacesAgree, Timestamps, Waits, Logged,
       Published, Running, Word
  <1>4. Logs /\ Below /\ Pending /\ Markers
    BY DEF ClocksInit, Logs, Below, Pending, Markers, Logged
  <1>5. Counted
    <2>1. \A t \in Threads : CommitsOf(t) = {} /\ Open(t) = 0 /\ begun[t] = 0
      BY DEF ClocksInit, HtmInit, CommitsOf, Open
    <2> QED
      BY <2>1, FS_EmptySet DEF ClocksInit, Counted
  <1> QED
    BY <1>1, <1>2, <1>3, <1>4, <1>5 DEF ClocksInv

(* Every step keeps it: the lemmas above, put together.                    *)
LEMMA ClocksNextInv == ClocksInv /\ ClocksNext => ClocksInv'
  <1> SUFFICES ASSUME ClocksInv, ClocksNext PROVE ClocksInv'
    OBVIOUS
  <1> USE DEF ClocksInv
  <1>1. HtmInv'
    BY TemplateInv
  <1>2. ClocksTypeOK'
    BY <1>1, TypesStep DEF HtmInv
  <1>3. PlacesAgree'
    BY <1>1, PlacesStep DEF HtmInv
  <1>4. Logs' /\ Below' /\ Counted'
    BY <1>2, <1>3, LogsStep, BelowStep, CountedStep
  <1>5. CASE Pc
    <2>1. Pc'
      BY <1>5, SameProtocol DEF Pc
    <2>2. ClockMoves
      BY <1>2, <1>5, ClockStep
    <2>3. Timestamps' /\ Pending'
      BY <1>2, <1>5, <2>1, TimestampsStep, PendingStep
    <2>4. Waits'
      BY <1>2, <1>5, <2>1, <2>2, ClearedStep, WaitsStep
    <2>5. Markers'
      BY <1>2, <1>5, <2>1, <2>2, MarkersStep
    <2> QED
      BY <1>1, <1>2, <1>3, <1>4, <2>3, <2>4, <2>5
  <1>6. CASE ~ Pc
    <2>1. ~ Pc'
      BY <1>6, SameProtocol DEF Pc
    <2> QED
      BY <1>1, <1>2, <1>3, <1>4, <2>1 DEF Timestamps, Waits, Pending, Markers
  <1> QED
    BY <1>5, <1>6

(* A stuttering step keeps it.                                             *)
LEMMA ClocksStutterInv == ClocksInv /\ UNCHANGED clocksVars => ClocksInv'
  <1> SUFFICES ASSUME ClocksInv, UNCHANGED clocksVars PROVE ClocksInv'
    OBVIOUS
  <1> USE DEF ClocksInv, clocksVars, threadVars, waitVars, logVars
  <1>1. HtmInv'
    BY HtmStepInv
  <1>2. ClocksTypeOK'
    BY <1>1 DEF ClocksTypeOK, HtmInv
  <1>3. PlacesAgree'
    BY DEF PlacesAgree, Pc, Lc, htmVars
  <1>4. Timestamps' /\ Waits'
    BY DEF Timestamps, Waits, Cleared, Pc, htmVars
  <1>5. Logs'
    BY DEF Logs, MyTx
  <1>6. Below' /\ Pending' /\ Markers'
    BY DEF Below, Pending, Markers, Pc, htmVars
  <1>7. Counted'
    BY DEF Counted, CommitsOf, Open, Lc, htmVars
  <1> QED
    BY <1>1, <1>2, <1>3, <1>4, <1>5, <1>6, <1>7

(* The inductive invariant of the two protocols: what a thread shows of    *)
(* its timestamp and has seen of the others', and what the logs and the    *)
(* counter owe to it.                                                      *)
THEOREM ClocksInvariant == ClocksSpec => []ClocksInv
  <1>1. ClocksInv /\ [ClocksNext]_clocksVars => ClocksInv'
    BY ClocksNextInv, ClocksStutterInv
  <1> QED
    BY <1>1, ClocksInitInv, PTL DEF ClocksSpec

(* ClocksTypeOK, of the whole state; that gs_globalClock stays in range    *)
(* rests on the number of transactions.                                    *)
THEOREM ClocksTypeCorrect == ClocksSpec => []ClocksTypeOK
  BY ClocksInvariant, PTL DEF ClocksInv

(* No durable marker stands for a log whose entries are not durable, with  *)
(* either protocol.                                                        *)
THEOREM ClocksLogsAreWhole == ClocksSpec => []NoTornLog
  <1>1. ClocksInv => NoTornLog
    BY DEF ClocksInv, Logs, NoTornLog
  <1> QED
    BY <1>1, ClocksInvariant, PTL

(* With physical clocks a marker is written when every older transaction   *)
(* is durable, and no transaction commits behind it afterwards.            *)
THEOREM MarkersInOrder == ClocksSpec => []MarkerOrder
  <1>1. ClocksInv => MarkerOrder
    BY DEF ClocksInv, Markers, MarkerOrder
  <1> QED
    BY <1>1, ClocksInvariant, PTL
-----------------------------------------------------------------------------
(* The refinement of DurableHistory: a commit adds a transaction, a return *)
(* acknowledges one, and every other step may only make some durable. With *)
(* logical clocks every step stutters: the history is read as empty.       *)
HStutter == UNCHANGED <<OfPc(hist), OfPc(durable), OfPc(acked)>>

(* Only a return acknowledges.                                             *)
LEMMA StepStable ==
  ClocksNext => \/ UNCHANGED <<hist, acked>> /\ durable \subseteq durable'
                \/ \E t \in Threads : CCommit(t) \/ PcReturn(t) \/ LcReturn(t)
  <1> USE DEF threadVars, waitVars, logVars
  <1>1. ASSUME NEW t \in Threads, TemplateStep(t), ~ CCommit(t)
        PROVE  UNCHANGED <<hist, acked>> /\ durable \subseteq durable'
    BY <1>1 DEF TemplateStep, CEnter, CheckedFree, Hidden, Renewed, CAborts, Stamp
  <1>2. ASSUME NEW t \in Threads, CommitStep(t), ~ PcReturn(t), ~ LcReturn(t)
        PROVE  UNCHANGED <<hist, acked>> /\ durable \subseteq durable'
    BY <1>2 DEF CommitStep, Announce, PcReadOnly, LcReadOnly, FlushEntries, Scan, WaitFor,
         WriteMarker, PcFence, LcFence, ReadTs, ReadIn, EndRound
  <1>3. ASSUME NEW x \in marked, EvictMarker(x)
        PROVE  UNCHANGED <<hist, acked>> /\ durable \subseteq durable'
    BY <1>3 DEF EvictMarker
  <1>4. CASE Finished
    BY <1>4 DEF Finished, clocksVars
  <1> QED
    BY <1>1, <1>2, <1>3, <1>4 DEF ClocksNext

(* With physical clocks, logs becoming durable is a step of the abstract   *)
(* history: what is durable stays closed under older transactions.         *)
LEMMA GrowStabilises ==
  ASSUME ClocksInv', Pc, Pc', UNCHANGED <<hist, acked>>, durable \subseteq durable'
  PROVE  History!Stabilise
  <1>1. durable' \subseteq hist'
    BY DEF ClocksInv, Logs
  <1>2. \A x \in durable', y \in hist : y.v < x.v => y \in durable'
    BY DEF ClocksInv, Logs, Markers
  <1> QED
    BY <1>1, <1>2 DEF History!Stabilise, History!Prefix, OfPc

(* A commit carries a timestamp that is new to its thread and not below a  *)
(* marker.                                                                 *)
LEMMA CommitIsAbstract ==
  ASSUME ClocksInv, Pc, Pc', NEW t \in Threads, CCommit(t)
  PROVE  HStutter \/ \E x \in Tx : History!CommitTx(x)
  <1>1. UNCHANGED <<durable, acked>>
    BY DEF CCommit
  <1>2. CASE ~ update[t]
    BY <1>1, <1>2 DEF CCommit, HStutter, OfPc
  <1>3. CASE update[t]
    <2> DEFINE x == MyTx(t)
    <2>1. x \in Tx /\ x.t = t /\ x.v = rcv[t]
      BY TypeParts DEF ClocksInv
    <2>2. hist' = hist \cup {x}
      BY <1>3 DEF CCommit, MyTx, Pc, Lc
    <2>3. /\ ~ ts[t].done /\ ts[t].v < rcv[t] /\ hpc[t] \in Running
          /\ ts[t].v \in Int /\ rcv[t] \in Int
      BY TypeParts DEF ClocksInv, CCommit, CommitHtm, Release, Goto, Phase, Timestamps,
         Running
    <2>4. x \notin hist
      BY <2>1, <2>3 DEF ClocksInv, Pending
    <2>5. \A y \in durable : y.v <= x.v
      <3>1. \A y \in durable : y.v \in Int /\ y.v <= ts[t].v
        BY <2>3, TypeParts DEF ClocksInv, Markers, Logs
      <3> QED
        BY <2>1, <2>3, <3>1
    <2> HIDE DEF x
    <2> QED
      BY <1>1, <2>1, <2>2, <2>4, <2>5 DEF History!CommitTx, OfPc
  <1> QED
    BY <1>2, <1>3

(* With physical clocks the protocol implements the durable history: each  *)
(* transaction becomes recoverable after every older one and before it     *)
(* returns, in whatever order the threads write their markers.             *)
THEOREM PcImplementsDurableHistory == ClocksSpec => PcDurable
  <1>1. ClocksInit => History!HistoryInit
    BY DEF ClocksInit, History!HistoryInit, OfPc
  <1>2. ClocksInv /\ ClocksInv' /\ [ClocksNext]_clocksVars
           => [History!HistoryNext]_(History!historyVars)
    <2> SUFFICES ASSUME ClocksInv, ClocksInv', [ClocksNext]_clocksVars
                 PROVE  History!HistoryNext \/ HStutter
      BY DEF History!historyVars, HStutter
    <2>0. UNCHANGED protocol
      BY SameProtocol DEF clocksVars
    <2>1. CASE UNCHANGED clocksVars
      BY <2>1 DEF clocksVars, logVars, HStutter, OfPc, Pc
    <2>2. CASE ~ Pc
      BY <2>0, <2>2 DEF HStutter, OfPc, Pc
    <2>3. CASE ClocksNext /\ Pc
      <3>0. Pc'
        BY <2>0, <2>3 DEF Pc
      <3>1. CASE UNCHANGED <<hist, acked>> /\ durable \subseteq durable'
        BY <2>3, <3>0, <3>1, GrowStabilises DEF History!HistoryNext
      <3>2. ASSUME NEW t \in Threads, CCommit(t) PROVE History!HistoryNext \/ HStutter
        BY <2>3, <3>0, <3>2, CommitIsAbstract DEF History!HistoryNext
      <3>3. ASSUME NEW t \in Threads, PcReturn(t) PROVE History!HistoryNext \/ HStutter
        <4>1. MyTx(t) \in durable /\ MyTx(t) \in Tx
          BY <3>3, TypeParts DEF ClocksInv, Logs, PcReturn, Phase, PlacesAgree, Logged
        <4>2. acked' = acked \cup {MyTx(t)} /\ UNCHANGED <<hist, durable>>
          BY <3>3 DEF PcReturn
        <4> QED
          BY <2>3, <3>0, <4>1, <4>2 DEF History!HistoryNext, History!Ack, OfPc
      <3>4. ASSUME NEW t \in Threads, LcReturn(t) PROVE History!HistoryNext \/ HStutter
        BY <2>3, <3>4 DEF ClocksInv, PlacesAgree, LcReturn, Phase, Pc, Lc
      <3> QED
        BY <2>3, <3>1, <3>2, <3>3, <3>4, StepStable
    <2> QED
      BY <2>1, <2>2, <2>3
  <1> QED
    BY <1>1, <1>2, ClocksInvariant, PTL DEF ClocksSpec, PcDurable, History!HistorySpec
=============================================================================
