---------------------------- MODULE Replay_proofs ----------------------------
(***************************************************************************)
(* Safety of the log rings and the replayer for every number of workers    *)
(* and of transactions and every size of a ring, under two assumptions on  *)
(* the transactions, without either of which TLC finds a counterexample:   *)
(* a log and the words that fetch_log clears ahead fit the space that is   *)
(* waited for, and no value has bit 63 set. What carries it:               *)
(*                                                                         *)
(*   Ring     counted from write_log_start, the logs not replayed follow   *)
(*            each other up to write_log_next and leave room for what the  *)
(*            worker writes next;                                          *)
(*   Written  hence nothing overwrites them;                               *)
(*   Walking  hence the search for a marker stays within the first log and *)
(*            ends at its marker;                                          *)
(*   Picking  the pick is the first log of its worker and not newer than   *)
(*            any log seen in the round;                                   *)
(*   Applying the heap is what was replayed and the pairs before pos.      *)
(*                                                                         *)
(* The same invariant, and that no worker moves once the application has   *)
(* quit, show at the end that the replayer leaves nothing behind.          *)
(***************************************************************************)
EXTENDS Replay, FiniteSetTheorems, SequenceTheorems, WellFoundedInduction, TLAPS

(* A log and the words cleared past it fit the space waited for (with 512  *)
(* words to be free and eight cleared ahead, transactions of up to 251     *)
(* writes), and values leave bit 63 alone.                                 *)
TransactionsFit == \A b \in Bodies :
   /\ 2 * Len(b) + 1 + FetchAhead < MinSpace
   /\ \A k \in DOMAIN b : ~ b[k].val.mark

Txs == [ts : 1 .. MaxTs, at : Positions, body : Bodies]

(* Whether a transaction begun has not committed; how many logs the        *)
(* replayer may see; distances from write_log_start.                       *)
Open(t) == IF wpc[t] \in {"fetched", "body"} THEN 1 ELSE 0
Shown(t) == IF wpc[t] = "close" THEN Len(pending[t]) - 1 ELSE Len(pending[t])
Offset(t, p) == Wrap(p - start[t])
Used(t) == Offset(t, next[t])
OffsetOf(t, k) == Offset(t, pending[t][k].at)

Queues ==
   /\ pending \in [Workers -> Seq(Txs)]
   /\ \A t \in Workers : /\ Len(pending[t]) + Open(t) <= begun[t]
                         /\ wpc[t] = "close" => Len(pending[t]) > 0
                         /\ \A k \in 1 .. Len(pending[t]) : pending[t][k].ts <= now

Ordered == \A t, u \in Workers :
   \A k \in 1 .. Len(pending[t]), j \in 1 .. Len(pending[u]) :
      /\ t = u /\ j < k => pending[u][j].ts < pending[t][k].ts
      /\ t # u => pending[u][j].ts # pending[t][k].ts

RingAt(t) ==
   /\ cur[t] = start[t]
   /\ wpc[t] \in {"fetched", "body"} => end[t] = next[t]
   /\ wpc[t] \in {"idle", "fetched"} => Used(t) + FetchAhead < LogSize
   /\ wpc[t] = "body" => Used(t) + MinSpace <= LogSize
   /\ wpc[t] = "close" =>
         LET x == pending[t][Len(pending[t])] IN
         /\ x.at = next[t]
         /\ Used(t) + Length(x) + FetchAhead < LogSize
         /\ end[t] = Wrap(next[t] + Length(x) - 1)
   /\ Shown(t) = 0 => Used(t) = 0

Ring == \A t \in Workers : RingAt(t)

LaidAt(t) == \A k \in 1 .. Shown(t) :
   /\ k = 1 => OffsetOf(t, k) = 0
   /\ OffsetOf(t, k) + Length(pending[t][k]) <= Used(t)
   /\ IF k = Shown(t) THEN OffsetOf(t, k) + Length(pending[t][k]) = Used(t)
      ELSE OffsetOf(t, k) + Length(pending[t][k]) = OffsetOf(t, k + 1)
   /\ \A j \in 1 .. k - 1 : OffsetOf(t, j) + Length(pending[t][j]) <= OffsetOf(t, k)

Laid == \A t \in Workers : LaidAt(t)

Written == \A t \in Workers : \A k \in 1 .. Len(pending[t]) :
   \A j \in 0 .. Length(pending[t][k]) - 1 :
      log[t][Wrap(pending[t][k].at + j)] = Encoded(pending[t][k], j)

Walking == rpc = "walk" =>
   ri \in Workers /\ Shown(ri) > 0 /\ Offset(ri, pos) < Length(pending[ri][1])

Picking ==
   /\ rpc \in {"scan", "walk", "apply"} =>
         /\ inSight \subseteq VisibleTs
         /\ IF pick = None THEN rpc # "apply" /\ pickTs = NoTs
            ELSE Shown(pick) > 0 /\ pickTs = pending[pick][1].ts
         /\ \A u \in Workers : rpc = "apply" \/ u < ri =>
               \A k \in 1 .. Shown(u) :
                  pending[u][k].ts \in inSight => pickTs <= pending[u][k].ts
   /\ rpc = "clock" => pickTs <= now

Applying ==
   IF rpc # "apply" THEN heap = wanted
   ELSE LET body == pending[pick][1].body IN
        \E k \in 0 .. Len(body) : /\ Offset(pick, pos) = 2 * k
                                  /\ heap = Store(wanted, SubSeq(body, 1, k))

Commits == {c \in Workers \X (1 .. MaxTx) : c[2] + Open(c[1]) <= begun[c[1]]}
Counted == now = Cardinality(Commits)

ReplayInv == /\ ReplayTypeOK
             /\ Queues
             /\ Ordered
             /\ Ring
             /\ Laid
             /\ Written
             /\ Walking
             /\ Picking
             /\ Applying
             /\ Counted
-----------------------------------------------------------------------------
(* Positions on the ring: Wrap brings back what is at most one turn away.  *)
LEMMA Wraps ==
  /\ \A p \in Int : Wrap(p) \in Positions
  /\ \A p \in Positions : Wrap(p) = p
  /\ \A p \in Int : LogSize <= p /\ p < LogSize + LogSize => Wrap(p) = p - LogSize
  /\ \A p \in Int : 0 - LogSize <= p /\ p < 0 => Wrap(p) = p + LogSize
  <1>0. LogSize \in Nat \ {0}
    BY ReplayAssumption
  <1>1. \A p \in Int : Wrap(p) \in Positions
    BY <1>0 DEF Wrap, Positions
  <1>2. \A p \in Positions : Wrap(p) = p
    BY <1>0 DEF Wrap, Positions
  <1>3. \A p \in Int : LogSize <= p /\ p < LogSize + LogSize => Wrap(p) = p - LogSize
    BY <1>0 DEF Wrap
  <1>4. \A p \in Int : 0 - LogSize <= p /\ p < 0 => Wrap(p) = p + LogSize
    BY <1>0 DEF Wrap
  <1> QED
    BY <1>1, <1>2, <1>3, <1>4

(* Distances from any start: a position is determined by its distance, and *)
(* n words further on it is n larger, short of a full turn.                *)
LEMMA Distances ==
  ASSUME NEW s \in Positions, NEW p \in Positions
  PROVE  /\ Wrap(p - s) \in Positions
         /\ p = Wrap(s + Wrap(p - s))
         /\ Wrap(p - s) = 0 <=> p = s
         /\ \A q \in Positions : Wrap(p - s) = Wrap(q - s) => p = q
         /\ \A n \in Nat : Wrap(p - s) + n < LogSize
               => Wrap(Wrap(p + n) - s) = Wrap(p - s) + n
  <1>0. LogSize \in Nat \ {0}
    BY ReplayAssumption
  <1>1. \A q \in Positions :
           /\ q \in Int /\ q - s \in Int
           /\ IF q < s THEN Wrap(q - s) = q - s + LogSize ELSE Wrap(q - s) = q - s
    BY <1>0, Wraps DEF Positions
  <1>2. p = Wrap(s + Wrap(p - s))
    BY <1>0, <1>1, Wraps DEF Positions
  <1>3. ASSUME NEW n \in Nat, Wrap(p - s) + n < LogSize
        PROVE  Wrap(Wrap(p + n) - s) = Wrap(p - s) + n
    <2>1. CASE p + n < LogSize
      <3>1. Wrap(p + n) = p + n /\ p + n \in Positions
        BY <1>0, <2>1, Wraps DEF Positions
      <3> QED
        BY <1>0, <1>1, <1>3, <3>1 DEF Positions
    <2>2. CASE p + n >= LogSize
      <3>1. Wrap(p + n) = p + n - LogSize /\ p + n - LogSize \in Positions
        BY <1>0, <1>1, <1>3, <2>2, Wraps DEF Positions
      <3> QED
        BY <1>0, <1>1, <1>3, <2>2, <3>1 DEF Positions
    <2> QED
      BY <1>0, <2>1, <2>2 DEF Positions
  <1> QED
    BY <1>0, <1>1, <1>2, <1>3, Wraps DEF Positions

(* When the start moves on, what it has not passed comes closer.           *)
LEMMA Shift ==
  ASSUME NEW s \in Positions, NEW p \in Positions, NEW n \in Nat, n <= Wrap(p - s)
  PROVE  Wrap(s + n) \in Positions /\ Wrap(p - Wrap(s + n)) = Wrap(p - s) - n
  <1>0. LogSize \in Nat \ {0}
    BY ReplayAssumption
  <1>1. IF p < s THEN Wrap(p - s) = p - s + LogSize ELSE Wrap(p - s) = p - s
    BY <1>0, Wraps DEF Positions
  <1>2. IF s + n < LogSize THEN Wrap(s + n) = s + n ELSE Wrap(s + n) = s + n - LogSize
    BY <1>0, <1>1, Wraps DEF Positions
  <1>3. Wrap(s + n) \in Positions
    BY <1>0, <1>1, <1>2 DEF Positions
  <1>4. LET q == Wrap(s + n) IN
        IF p < q THEN Wrap(p - q) = p - q + LogSize ELSE Wrap(p - q) = p - q
    BY <1>0, <1>3, Wraps DEF Positions
  <1> QED
    BY <1>0, <1>1, <1>2, <1>3, <1>4 DEF Positions

(* What Word makes.                                                        *)
LEMMA WordIs ==
  ASSUME NEW b \in BOOLEAN, NEW n
  PROVE  /\ Word(b, n).mark = b /\ Word(b, n).n = n
         /\ n \in 0 .. MaxN => Word(b, n) \in Words
  BY DEF Word, Words

(* The words of a log: only the last one has bit 63 set.                   *)
LEMMA LogWords ==
  ASSUME TransactionsFit, NEW x \in Txs
  PROVE  /\ Len(x.body) \in Nat \ {0} /\ DOMAIN x.body = 1 .. Len(x.body)
         /\ Length(x) = 2 * Len(x.body) + 1 /\ Length(x) \in Nat
         /\ Length(x) + FetchAhead < MinSpace
         /\ \A k \in 0 .. Length(x) - 1 :
               /\ Encoded(x, k) \in Words
               /\ Encoded(x, k).mark <=> k = Length(x) - 1
         /\ Encoded(x, Length(x) - 1).n = x.ts
         /\ \A k \in 0 .. Len(x.body) - 1 :
               /\ Encoded(x, 2 * k) = Word(FALSE, x.body[k + 1].a)
               /\ Encoded(x, 2 * k + 1) = x.body[k + 1].val
  <1>0. MaxTs \in Nat /\ MaxTs <= MaxN /\ MaxN \in Nat
    BY ReplayAssumption DEF MaxTs
  <1>1. /\ x.body \in Seq([a : Addrs, val : Words]) /\ x.body # <<>>
        /\ x.ts \in 1 .. MaxTs /\ x.body \in Bodies
    BY ReplayAssumption DEF Txs
  <1>2. Len(x.body) \in Nat \ {0} /\ DOMAIN x.body = 1 .. Len(x.body)
    BY <1>1
  <1>3. /\ Length(x) = 2 * Len(x.body) + 1 /\ Length(x) \in Nat
        /\ Length(x) + FetchAhead < MinSpace
    BY <1>1, <1>2 DEF Length, TransactionsFit
  <1>4. \A k \in 1 .. Len(x.body) :
           /\ x.body[k].a \in Addrs /\ x.body[k].val \in Words /\ ~ x.body[k].val.mark
           /\ x.body[k].a \in 1 .. MaxN
    <2> TAKE k \in 1 .. Len(x.body)
    <2>1. x.body[k] \in [a : Addrs, val : Words]
      BY <1>1, ElementOfSeq, Zenon
    <2>2. Addrs \subseteq 1 .. MaxN
      BY ReplayAssumption, Zenon
    <2>3. ~ x.body[k].val.mark
      BY <1>1, <1>2 DEF TransactionsFit
    <2> QED
      BY <2>1, <2>2, <2>3
  <1>5. \A k \in 0 .. Len(x.body) - 1 :
           /\ Encoded(x, 2 * k) = Word(FALSE, x.body[k + 1].a)
           /\ Encoded(x, 2 * k + 1) = x.body[k + 1].val
    <2> TAKE k \in 0 .. Len(x.body) - 1
    <2>1. /\ (2 * k) \div 2 = k /\ (2 * k) % 2 = 0
          /\ (2 * k + 1) \div 2 = k /\ (2 * k + 1) % 2 # 0
      BY <1>2
    <2>2. 2 * k # Length(x) - 1 /\ 2 * k + 1 # Length(x) - 1
      BY <1>2, <1>3
    <2> QED
      BY <2>1, <2>2 DEF Encoded
  <1>6. Encoded(x, Length(x) - 1) = Word(TRUE, x.ts)
    BY DEF Encoded
  <1>7. ASSUME NEW k \in 0 .. Length(x) - 1, k # Length(x) - 1
        PROVE  Encoded(x, k) \in Words /\ ~ Encoded(x, k).mark
    <2>1. PICK j \in 0 .. Len(x.body) - 1 : k = 2 * j \/ k = 2 * j + 1
      <3>1. /\ k \div 2 \in 0 .. Len(x.body) - 1
            /\ k = 2 * (k \div 2) \/ k = 2 * (k \div 2) + 1
        BY <1>2, <1>3, <1>7
      <3> QED
        BY <3>1
    <2>2. j + 1 \in 1 .. Len(x.body)
      BY <1>2
    <2>3. CASE k = 2 * j
      <3>1. Encoded(x, k) = Word(FALSE, x.body[j + 1].a)
        BY <1>5, <2>3
      <3>2. x.body[j + 1].a \in 0 .. MaxN
        BY <1>0, <1>4, <2>2
      <3> QED
        BY <3>1, <3>2, WordIs
    <2>4. CASE k = 2 * j + 1
      <3>1. Encoded(x, k) = x.body[j + 1].val
        BY <1>5, <2>4
      <3> QED
        BY <1>4, <2>2, <3>1
    <2> QED
      BY <2>1, <2>3, <2>4
  <1>8. Encoded(x, Length(x) - 1) \in Words
    <2>1. x.ts \in 0 .. MaxN
      <3>1. x.ts \in 1 .. MaxTs
        BY DEF Txs
      <3> QED
        BY <1>0, <3>1
    <2> QED
      BY <1>6, <2>1, WordIs
  <1>9. Encoded(x, Length(x) - 1).mark /\ Encoded(x, Length(x) - 1).n = x.ts
    BY <1>6, WordIs
  <1> QED
    BY <1>2, <1>3, <1>5, <1>7, <1>8, <1>9
-----------------------------------------------------------------------------
(* A non-empty set of positions of a sequence has a last one.              *)
Last(T) == CHOOSE k \in T : \A j \in T : j <= k

(* Last of a non-empty set of positions is its greatest.                  *)
LEMMA LastIs ==
  ASSUME NEW n \in Nat, NEW T, T \subseteq 1 .. n, T # {}
  PROVE  Last(T) \in T /\ \A j \in T : j <= Last(T)
  <1> DEFINE D == {n - j : j \in T}
  <1>1. D \subseteq Nat /\ D # {}
    <2>1. \A j \in T : j \in 1 .. n
      OBVIOUS
    <2>2. \A j \in T : n - j \in Nat
      BY <2>1
    <2> QED
      BY <2>2
  <1>2. \E d \in D : \A e \in D : <<e, d>> \notin OpToRel(<, Nat)
    <2> HIDE DEF D
    <2> QED
      BY <1>1, WFMin, NatLessThanWellFounded, Zenon
  <1>3. \A d, e \in D : e < d => <<e, d>> \in OpToRel(<, Nat)
    BY <1>1, Zenon DEF OpToRel
  <1>4. \E d \in D : \A e \in D : ~ (e < d)
    BY <1>2, <1>3, Zenon
  <1>5. \E k \in T : \A j \in T : j <= k
    <2>1. PICK d \in D : \A e \in D : ~ (e < d)
      BY <1>4
    <2>2. PICK k \in T : d = n - k
      BY <2>1
    <2>3. \A j \in T : ~ (n - j < n - k)
      BY <2>1, <2>2
    <2>4. \A j \in T : j \in Int
      OBVIOUS
    <2> QED
      BY <2>2, <2>3, <2>4
  <1> QED
    BY <1>5, Zenon DEF Last

(* Store, in these terms.                                                  *)
Hits(body, a) == {k \in DOMAIN body : body[k].a = a}

(* Store takes, at each address, the last write that hits it.             *)
LEMMA StoreIs ==
  ASSUME NEW mem, NEW body
  PROVE  Store(mem, body) = [a \in DOMAIN mem |-> IF Hits(body, a) = {} THEN mem[a]
                                                 ELSE body[Last(Hits(body, a))].val]
  BY Zenon DEF Store, Last, Hits

(* What an address holds after the first k writes of a transaction: the    *)
(* value of the last of them to it.                                        *)
To(body, k, a) == {j \in 1 .. k : body[j].a = a}

(* Store of the first k writes takes the last of those to the address.    *)
LEMMA StoreAt ==
  ASSUME NEW S, NEW body \in Seq(S), NEW k \in 0 .. Len(body), NEW mem,
         NEW a \in DOMAIN mem
  PROVE  Store(mem, SubSeq(body, 1, k))[a] =
            IF To(body, k, a) = {} THEN mem[a] ELSE body[Last(To(body, k, a))].val
  <1> DEFINE s == SubSeq(body, 1, k)
             T == To(body, k, a)
  <1>1. /\ DOMAIN s = 1 .. k
        /\ \A j \in 1 .. k : s[j] = body[j]
    <2>1. \A i \in 1 .. k : body[i] \in S
      BY ElementOfSeq
    <2>2. /\ s \in Seq(S) /\ Len(s) = IF 1 <= k THEN k - 1 + 1 ELSE 0
          /\ \A i \in 1 .. k - 1 + 1 : s[i] = body[1 + i - 1]
      BY <2>1, SubSeqProperties
    <2> HIDE DEF s
    <2>3. Len(s) = k
      BY <2>2
    <2>4. \A i \in 1 .. k : s[i] = body[i]
      BY <2>2
    <2> QED
      BY <2>2, <2>3, <2>4
  <1> HIDE DEF s
  <1>2. Hits(s, a) = T
    BY <1>1 DEF To, Hits
  <1>3. T # {} => Last(T) \in 1 .. k /\ s[Last(T)] = body[Last(T)]
    <2>1. T \subseteq 1 .. k /\ k \in Nat
      BY DEF To
    <2> HIDE DEF T
    <2> QED
      BY <1>1, <2>1, LastIs
  <1>4. Store(mem, s)[a] = IF T = {} THEN mem[a] ELSE s[Last(T)].val
    BY <1>2, StoreIs
  <1> QED
    BY <1>3, <1>4 DEF s

(* One more write is one more store.                                       *)
LEMMA StoreNext ==
  ASSUME NEW S, NEW body \in Seq(S), NEW k \in 0 .. Len(body) - 1, NEW mem
  PROVE  Store(mem, SubSeq(body, 1, k + 1)) =
            [Store(mem, SubSeq(body, 1, k)) EXCEPT ![body[k + 1].a] = body[k + 1].val]
  <1> DEFINE old == Store(mem, SubSeq(body, 1, k))
             new == Store(mem, SubSeq(body, 1, k + 1))
  <1>1. /\ k \in 0 .. Len(body) /\ k + 1 \in 0 .. Len(body) /\ k + 1 \in Nat
    OBVIOUS
  <1>2. /\ DOMAIN old = DOMAIN mem /\ DOMAIN new = DOMAIN mem
        /\ new = [a \in DOMAIN mem |-> new[a]] /\ old = [a \in DOMAIN mem |-> old[a]]
    BY StoreIs
  <1>3. ASSUME NEW a \in DOMAIN mem, body[k + 1].a = a
        PROVE  new[a] = body[k + 1].val
    <2>1. k + 1 \in To(body, k + 1, a) /\ To(body, k + 1, a) \subseteq 1 .. k + 1
      BY <1>1, <1>3 DEF To
    <2>2. Last(To(body, k + 1, a)) = k + 1
      BY <1>1, <2>1, LastIs
    <2>3. new[a] = IF To(body, k + 1, a) = {} THEN mem[a]
                   ELSE body[Last(To(body, k + 1, a))].val
      BY <1>1, StoreAt
    <2> QED
      BY <2>1, <2>2, <2>3
  <1>4. ASSUME NEW a \in DOMAIN mem, body[k + 1].a # a
        PROVE  new[a] = old[a]
    <2>1. To(body, k + 1, a) = To(body, k, a)
      BY <1>1, <1>4 DEF To
    <2>2. new[a] = IF To(body, k + 1, a) = {} THEN mem[a]
                   ELSE body[Last(To(body, k + 1, a))].val
      BY <1>1, StoreAt
    <2>3. old[a] = IF To(body, k, a) = {} THEN mem[a] ELSE body[Last(To(body, k, a))].val
      BY <1>1, StoreAt
    <2> QED
      BY <2>1, <2>2, <2>3
  <1> HIDE DEF old, new
  <1>5. new = [old EXCEPT ![body[k + 1].a] = body[k + 1].val]
    BY <1>2, <1>3, <1>4
  <1> QED
    BY <1>5 DEF old, new

(* No write, no store.                                                     *)
LEMMA StoreNone ==
  ASSUME NEW D, NEW W, NEW mem \in [D -> W], NEW S, NEW body \in Seq(S)
  PROVE  Store(mem, SubSeq(body, 1, 0)) = mem
  <1>1. \A a \in D : Store(mem, SubSeq(body, 1, 0))[a] = mem[a]
    <2> TAKE a \in D
    <2>1. To(body, 0, a) = {} /\ 0 \in 0 .. Len(body)
      BY DEF To
    <2> QED
      BY <2>1, StoreAt
  <1> QED
    BY <1>1, StoreIs
-----------------------------------------------------------------------------
(* The state, one worker at a time.                                        *)
LEMMA Typed ==
  ASSUME ReplayTypeOK, Queues
  PROVE  /\ pos \in Positions /\ now \in Nat
         /\ \A t \in Workers :
               /\ next[t] \in Positions /\ start[t] \in Positions
               /\ end[t] \in Positions /\ cur[t] \in Positions
               /\ log[t] \in [Positions -> Words]
               /\ pending[t] \in Seq(Txs) /\ Len(pending[t]) \in Nat
               /\ Shown(t) \in Nat /\ Shown(t) <= Len(pending[t])
               /\ IF wpc[t] = "close" THEN Shown(t) + 1 = Len(pending[t])
                  ELSE Shown(t) = Len(pending[t])
               /\ \A k \in 1 .. Len(pending[t]) :
                     /\ pending[t][k] \in Txs /\ pending[t][k].at \in Positions
                     /\ pending[t][k].ts \in Nat
  <1>1. pos \in Positions /\ now \in Nat
    BY DEF ReplayTypeOK
  <1>2. ASSUME NEW t \in Workers
        PROVE  /\ next[t] \in Positions /\ start[t] \in Positions
               /\ end[t] \in Positions /\ cur[t] \in Positions
               /\ log[t] \in [Positions -> Words]
    BY DEF ReplayTypeOK
  <1>3. ASSUME NEW t \in Workers
        PROVE  /\ pending[t] \in Seq(Txs) /\ Len(pending[t]) \in Nat
               /\ wpc[t] = "close" => Len(pending[t]) > 0
    BY DEF Queues
  <1>4. ASSUME NEW t \in Workers
        PROVE  /\ Shown(t) \in Nat /\ Shown(t) <= Len(pending[t])
               /\ IF wpc[t] = "close" THEN Shown(t) + 1 = Len(pending[t])
                  ELSE Shown(t) = Len(pending[t])
    BY <1>3 DEF Shown
  <1>5. ASSUME NEW t \in Workers, NEW k \in 1 .. Len(pending[t])
        PROVE  pending[t][k] \in Txs
    BY <1>3, ElementOfSeq
  <1>6. \A x \in Txs : x.at \in Positions /\ x.ts \in Nat
    BY DEF Txs
  <1> QED
    BY <1>1, <1>2, <1>3, <1>4, <1>5, <1>6

(* The logs the replayer may see are the first ones of each worker.        *)
LEMMA VisibleIs ==
  ASSUME ReplayTypeOK, Queues
  PROVE  /\ \A t \in Workers : Visible(t) = 1 .. Shown(t)
         /\ \A n : n \in VisibleTs <=>
               \E t \in Workers : \E k \in 1 .. Shown(t) : n = pending[t][k].ts
         /\ VisibleTs \subseteq 1 .. MaxTs
  <1>1. ASSUME NEW t \in Workers PROVE Visible(t) = 1 .. Shown(t)
    BY Typed DEF Visible, Shown
  <1> DEFINE Seen(t) == {pending[t][k].ts : k \in Visible(t)}
  <1>2. VisibleTs = UNION {Seen(t) : t \in Workers}
    BY DEF VisibleTs
  <1>3. \A t \in Workers : \A n : n \in Seen(t) <=>
           \E k \in 1 .. Shown(t) : n = pending[t][k].ts
    BY <1>1
  <1> HIDE DEF Seen
  <1>4. \A n : n \in VisibleTs <=>
           \E t \in Workers : \E k \in 1 .. Shown(t) : n = pending[t][k].ts
    BY <1>2, <1>3
  <1>5. ASSUME NEW t \in Workers, NEW k \in 1 .. Shown(t)
        PROVE  pending[t][k].ts \in 1 .. MaxTs
    <2>1. pending[t][k] \in Txs
      BY Typed
    <2> QED
      BY <2>1 DEF Txs
  <1>6. VisibleTs \subseteq 1 .. MaxTs
    BY <1>4, <1>5
  <1> QED
    BY <1>1, <1>4, <1>6

(* What the replayer reads in the first log of a worker is what its        *)
(* transaction wrote there.                                                *)
LEMMA FirstLog ==
  ASSUME TransactionsFit, ReplayTypeOK, Queues, Ring, Laid, Written,
         NEW t \in Workers, Shown(t) > 0, NEW p \in Positions,
         Offset(t, p) < Length(pending[t][1])
  PROVE  /\ pending[t][1] \in Txs /\ Offset(t, p) \in Nat
         /\ cur[t] = start[t] /\ start[t] = pending[t][1].at
         /\ log[t][p] = Encoded(pending[t][1], Offset(t, p))
         /\ Length(pending[t][1]) <= Used(t) /\ Used(t) \in Nat /\ Used(t) < LogSize
  <1>0. LogSize \in Nat
    BY ReplayAssumption
  <1> DEFINE x == pending[t][1]
  <1>1. 1 \in 1 .. Shown(t) /\ 1 \in 1 .. Len(pending[t])
    BY Typed
  <1>2. x \in Txs /\ x.at \in Positions /\ start[t] \in Positions /\ next[t] \in Positions
    BY <1>1, Typed
  <1>3. Length(x) \in Nat
    BY <1>2, LogWords
  <1>4. OffsetOf(t, 1) = 0 /\ OffsetOf(t, 1) + Length(x) <= Used(t)
    BY <1>1 DEF Laid, LaidAt
  <1>5. start[t] = x.at
    BY <1>2, <1>4, Distances DEF OffsetOf, Offset
  <1>6. Offset(t, p) \in 0 .. LogSize - 1 /\ p = Wrap(start[t] + Offset(t, p))
    BY <1>2, Distances DEF Offset, Positions
  <1>7. Offset(t, p) \in 0 .. Length(x) - 1
    BY <1>0, <1>3, <1>6
  <1>8. log[t][Wrap(x.at + Offset(t, p))] = Encoded(x, Offset(t, p))
    BY <1>1, <1>7 DEF Written
  <1>9. Used(t) \in 0 .. LogSize - 1
    BY <1>2, Distances DEF Used, Offset, Positions
  <1>10. cur[t] = start[t]
    BY DEF Ring, RingAt
  <1> QED
    BY <1>0, <1>2, <1>3, <1>4, <1>5, <1>6, <1>8, <1>9, <1>10

(* What lies before a position, counted from s, is far behind it.          *)
LEMMA Behind ==
  ASSUME NEW s \in Positions, NEW p \in Positions, NEW q \in Positions,
         Wrap(p - s) < Wrap(q - s)
  PROVE  Wrap(p - q) = Wrap(p - s) - Wrap(q - s) + LogSize
  <1>0. LogSize \in Nat \ {0}
    BY ReplayAssumption
  <1>1. \A u, v \in Positions :
           IF u < v THEN Wrap(u - v) = u - v + LogSize ELSE Wrap(u - v) = u - v
    BY <1>0, Wraps DEF Positions
  <1>2. /\ IF p < s THEN Wrap(p - s) = p - s + LogSize ELSE Wrap(p - s) = p - s
        /\ IF q < s THEN Wrap(q - s) = q - s + LogSize ELSE Wrap(q - s) = q - s
        /\ IF p < q THEN Wrap(p - q) = p - q + LogSize ELSE Wrap(p - q) = p - q
    BY <1>1
  <1> QED
    BY <1>0, <1>2 DEF Positions
-----------------------------------------------------------------------------
(* The timestamps fit: each stands for a transaction of its worker, of     *)
(* which there are MaxTx.                                                  *)
LEMMA TimestampsFit ==
  ASSUME ReplayTypeOK, Queues, Counted, NEW t \in Workers, wpc[t] = "body"
  PROVE  /\ now + 1 \in 1 .. MaxTs
         /\ begun' = begun /\ wpc' = [wpc EXCEPT ![t] = "close"]
               => Cardinality(Commits') = now + 1
  <1>0. MaxTx \in Nat /\ N \in Nat /\ IsFiniteSet(Workers) /\ Cardinality(Workers) = N
    <2>1. MaxTx \in Nat /\ N \in Nat /\ 0 \in Int /\ N - 1 \in Int
      BY ReplayAssumption
    <2>2. IsFiniteSet(Workers) /\ Cardinality(Workers) = IF 0 > N - 1 THEN 0
                                                        ELSE N - 1 - 0 + 1
      BY <2>1, FS_Interval DEF Workers
    <2>3. Cardinality(Workers) = N
      BY <2>1, <2>2
    <2> QED
      BY <2>1, <2>2, <2>3
  <1> DEFINE All == Workers \X (1 .. MaxTx)
             new == <<t, begun[t]>>
  <1>1. IsFiniteSet(All) /\ Cardinality(All) = MaxTs
    <2>1. IsFiniteSet(1 .. MaxTx) /\ Cardinality(1 .. MaxTx) = MaxTx
      BY <1>0, FS_Interval
    <2> QED
      BY <1>0, <2>1, FS_Product DEF MaxTs
  <1>2. /\ \A u \in Workers : begun[u] \in Nat
        /\ begun[t] \in 1 .. MaxTx
    <2>1. Len(pending[t]) + 1 <= begun[t] /\ Len(pending[t]) \in Nat
      BY Typed DEF Queues, Open
    <2> QED
      BY <1>0, <2>1 DEF ReplayTypeOK
  <1>3. Commits \subseteq All /\ new \in All /\ new \notin Commits
    BY <1>2 DEF Commits, Open
  <1>4. IsFiniteSet(Commits) /\ IsFiniteSet(Commits \cup {new})
    BY <1>1, <1>3, FS_Subset, FS_AddElement
  <1>5. Cardinality(Commits \cup {new}) = now + 1
    BY <1>3, <1>4, FS_AddElement DEF Counted
  <1>6. Cardinality(Commits \cup {new}) <= Cardinality(All)
    <2>1. Commits \cup {new} \subseteq All
      BY <1>3
    <2> HIDE DEF All, new
    <2> QED
      BY <1>1, <2>1, FS_Subset
  <1>7. now \in Nat /\ MaxTs \in Nat
    BY <1>0, Typed DEF MaxTs
  <1>8. now + 1 \in 1 .. MaxTs
    <2> HIDE DEF All, new
    <2> QED
      BY <1>1, <1>5, <1>6, <1>7
  <1>9. begun' = begun /\ wpc' = [wpc EXCEPT ![t] = "close"] => Commits' = Commits \cup {new}
    <2> SUFFICES ASSUME begun' = begun, wpc' = [wpc EXCEPT ![t] = "close"]
                 PROVE  Commits' = Commits \cup {new}
      OBVIOUS
    <2>1. wpc \in [Workers -> {"idle", "fetched", "body", "close"}]
      BY DEF ReplayTypeOK
    <2>2. /\ Open(t)' = 0 /\ Open(t) = 1
          /\ \A u \in Workers \ {t} : Open(u)' = Open(u)
      BY <2>1 DEF Open
    <2>3. \A u \in Workers, k \in 1 .. MaxTx :
             <<u, k>> \in Commits' <=> <<u, k>> \in Commits \/ <<u, k>> = new
      <3> TAKE u \in Workers, k \in 1 .. MaxTx
      <3>1. <<u, k>> \in Commits' <=> k + Open(u)' <= begun[u]
        BY DEF Commits
      <3>2. <<u, k>> \in Commits <=> k + Open(u) <= begun[u]
        BY DEF Commits
      <3>3. <<u, k>> = new <=> u = t /\ k = begun[t]
        OBVIOUS
      <3> HIDE DEF new
      <3> QED
        BY <1>2, <2>2, <3>1, <3>2, <3>3
    <2>4. Commits' \subseteq All /\ Commits \cup {new} \subseteq All
      BY <1>3 DEF Commits
    <2> HIDE DEF new
    <2> QED
      BY <2>3, <2>4
  <1> HIDE DEF new
  <1> QED
    BY <1>5, <1>8, <1>9

(* When the replayer comes to the marker, the heap is as it should be:     *)
(* pos is at the last word of the log, so all its writes are in.           *)
LEMMA LastWrite ==
  ASSUME TransactionsFit, ReplayTypeOK, Queues, Ring, Laid, Written, Picking, Applying,
         rpc = "apply", log[pick][pos].mark
  PROVE  /\ pick \in Workers /\ Shown(pick) > 0 /\ pending[pick][1] \in Txs
         /\ Offset(pick, pos) = Length(pending[pick][1]) - 1
         /\ log[pick][pos].n = pending[pick][1].ts
         /\ heap = Store(wanted, pending[pick][1].body)
         /\ heap \in [Addrs \cup {0} -> Words]
  <1> DEFINE x == pending[pick][1]
  <1>1. pick \in Workers /\ Shown(pick) > 0 /\ pos \in Positions
    BY DEF Picking, ReplayTypeOK
  <1>2. PICK k \in 0 .. Len(x.body) : /\ Offset(pick, pos) = 2 * k
                                      /\ heap = Store(wanted, SubSeq(x.body, 1, k))
    BY DEF Applying
  <1>3. x \in Txs
    BY <1>1, Typed
  <1>4. Length(x) = 2 * Len(x.body) + 1 /\ Len(x.body) \in Nat
    BY <1>3, LogWords
  <1>5. Offset(pick, pos) < Length(x) /\ 2 * k \in 0 .. Length(x) - 1
    BY <1>2, <1>4
  <1>6. log[pick][pos] = Encoded(x, 2 * k)
    BY <1>1, <1>2, <1>5, FirstLog
  <1>7. 2 * k = Length(x) - 1
    <2> HIDE DEF x
    <2> QED
      BY <1>3, <1>5, <1>6, LogWords
  <1>8. k = Len(x.body)
    BY <1>2, <1>4, <1>7
  <1>9. SubSeq(x.body, 1, k) = x.body
    <2>1. x.body \in Seq([a : Addrs, val : Words])
      BY <1>3, ReplayAssumption DEF Txs
    <2> QED
      BY <1>8, <2>1, SubSeqFull
  <1>10. log[pick][pos].n = x.ts
    BY <1>3, <1>6, <1>7, LogWords
  <1> QED
    BY <1>1, <1>2, <1>3, <1>7, <1>9, <1>10 DEF ReplayTypeOK

(* Types.                                                                  *)
LEMMA TypesStep ==
  ASSUME TransactionsFit, ReplayTypeOK, Queues, Ring, Laid, Written, Walking, Picking,
         Applying, Counted, ReplayNext
  PROVE  ReplayTypeOK'
  <1>0. /\ MaxTs \in Nat /\ MaxTs <= MaxN /\ MaxN \in Nat /\ N \in Nat
        /\ \A t \in Workers : wpc[t] = "body" => now + 1 \in 1 .. MaxTs
    <2>1. MaxTs \in Nat /\ MaxTs <= MaxN /\ MaxN \in Nat /\ N \in Nat
      BY ReplayAssumption DEF MaxTs
    <2> QED
      BY <2>1, TimestampsFit
  <1> USE DEF ReplayTypeOK, workerVars, replayerVars
  <1>1. CASE Quit
    BY <1>1 DEF Quit
  <1>2. CASE Top
    <2>1. NoTs \in 0 .. NoTs /\ 0 \in 0 .. N
      BY <1>0, ReplayAssumption DEF NoTs
    <2>2. inSight' \subseteq 1 .. MaxTs
      BY <1>2, VisibleIs DEF Top
    <2> QED
      BY <1>2, <2>1, <2>2 DEF Top
  <1>3. CASE Scan
    <2>1. ri < N => ri \in Workers /\ ri + 1 \in 0 .. N
      BY ReplayAssumption DEF Workers
    <2> QED
      BY <1>3, <2>1 DEF Scan
  <1>4. CASE WalkOn
    <2>1. ri \in Workers /\ ri + 1 \in 0 .. N
      BY <1>4, ReplayAssumption DEF WalkOn, Walking, Workers
    <2>2. pos + 1 \in Int
      BY DEF Positions
    <2>3. Wrap(pos + 1) \in Positions
      BY <2>2, Wraps
    <2> QED
      BY <1>4, <2>1, <2>3 DEF WalkOn
  <1>5. CASE WalkEnd
    <2>1. ri \in Workers /\ ri + 1 \in 0 .. N
      BY <1>5, ReplayAssumption DEF WalkEnd, Walking, Workers
    <2>2. log[ri][pos] \in Words
      BY <2>1
    <2>3. log[ri][pos].n \in 0 .. NoTs
      BY <1>0, <2>2 DEF Words, NoTs
    <2> QED
      BY <1>5, <2>1, <2>3 DEF WalkEnd
  <1>6. CASE Choose
    BY <1>6 DEF Choose
  <1>7. CASE NoLog
    BY <1>7 DEF NoLog
  <1>8. CASE Apply
    <2>1. pick \in Workers
      BY <1>8 DEF Apply, Picking
    <2>2. pos + 2 \in Int /\ pos + 1 \in Int
      BY DEF Positions
    <2>3. Wrap(pos + 2) \in Positions /\ Wrap(pos + 1) \in Positions
      BY <2>2, Wraps
    <2>4. log[pick][Wrap(pos + 1)] \in Words
      BY <2>1, <2>3
    <2>5. heap' = [heap EXCEPT ![log[pick][Wrap(pos + 0)].n] = log[pick][Wrap(pos + 1)]]
      BY <1>8 DEF Apply
    <2> QED
      BY <1>8, <2>3, <2>4, <2>5 DEF Apply
  <1>9. CASE Finish
    <2>1. pick \in Workers /\ log[pick][pos] \in Words
      BY <1>9 DEF Finish, Picking
    <2>2. pos + 1 \in Int /\ log[pick][pos].n \in 0 .. NoTs
      BY <1>0, <2>1 DEF Positions, Words, NoTs
    <2>3. Wrap(pos + 1) \in Positions
      BY <2>2, Wraps
    <2>4. wanted' \in [Addrs \cup {0} -> Words]
      BY <1>9, LastWrite DEF Finish
    <2> QED
      BY <1>9, <2>2, <2>3, <2>4 DEF Finish
  <1>10. CASE TellClock
    <2>1. pickTs \in 0 .. MaxTs
      BY <1>10, <1>0 DEF TellClock, Picking
    <2> QED
      BY <1>10, <2>1 DEF TellClock
  <1>11. CASE Stopped
    BY <1>11 DEF Stopped, replayVars
  <1>12. ASSUME NEW t \in Workers, Begin(t) PROVE ReplayTypeOK'
    <2>1. next[t] + FetchAhead \in Int
      BY ReplayAssumption DEF Positions
    <2>2. Word(FALSE, 0) \in Words
      <3>1. 0 \in 0 .. MaxN
        BY <1>0
      <3> QED
        BY <3>1, WordIs
    <2>3. begun[t] + 1 \in 0 .. MaxTx
      BY <1>12, ReplayAssumption DEF Begin
    <2>4. log' \in [Workers -> [Positions -> Words]]
      BY <1>12, <2>2 DEF Begin
    <2> QED
      BY <1>12, <2>3, <2>4 DEF Begin, At
  <1>13. ASSUME NEW t \in Workers, Room(t) PROVE ReplayTypeOK'
    BY <1>13 DEF Room, At
  <1>14. ASSUME NEW t \in Workers, Commit(t) PROVE ReplayTypeOK'
    <2>1. PICK body \in Bodies :
             LET x == [ts |-> now + 1, at |-> end[t], body |-> body] IN
             /\ log' = [log EXCEPT ![t] = [p \in Positions |->
                           IF Wrap(p - x.at) < Length(x) THEN Encoded(x, Wrap(p - x.at))
                           ELSE @[p]]]
             /\ end' = [end EXCEPT ![t] = Wrap(@ + Length(x) - 1)]
      BY <1>14 DEF Commit
    <2> DEFINE x == [ts |-> now + 1, at |-> end[t], body |-> body]
    <2>2. x \in Txs /\ now + 1 \in 0 .. MaxTs /\ end[t] \in Positions
      BY <1>14, <1>0 DEF Commit, At, Txs
    <2>3. /\ log' = [log EXCEPT ![t] = [p \in Positions |->
                        IF Wrap(p - x.at) < Length(x) THEN Encoded(x, Wrap(p - x.at))
                        ELSE @[p]]]
          /\ end' = [end EXCEPT ![t] = Wrap(@ + Length(x) - 1)]
      BY <2>1
    <2>4. x.at = end[t]
      OBVIOUS
    <2> HIDE DEF x
    <2>5. Length(x) \in Nat
      BY <2>2, LogWords
    <2>6. end' \in [Workers -> Positions]
      <3>1. end[t] + Length(x) - 1 \in Int
        BY <2>2, <2>5 DEF Positions
      <3> QED
        BY <2>3, <3>1, Wraps
    <2>7. log' \in [Workers -> [Positions -> Words]]
      <3>1. ASSUME NEW p \in Positions, Wrap(p - x.at) < Length(x)
            PROVE  Encoded(x, Wrap(p - x.at)) \in Words
        <4>1. Wrap(p - x.at) \in Positions
          BY <2>2, <2>4, Distances
        <4>2. Wrap(p - x.at) \in 0 .. Length(x) - 1
          BY <2>5, <3>1, <4>1, ReplayAssumption DEF Positions
        <4> QED
          BY <2>2, <4>2, LogWords
      <3>2. [p \in Positions |-> IF Wrap(p - x.at) < Length(x)
                THEN Encoded(x, Wrap(p - x.at)) ELSE log[t][p]] \in [Positions -> Words]
        BY <3>1
      <3> QED
        BY <2>3, <3>2
    <2>8. now' \in 0 .. MaxTs
      BY <1>14, <2>2 DEF Commit
    <2>9. wpc' \in [Workers -> {"idle", "fetched", "body", "close"}]
      BY <1>14 DEF Commit, At
    <2> QED
      BY <1>14, <2>6, <2>7, <2>8, <2>9 DEF Commit
  <1>15. ASSUME NEW t \in Workers, Publish(t) PROVE ReplayTypeOK'
    <2>1. end[t] + 1 \in Int
      BY DEF Positions
    <2>2. Wrap(end[t] + 1) \in Positions
      BY <2>1, Wraps
    <2> QED
      BY <1>15, <2>2 DEF Publish, At
  <1> QED
    BY <1>1, <1>2, <1>3, <1>4, <1>5, <1>6, <1>7, <1>8, <1>9, <1>10, <1>11, <1>12,
       <1>13, <1>14, <1>15
    DEF ReplayNext, ReplayerStep, WorkerStep
-----------------------------------------------------------------------------
(* Which steps touch the rings and the logs in them.                       *)
RingsKept == UNCHANGED <<log, next, start, cur, wpc, end, now, begun, pending>>

(* Every step keeps the rings and their logs, or replays a log, or is a   *)
(* worker's.                                                              *)
LEMMA RingSteps ==
  ReplayNext => \/ RingsKept
                \/ Finish
                \/ \E t \in Workers : Begin(t) \/ Room(t) \/ Commit(t) \/ Publish(t)
  <1> USE DEF RingsKept, workerVars, replayerVars
  <1>1. ReplayerStep => RingsKept \/ Finish
    BY DEF ReplayerStep, Top, Scan, WalkOn, WalkEnd, Choose, NoLog, Apply, TellClock
  <1>2. Quit \/ Stopped => RingsKept
    BY DEF Quit, Stopped, replayVars
  <1> QED
    BY <1>1, <1>2 DEF ReplayNext, WorkerStep

(* What a commit adds.                                                     *)
LEMMA CommitIs ==
  ASSUME TransactionsFit, ReplayTypeOK, Queues, Counted, NEW t \in Workers, Commit(t)
  PROVE  \E x \in Txs :
            /\ x.ts = now + 1 /\ x.at = end[t]
            /\ wpc[t] = "body" /\ wpc' = [wpc EXCEPT ![t] = "close"]
            /\ now' = now + 1 /\ UNCHANGED <<next, start, cur, begun>>
            /\ end' = [end EXCEPT ![t] = Wrap(end[t] + Length(x) - 1)]
            /\ \A u \in Workers \ {t} : log'[u] = log[u] /\ pending'[u] = pending[u]
            /\ \A p \in Positions :
                  log'[t][p] = IF Wrap(p - x.at) < Length(x)
                               THEN Encoded(x, Wrap(p - x.at)) ELSE log[t][p]
            /\ pending' = [pending EXCEPT ![t] = Append(pending[t], x)]
            /\ Len(pending'[t]) = Len(pending[t]) + 1
            /\ \A k \in 1 .. Len(pending[t]) : pending'[t][k] = pending[t][k]
            /\ pending'[t][Len(pending[t]) + 1] = x
            /\ \A u \in Workers : Shown(u)' = Shown(u)
  <1>1. PICK body \in Bodies :
           LET x == [ts |-> now + 1, at |-> end[t], body |-> body] IN
           /\ log' = [log EXCEPT ![t] = [p \in Positions |->
                         IF Wrap(p - x.at) < Length(x) THEN Encoded(x, Wrap(p - x.at))
                         ELSE @[p]]]
           /\ end' = [end EXCEPT ![t] = Wrap(@ + Length(x) - 1)]
           /\ pending' = [pending EXCEPT ![t] = Append(@, x)]
    BY DEF Commit
  <1> DEFINE x == [ts |-> now + 1, at |-> end[t], body |-> body]
  <1>2. /\ log' = [log EXCEPT ![t] = [p \in Positions |->
                      IF Wrap(p - x.at) < Length(x) THEN Encoded(x, Wrap(p - x.at))
                      ELSE @[p]]]
        /\ end' = [end EXCEPT ![t] = Wrap(@ + Length(x) - 1)]
        /\ pending' = [pending EXCEPT ![t] = Append(@, x)]
    BY <1>1
  <1>3. /\ wpc[t] = "body" /\ wpc' = [wpc EXCEPT ![t] = "close"]
        /\ now' = now + 1 /\ UNCHANGED <<next, start, cur, begun>>
    BY DEF Commit, At, replayerVars
  <1>4. x \in Txs /\ x.ts = now + 1 /\ x.at = end[t]
    <2>1. now + 1 \in 1 .. MaxTs /\ end[t] \in Positions
      BY <1>3, TimestampsFit, Typed
    <2> QED
      BY <2>1 DEF Txs
  <1> HIDE DEF x
  <1>5. /\ pending \in [Workers -> Seq(Txs)] /\ log \in [Workers -> [Positions -> Words]]
        /\ wpc \in [Workers -> {"idle", "fetched", "body", "close"}]
        /\ end \in [Workers -> Positions]
    BY DEF Queues, ReplayTypeOK
  <1>6. /\ pending'[t] = Append(pending[t], x)
        /\ \A u \in Workers \ {t} : log'[u] = log[u] /\ pending'[u] = pending[u]
        /\ \A p \in Positions :
              log'[t][p] = IF Wrap(p - x.at) < Length(x)
                           THEN Encoded(x, Wrap(p - x.at)) ELSE log[t][p]
        /\ end' = [end EXCEPT ![t] = Wrap(end[t] + Length(x) - 1)]
        /\ pending' = [pending EXCEPT ![t] = Append(pending[t], x)]
    BY <1>2, <1>5
  <1>7. /\ Len(pending'[t]) = Len(pending[t]) + 1
        /\ \A k \in 1 .. Len(pending[t]) : pending'[t][k] = pending[t][k]
        /\ pending'[t][Len(pending[t]) + 1] = x
    <2>1. pending[t] \in Seq(Txs)
      BY <1>5
    <2> QED
      BY <1>4, <1>6, <2>1, AppendProperties
  <1>8. \A u \in Workers : Shown(u)' = Shown(u)
    <2>1. Shown(t)' = Shown(t)
      BY <1>3, <1>5, <1>7, Typed DEF Shown
    <2>2. \A u \in Workers \ {t} : Shown(u)' = Shown(u)
      BY <1>3, <1>5, <1>6 DEF Shown
    <2> QED
      BY <2>1, <2>2
  <1> QED
    BY <1>3, <1>4, <1>6, <1>7, <1>8

(* What Finish takes away: the first log of the pick, all of it.           *)
LEMMA FinishIs ==
  ASSUME TransactionsFit, ReplayTypeOK, Queues, Ring, Laid, Written, Picking, Applying,
         Finish
  PROVE  /\ pick \in Workers /\ Shown(pick) > 0 /\ pending[pick][1] \in Txs
         /\ UNCHANGED <<log, next, wpc, end, now, begun>>
         /\ \A u \in Workers \ {pick} :
               /\ start'[u] = start[u] /\ cur'[u] = cur[u]
               /\ pending'[u] = pending[u] /\ Shown(u)' = Shown(u)
         /\ cur'[pick] = start'[pick]
         /\ \A p \in Positions : Length(pending[pick][1]) <= Offset(pick, p) =>
               Wrap(p - start'[pick]) = Offset(pick, p) - Length(pending[pick][1])
         /\ Len(pending'[pick]) = Len(pending[pick]) - 1
         /\ \A k \in 1 .. Len(pending[pick]) - 1 : pending'[pick][k] = pending[pick][k + 1]
         /\ Shown(pick)' = Shown(pick) - 1
         /\ pending'[pick] \in Seq(Txs) /\ pending' \in [Workers -> Seq(Txs)]
  <1> DEFINE x == pending[pick][1]
             s == start[pick]
  <1>0. rpc = "apply" /\ log[pick][pos].mark
    BY DEF Finish
  <1>1. /\ pick \in Workers /\ Shown(pick) > 0 /\ x \in Txs
        /\ Offset(pick, pos) = Length(x) - 1
    BY <1>0, LastWrite
  <1>2. /\ UNCHANGED <<log, next, wpc, end, now, begun, pick>>
        /\ cur' = [cur EXCEPT ![pick] = Wrap(pos + 1)]
        /\ start' = [start EXCEPT ![pick] = Wrap(pos + 1)]
        /\ pending' = [pending EXCEPT ![pick] = Tail(pending[pick])]
    BY DEF Finish, workerVars
  <1>3. /\ pending \in [Workers -> Seq(Txs)]
        /\ cur \in [Workers -> Positions] /\ start \in [Workers -> Positions]
    BY DEF Queues, ReplayTypeOK
  <1>4. /\ pending'[pick] = Tail(pending[pick])
        /\ cur'[pick] = Wrap(pos + 1) /\ start'[pick] = Wrap(pos + 1)
        /\ \A u \in Workers \ {pick} :
              start'[u] = start[u] /\ cur'[u] = cur[u] /\ pending'[u] = pending[u]
    BY <1>1, <1>2, <1>3
  <1>5. pending[pick] \in Seq(Txs) /\ pending[pick] # <<>> /\ Len(pending[pick]) \in Nat
    BY <1>1, Typed
  <1>6. /\ Len(pending'[pick]) = Len(pending[pick]) - 1
        /\ pending'[pick] \in Seq(Txs)
        /\ \A k \in 1 .. Len(pending[pick]) - 1 : pending'[pick][k] = pending[pick][k + 1]
    <2>1. /\ Tail(pending[pick]) \in Seq(Txs)
          /\ Len(Tail(pending[pick])) = Len(pending[pick]) - 1
          /\ \A i \in 1 .. Len(Tail(pending[pick])) :
                Tail(pending[pick])[i] = pending[pick][i + 1]
      BY <1>5, HeadTailProperties
    <2> QED
      BY <1>4, <2>1
  <1>7. pending' \in [Workers -> Seq(Txs)]
    BY <1>2, <1>3, <1>4, <1>6
  <1>8. Shown(pick)' = Shown(pick) - 1 /\ \A u \in Workers \ {pick} : Shown(u)' = Shown(u)
    <2>1. wpc' = wpc /\ pick' = pick
      BY <1>2
    <2>2. \A u \in Workers : Shown(u)' = IF wpc[u] = "close" THEN Len(pending'[u]) - 1
                                        ELSE Len(pending'[u])
      BY <2>1 DEF Shown
    <2>3. Shown(pick)' = Shown(pick) - 1
      BY <1>1, <1>5, <1>6, <2>1, <2>2 DEF Shown
    <2> QED
      BY <1>4, <2>2, <2>3 DEF Shown
  <1>9. start'[pick] = Wrap(s + Length(x)) /\ Length(x) \in Nat /\ s \in Positions
    <2>1. pos \in Positions /\ s \in Positions /\ LogSize \in Nat \ {0}
      BY <1>1, Typed, ReplayAssumption
    <2>2. Length(x) \in Nat /\ Length(x) < LogSize /\ Length(x) - 1 \in Nat
      <3>1. Length(x) = 2 * Len(x.body) + 1 /\ Len(x.body) \in Nat /\ x.body \in Bodies
        BY <1>1, LogWords DEF Txs
      <3>2. 2 * Len(x.body) + 1 < LogSize
        BY <3>1, ReplayAssumption
      <3> QED
        BY <3>1, <3>2
    <2>3. Wrap(Wrap(pos + 1) - s) = Length(x)
      <3>1. Wrap(pos - s) + 1 < LogSize /\ Wrap(pos - s) + 1 = Length(x)
        BY <1>1, <2>1, <2>2 DEF Offset
      <3> QED
        BY <2>1, <3>1, Distances
    <2>4. Wrap(Wrap(s + Length(x)) - s) = Length(x)
      <3>1. Wrap(s - s) = 0
        BY <2>1, Distances
      <3> QED
        BY <2>1, <2>2, <3>1, Distances
    <2>5. Wrap(pos + 1) \in Positions /\ Wrap(s + Length(x)) \in Positions
      BY <2>1, <2>2, Wraps DEF Positions
    <2>6. Wrap(pos + 1) = Wrap(s + Length(x))
      BY <2>1, <2>3, <2>4, <2>5, Distances
    <2> QED
      BY <1>4, <2>1, <2>2, <2>6
  <1>10. \A p \in Positions : Length(x) <= Offset(pick, p) =>
            Wrap(p - start'[pick]) = Offset(pick, p) - Length(x)
    BY <1>9, Shift DEF Offset
  <1> HIDE DEF x, s
  <1> QED
    BY <1>1, <1>2, <1>4, <1>6, <1>7, <1>8, <1>10 DEF x
-----------------------------------------------------------------------------
(* The history of each worker: what it has committed it has begun.         *)
LEMMA QueuesStep ==
  ASSUME TransactionsFit, ReplayTypeOK, Queues, Ring, Laid, Written, Picking, Applying,
         Counted, ReplayNext
  PROVE  Queues'
  <1>0. /\ pending \in [Workers -> Seq(Txs)] /\ now \in Nat
        /\ wpc \in [Workers -> {"idle", "fetched", "body", "close"}]
        /\ begun \in [Workers -> 0 .. MaxTx] /\ MaxTx \in Nat
        /\ \A u \in Workers : begun[u] \in Nat /\ Len(pending[u]) \in Nat
    BY Typed, ReplayAssumption DEF Queues, ReplayTypeOK
  <1>1. CASE RingsKept
    BY <1>1 DEF RingsKept, Queues, Open
  <1>2. ASSUME NEW t \in Workers, Begin(t) \/ Room(t) \/ Publish(t) PROVE Queues'
    <2>1. UNCHANGED <<pending, now>>
      BY <1>2 DEF Begin, Room, Publish
    <2>2. \A u \in Workers : Open(u)' - Open(u) <= begun'[u] - begun[u]
      <3>1. CASE Begin(t)
        BY <1>0, <3>1 DEF Begin, At, Open
      <3>2. CASE Room(t)
        BY <1>0, <3>2 DEF Room, At, Open
      <3>3. CASE Publish(t)
        BY <1>0, <3>3 DEF Publish, At, Open
      <3> QED
        BY <1>2, <3>1, <3>2, <3>3
    <2>3. \A u \in Workers : begun'[u] \in Int
      <3>1. begun' = begun \/ begun' = [begun EXCEPT ![t] = begun[t] + 1]
        BY <1>2 DEF Begin, Room, Publish
      <3> QED
        BY <1>0, <3>1
    <2>4. \A u \in Workers : Open(u) \in Int /\ Open(u)' \in Int
      BY DEF Open
    <2>5. \A u \in Workers : Len(pending[u]) + Open(u)' <= begun'[u]
      BY <1>0, <2>2, <2>3, <2>4 DEF Queues
    <2>6. \A u \in Workers : wpc'[u] = "close" => wpc[u] = "close"
      BY <1>0, <1>2 DEF Begin, Room, Publish, At
    <2> QED
      BY <2>1, <2>5, <2>6 DEF Queues
  <1>3. ASSUME NEW t \in Workers, Commit(t) PROVE Queues'
    <2>1. PICK x \in Txs :
             /\ x.ts = now + 1
             /\ wpc[t] = "body" /\ wpc' = [wpc EXCEPT ![t] = "close"]
             /\ now' = now + 1 /\ begun' = begun
             /\ \A u \in Workers \ {t} : pending'[u] = pending[u]
             /\ pending' = [pending EXCEPT ![t] = Append(pending[t], x)]
             /\ Len(pending'[t]) = Len(pending[t]) + 1
             /\ \A k \in 1 .. Len(pending[t]) : pending'[t][k] = pending[t][k]
             /\ pending'[t][Len(pending[t]) + 1] = x
      BY <1>3, CommitIs
    <2>2. pending' \in [Workers -> Seq(Txs)]
      <3>1. Append(pending[t], x) \in Seq(Txs)
        BY <1>0, AppendProperties
      <3> QED
        BY <1>0, <2>1, <3>1
    <2>3. /\ Open(t)' = 0 /\ Open(t) = 1
          /\ \A u \in Workers \ {t} : Open(u)' = Open(u) /\ wpc'[u] = wpc[u]
      BY <1>0, <2>1 DEF Open
    <2>4. ASSUME NEW u \in Workers
          PROVE  /\ Len(pending'[u]) + Open(u)' <= begun'[u]
                 /\ wpc'[u] = "close" => Len(pending'[u]) > 0
                 /\ \A k \in 1 .. Len(pending'[u]) : pending'[u][k].ts <= now'
      <3>1. /\ Len(pending[u]) + Open(u) <= begun[u]
            /\ wpc[u] = "close" => Len(pending[u]) > 0
            /\ \A k \in 1 .. Len(pending[u]) : pending[u][k].ts <= now /\ pending[u][k].ts \in Nat
        BY Typed DEF Queues
      <3>2. CASE u = t
        BY <1>0, <2>1, <2>3, <3>1, <3>2
      <3>3. CASE u # t
        BY <1>0, <2>1, <2>3, <3>1, <3>3
      <3> QED
        BY <3>2, <3>3
    <2> QED
      BY <2>2, <2>4 DEF Queues
  <1>4. CASE Finish
    <2>1. /\ pick \in Workers /\ UNCHANGED <<wpc, now, begun>> /\ Shown(pick) > 0
          /\ Shown(pick)' = Shown(pick) - 1
          /\ pending' \in [Workers -> Seq(Txs)]
          /\ \A u \in Workers \ {pick} : pending'[u] = pending[u]
          /\ Len(pending'[pick]) = Len(pending[pick]) - 1
          /\ \A k \in 1 .. Len(pending[pick]) - 1 : pending'[pick][k] = pending[pick][k + 1]
      BY <1>4, FinishIs
    <2>2. \A u \in Workers : Open(u)' = Open(u) /\ Open(u) \in Int
      BY <2>1 DEF Open
    <2>3. ASSUME NEW u \in Workers
          PROVE  /\ Len(pending'[u]) + Open(u)' <= begun'[u]
                 /\ wpc'[u] = "close" => Len(pending'[u]) > 0
                 /\ \A k \in 1 .. Len(pending'[u]) : pending'[u][k].ts <= now'
      <3>1. /\ Len(pending[u]) + Open(u) <= begun[u]
            /\ wpc[u] = "close" => Len(pending[u]) > 0 /\ Shown(u) + 1 = Len(pending[u])
            /\ \A k \in 1 .. Len(pending[u]) : pending[u][k].ts <= now
            /\ Shown(u) \in Nat
        BY Typed DEF Queues
      <3>2. CASE u = pick
        <4>1. Len(pending'[u]) + Open(u)' <= begun'[u]
          <5>1. Len(pending[u]) \in Nat /\ begun[u] \in Nat
            BY <1>0
          <5>2. Open(u)' = Open(u) /\ Open(u) \in Int
            BY <2>2
          <5>3. Len(pending'[u]) = Len(pending[u]) - 1 /\ begun'[u] = begun[u]
            BY <2>1, <3>2
          <5> QED
            BY <3>1, <5>1, <5>2, <5>3
        <4>2. wpc'[u] = "close" => Len(pending'[u]) > 0
          BY <1>0, <2>1, <3>1, <3>2
        <4>3. ASSUME NEW k \in 1 .. Len(pending'[u]) PROVE pending'[u][k].ts <= now'
          <5>1. k \in 1 .. Len(pending[u]) - 1 /\ k + 1 \in 1 .. Len(pending[u])
            BY <1>0, <2>1, <3>2
          <5> QED
            BY <2>1, <3>1, <3>2, <5>1
        <4> QED
          BY <4>1, <4>2, <4>3
      <3>3. CASE u # pick
        BY <1>0, <2>1, <2>2, <3>1, <3>3
      <3> QED
        BY <3>2, <3>3
    <2> QED
      BY <2>1, <2>3 DEF Queues
  <1> QED
    BY <1>1, <1>2, <1>3, <1>4, RingSteps

(* Timestamps grow along each worker's logs and are all different.         *)
LEMMA OrderedStep ==
  ASSUME TransactionsFit, ReplayTypeOK, Queues, Ordered, Ring, Laid, Written, Picking,
         Applying, Counted, ReplayNext
  PROVE  Ordered'
  <1>0. \A u \in Workers : /\ Len(pending[u]) \in Nat
                           /\ \A k \in 1 .. Len(pending[u]) :
                                 pending[u][k].ts \in Nat /\ pending[u][k].ts <= now
    BY Typed DEF Queues
  <1>1. ASSUME UNCHANGED pending PROVE Ordered'
    BY <1>1 DEF Ordered
  <1>2. ASSUME NEW t \in Workers, Begin(t) \/ Room(t) \/ Publish(t) PROVE UNCHANGED pending
    BY <1>2 DEF Begin, Room, Publish
  <1>3. ASSUME NEW t \in Workers, Commit(t) PROVE Ordered'
    <2>1. PICK x \in Txs :
             /\ x.ts = now + 1
             /\ \A u \in Workers \ {t} : pending'[u] = pending[u]
             /\ Len(pending'[t]) = Len(pending[t]) + 1
             /\ \A k \in 1 .. Len(pending[t]) : pending'[t][k] = pending[t][k]
             /\ pending'[t][Len(pending[t]) + 1] = x
      BY <1>3, CommitIs
    <2>2. ASSUME NEW u \in Workers, NEW k \in 1 .. Len(pending'[u])
          PROVE  \/ k \in 1 .. Len(pending[u]) /\ pending'[u][k] = pending[u][k]
                 \/ u = t /\ k = Len(pending[t]) + 1 /\ pending'[u][k].ts = now + 1
      BY <1>0, <2>1
    <2>3. now \in Nat
      BY Typed
    <2>4. ASSUME NEW u \in Workers, NEW w \in Workers,
                 NEW k \in 1 .. Len(pending'[u]), NEW j \in 1 .. Len(pending'[w])
          PROVE  /\ u = w /\ j < k => pending'[w][j].ts < pending'[u][k].ts
                 /\ u # w => pending'[w][j].ts # pending'[u][k].ts
      <3>1. /\ k \in 1 .. Len(pending[u]) => pending'[u][k] = pending[u][k]
            /\ k \notin 1 .. Len(pending[u]) =>
                  u = t /\ k = Len(pending[t]) + 1 /\ pending'[u][k].ts = now + 1
        BY <2>2
      <3>2. /\ j \in 1 .. Len(pending[w]) => pending'[w][j] = pending[w][j]
            /\ j \notin 1 .. Len(pending[w]) =>
                  w = t /\ j = Len(pending[t]) + 1 /\ pending'[w][j].ts = now + 1
        BY <2>2
      <3>3. CASE k \in 1 .. Len(pending[u]) /\ j \in 1 .. Len(pending[w])
        BY <3>1, <3>2, <3>3 DEF Ordered
      <3>4. CASE k \notin 1 .. Len(pending[u]) /\ j \in 1 .. Len(pending[w])
        <4>1. pending[w][j].ts < now + 1
          BY <1>0, <2>3, <3>4
        <4> QED
          BY <2>3, <3>1, <3>2, <3>4, <4>1
      <3>5. CASE k \in 1 .. Len(pending[u]) /\ j \notin 1 .. Len(pending[w])
        <4>1. pending[u][k].ts < now + 1 /\ (u = w => ~ (j < k))
          BY <1>0, <2>3, <3>2, <3>5
        <4> QED
          BY <2>3, <3>1, <3>2, <3>5, <4>1
      <3>6. CASE k \notin 1 .. Len(pending[u]) /\ j \notin 1 .. Len(pending[w])
        BY <1>0, <3>1, <3>2, <3>6
      <3> QED
        BY <3>3, <3>4, <3>5, <3>6
    <2> QED
      BY <2>4 DEF Ordered
  <1>4. CASE Finish
    <2>1. /\ pick \in Workers
          /\ \A u \in Workers \ {pick} : pending'[u] = pending[u]
          /\ Len(pending'[pick]) = Len(pending[pick]) - 1
          /\ \A k \in 1 .. Len(pending[pick]) - 1 : pending'[pick][k] = pending[pick][k + 1]
      BY <1>4, FinishIs
    <2>2. ASSUME NEW u \in Workers, NEW k \in 1 .. Len(pending'[u])
          PROVE  \/ u # pick /\ k \in 1 .. Len(pending[u]) /\ pending'[u][k] = pending[u][k]
                 \/ u = pick /\ k + 1 \in 1 .. Len(pending[u])
                    /\ pending'[u][k] = pending[u][k + 1]
      BY <1>0, <2>1
    <2>3. ASSUME NEW u \in Workers, NEW w \in Workers,
                 NEW k \in 1 .. Len(pending'[u]), NEW j \in 1 .. Len(pending'[w])
          PROVE  /\ u = w /\ j < k => pending'[w][j].ts < pending'[u][k].ts
                 /\ u # w => pending'[w][j].ts # pending'[u][k].ts
      <3> DEFINE old(v, i) == IF v = pick THEN i + 1 ELSE i
      <3>1. /\ old(u, k) \in 1 .. Len(pending[u])
            /\ pending'[u][k] = pending[u][old(u, k)]
        BY <2>2
      <3>2. /\ old(w, j) \in 1 .. Len(pending[w])
            /\ pending'[w][j] = pending[w][old(w, j)]
        BY <2>2
      <3>3. u = w /\ j < k => old(w, j) < old(u, k)
        <4>1. k \in Int /\ j \in Int
          OBVIOUS
        <4> QED
          BY <4>1
      <3> HIDE DEF old
      <3> QED
        BY <3>1, <3>2, <3>3 DEF Ordered
    <2> QED
      BY <2>3 DEF Ordered
  <1> QED
    BY <1>1, <1>2, <1>3, <1>4, RingSteps DEF RingsKept

(* The clock counts the transactions that committed.                       *)
LEMMA CountedStep ==
  ASSUME TransactionsFit, ReplayTypeOK, Queues, Counted, ReplayNext
  PROVE  Counted'
  <1>0. /\ wpc \in [Workers -> {"idle", "fetched", "body", "close"}]
        /\ begun \in [Workers -> 0 .. MaxTx] /\ MaxTx \in Nat
    BY ReplayAssumption DEF ReplayTypeOK
  <1>1. ASSUME UNCHANGED now,
               \A u \in Workers : begun'[u] - Open(u)' = begun[u] - Open(u)
                                  /\ begun'[u] \in Int
        PROVE  Counted'
    <2>1. \A u \in Workers : Open(u) \in Int /\ Open(u)' \in Int /\ begun[u] \in Int
      BY <1>0 DEF Open
    <2>2. \A u \in Workers, k \in 1 .. MaxTx :
             k + Open(u)' <= begun'[u] <=> k + Open(u) <= begun[u]
      BY <1>1, <2>1
    <2>3. Commits' = Commits
      BY <2>2 DEF Commits
    <2> QED
      BY <1>1, <2>3 DEF Counted
  <1>2. CASE RingsKept
    BY <1>2 DEF RingsKept, Counted, Commits, Open
  <1>3. ASSUME NEW t \in Workers, Begin(t) PROVE Counted'
    <2>1. \A u \in Workers : /\ begun'[u] - Open(u)' = begun[u] - Open(u)
                             /\ begun'[u] \in Int
      BY <1>0, <1>3 DEF Begin, At, Open
    <2> QED
      BY <1>1, <1>3, <2>1 DEF Begin
  <1>4. ASSUME NEW t \in Workers, Room(t) \/ Publish(t) PROVE Counted'
    <2>1. \A u \in Workers : /\ begun'[u] - Open(u)' = begun[u] - Open(u)
                             /\ begun'[u] \in Int
      BY <1>0, <1>4 DEF Room, Publish, At, Open
    <2> QED
      BY <1>1, <1>4, <2>1 DEF Room, Publish
  <1>5. ASSUME NEW t \in Workers, Commit(t) PROVE Counted'
    BY <1>5, TimestampsFit DEF Commit, At, Counted
  <1>6. CASE Finish
    BY <1>6 DEF Finish, workerVars, Counted, Commits, Open
  <1> QED
    BY <1>2, <1>3, <1>4, <1>5, <1>6, RingSteps
-----------------------------------------------------------------------------
(* A worker whose ring and logs a step leaves alone.                       *)
Left(u) == /\ next'[u] = next[u] /\ start'[u] = start[u] /\ cur'[u] = cur[u]
           /\ wpc'[u] = wpc[u] /\ end'[u] = end[u] /\ pending'[u] = pending[u]

(* The ring of a worker that a step leaves alone stays as it was.         *)
LEMMA LeftRing ==
  ASSUME NEW u \in Workers, Left(u), RingAt(u), LaidAt(u)
  PROVE  RingAt(u)' /\ LaidAt(u)'
  BY DEF Left, RingAt, LaidAt, Used, Offset, OffsetOf, Shown

(* A worker's step leaves the other workers alone.                        *)
LEMMA OthersLeft ==
  ASSUME ReplayTypeOK, Queues, NEW t \in Workers,
         Begin(t) \/ Room(t) \/ Commit(t) \/ Publish(t)
  PROVE  \A u \in Workers \ {t} : Left(u)
  <1>1. /\ pending \in [Workers -> Seq(Txs)]
        /\ wpc \in [Workers -> {"idle", "fetched", "body", "close"}]
        /\ end \in [Workers -> Positions] /\ next \in [Workers -> Positions]
    BY DEF Queues, ReplayTypeOK
  <1>2. CASE Begin(t)
    BY <1>1, <1>2 DEF Begin, At, Left, replayerVars
  <1>3. CASE Room(t)
    BY <1>1, <1>3 DEF Room, At, Left, replayerVars
  <1>4. CASE Commit(t)
    BY <1>1, <1>4 DEF Commit, At, Left, replayerVars
  <1>5. CASE Publish(t)
    BY <1>1, <1>5 DEF Publish, At, Left, replayerVars
  <1> QED
    BY <1>2, <1>3, <1>4, <1>5

(* Begin and Room move the worker only; Room waits until the space is      *)
(* there.                                                                  *)
LEMMA BeginRing ==
  ASSUME ReplayTypeOK, Queues, NEW t \in Workers, Begin(t) \/ Room(t),
         RingAt(t), LaidAt(t)
  PROVE  RingAt(t)' /\ LaidAt(t)'
  <1>1. /\ UNCHANGED <<next, start, cur, pending>>
        /\ \/ wpc[t] = "idle" /\ wpc'[t] = "fetched" /\ end'[t] = next[t]
           \/ /\ wpc[t] = "fetched" /\ wpc'[t] = "body" /\ end'[t] = end[t]
              /\ Used(t) + MinSpace <= LogSize
    BY DEF Begin, Room, At, ReplayTypeOK, replayerVars, Used, Offset
  <1>2. Shown(t)' = Shown(t) /\ Used(t)' = Used(t)
    BY <1>1 DEF Shown, Used, Offset
  <1>3. \A k : OffsetOf(t, k)' = OffsetOf(t, k)
    BY <1>1 DEF OffsetOf, Offset
  <1> QED
    BY <1>1, <1>2, <1>3 DEF RingAt, LaidAt

(* A transaction's log goes where the visible ones end, into space that is *)
(* free.                                                                   *)
LEMMA CommitRing ==
  ASSUME TransactionsFit, ReplayTypeOK, Queues, Counted, NEW t \in Workers, Commit(t),
         RingAt(t), LaidAt(t)
  PROVE  RingAt(t)' /\ LaidAt(t)'
  <1>0. MinSpace \in Nat /\ LogSize \in Nat /\ FetchAhead \in Nat
    BY ReplayAssumption
  <1>1. PICK x \in Txs :
           /\ x.ts = now + 1 /\ x.at = end[t]
           /\ wpc[t] = "body" /\ wpc' = [wpc EXCEPT ![t] = "close"]
           /\ UNCHANGED <<next, start, cur>>
           /\ end' = [end EXCEPT ![t] = Wrap(end[t] + Length(x) - 1)]
           /\ Len(pending'[t]) = Len(pending[t]) + 1
           /\ \A k \in 1 .. Len(pending[t]) : pending'[t][k] = pending[t][k]
           /\ pending'[t][Len(pending[t]) + 1] = x
           /\ Shown(t)' = Shown(t)
    BY CommitIs
  <1>2. /\ end[t] = next[t] /\ Used(t) + MinSpace <= LogSize /\ cur[t] = start[t]
        /\ Shown(t) = 0 => Used(t) = 0
    BY <1>1 DEF RingAt
  <1>3. /\ wpc'[t] = "close" /\ end'[t] = Wrap(end[t] + Length(x) - 1)
    BY <1>1 DEF ReplayTypeOK
  <1>4. Used(t)' = Used(t) /\ Used(t) \in Nat
    <2>1. Used(t) \in Positions
      BY Typed, Distances DEF Used, Offset
    <2> QED
      BY <1>1, <2>1 DEF Used, Offset, Positions
  <1>5. Length(x) \in Nat /\ Length(x) + FetchAhead < MinSpace
    BY LogWords
  <1>6. pending'[t][Len(pending'[t])] = x
    BY <1>1
  <1>7. RingAt(t)'
    BY <1>0, <1>1, <1>2, <1>3, <1>4, <1>5, <1>6 DEF RingAt
  <1>8. \A k \in 1 .. Shown(t) : /\ pending'[t][k] = pending[t][k]
                                 /\ OffsetOf(t, k)' = OffsetOf(t, k)
    <2>1. Shown(t) <= Len(pending[t]) /\ Shown(t) \in Nat /\ Len(pending[t]) \in Nat
      BY Typed
    <2> QED
      BY <1>1, <2>1 DEF OffsetOf, Offset
  <1>9. LaidAt(t)'
    <2>1. Shown(t) \in Nat
      BY Typed
    <2>2. \A k \in 1 .. Shown(t) : /\ k # Shown(t) => k + 1 \in 1 .. Shown(t)
                                   /\ \A j \in 1 .. k - 1 : j \in 1 .. Shown(t)
      BY <2>1
    <2> QED
      BY <1>1, <1>4, <1>8, <2>2 DEF LaidAt
  <1> QED
    BY <1>7, <1>9

(* A log that becomes visible follows the last one that was.               *)
LEMMA PublishRing ==
  ASSUME TransactionsFit, ReplayTypeOK, Queues, NEW t \in Workers, Publish(t),
         RingAt(t), LaidAt(t)
  PROVE  RingAt(t)' /\ LaidAt(t)'
  <1>0. MinSpace \in Nat /\ LogSize \in Nat /\ FetchAhead \in Nat
    BY ReplayAssumption
  <1> DEFINE x == pending[t][Len(pending[t])]
  <1>1. /\ wpc[t] = "close" /\ wpc'[t] = "idle"
        /\ next'[t] = Wrap(end[t] + 1)
        /\ UNCHANGED <<start, cur, end, pending>>
    BY DEF Publish, At, ReplayTypeOK, replayerVars
  <1>2. /\ Shown(t) + 1 = Len(pending[t]) /\ Shown(t)' = Len(pending[t])
        /\ Shown(t) \in Nat /\ Len(pending[t]) \in Nat
        /\ next[t] \in Positions /\ start[t] \in Positions /\ end[t] \in Positions
    BY <1>1, Typed DEF Shown
  <1>3. /\ x.at = next[t] /\ Used(t) + Length(x) + FetchAhead < LogSize
        /\ end[t] = Wrap(next[t] + Length(x) - 1) /\ cur[t] = start[t]
        /\ Shown(t) = 0 => Used(t) = 0
    BY <1>1 DEF RingAt
  <1>4. x \in Txs
    BY <1>2, Typed
  <1> HIDE DEF x
  <1>5. Length(x) \in Nat /\ Length(x) - 1 \in Nat /\ Length(x) > 0
    <2>1. Length(x) = 2 * Len(x.body) + 1 /\ Len(x.body) \in Nat
      BY <1>4, LogWords
    <2> QED
      BY <2>1
  <1>6. Used(t) \in Nat /\ Used(t) = Wrap(next[t] - start[t])
    <2>1. Used(t) \in Positions
      BY <1>2, Distances DEF Used, Offset
    <2> QED
      BY <2>1 DEF Used, Offset, Positions
  <1>7. Used(t)' = Used(t) + Length(x)
    <2>1. Wrap(end[t] - start[t]) = Used(t) + (Length(x) - 1)
      <3>1. Wrap(Wrap(next[t] + (Length(x) - 1)) - start[t]) = Used(t) + (Length(x) - 1)
        BY <1>0, <1>2, <1>3, <1>5, <1>6, Distances
      <3>2. next[t] + (Length(x) - 1) = next[t] + Length(x) - 1
        BY <1>2, <1>5 DEF Positions
      <3> QED
        BY <1>3, <3>1, <3>2
    <2>2. Wrap(Wrap(end[t] + 1) - start[t]) = Used(t) + (Length(x) - 1) + 1
      BY <1>0, <1>2, <1>3, <1>5, <1>6, <2>1, Distances
    <2> QED
      BY <1>1, <1>5, <1>6, <2>2 DEF Used, Offset
  <1>8. OffsetOf(t, Len(pending[t])) = Used(t)
    BY <1>3, <1>6 DEF OffsetOf, Offset, x
  <1>9. \A k : OffsetOf(t, k)' = OffsetOf(t, k)
    BY <1>1 DEF OffsetOf, Offset
  <1>10. RingAt(t)'
    BY <1>0, <1>1, <1>2, <1>3, <1>5, <1>6, <1>7 DEF RingAt
  <1>11. \A k \in 1 .. Len(pending[t]) :
            OffsetOf(t, k) \in Nat /\ Length(pending[t][k]) \in Nat
    <2> TAKE k \in 1 .. Len(pending[t])
    <2>1. pending[t][k] \in Txs /\ OffsetOf(t, k) \in Positions
      BY <1>2, Typed, Distances DEF OffsetOf, Offset
    <2>2. Length(pending[t][k]) \in Nat
      BY <2>1, LogWords
    <2> QED
      BY <1>0, <2>1, <2>2 DEF Positions
  <1>12. LaidAt(t)'
    <2>1. ASSUME NEW k \in 1 .. Shown(t)
          PROVE  /\ k = 1 => OffsetOf(t, k) = 0
                 /\ OffsetOf(t, k) + Length(pending[t][k]) <= Used(t) + Length(x)
                 /\ OffsetOf(t, k) + Length(pending[t][k]) = OffsetOf(t, k + 1)
                 /\ \A j \in 1 .. k - 1 :
                       OffsetOf(t, j) + Length(pending[t][j]) <= OffsetOf(t, k)
      <3>1. /\ k = 1 => OffsetOf(t, k) = 0
            /\ OffsetOf(t, k) + Length(pending[t][k]) <= Used(t)
            /\ IF k = Shown(t) THEN OffsetOf(t, k) + Length(pending[t][k]) = Used(t)
               ELSE OffsetOf(t, k) + Length(pending[t][k]) = OffsetOf(t, k + 1)
            /\ \A j \in 1 .. k - 1 :
                  OffsetOf(t, j) + Length(pending[t][j]) <= OffsetOf(t, k)
        BY DEF LaidAt
      <3>2. OffsetOf(t, k) \in Nat /\ Length(pending[t][k]) \in Nat
        BY <1>2, <1>11
      <3>3. OffsetOf(t, k) + Length(pending[t][k]) <= Used(t) + Length(x)
        BY <1>5, <1>6, <3>1, <3>2
      <3>4. k = Shown(t) => OffsetOf(t, k + 1) = Used(t)
        BY <1>2, <1>8
      <3> QED
        BY <3>1, <3>3, <3>4
    <2>2. \A j \in 1 .. Shown(t) : OffsetOf(t, j) + Length(pending[t][j]) <= Used(t)
      BY DEF LaidAt
    <2>3. ASSUME NEW k \in 1 .. Shown(t)'
          PROVE  /\ k = 1 => OffsetOf(t, k)' = 0
                 /\ OffsetOf(t, k)' + Length(pending'[t][k]) <= Used(t)'
                 /\ IF k = Shown(t)' THEN OffsetOf(t, k)' + Length(pending'[t][k]) = Used(t)'
                    ELSE OffsetOf(t, k)' + Length(pending'[t][k]) = OffsetOf(t, k + 1)'
                 /\ \A j \in 1 .. k - 1 :
                       OffsetOf(t, j)' + Length(pending'[t][j]) <= OffsetOf(t, k)'
      <3>1. CASE k = Len(pending[t])
        <4>1. pending[t][k] = x
          BY <3>1 DEF x
        <4>2. k = 1 => Used(t) = 0
          BY <1>2, <1>3, <3>1
        <4>3. \A j \in 1 .. k - 1 : OffsetOf(t, j) + Length(pending[t][j]) <= Used(t)
          BY <1>2, <2>2, <3>1
        <4> QED
          BY <1>1, <1>2, <1>5, <1>6, <1>7, <1>8, <1>9, <3>1, <4>1, <4>2, <4>3
      <3>2. CASE k # Len(pending[t])
        <4>1. k \in 1 .. Shown(t) /\ k # Shown(t)'
          BY <1>2, <3>2
        <4> QED
          BY <1>1, <1>7, <1>9, <2>1, <4>1
      <3> QED
        BY <3>1, <3>2
    <2> QED
      BY <2>3 DEF LaidAt
  <1> QED
    BY <1>10, <1>12

(* When the first log goes, the others move up by its length.              *)
LEMMA FinishRing ==
  ASSUME TransactionsFit, ReplayTypeOK, Queues, Ring, Laid, Written, Picking, Applying,
         Finish
  PROVE  Ring' /\ Laid'
  <1> DEFINE x == pending[pick][1]
  <1>0. LogSize \in Nat /\ FetchAhead \in Nat /\ MinSpace \in Nat
    BY ReplayAssumption
  <1>1. /\ pick \in Workers /\ Shown(pick) > 0 /\ x \in Txs
        /\ UNCHANGED <<next, wpc, end>>
        /\ \A u \in Workers \ {pick} :
              /\ start'[u] = start[u] /\ cur'[u] = cur[u] /\ pending'[u] = pending[u]
        /\ cur'[pick] = start'[pick]
        /\ \A p \in Positions : Length(x) <= Offset(pick, p) =>
              Wrap(p - start'[pick]) = Offset(pick, p) - Length(x)
        /\ Len(pending'[pick]) = Len(pending[pick]) - 1
        /\ \A k \in 1 .. Len(pending[pick]) - 1 : pending'[pick][k] = pending[pick][k + 1]
        /\ Shown(pick)' = Shown(pick) - 1 /\ pick' = pick
    BY FinishIs DEF Finish
  <1>2. PICK t \in Workers : t = pick
    BY <1>1
  <1>3. \A u \in Workers \ {t} : RingAt(u)' /\ LaidAt(u)'
    <2>1. \A u \in Workers \ {t} : Left(u) /\ RingAt(u) /\ LaidAt(u)
      BY <1>1, <1>2 DEF Left, Ring, Laid
    <2> QED
      BY <2>1, LeftRing
  <1>4. /\ Shown(t) \in Nat /\ Shown(t)' = Shown(t) - 1 /\ Shown(t) > 0
        /\ Len(pending[t]) \in Nat /\ Shown(t) <= Len(pending[t])
        /\ next[t] \in Positions /\ start[t] \in Positions
        /\ wpc[t] = "close" => Shown(t) + 1 = Len(pending[t])
    BY <1>1, <1>2, Typed
  <1>5. Length(x) \in Nat
    BY <1>1, LogWords
  <1>6. /\ \A k \in 1 .. Shown(t) :
              /\ k = 1 => OffsetOf(t, k) = 0
              /\ OffsetOf(t, k) + Length(pending[t][k]) <= Used(t)
              /\ IF k = Shown(t) THEN OffsetOf(t, k) + Length(pending[t][k]) = Used(t)
                 ELSE OffsetOf(t, k) + Length(pending[t][k]) = OffsetOf(t, k + 1)
              /\ \A j \in 1 .. k - 1 :
                    OffsetOf(t, j) + Length(pending[t][j]) <= OffsetOf(t, k)
        /\ RingAt(t)
    BY DEF Laid, LaidAt, Ring
  <1>7. /\ \A p \in Positions : Offset(t, p) \in Nat
        /\ \A k \in 1 .. Len(pending[t]) :
              /\ pending[t][k].at \in Positions /\ OffsetOf(t, k) \in Nat
              /\ Length(pending[t][k]) \in Nat
        /\ Used(t) \in Nat
    <2>1. \A p \in Positions : Offset(t, p) \in Positions
      BY <1>4, Distances DEF Offset
    <2>2. \A p \in Positions : Offset(t, p) \in Nat
      BY <1>0, <2>1 DEF Positions
    <2>3. \A k \in 1 .. Len(pending[t]) :
             pending[t][k] \in Txs /\ pending[t][k].at \in Positions
      BY Typed
    <2> QED
      BY <1>4, <2>2, <2>3, LogWords DEF OffsetOf, Used
  <1>8. \A p \in Positions : Length(x) <= Offset(t, p) =>
           Offset(t, p)' = Offset(t, p) - Length(x)
    BY <1>1, <1>2 DEF Offset
  <1>9. /\ OffsetOf(t, 1) = 0 /\ Length(x) <= Used(t)
        /\ Shown(t) = 1 => Length(x) = Used(t)
        /\ Shown(t) > 1 => Length(x) = OffsetOf(t, 2)
        /\ \A k \in 2 .. Shown(t) : Length(x) <= OffsetOf(t, k)
    <2>1. 1 \in 1 .. Shown(t) /\ x = pending[t][1]
      BY <1>2, <1>4
    <2>2. OffsetOf(t, 1) = 0
      BY <1>6, <2>1
    <2> HIDE DEF x
    <2>3. Length(x) <= Used(t) /\ (Shown(t) = 1 => Length(x) = Used(t))
          /\ (Shown(t) > 1 => Length(x) = OffsetOf(t, 2))
      BY <1>4, <1>5, <1>6, <2>1, <2>2
    <2>4. ASSUME NEW k \in 2 .. Shown(t) PROVE Length(x) <= OffsetOf(t, k)
      <3>1. k \in 1 .. Shown(t) /\ 1 \in 1 .. k - 1
        BY <1>4
      <3>2. OffsetOf(t, 1) + Length(pending[t][1]) <= OffsetOf(t, k)
        BY <1>6, <3>1
      <3> QED
        BY <1>5, <2>1, <2>2, <3>2
    <2> QED
      BY <2>2, <2>3, <2>4
  <1> HIDE DEF x
  <1>10. Used(t)' = Used(t) - Length(x)
    <2>1. Used(t)' = Offset(t, next[t])'
      BY <1>1 DEF Used
    <2>2. next'[t] = next[t]
      BY <1>1
    <2> QED
      BY <1>4, <1>8, <1>9, <2>2 DEF Used, Offset
  <1>11. \A k \in 1 .. Shown(t) - 1 :
            /\ pending'[t][k] = pending[t][k + 1]
            /\ OffsetOf(t, k)' = OffsetOf(t, k + 1) - Length(x)
    <2> TAKE k \in 1 .. Shown(t) - 1
    <2>1. /\ k \in 1 .. Len(pending[t]) - 1 /\ k + 1 \in 2 .. Shown(t)
          /\ k + 1 \in 1 .. Len(pending[t])
      BY <1>4
    <2>2. pending'[t][k] = pending[t][k + 1]
      BY <1>1, <1>2, <2>1
    <2>3. Length(x) <= Offset(t, pending[t][k + 1].at) /\ pending[t][k + 1].at \in Positions
      BY <1>7, <1>9, <2>1 DEF OffsetOf
    <2>4. Wrap(pending[t][k + 1].at - start'[t]) = Offset(t, pending[t][k + 1].at) - Length(x)
      BY <1>8, <2>3 DEF Offset
    <2> QED
      BY <2>2, <2>4 DEF OffsetOf, Offset
  <1>12. LaidAt(t)'
    <2>1. ASSUME NEW k \in 1 .. Shown(t) - 1
          PROVE  /\ k = 1 => OffsetOf(t, k)' = 0
                 /\ OffsetOf(t, k)' + Length(pending'[t][k]) <= Used(t)'
                 /\ IF k = Shown(t)'
                    THEN OffsetOf(t, k)' + Length(pending'[t][k]) = Used(t)'
                    ELSE OffsetOf(t, k)' + Length(pending'[t][k]) = OffsetOf(t, k + 1)'
                 /\ \A j \in 1 .. k - 1 :
                       OffsetOf(t, j)' + Length(pending'[t][j]) <= OffsetOf(t, k)'
      <3>1. /\ k + 1 \in 1 .. Shown(t) /\ k + 1 # 1 /\ k \in Int
            /\ k = Shown(t) - 1 <=> k + 1 = Shown(t)
            /\ k # Shown(t) - 1 => k + 1 \in 1 .. Shown(t) - 1 /\ k + 1 + 1 \in 1 .. Shown(t)
            /\ \A j \in 1 .. k - 1 : j + 1 \in 1 .. (k + 1) - 1 /\ j \in 1 .. Shown(t) - 1
                                     /\ j + 1 \in 1 .. Shown(t)
        BY <1>4
      <3>2. \A j \in 1 .. Shown(t) : /\ OffsetOf(t, j) \in Nat
                                     /\ Length(pending[t][j]) \in Nat
        BY <1>4, <1>7
      <3>3. /\ OffsetOf(t, k + 1) + Length(pending[t][k + 1]) <= Used(t)
            /\ IF k + 1 = Shown(t)
               THEN OffsetOf(t, k + 1) + Length(pending[t][k + 1]) = Used(t)
               ELSE OffsetOf(t, k + 1) + Length(pending[t][k + 1]) = OffsetOf(t, k + 1 + 1)
            /\ \A j \in 1 .. k - 1 :
                  OffsetOf(t, j + 1) + Length(pending[t][j + 1]) <= OffsetOf(t, k + 1)
        BY <1>6, <3>1
      <3>4. k = 1 => OffsetOf(t, k + 1) = Length(x)
        <4>1. k = 1 => Shown(t) > 1 /\ k + 1 = 2
          BY <1>4
        <4> QED
          BY <1>9, <4>1
      <3>5. k = 1 => OffsetOf(t, k)' = 0
        BY <1>5, <1>11, <3>4
      <3>6. OffsetOf(t, k)' + Length(pending'[t][k]) <= Used(t)'
        BY <1>5, <1>7, <1>10, <1>11, <3>1, <3>2, <3>3
      <3>7. IF k = Shown(t)' THEN OffsetOf(t, k)' + Length(pending'[t][k]) = Used(t)'
            ELSE OffsetOf(t, k)' + Length(pending'[t][k]) = OffsetOf(t, k + 1)'
        <4>1. CASE k + 1 = Shown(t)
          BY <1>4, <1>5, <1>7, <1>10, <1>11, <3>1, <3>2, <3>3, <4>1
        <4>2. CASE k + 1 # Shown(t)
          <5>1. OffsetOf(t, k + 1)' = OffsetOf(t, k + 1 + 1) - Length(x)
            BY <1>4, <1>11, <3>1, <4>2
          <5>2. k # Shown(t)'
            BY <1>4, <3>1, <4>2
          <5>3. OffsetOf(t, k)' = OffsetOf(t, k + 1) - Length(x)
                /\ pending'[t][k] = pending[t][k + 1]
            BY <1>11
          <5>4. OffsetOf(t, k + 1) \in Nat /\ OffsetOf(t, k + 1 + 1) \in Nat
                /\ Length(pending[t][k + 1]) \in Nat
            BY <1>4, <3>1, <3>2, <4>2
          <5> QED
            BY <1>5, <3>3, <4>2, <5>1, <5>2, <5>3, <5>4
        <4> QED
          BY <4>1, <4>2
      <3>8. \A j \in 1 .. k - 1 :
               OffsetOf(t, j)' + Length(pending'[t][j]) <= OffsetOf(t, k)'
        BY <1>5, <1>11, <3>1, <3>2, <3>3
      <3> QED
        BY <3>5, <3>6, <3>7, <3>8
    <2>2. ASSUME NEW k \in 1 .. Shown(t)' PROVE k \in 1 .. Shown(t) - 1
      BY <1>4
    <2> QED
      BY <2>1, <2>2 DEF LaidAt
  <1>13. RingAt(t)'
    <2>1. cur'[t] = start'[t] /\ UNCHANGED <<next, wpc, end>>
      BY <1>1, <1>2
    <2>2. wpc[t] = "close" => pending'[t][Len(pending'[t])] = pending[t][Len(pending[t])]
      <3>1. wpc[t] = "close" => Len(pending[t]) - 1 \in 1 .. Len(pending[t]) - 1
        BY <1>4
      <3> QED
        BY <1>1, <1>2, <1>4, <3>1
    <2>3. wpc[t] = "close" => Length(pending[t][Len(pending[t])]) \in Nat
      <3>1. wpc[t] = "close" => Len(pending[t]) \in 1 .. Len(pending[t])
        BY <1>4
      <3> QED
        BY <1>7, <3>1
    <2>4. Used(t)' <= Used(t) /\ Used(t)' \in Nat
      BY <1>5, <1>7, <1>9, <1>10
    <2>5. Shown(t)' = 0 => Used(t)' = 0
      BY <1>4, <1>5, <1>7, <1>9, <1>10
    <2>6. wpc[t] = "close" => LET z == pending[t][Len(pending[t])] IN
             /\ z.at = next[t]
             /\ Used(t) + Length(z) + FetchAhead < LogSize
             /\ end[t] = Wrap(next[t] + Length(z) - 1)
      BY <1>6 DEF RingAt
    <2>7. /\ wpc[t] \in {"fetched", "body"} => end[t] = next[t]
          /\ wpc[t] \in {"idle", "fetched"} => Used(t) + FetchAhead < LogSize
          /\ wpc[t] = "body" => Used(t) + MinSpace <= LogSize
      BY <1>6 DEF RingAt
    <2>8. /\ wpc[t] \in {"idle", "fetched"} => Used(t)' + FetchAhead < LogSize
          /\ wpc[t] = "body" => Used(t)' + MinSpace <= LogSize
      BY <1>0, <1>7, <2>4, <2>7
    <2>9. wpc[t] = "close" => LET z == pending'[t][Len(pending'[t])] IN
             /\ z.at = next[t]
             /\ Used(t)' + Length(z) + FetchAhead < LogSize
             /\ end[t] = Wrap(next[t] + Length(z) - 1)
      <3> DEFINE z == pending[t][Len(pending[t])]
      <3>1. wpc[t] = "close" => /\ z.at = next[t]
                                /\ Used(t) + Length(z) + FetchAhead < LogSize
                                /\ end[t] = Wrap(next[t] + Length(z) - 1)
                                /\ Length(z) \in Nat
                                /\ pending'[t][Len(pending'[t])] = z
        BY <2>2, <2>3, <2>6
      <3> HIDE DEF z
      <3>2. wpc[t] = "close" => Used(t)' + Length(z) + FetchAhead < LogSize
        BY <1>0, <1>7, <2>4, <3>1
      <3> QED
        BY <3>1, <3>2
    <2> QED
      BY <2>1, <2>5, <2>7, <2>8, <2>9 DEF RingAt
  <1> QED
    BY <1>3, <1>12, <1>13 DEF Ring, Laid

(* The rings after any step.                                               *)
LEMMA RingStep ==
  ASSUME TransactionsFit, ReplayTypeOK, Queues, Ring, Laid, Written, Picking, Applying,
         Counted, ReplayNext
  PROVE  Ring' /\ Laid'
  <1>1. CASE RingsKept
    <2>1. \A u \in Workers : Left(u) /\ RingAt(u) /\ LaidAt(u)
      BY <1>1 DEF RingsKept, Left, Ring, Laid
    <2> QED
      BY <2>1, LeftRing DEF Ring, Laid
  <1>2. ASSUME NEW t \in Workers, Begin(t) \/ Room(t) \/ Commit(t) \/ Publish(t)
        PROVE  Ring' /\ Laid'
    <2>1. \A u \in Workers : RingAt(u) /\ LaidAt(u)
      BY DEF Ring, Laid
    <2>2. \A u \in Workers \ {t} : RingAt(u)' /\ LaidAt(u)'
      BY <1>2, <2>1, OthersLeft, LeftRing
    <2>3. RingAt(t)' /\ LaidAt(t)'
      BY <1>2, <2>1, BeginRing, CommitRing, PublishRing
    <2> QED
      BY <2>2, <2>3 DEF Ring, Laid
  <1> QED
    BY <1>1, <1>2, FinishRing, RingSteps
-----------------------------------------------------------------------------
(* A word of a visible log lies before write_log_next, counted from        *)
(* write_log_start.                                                        *)
LEMMA WordOffset ==
  ASSUME TransactionsFit, ReplayTypeOK, Queues, Laid, NEW t \in Workers,
         NEW k \in 1 .. Shown(t), NEW j \in 0 .. Length(pending[t][k]) - 1
  PROVE  /\ Wrap(pending[t][k].at + j) \in Positions
         /\ Offset(t, Wrap(pending[t][k].at + j)) \in Nat
         /\ Offset(t, Wrap(pending[t][k].at + j)) < Used(t)
         /\ Used(t) \in Nat /\ Used(t) < LogSize
  <1> DEFINE x == pending[t][k]
  <1>0. LogSize \in Nat
    BY ReplayAssumption
  <1>1. /\ x \in Txs /\ x.at \in Positions /\ start[t] \in Positions
        /\ next[t] \in Positions
    <2>1. k \in 1 .. Len(pending[t])
      BY Typed
    <2> QED
      BY <2>1, Typed
  <1>2. OffsetOf(t, k) + Length(x) <= Used(t)
    BY DEF Laid, LaidAt
  <1> HIDE DEF x
  <1>3. Length(x) \in Nat
    BY <1>1, LogWords
  <1>4. j \in Nat /\ j < Length(x)
    BY <1>3 DEF x
  <1>5. Wrap(x.at - start[t]) \in Positions /\ Used(t) \in Positions
    BY <1>1, Distances DEF Used, Offset
  <1>6. Wrap(x.at - start[t]) + j < Used(t)
    BY <1>0, <1>2, <1>3, <1>4, <1>5 DEF OffsetOf, Offset, Positions, x
  <1>7. Wrap(Wrap(x.at + j) - start[t]) = Wrap(x.at - start[t]) + j
    <2>1. Wrap(x.at - start[t]) + j < LogSize
      BY <1>0, <1>4, <1>5, <1>6 DEF Positions
    <2> QED
      BY <1>1, <1>4, <2>1, Distances
  <1>8. Wrap(x.at + j) \in Positions
    <2>1. x.at + j \in Int
      BY <1>0, <1>1, <1>4 DEF Positions
    <2> QED
      BY <2>1, Wraps
  <1> QED
    BY <1>0, <1>4, <1>5, <1>6, <1>7, <1>8 DEF Offset, Positions, x

(* The two words that fetch_log clears are no word of a log.               *)
LEMMA BeginWritten ==
  ASSUME TransactionsFit, ReplayTypeOK, Queues, Ring, Laid, Written, NEW t \in Workers,
         Begin(t)
  PROVE  Written'
  <1>0. LogSize \in Nat /\ FetchAhead \in Nat
    BY ReplayAssumption
  <1>1. /\ pending' = pending /\ wpc[t] = "idle"
        /\ log' = [log EXCEPT ![t] = [p \in Positions |->
                      IF p \in {next[t], Wrap(next[t] + FetchAhead)}
                      THEN Word(FALSE, 0) ELSE @[p]]]
    BY DEF Begin, At
  <1>2. /\ \A u \in Workers \ {t} : log'[u] = log[u]
        /\ \A p \in Positions : p # next[t] /\ p # Wrap(next[t] + FetchAhead) =>
              log'[t][p] = log[t][p]
    BY <1>1 DEF ReplayTypeOK
  <1>3. /\ next[t] \in Positions /\ start[t] \in Positions
        /\ Shown(t) = Len(pending[t])
    BY <1>1, Typed
  <1>4. Used(t) + FetchAhead < LogSize
    BY <1>1 DEF Ring, RingAt
  <1>5. Wrap(Wrap(next[t] + FetchAhead) - start[t]) = Used(t) + FetchAhead
    BY <1>0, <1>3, <1>4, Distances DEF Used, Offset
  <1>6. ASSUME NEW k \in 1 .. Len(pending[t]), NEW j \in 0 .. Length(pending[t][k]) - 1
        PROVE  log'[t][Wrap(pending[t][k].at + j)] = log[t][Wrap(pending[t][k].at + j)]
    <2> DEFINE p == Wrap(pending[t][k].at + j)
    <2>1. p \in Positions /\ Offset(t, p) \in Nat /\ Offset(t, p) < Used(t) /\ Used(t) \in Nat
      BY <1>3, WordOffset
    <2> HIDE DEF p
    <2>2. p # next[t]
      BY <2>1 DEF Used
    <2>3. p # Wrap(next[t] + FetchAhead)
      BY <1>0, <1>5, <2>1 DEF Offset
    <2> QED
      BY <1>2, <2>1, <2>2, <2>3 DEF p
  <1>7. pending' = pending
    BY <1>1
  <1>8. ASSUME NEW u \in Workers, NEW k \in 1 .. Len(pending'[u]),
               NEW j \in 0 .. Length(pending'[u][k]) - 1
        PROVE  log'[u][Wrap(pending'[u][k].at + j)] = Encoded(pending'[u][k], j)
    <2>1. log[u][Wrap(pending[u][k].at + j)] = Encoded(pending[u][k], j)
      BY <1>7 DEF Written
    <2>2. log'[u][Wrap(pending[u][k].at + j)] = log[u][Wrap(pending[u][k].at + j)]
      BY <1>2, <1>6, <1>7
    <2> QED
      BY <1>7, <2>1, <2>2
  <1> QED
    BY <1>8 DEF Written

(* The words of a new log do not reach the old ones, and are its own.      *)
LEMMA CommitWritten ==
  ASSUME TransactionsFit, ReplayTypeOK, Queues, Ring, Laid, Written, Counted,
         NEW t \in Workers, Commit(t)
  PROVE  Written'
  <1>0. LogSize \in Nat /\ FetchAhead \in Nat /\ MinSpace \in Nat /\ MinSpace < LogSize
    BY ReplayAssumption
  <1>1. PICK x \in Txs :
           /\ x.at = end[t] /\ wpc[t] = "body"
           /\ \A u \in Workers \ {t} : log'[u] = log[u] /\ pending'[u] = pending[u]
           /\ \A p \in Positions :
                 log'[t][p] = IF Wrap(p - x.at) < Length(x)
                              THEN Encoded(x, Wrap(p - x.at)) ELSE log[t][p]
           /\ Len(pending'[t]) = Len(pending[t]) + 1
           /\ \A k \in 1 .. Len(pending[t]) : pending'[t][k] = pending[t][k]
           /\ pending'[t][Len(pending[t]) + 1] = x
    BY CommitIs
  <1>2. /\ end[t] = next[t] /\ Used(t) + MinSpace <= LogSize
    BY <1>1 DEF Ring, RingAt
  <1>3. /\ next[t] \in Positions /\ start[t] \in Positions
        /\ Shown(t) = Len(pending[t]) /\ Len(pending[t]) \in Nat
    BY <1>1, Typed
  <1>4. Length(x) \in Nat /\ Length(x) + FetchAhead < MinSpace
    BY LogWords
  <1>5. ASSUME NEW k \in 1 .. Len(pending[t]), NEW j \in 0 .. Length(pending[t][k]) - 1
        PROVE  log'[t][Wrap(pending[t][k].at + j)] = log[t][Wrap(pending[t][k].at + j)]
    <2> DEFINE p == Wrap(pending[t][k].at + j)
    <2>1. p \in Positions /\ Offset(t, p) \in Nat /\ Offset(t, p) < Used(t) /\ Used(t) \in Nat
      BY <1>3, WordOffset
    <2> HIDE DEF p
    <2>2. Wrap(p - next[t]) = Offset(t, p) - Used(t) + LogSize
      BY <1>3, <2>1, Behind DEF Offset, Used
    <2>3. ~ (Wrap(p - x.at) < Length(x))
      BY <1>0, <1>1, <1>2, <1>4, <2>1, <2>2
    <2> QED
      BY <1>1, <2>1, <2>3 DEF p
  <1>6. ASSUME NEW j \in 0 .. Length(x) - 1
        PROVE  log'[t][Wrap(x.at + j)] = Encoded(x, j)
    <2>1. j \in Nat /\ j < Length(x) /\ j < LogSize /\ x.at \in Positions
      BY <1>0, <1>1, <1>2, <1>3, <1>4
    <2>2. Wrap(x.at - x.at) = 0
      BY <2>1, Distances
    <2>3. Wrap(Wrap(x.at + j) - x.at) = j
      BY <2>1, <2>2, Distances
    <2>4. Wrap(x.at + j) \in Positions
      <3>1. x.at + j \in Int
        BY <1>0, <2>1 DEF Positions
      <3> QED
        BY <3>1, Wraps
    <2> QED
      BY <1>1, <2>1, <2>3, <2>4
  <1>7. \A k \in 1 .. Len(pending'[t]) :
           k \in 1 .. Len(pending[t]) \/ k = Len(pending[t]) + 1
    BY <1>1, <1>3
  <1>8. ASSUME NEW k \in 1 .. Len(pending'[t]), NEW j \in 0 .. Length(pending'[t][k]) - 1
        PROVE  log'[t][Wrap(pending'[t][k].at + j)] = Encoded(pending'[t][k], j)
    <2>1. CASE k \in 1 .. Len(pending[t])
      <3>1. pending'[t][k] = pending[t][k]
        BY <1>1, <2>1
      <3>2. j \in 0 .. Length(pending[t][k]) - 1
        BY <3>1
      <3>3. log[t][Wrap(pending[t][k].at + j)] = Encoded(pending[t][k], j)
        BY <2>1, <3>2 DEF Written
      <3>4. log'[t][Wrap(pending[t][k].at + j)] = log[t][Wrap(pending[t][k].at + j)]
        BY <1>5, <2>1, <3>2
      <3> QED
        BY <3>1, <3>3, <3>4
    <2>2. CASE k = Len(pending[t]) + 1
      BY <1>1, <1>6, <2>2
    <2> QED
      BY <1>7, <2>1, <2>2
  <1>9. ASSUME NEW u \in Workers \ {t}, NEW k \in 1 .. Len(pending'[u]),
               NEW j \in 0 .. Length(pending'[u][k]) - 1
        PROVE  log'[u][Wrap(pending'[u][k].at + j)] = Encoded(pending'[u][k], j)
    BY <1>1 DEF Written
  <1> QED
    BY <1>8, <1>9 DEF Written

(* Nothing overwrites a log before it is replayed.                         *)
LEMMA WrittenStep ==
  ASSUME TransactionsFit, ReplayTypeOK, Queues, Ring, Laid, Written, Picking, Applying,
         Counted, ReplayNext
  PROVE  Written'
  <1>1. ASSUME UNCHANGED <<log, pending>> PROVE Written'
    BY <1>1 DEF Written
  <1>2. ASSUME NEW t \in Workers, Room(t) \/ Publish(t) PROVE UNCHANGED <<log, pending>>
    BY <1>2 DEF Room, Publish
  <1>3. CASE Finish
    <2>1. /\ pick \in Workers /\ log' = log
          /\ \A u \in Workers \ {pick} : pending'[u] = pending[u]
          /\ Len(pending'[pick]) = Len(pending[pick]) - 1
          /\ \A k \in 1 .. Len(pending[pick]) - 1 : pending'[pick][k] = pending[pick][k + 1]
      BY <1>3, FinishIs
    <2>2. Len(pending[pick]) \in Nat
      BY <2>1, Typed
    <2>3. \A u \in Workers : \A k \in 1 .. Len(pending'[u]) :
             \E i \in 1 .. Len(pending[u]) : pending'[u][k] = pending[u][i]
      <3>1. \A k \in 1 .. Len(pending[pick]) - 1 : k + 1 \in 1 .. Len(pending[pick])
        BY <2>2
      <3> QED
        BY <2>1, <3>1
    <2>4. ASSUME NEW u \in Workers, NEW k \in 1 .. Len(pending'[u]),
                 NEW j \in 0 .. Length(pending'[u][k]) - 1
          PROVE  log'[u][Wrap(pending'[u][k].at + j)] = Encoded(pending'[u][k], j)
      <3>1. PICK i \in 1 .. Len(pending[u]) : pending'[u][k] = pending[u][i]
        BY <2>3
      <3> QED
        BY <2>1, <3>1 DEF Written
    <2> QED
      BY <2>4 DEF Written
  <1> QED
    BY <1>1, <1>2, <1>3, BeginWritten, CommitWritten, RingSteps DEF RingsKept
-----------------------------------------------------------------------------
(* What no step but Finish takes from the replayer: the logs it may see.   *)
SightKept == \A u \in Workers :
   /\ start'[u] = start[u] /\ Shown(u) <= Shown(u)' /\ Shown(u)' \in Nat
   /\ \A k \in 1 .. Shown(u) : pending'[u][k] = pending[u][k]

(* Every step but Finish leaves those logs where they are.                *)
LEMMA SightSteps ==
  ASSUME TransactionsFit, ReplayTypeOK, Queues, Counted, ReplayNext, ~ Finish
  PROVE  SightKept
  <1>0. \A u \in Workers : Shown(u) \in Nat /\ Len(pending[u]) \in Nat
                           /\ Shown(u) <= Len(pending[u])
    BY Typed
  <1>1. CASE RingsKept
    BY <1>0, <1>1 DEF RingsKept, SightKept, Shown
  <1>2. ASSUME NEW t \in Workers, Begin(t) \/ Room(t) \/ Publish(t) PROVE SightKept
    <2>1. UNCHANGED <<start, pending>> /\ wpc \in [Workers -> {"idle", "fetched", "body", "close"}]
      BY <1>2 DEF Begin, Room, Publish, ReplayTypeOK
    <2>2. \A u \in Workers : wpc'[u] = "close" <=> wpc[u] = "close" /\ ~ (u = t /\ Publish(t))
      BY <1>2, <2>1 DEF Begin, Room, Publish, At
    <2>3. \A u \in Workers : Shown(u) <= Shown(u)' /\ Shown(u)' \in Nat
      <3> TAKE u \in Workers
      <3>1. wpc'[u] = "close" => wpc[u] = "close"
        BY <2>2
      <3>2. /\ Shown(u)' = IF wpc'[u] = "close" THEN Len(pending[u]) - 1 ELSE Len(pending[u])
            /\ Shown(u) = IF wpc[u] = "close" THEN Len(pending[u]) - 1 ELSE Len(pending[u])
        BY <2>1 DEF Shown
      <3> QED
        BY <1>0, <3>1, <3>2
    <2> QED
      BY <2>1, <2>3 DEF SightKept
  <1>3. ASSUME NEW t \in Workers, Commit(t) PROVE SightKept
    <2>1. /\ start' = start
          /\ \A u \in Workers \ {t} : pending'[u] = pending[u]
          /\ \A k \in 1 .. Len(pending[t]) : pending'[t][k] = pending[t][k]
          /\ \A u \in Workers : Shown(u)' = Shown(u)
      BY <1>3, CommitIs
    <2>2. \A u \in Workers : \A k \in 1 .. Shown(u) : k \in 1 .. Len(pending[u])
      BY <1>0
    <2> QED
      BY <1>0, <2>1, <2>2 DEF SightKept
  <1> QED
    BY <1>1, <1>2, <1>3, RingSteps

(* Where the search for a marker stands: short of the marker it has another *)
(* word of the same log before it.                                         *)
LEMMA WalkIs ==
  ASSUME TransactionsFit, ReplayTypeOK, Queues, Ring, Laid, Written, Walking, rpc = "walk"
  PROVE  /\ ri \in Workers /\ Shown(ri) > 0 /\ pending[ri][1] \in Txs
         /\ log[ri][pos].mark => log[ri][pos].n = pending[ri][1].ts
         /\ ~ log[ri][pos].mark => /\ Wrap(pos + 1) # next[ri]
                                   /\ Offset(ri, Wrap(pos + 1)) < Length(pending[ri][1])
  <1>1. PICK t \in Workers : t = ri
    BY DEF Walking
  <1>2. Shown(t) > 0 /\ Offset(t, pos) < Length(pending[t][1]) /\ pos \in Positions
    BY <1>1, Typed DEF Walking
  <1>3. /\ pending[t][1] \in Txs /\ Offset(t, pos) \in Nat
        /\ log[t][pos] = Encoded(pending[t][1], Offset(t, pos))
        /\ Length(pending[t][1]) <= Used(t) /\ Used(t) \in Nat /\ Used(t) < LogSize
        /\ start[t] \in Positions
    BY <1>2, FirstLog, Typed
  <1>4. Length(pending[t][1]) \in Nat
    BY <1>3, LogWords
  <1>5. log[t][pos].mark <=> Offset(t, pos) = Length(pending[t][1]) - 1
    <2>1. Offset(t, pos) \in 0 .. Length(pending[t][1]) - 1
      BY <1>2, <1>3, <1>4
    <2>2. \A k \in 0 .. Length(pending[t][1]) - 1 :
             Encoded(pending[t][1], k).mark <=> k = Length(pending[t][1]) - 1
      BY <1>3, LogWords
    <2> QED
      BY <1>3, <2>1, <2>2
  <1>6. log[t][pos].mark => log[t][pos].n = pending[t][1].ts
    BY <1>3, <1>5, LogWords
  <1>7. ASSUME ~ log[t][pos].mark
        PROVE  Wrap(pos + 1) # next[t] /\ Offset(t, Wrap(pos + 1)) < Length(pending[t][1])
    <2>1. Wrap(Wrap(pos + 1) - start[t]) = Offset(t, pos) + 1
      <3>1. Wrap(pos - start[t]) + 1 < LogSize
        BY <1>2, <1>3, <1>4, <1>5, <1>7, ReplayAssumption DEF Offset
      <3> QED
        BY <1>2, <1>3, <3>1, Distances DEF Offset
    <2> QED
      BY <1>2, <1>3, <1>4, <1>5, <1>7, <2>1 DEF Offset, Used
  <1> QED
    BY <1>1, <1>2, <1>3, <1>6, <1>7

(* The search for a marker stays in the first log of its worker.           *)
LEMMA WalkingStep ==
  ASSUME TransactionsFit, ReplayTypeOK, Queues, Ring, Laid, Written, Walking, Picking,
         Counted, ReplayNext
  PROVE  Walking'
  <1>1. CASE Finish
    BY <1>1 DEF Finish, Walking
  <1> SUFFICES ASSUME SightKept, ~ Finish PROVE Walking'
    BY <1>1, SightSteps
  <1>2. CASE Scan
    <2> SUFFICES ASSUME rpc' = "walk"
                 PROVE  ri \in Workers /\ Shown(ri)' > 0 /\ ri' = ri
                        /\ Offset(ri, pos)' < Length(pending[ri][1])'
      BY DEF Walking
    <2>1. /\ rpc = "scan" /\ ri < N /\ cur[ri] # next[ri] /\ pos' = cur[ri] /\ ri' = ri
          /\ UNCHANGED <<start, pending, wpc>>
      BY <1>2 DEF Scan, workerVars
    <2>2. PICK t \in Workers : t = ri
      BY <2>1, ReplayAssumption DEF ReplayTypeOK, Workers
    <2>3. cur[t] = start[t] /\ (Shown(t) = 0 => Used(t) = 0)
      BY DEF Ring, RingAt
    <2>4. next[t] \in Positions /\ start[t] \in Positions /\ Shown(t) \in Nat
      BY Typed
    <2>5. Used(t) # 0 /\ Wrap(cur[t] - start[t]) = 0
      BY <2>1, <2>2, <2>3, <2>4, Distances DEF Used, Offset
    <2>6. Shown(t) > 0 /\ pending[t][1] \in Txs
      BY <2>3, <2>4, <2>5, Typed
    <2>7. Length(pending[t][1]) > 0
      <3>1. /\ Length(pending[t][1]) = 2 * Len(pending[t][1].body) + 1
            /\ Len(pending[t][1].body) \in Nat
        BY <2>6, LogWords
      <3> QED
        BY <3>1
    <2>8. Shown(t)' = Shown(t)
      BY <2>1 DEF Shown
    <2>9. Wrap(cur[t] - start'[t]) < Length(pending'[t][1])
      BY <2>1, <2>5, <2>7
    <2> QED
      BY <2>1, <2>2, <2>6, <2>8, <2>9 DEF Offset
  <1>3. CASE WalkOn
    <2> SUFFICES ASSUME rpc' = "walk"
                 PROVE  ri \in Workers /\ Shown(ri)' > 0 /\ ri' = ri
                        /\ Offset(ri, pos)' < Length(pending[ri][1])'
      BY DEF Walking
    <2>1. /\ rpc = "walk" /\ ~ log[ri][pos].mark /\ pos' = Wrap(pos + 1) /\ ri' = ri
          /\ UNCHANGED <<start, pending, wpc>>
      BY <1>3 DEF WalkOn, workerVars
    <2>2. /\ ri \in Workers /\ Shown(ri) > 0
          /\ Offset(ri, Wrap(pos + 1)) < Length(pending[ri][1])
      BY <2>1, WalkIs
    <2> QED
      BY <2>1, <2>2 DEF Offset, Shown
  <1>4. ASSUME UNCHANGED <<rpc, ri, pos>> PROVE Walking'
    <2> SUFFICES ASSUME rpc = "walk"
                 PROVE  ri \in Workers /\ Shown(ri)' > 0
                        /\ Offset(ri, pos)' < Length(pending[ri][1])'
      BY <1>4 DEF Walking
    <2>1. PICK t \in Workers : t = ri
      BY DEF Walking
    <2>2. Shown(t) > 0 /\ Offset(t, pos) < Length(pending[t][1]) /\ Shown(t) \in Nat
      BY <2>1, Typed DEF Walking
    <2>3. start'[t] = start[t] /\ pending'[t][1] = pending[t][1] /\ Shown(t)' > 0
      BY <2>2 DEF SightKept
    <2> QED
      BY <1>4, <2>1, <2>2, <2>3 DEF Offset
  <1>5. ASSUME NEW t \in Workers, WorkerStep(t) PROVE UNCHANGED <<rpc, ri, pos>>
    BY <1>5 DEF WorkerStep, Begin, Room, Commit, Publish, replayerVars
  <1>6. Quit \/ Stopped => UNCHANGED <<rpc, ri, pos>>
    BY DEF Quit, Stopped, replayVars, replayerVars
  <1>7. Top \/ WalkEnd \/ Choose \/ NoLog \/ Apply \/ TellClock => rpc' # "walk"
    BY DEF Top, WalkEnd, Choose, NoLog, Apply, TellClock
  <1> QED
    BY <1>2, <1>3, <1>4, <1>5, <1>6, <1>7 DEF ReplayNext, ReplayerStep, Walking
-----------------------------------------------------------------------------
(* VisibleIs, after the step.                                              *)
LEMMA VisibleNext ==
  ASSUME Queues'
  PROVE  /\ \A t \in Workers : Shown(t)' <= Len(pending'[t]) /\ Len(pending'[t]) \in Nat
         /\ \A t \in Workers : \A k \in 1 .. Shown(t)' : pending'[t][k].ts \in VisibleTs'
  <1>1. ASSUME NEW t \in Workers
        PROVE  /\ Visible(t)' = 1 .. Shown(t)'
               /\ Shown(t)' <= Len(pending'[t]) /\ Len(pending'[t]) \in Nat
    <2>1. pending'[t] \in Seq(Txs)
      BY DEF Queues
    <2> QED
      BY <2>1 DEF Visible, Shown
  <1> DEFINE Seen(t) == {pending'[t][k].ts : k \in Visible(t)'}
  <1>2. VisibleTs' = UNION {Seen(t) : t \in Workers}
    BY DEF VisibleTs
  <1>3. \A t \in Workers : \A k \in 1 .. Shown(t)' : pending'[t][k].ts \in Seen(t)
    BY <1>1
  <1> HIDE DEF Seen
  <1> QED
    BY <1>1, <1>2, <1>3

(* What was visible when the round began stays so, and a log that becomes  *)
(* visible later was not.                                                  *)
LEMMA InSightKept ==
  ASSUME ReplayTypeOK, Queues, SightKept, Queues', Ordered', UNCHANGED inSight,
         inSight \subseteq VisibleTs
  PROVE  /\ inSight' \subseteq VisibleTs'
         /\ \A u \in Workers : \A k \in 1 .. Shown(u)' : pending'[u][k].ts \in inSight =>
               k \in 1 .. Shown(u) /\ pending'[u][k] = pending[u][k]
  <1>1. \A u \in Workers : /\ Shown(u) \in Nat /\ Shown(u)' \in Nat /\ Shown(u) <= Shown(u)'
                           /\ \A k \in 1 .. Shown(u) : pending'[u][k] = pending[u][k]
    BY Typed DEF SightKept
  <1>2. ASSUME NEW n \in inSight
        PROVE  \E w \in Workers : \E i \in 1 .. Shown(w) :
                  /\ n = pending[w][i].ts /\ n = pending'[w][i].ts
                  /\ i \in 1 .. Shown(w)'
    <2>1. PICK w \in Workers : \E i \in 1 .. Shown(w) : n = pending[w][i].ts
      BY VisibleIs
    <2>2. PICK i \in 1 .. Shown(w) : n = pending[w][i].ts
      BY <2>1
    <2> QED
      BY <1>1, <2>2
  <1>3. inSight' \subseteq VisibleTs'
    BY <1>2, VisibleNext
  <1>4. ASSUME NEW u \in Workers, NEW k \in 1 .. Shown(u)', pending'[u][k].ts \in inSight
        PROVE  k \in 1 .. Shown(u)
    <2>0. PICK w \in Workers : \E i \in 1 .. Shown(w) :
             pending'[u][k].ts = pending'[w][i].ts /\ i \in 1 .. Shown(w)'
      BY <1>2, <1>4
    <2>1. PICK i \in 1 .. Shown(w) :
             pending'[u][k].ts = pending'[w][i].ts /\ i \in 1 .. Shown(w)'
      BY <2>0
    <2>2. i \in 1 .. Len(pending'[w]) /\ k \in 1 .. Len(pending'[u])
      BY <1>1, <2>1, VisibleNext
    <2>3. u = w
      BY <2>1, <2>2 DEF Ordered
    <2>4. ~ (i < k)
      <3>1. i < k => pending'[u][i].ts < pending'[u][k].ts
        BY <2>2, <2>3 DEF Ordered
      <3>2. pending'[u][k].ts \in Int
        <4>1. pending'[u] \in Seq(Txs)
          BY DEF Queues
        <4>2. pending'[u][k] \in Txs
          BY <2>2, <4>1, ElementOfSeq
        <4> QED
          BY <4>2 DEF Txs
      <3> QED
        BY <2>1, <2>3, <3>1, <3>2
    <2> QED
      BY <1>1, <2>1, <2>3, <2>4
  <1> QED
    BY <1>1, <1>3, <1>4

(* The pick is the first log of its worker, and no log that was in sight   *)
(* and has been looked at is older.                                        *)
LEMMA PickingStep ==
  ASSUME TransactionsFit, ReplayTypeOK, Queues, Ordered, Ring, Laid, Written, Walking,
         Picking, Applying, Counted, ReplayNext, Queues', Ordered'
  PROVE  Picking'
  <1>0. /\ now \in Nat /\ ri \in Int /\ Workers \subseteq Int /\ N \in Nat
        /\ pick # None => pick \in Workers
        /\ None \notin Workers
        /\ \A u \in Workers : Shown(u) \in Nat
    <2>1. now \in Nat /\ ri \in Int /\ (pick # None => pick \in Workers)
      BY DEF ReplayTypeOK
    <2>2. N \in Nat /\ Workers \subseteq Int /\ None \notin Workers
      BY ReplayAssumption DEF Workers, None
    <2>3. \A u \in Workers : Shown(u) \in Nat
      BY Typed
    <2> QED
      BY <2>1, <2>2, <2>3
  <1>1. CASE Finish
    <2>1. /\ rpc = "apply" /\ log[pick][pos].mark /\ rpc' = "clock"
          /\ pickTs' = log[pick][pos].n /\ now' = now
      BY <1>1 DEF Finish, workerVars
    <2>2. /\ pick \in Workers /\ Shown(pick) > 0 /\ pickTs' = pending[pick][1].ts
      BY <2>1, LastWrite
    <2>3. 1 \in 1 .. Len(pending[pick])
      BY <2>2, Typed
    <2>4. pickTs' <= now
      BY <2>2, <2>3 DEF Queues
    <2> QED
      BY <2>1, <2>4 DEF Picking
  <1> SUFFICES ASSUME SightKept PROVE Picking'
    BY <1>1, SightSteps
  <1>2. CASE Top
    <2>1. /\ rpc' = "scan" /\ ri' = 0 /\ pick' = None /\ pickTs' = NoTs
          /\ inSight' = VisibleTs /\ UNCHANGED <<wpc, pending>>
      BY <1>2 DEF Top, workerVars
    <2>2. VisibleTs' = VisibleTs
      BY <2>1 DEF VisibleTs, Visible
    <2>3. \A u \in Workers : ~ (u < 0)
      BY <1>0 DEF Workers
    <2> QED
      BY <2>1, <2>2, <2>3 DEF Picking
  <1>3. ASSUME UNCHANGED <<inSight, pick, pickTs>>,
               rpc \in {"scan", "walk", "apply"}, rpc' \in {"scan", "walk", "apply"},
               rpc' = "apply" => pick # None,
               \A u \in Workers : rpc' = "apply" \/ u < ri' =>
                  rpc = "apply" \/ u < ri \/ Shown(u)' = 0
        PROVE  Picking'
    <2>1. /\ inSight' \subseteq VisibleTs'
          /\ \A u \in Workers : \A k \in 1 .. Shown(u)' : pending'[u][k].ts \in inSight =>
                k \in 1 .. Shown(u) /\ pending'[u][k] = pending[u][k]
      BY <1>3, InSightKept DEF Picking
    <2>2. IF pick = None THEN rpc' # "apply" /\ pickTs = NoTs
          ELSE Shown(pick)' > 0 /\ pickTs = pending'[pick][1].ts
      <3>1. CASE pick = None
        BY <1>3, <3>1 DEF Picking
      <3>2. CASE pick # None
        <4>1. PICK t \in Workers : t = pick
          BY <1>0, <3>2
        <4>2. Shown(t) > 0 /\ pickTs = pending[t][1].ts /\ pick' = t
          BY <1>3, <3>2, <4>1 DEF Picking
        <4>3. 1 \in 1 .. Shown(t) /\ Shown(t) <= Shown(t)' /\ Shown(t)' \in Nat
          BY <1>0, <4>2 DEF SightKept
        <4>4. Shown(t)' > 0 /\ pending'[t][1] = pending[t][1]
          BY <1>0, <4>2, <4>3 DEF SightKept
        <4> QED
          BY <3>2, <4>1, <4>2, <4>4 DEF Shown
      <3> QED
        BY <3>1, <3>2
    <2>3. ASSUME NEW u \in Workers, rpc' = "apply" \/ u < ri', NEW k \in 1 .. Shown(u)',
                 pending'[u][k].ts \in inSight
          PROVE  pickTs <= pending'[u][k].ts
      <3>1. k \in 1 .. Shown(u) /\ pending'[u][k] = pending[u][k]
        BY <2>1, <2>3
      <3>2. rpc = "apply" \/ u < ri
        BY <1>0, <1>3, <2>3, <3>1 DEF SightKept
      <3> QED
        BY <1>3, <2>3, <3>1, <3>2 DEF Picking
    <2>4. rpc' # "clock"
      BY <1>3
    <2>5. IF pick' = None THEN rpc' # "apply" /\ pickTs' = NoTs
          ELSE Shown(pick)' > 0 /\ pickTs' = pending'[pick'][1].ts
      BY <1>3, <2>2
    <2> QED
      BY <1>3, <2>1, <2>3, <2>4, <2>5 DEF Picking
  <1>4. ASSUME UNCHANGED <<rpc, ri, pick, pickTs, inSight>>, now <= now', now' \in Int
        PROVE  Picking'
    <2>1. CASE rpc \in {"scan", "walk", "apply"}
      <3>1. rpc' = "apply" => pick # None
        BY <1>4, <2>1 DEF Picking
      <3> QED
        BY <1>3, <1>4, <2>1, <3>1
    <2>2. CASE rpc = "clock"
      <3>1. pickTs <= now /\ pickTs \in Int
        BY <2>2 DEF Picking, ReplayTypeOK
      <3>2. pickTs' <= now'
        BY <1>0, <1>4, <3>1
      <3> QED
        BY <1>4, <2>2, <3>2 DEF Picking
    <2>3. CASE rpc \in {"top", "done"}
      BY <1>4, <2>3 DEF Picking
    <2> QED
      BY <2>1, <2>2, <2>3 DEF ReplayTypeOK
  <1>5. CASE Scan
    <2>1. /\ rpc = "scan" /\ ri < N /\ UNCHANGED <<inSight, pick, pickTs, wpc, pending>>
          /\ \/ cur[ri] = next[ri] /\ ri' = ri + 1 /\ rpc' = "scan"
             \/ ri' = ri /\ rpc' = "walk"
      BY <1>5 DEF Scan, workerVars
    <2>2. PICK t \in Workers : t = ri
      BY <2>1, ReplayAssumption DEF ReplayTypeOK, Workers
    <2>3. ASSUME cur[t] = next[t] PROVE Shown(t) = 0
      <3>1. cur[t] = start[t] /\ start[t] \in Positions /\ Shown(t) \in Nat
        BY Typed DEF Ring, RingAt
      <3>2. Used(t) = 0
        BY <2>3, <3>1, Distances DEF Used, Offset
      <3>3. ASSUME Shown(t) > 0 PROVE FALSE
        <4>1. 1 \in 1 .. Shown(t) /\ 1 \in 1 .. Len(pending[t])
          BY <3>1, <3>3, Typed
        <4>2. OffsetOf(t, 1) = 0 /\ OffsetOf(t, 1) + Length(pending[t][1]) <= Used(t)
          BY <4>1 DEF Laid, LaidAt
        <4>3. pending[t][1] \in Txs
          BY <4>1, Typed
        <4>4. /\ Length(pending[t][1]) = 2 * Len(pending[t][1].body) + 1
              /\ Len(pending[t][1].body) \in Nat
          BY <4>3, LogWords
        <4> QED
          BY <3>2, <4>2, <4>4
      <3> QED
        BY <3>1, <3>3
    <2>4. \A u \in Workers : Shown(u)' = Shown(u)
      BY <2>1 DEF Shown
    <2>5. ASSUME NEW u \in Workers, u < ri' PROVE u < ri \/ Shown(u)' = 0
      <3>0. u \in Int /\ ri \in Int
        BY <1>0
      <3>1. u < ri \/ (u = ri /\ cur[ri] = next[ri])
        <4>1. CASE cur[ri] = next[ri] /\ ri' = ri + 1
          BY <2>5, <3>0, <4>1
        <4>2. CASE ri' = ri
          BY <2>5, <4>2
        <4> QED
          BY <2>1, <4>1, <4>2
      <3> QED
        BY <2>2, <2>3, <2>4, <3>1
    <2> QED
      BY <1>3, <2>1, <2>5
  <1>6. CASE WalkOn
    <2>1. /\ rpc = "walk" /\ rpc' = "walk" /\ UNCHANGED <<inSight, pick, pickTs, ri>>
      BY <1>6, WalkIs DEF WalkOn
    <2> QED
      BY <1>3, <2>1
  <1>7. CASE WalkEnd
    <2> DEFINE ts == log[ri][pos].n
    <2>1. /\ rpc = "walk" /\ rpc' = "scan" /\ ri' = ri + 1
          /\ UNCHANGED <<inSight, wpc, pending>>
          /\ IF pickTs > ts \/ (pickTs = ts /\ pick > ri) THEN pick' = ri /\ pickTs' = ts
             ELSE UNCHANGED <<pick, pickTs>>
          /\ log[ri][pos].mark
      BY <1>7 DEF WalkEnd, workerVars
    <2>2. ri \in Workers /\ Shown(ri) > 0 /\ pending[ri][1] \in Txs /\ ts = pending[ri][1].ts
      BY <2>1, WalkIs
    <2> HIDE DEF ts
    <2>3. ts \in Nat /\ pickTs \in Nat /\ ts < NoTs
      <3>1. ts \in 1 .. MaxTs /\ pickTs \in 0 .. NoTs
        BY <2>2 DEF Txs, ReplayTypeOK
      <3>2. MaxTs \in Nat /\ MaxTs < NoTs /\ NoTs \in Nat
        BY ReplayAssumption DEF MaxTs, NoTs
      <3> QED
        BY <3>1, <3>2
    <2>4. VisibleTs' = VisibleTs /\ \A u \in Workers : Shown(u)' = Shown(u)
      BY <2>1 DEF VisibleTs, Visible, Shown
    <2>5. pickTs' \in Nat /\ pickTs' <= ts /\ pickTs' <= pickTs
      BY <2>1, <2>3
    <2>6. IF pick' = None THEN rpc' # "apply" /\ pickTs' = NoTs
          ELSE /\ pick' \in Workers /\ Shown(pick') > 0 /\ pickTs' = pending[pick'][1].ts
      <3>1. CASE pick' = ri /\ pickTs' = ts
        BY <1>0, <2>2, <3>1
      <3>2. CASE UNCHANGED <<pick, pickTs>>
        BY <1>0, <2>1, <3>2 DEF Picking
      <3> QED
        BY <2>1, <3>1, <3>2
    <2>7. IF pick' = None THEN rpc' # "apply" /\ pickTs' = NoTs
          ELSE Shown(pick)' > 0 /\ pickTs' = pending'[pick'][1].ts
      BY <2>1, <2>6 DEF Shown
    <2>8. ASSUME NEW u \in Workers, u < ri', NEW k \in 1 .. Shown(u),
                 pending[u][k].ts \in inSight
          PROVE  pickTs' <= pending[u][k].ts
      <3>0. Shown(u) <= Len(pending[u]) /\ Len(pending[u]) \in Nat /\ Shown(u) \in Nat
        BY Typed
      <3>1. k \in 1 .. Len(pending[u]) /\ k \in Int /\ 1 \in 1 .. Len(pending[u])
        BY <3>0
      <3>2. pending[u][k].ts \in Nat
        BY <3>1, Typed
      <3>3. CASE u < ri
        <4>1. pickTs <= pending[u][k].ts
          BY <2>1, <2>8, <3>3 DEF Picking
        <4> QED
          BY <2>3, <2>5, <3>2, <4>1
      <3>4. CASE u = ri
        <4>1. k # 1 => pending[u][1].ts < pending[u][k].ts
          BY <3>1 DEF Ordered
        <4> QED
          BY <2>2, <2>3, <2>5, <3>2, <3>4, <4>1
      <3> QED
        BY <1>0, <2>1, <2>8, <3>3, <3>4
    <2>9. inSight' \subseteq VisibleTs'
      BY <2>1, <2>4 DEF Picking
    <2> QED
      BY <2>1, <2>4, <2>7, <2>8, <2>9 DEF Picking
  <1>8. CASE Choose
    <2>1. /\ rpc = "scan" /\ rpc' = "apply" /\ ri = N /\ pick # None
          /\ UNCHANGED <<inSight, pick, pickTs>>
      BY <1>8 DEF Choose
    <2>2. \A u \in Workers : u < ri
      BY <1>0, <2>1 DEF Workers
    <2> QED
      BY <1>3, <2>1, <2>2
  <1>9. CASE Apply
    <2>1. UNCHANGED <<rpc, ri, pick, pickTs, inSight, now>>
      BY <1>9 DEF Apply, workerVars
    <2> QED
      BY <1>0, <1>4, <2>1
  <1>10. ASSUME NEW t \in Workers, WorkerStep(t) PROVE Picking'
    <2>1. /\ UNCHANGED <<rpc, ri, pick, pickTs, inSight>>
          /\ now' = now \/ now' = now + 1
      BY <1>10 DEF WorkerStep, Begin, Room, Commit, Publish, replayerVars
    <2> QED
      BY <1>0, <1>4, <2>1
  <1>11. CASE Quit \/ Stopped
    <2>1. UNCHANGED <<rpc, ri, pick, pickTs, inSight, now>>
      BY <1>11 DEF Quit, Stopped, replayVars, replayerVars, workerVars
    <2> QED
      BY <1>0, <1>4, <2>1
  <1>12. CASE NoLog \/ TellClock
    BY <1>12 DEF NoLog, TellClock, Picking
  <1> QED
    BY <1>2, <1>5, <1>6, <1>7, <1>8, <1>9, <1>10, <1>11, <1>12,
       <1>1
    DEF ReplayNext, ReplayerStep
-----------------------------------------------------------------------------
(* A write further is a store further; the logs themselves are left alone. *)
LEMMA ApplyApplying ==
  ASSUME TransactionsFit, ReplayTypeOK, Queues, Ring, Laid, Written, Picking, Applying,
         Apply
  PROVE  Applying'
  <1> DEFINE x == pending[pick][1]
  <1>0. LogSize \in Nat
    BY ReplayAssumption
  <1>1. /\ rpc = "apply" /\ rpc' = "apply"
        /\ ~ log[pick][Wrap(pos + 0)].mark
        /\ heap' = [heap EXCEPT ![log[pick][Wrap(pos + 0)].n] = log[pick][Wrap(pos + 1)]]
        /\ pos' = Wrap(pos + 2)
        /\ UNCHANGED <<start, pending, pick, wanted>>
    BY DEF Apply, workerVars
  <1>2. PICK t \in Workers : t = pick
    BY <1>1 DEF Picking, ReplayTypeOK
  <1>3. /\ Shown(t) > 0 /\ Shown(t) \in Nat /\ Shown(t) <= Len(pending[t])
        /\ Len(pending[t]) \in Nat /\ pos \in Positions /\ start[t] \in Positions
    BY <1>1, <1>2, Typed DEF Picking
  <1>4. x \in Txs
    BY <1>2, <1>3, Typed
  <1>5. PICK k \in 0 .. Len(x.body) : /\ Offset(t, pos) = 2 * k
                                      /\ heap = Store(wanted, SubSeq(x.body, 1, k))
    BY <1>1, <1>2 DEF Applying
  <1>6. /\ Len(x.body) \in Nat /\ Length(x) = 2 * Len(x.body) + 1 /\ Length(x) \in Nat
        /\ x.body \in Seq([a : Addrs, val : Words])
    <2>1. x.body \in Seq([a : Addrs, val : Words])
      BY <1>4, ReplayAssumption DEF Txs
    <2> QED
      BY <1>4, <2>1, LogWords
  <1>7. x = pending[t][1]
    BY <1>2
  <1> HIDE DEF x
  <1>8. Wrap(pos + 0) = pos
    <2>1. pos + 0 = pos
      BY <1>0, <1>3 DEF Positions
    <2> QED
      BY <1>3, <2>1, Wraps
  <1>9. /\ log[t][pos] = Encoded(x, 2 * k) /\ Length(x) <= Used(t)
        /\ Used(t) \in Nat /\ Used(t) < LogSize
    <2>1. Offset(t, pos) < Length(pending[t][1])
      BY <1>5, <1>6, <1>7
    <2> QED
      BY <1>3, <1>5, <1>7, <2>1, FirstLog
  <1>10. k \in 0 .. Len(x.body) - 1
    <2>1. 2 * k \in 0 .. Length(x) - 1 /\ (2 * k = Length(x) - 1 => k = Len(x.body))
      BY <1>5, <1>6
    <2>2. 2 * k # Length(x) - 1
      <3>1. Encoded(x, Length(x) - 1).mark
        <4>1. Length(x) - 1 \in 0 .. Length(x) - 1
          BY <1>6
        <4> QED
          BY <1>4, <4>1, LogWords
      <3> QED
        BY <1>1, <1>2, <1>8, <1>9, <3>1
    <2> QED
      BY <1>5, <1>6, <2>1, <2>2
  <1>11. /\ Encoded(x, 2 * k) = Word(FALSE, x.body[k + 1].a)
         /\ Encoded(x, 2 * k + 1) = x.body[k + 1].val
    BY <1>4, <1>10, LogWords
  <1>12. /\ Wrap(pos - start[t]) = 2 * k
         /\ 2 * k + 1 < LogSize /\ 2 * k + 2 < LogSize /\ 2 * k + 1 < Length(x)
    BY <1>0, <1>5, <1>6, <1>9, <1>10 DEF Offset
  <1>13. /\ Offset(t, Wrap(pos + 1)) = 2 * k + 1 /\ Offset(t, Wrap(pos + 2)) = 2 * k + 2
         /\ Wrap(pos + 1) \in Positions
    <2>1. pos + 1 \in Int
      BY <1>0, <1>3 DEF Positions
    <2>2. Wrap(pos + 1) \in Positions
      BY <2>1, Wraps
    <2>3. Wrap(Wrap(pos + 1) - start[t]) = 2 * k + 1
      BY <1>3, <1>12, Distances
    <2>4. Wrap(Wrap(pos + 2) - start[t]) = 2 * k + 2
      BY <1>3, <1>12, Distances
    <2> QED
      BY <2>2, <2>3, <2>4 DEF Offset
  <1>14. log[t][Wrap(pos + 1)] = x.body[k + 1].val
    <2>1. log[t][Wrap(pos + 1)] = Encoded(x, 2 * k + 1)
      BY <1>3, <1>7, <1>12, <1>13, FirstLog
    <2> QED
      BY <1>11, <2>1
  <1>15. log[t][pos].n = x.body[k + 1].a
    <2>1. log[t][pos] = Word(FALSE, x.body[k + 1].a)
      BY <1>9, <1>11
    <2> QED
      BY <2>1 DEF Word
  <1>16. heap' = Store(wanted, SubSeq(x.body, 1, k + 1))
    <2>1. heap' = [heap EXCEPT ![x.body[k + 1].a] = x.body[k + 1].val]
      BY <1>1, <1>2, <1>8, <1>14, <1>15
    <2> QED
      BY <1>5, <1>6, <1>10, <2>1, StoreNext
  <1>17. Wrap(pos' - start'[t]) = 2 * (k + 1) /\ k + 1 \in 0 .. Len(x.body)
    BY <1>1, <1>6, <1>10, <1>13 DEF Offset
  <1>18. pick' = t /\ x = pending'[pick'][1] /\ wanted' = wanted
    BY <1>1, <1>2, <1>7
  <1> QED
    BY <1>1, <1>16, <1>17, <1>18 DEF Applying, Offset

(* The heap is the effect of what was replayed, and of the writes of one   *)
(* log up to where the replayer is.                                        *)
LEMMA ApplyingStep ==
  ASSUME TransactionsFit, ReplayTypeOK, Queues, Ring, Laid, Written, Walking, Picking,
         Applying, Counted, ReplayNext
  PROVE  Applying'
  <1>1. CASE Finish
    <2>1. /\ rpc = "apply" /\ log[pick][pos].mark /\ rpc' = "clock" /\ heap' = heap
          /\ wanted' = Store(wanted, pending[pick][1].body)
      BY <1>1 DEF Finish
    <2>2. heap = Store(wanted, pending[pick][1].body)
      BY <2>1, LastWrite
    <2> QED
      BY <2>1, <2>2 DEF Applying
  <1> SUFFICES ASSUME SightKept PROVE Applying'
    BY <1>1, SightSteps
  <1>2. CASE Choose
    <2>1. /\ rpc = "scan" /\ rpc' = "apply" /\ pick # None /\ pos' = cur[pick]
          /\ UNCHANGED <<heap, wanted, pick, pending, start>>
      BY <1>2 DEF Choose, workerVars
    <2>2. PICK t \in Workers : t = pick
      BY <2>1 DEF ReplayTypeOK
    <2>3. Shown(t) > 0 /\ cur[t] = start[t] /\ start[t] \in Positions
      BY <2>1, <2>2, Typed DEF Picking, Ring, RingAt
    <2>4. Wrap(cur[t] - start[t]) = 0
      BY <2>3, Distances
    <2>5. pending[t][1] \in Txs
      BY <2>3, Typed
    <2>6. pending[t][1].body \in Seq([a : Addrs, val : Words])
      BY <2>5, ReplayAssumption DEF Txs
    <2>7. Store(wanted, SubSeq(pending[t][1].body, 1, 0)) = wanted
      BY <2>6, StoreNone DEF ReplayTypeOK
    <2>8. heap = wanted
      BY <2>1 DEF Applying
    <2>9. Wrap(pos' - start'[t]) = 2 * 0 /\ 0 \in 0 .. Len(pending[t][1].body)
      BY <2>1, <2>2, <2>4, <2>6
    <2>10. heap' = Store(wanted', SubSeq(pending'[pick'][1].body, 1, 0))
      BY <2>1, <2>2, <2>7, <2>8
    <2>11. Offset(pick, pos)' = 2 * 0 /\ 0 \in 0 .. Len(pending'[pick'][1].body)
      BY <2>1, <2>2, <2>9 DEF Offset
    <2> QED
      BY <2>1, <2>10, <2>11 DEF Applying
  <1>3. CASE Apply
    BY <1>3, ApplyApplying
  <1>4. ASSUME UNCHANGED <<heap, wanted>>, rpc # "apply", rpc' # "apply" PROVE Applying'
    BY <1>4 DEF Applying
  <1>5. ASSUME UNCHANGED <<heap, wanted, rpc, pos, pick>> PROVE Applying'
    <2>1. CASE rpc = "apply"
      <3>1. PICK t \in Workers : t = pick
        BY <2>1 DEF Picking, ReplayTypeOK
      <3>2. Shown(t) > 0 /\ Shown(t) \in Nat
        BY <2>1, <3>1, Typed DEF Picking
      <3>3. start'[t] = start[t] /\ pending'[t][1] = pending[t][1]
        BY <3>2 DEF SightKept
      <3> QED
        BY <1>5, <2>1, <3>1, <3>3 DEF Applying, Offset
    <2>2. CASE rpc # "apply"
      BY <1>4, <1>5, <2>2
    <2> QED
      BY <2>1, <2>2
  <1>6. ASSUME NEW t \in Workers, WorkerStep(t) PROVE UNCHANGED <<heap, wanted, rpc, pos, pick>>
    BY <1>6 DEF WorkerStep, Begin, Room, Commit, Publish, replayerVars
  <1>7. Quit \/ Stopped => UNCHANGED <<heap, wanted, rpc, pos, pick>>
    BY DEF Quit, Stopped, replayVars, replayerVars
  <1>8. Top \/ Scan \/ WalkOn \/ WalkEnd \/ NoLog \/ TellClock =>
           UNCHANGED <<heap, wanted>> /\ rpc # "apply" /\ rpc' # "apply"
    BY DEF Top, Scan, WalkOn, WalkEnd, NoLog, TellClock
  <1> QED
    BY <1>1, <1>2, <1>3, <1>4, <1>5, <1>6, <1>7, <1>8 DEF ReplayNext, ReplayerStep
-----------------------------------------------------------------------------
(* In the initial states nothing is logged.                                *)
LEMMA ReplayInitInv == ReplayInit => ReplayInv
  <1> SUFFICES ASSUME ReplayInit PROVE ReplayInv
    OBVIOUS
  <1>0. /\ N \in Nat \ {0} /\ LogSize \in Nat \ {0} /\ FetchAhead \in Nat /\ MaxTx \in Nat
        /\ MaxN \in Nat /\ MaxTs \in Nat /\ FetchAhead < LogSize
    BY ReplayAssumption DEF MaxTs
  <1>1. /\ 0 \in Positions /\ 0 \in 0 .. N /\ 0 \in 0 .. MaxTs /\ 0 \in 0 .. MaxTx
        /\ NoTs \in 0 .. NoTs /\ Word(FALSE, 0) \in Words /\ 0 \in 0 .. MaxN
    <2>1. /\ 0 \in Positions /\ 0 \in 0 .. N /\ 0 \in 0 .. MaxTs /\ 0 \in 0 .. MaxTx
          /\ NoTs \in 0 .. NoTs /\ 0 \in 0 .. MaxN
      BY <1>0 DEF Positions, NoTs
    <2> QED
      BY <2>1, WordIs
  <1>2. ReplayTypeOK
    BY <1>1 DEF ReplayInit, ReplayTypeOK
  <1>3. \A t \in Workers : /\ pending[t] = <<>> /\ wpc[t] = "idle" /\ begun[t] = 0
                           /\ next[t] = 0 /\ start[t] = 0 /\ cur[t] = 0
    BY DEF ReplayInit
  <1>4. Queues
    <2>1. pending \in [Workers -> Seq(Txs)]
      BY DEF ReplayInit
    <2> QED
      BY <1>3, <2>1 DEF Queues, Open
  <1>5. \A t \in Workers : Shown(t) = 0 /\ Used(t) = 0 /\ Len(pending[t]) = 0
    <2>1. Wrap(0 - 0) = 0
      BY <1>1, Distances
    <2> QED
      BY <1>3, <2>1 DEF Shown, Used, Offset
  <1>6. Ordered /\ Written /\ Laid
    BY <1>5 DEF Ordered, Written, Laid, LaidAt
  <1>7. Ring
    BY <1>0, <1>3, <1>5 DEF Ring, RingAt
  <1>8. Walking /\ Applying
    BY DEF ReplayInit, Walking, Applying
  <1>9. Picking
    <2>1. \A u \in Workers : ~ (u < 0)
      BY <1>0 DEF Workers
    <2> QED
      BY <2>1 DEF ReplayInit, Picking
  <1>10. Counted
    <2>1. \A c \in Workers \X (1 .. MaxTx) : ~ (c[2] + Open(c[1]) <= begun[c[1]])
      BY <1>0, <1>3 DEF Open
    <2>2. Commits = {}
      BY <2>1 DEF Commits
    <2> QED
      BY <2>2, FS_EmptySet DEF Counted, ReplayInit
  <1> QED
    BY <1>2, <1>4, <1>6, <1>7, <1>8, <1>9, <1>10 DEF ReplayInv

(* A step that changes nothing.                                            *)
LEMMA ReplayStutterInv == ReplayInv /\ UNCHANGED replayVars => ReplayInv'
  <1> SUFFICES ASSUME ReplayInv, UNCHANGED replayVars PROVE ReplayInv'
    OBVIOUS
  <1> USE DEF replayVars, workerVars, replayerVars
  <1>1. ReplayTypeOK'
    BY DEF ReplayInv, ReplayTypeOK
  <1>2. Queues' /\ Ordered' /\ Written' /\ Counted'
    BY DEF ReplayInv, Queues, Ordered, Written, Counted, Commits, Open
  <1>3. Ring' /\ Laid'
    BY DEF ReplayInv, Ring, RingAt, Laid, LaidAt, Used, Offset, OffsetOf, Shown
  <1>4. Walking' /\ Applying'
    BY DEF ReplayInv, Walking, Applying, Offset, Shown
  <1>5. Picking'
    BY DEF ReplayInv, Picking, Shown, VisibleTs, Visible
  <1> QED
    BY <1>1, <1>2, <1>3, <1>4, <1>5 DEF ReplayInv

(* The invariant carries over every step.                                  *)
LEMMA ReplayNextInv ==
  ASSUME TransactionsFit, ReplayInv, ReplayNext
  PROVE  ReplayInv'
  <1>1. /\ ReplayTypeOK /\ Queues /\ Ordered /\ Ring /\ Laid /\ Written /\ Walking
        /\ Picking /\ Applying /\ Counted
    BY DEF ReplayInv
  <1>2. ReplayTypeOK' /\ Queues' /\ Ordered' /\ Counted'
    BY <1>1, TypesStep, QueuesStep, OrderedStep, CountedStep
  <1>3. Ring' /\ Laid' /\ Written'
    BY <1>1, RingStep, WrittenStep
  <1>4. Walking' /\ Picking' /\ Applying'
    BY <1>1, <1>2, WalkingStep, PickingStep, ApplyingStep
  <1> QED
    BY <1>2, <1>3, <1>4 DEF ReplayInv
-----------------------------------------------------------------------------
(* The inductive invariant: the state of the rings, of the search and of   *)
(* the heap in every reachable state.                                      *)
THEOREM ReplayInvariant == ASSUME TransactionsFit PROVE ReplaySpec => []ReplayInv
  <1>1. ReplayInv /\ [ReplayNext]_replayVars => ReplayInv'
    BY ReplayNextInv, ReplayStutterInv
  <1> QED
    BY <1>1, ReplayInitInv, PTL DEF ReplaySpec

(* Every variable keeps its type: positions stay on the rings, and the     *)
(* timestamps below the bound they are given.                              *)
THEOREM ReplayTypeCorrect == ASSUME TransactionsFit PROVE ReplaySpec => []ReplayTypeOK
  <1>1. ReplayInv => ReplayTypeOK
    BY DEF ReplayInv
  <1> QED
    BY <1>1, ReplayInvariant, PTL

(* No worker overruns its ring: while a log is visible and not replayed,   *)
(* every word of it stays as its transaction wrote it, whatever fetch_log  *)
(* and smart_close_log write and the replayer gives back meanwhile.        *)
THEOREM LogsAreKept == ASSUME TransactionsFit PROVE ReplaySpec => []WordsKept
  <1>1. ReplayInv => WordsKept
    <2> SUFFICES ASSUME ReplayInv, NEW t \in Workers, NEW k \in Visible(t)
                 PROVE  \A j \in 0 .. Length(pending[t][k]) - 1 :
                           log[t][Wrap(pending[t][k].at + j)] = Encoded(pending[t][k], j)
      BY DEF WordsKept
    <2>1. k \in 1 .. Shown(t) /\ Shown(t) \in Nat /\ Len(pending[t]) \in Nat
          /\ Shown(t) <= Len(pending[t])
      BY VisibleIs, Typed DEF ReplayInv
    <2>2. k \in 1 .. Len(pending[t])
      BY <2>1
    <2> QED
      BY <2>2 DEF ReplayInv, Written
  <1> QED
    BY <1>1, ReplayInvariant, PTL

(* The replayer stores each transaction as a whole and nothing else: the   *)
(* heap is the effect of the logs replayed, and within apply_log that and  *)
(* the first writes of the log it is at.                                   *)
THEOREM HeapIsWhole == ASSUME TransactionsFit PROVE ReplaySpec => []HeapWhole
  <1>1. ReplayInv => HeapWhole
    <2> SUFFICES ASSUME ReplayInv PROVE HeapWhole
      OBVIOUS
    <2>1. CASE rpc # "apply"
      BY <2>1 DEF ReplayInv, Applying, HeapWhole
    <2>2. CASE rpc = "apply"
      <3>1. pick \in Workers /\ Shown(pick) > 0
        BY <2>2 DEF ReplayInv, Picking, ReplayTypeOK
      <3>2. Shown(pick) \in Nat /\ Len(pending[pick]) \in Nat
            /\ Shown(pick) <= Len(pending[pick])
        BY <3>1, Typed DEF ReplayInv
      <3>3. pending[pick] # <<>>
        BY <3>1, <3>2
      <3>4. LET body == pending[pick][1].body IN
            \E k \in 0 .. Len(body) : heap = Store(wanted, SubSeq(body, 1, k))
        BY <2>2 DEF ReplayInv, Applying
      <3> QED
        BY <2>2, <3>3, <3>4 DEF HeapWhole
    <2> QED
      BY <2>1, <2>2
  <1> QED
    BY <1>1, ReplayInvariant, PTL

(* get_current_thread_whom_log_need_to_be_replayed picks the oldest of the *)
(* logs that were visible when its round began, though others become       *)
(* visible while it looks.                                                 *)
THEOREM PickIsOldestSeen == ASSUME TransactionsFit PROVE ReplaySpec => []PicksOldestSeen
  <1>1. ReplayInv => PicksOldestSeen
    <2> SUFFICES ASSUME ReplayInv, rpc = "apply", NEW ts \in inSight
                 PROVE  pending[pick][1].ts <= ts
      BY DEF PicksOldestSeen
    <2>1. ts \in VisibleTs /\ pickTs = pending[pick][1].ts
      BY DEF ReplayInv, Picking
    <2>2. PICK u \in Workers : \E k \in 1 .. Shown(u) : ts = pending[u][k].ts
      BY <2>1, VisibleIs DEF ReplayInv
    <2> QED
      BY <2>1, <2>2 DEF ReplayInv, Picking
  <1> QED
    BY <1>1, ReplayInvariant, PTL
-----------------------------------------------------------------------------
(***************************************************************************)
(* The replayer leaves nothing behind. That isExit is read before the      *)
(* search and not after it is what matters: once it is set no worker moves *)
(* any more, so that a search that finds nothing has seen all there is.    *)
(***************************************************************************)
Quiet == quit => \A t \in Workers : wpc[t] = "idle" /\ begun[t] = MaxTx

Sighted == leaving => quit /\ (rpc \in {"scan", "walk"} => VisibleTs \subseteq inSight)

(* The last timestamp taken is replayed, about to be told, or in a log.    *)
Told ==
   /\ replayed <= now
   /\ \/ now <= replayed
      \/ rpc = "clock" /\ now <= pickTs
      \/ \E t \in Workers : \E k \in 1 .. Len(pending[t]) : pending[t][k].ts = now

NothingLeft == rpc = "done" => quit /\ \A t \in Workers : pending[t] = <<>>

ExitInv == ReplayInv /\ Quiet /\ Sighted /\ Told /\ NothingLeft

(* Once the application has quit no worker moves.                          *)
LEMMA QuietWorkers ==
  ASSUME ReplayTypeOK, Quiet, quit, NEW t \in Workers
  PROVE  ~ WorkerStep(t)
  <1>1. wpc[t] = "idle" /\ ~ (begun[t] < MaxTx)
    BY ReplayAssumption DEF Quiet
  <1> QED
    BY <1>1 DEF WorkerStep, Begin, Room, Commit, Publish, At

(* Quiet and Sighted carry over.                                           *)
LEMMA SightedStep ==
  ASSUME ReplayTypeOK, Quiet, Sighted, ReplayNext
  PROVE  Quiet' /\ Sighted'
  <1>1. CASE Quit
    BY <1>1 DEF Quit, Quiet, Sighted, VisibleTs, Visible, replayerVars
  <1>2. CASE Stopped
    BY <1>2 DEF Stopped, replayVars, workerVars, replayerVars, Quiet, Sighted, VisibleTs,
                Visible
  <1>3. ASSUME NEW t \in Workers, WorkerStep(t) PROVE Quiet' /\ Sighted'
    <2>1. ~ quit /\ ~ leaving
      BY <1>3, QuietWorkers DEF Sighted
    <2>2. UNCHANGED <<quit, leaving>>
      BY <1>3 DEF WorkerStep, Begin, Room, Commit, Publish, replayerVars
    <2> QED
      BY <2>1, <2>2 DEF Quiet, Sighted
  <1>4. ASSUME ReplayerStep PROVE Quiet' /\ Sighted'
    <2>1. UNCHANGED workerVars
      BY <1>4 DEF ReplayerStep, Top, Scan, WalkOn, WalkEnd, Choose, NoLog, Apply, Finish,
                  TellClock
    <2>2. Quiet'
      BY <2>1 DEF Quiet, workerVars
    <2>3. CASE Top
      <3>1. leaving' = quit /\ inSight' = VisibleTs /\ UNCHANGED <<wpc, pending>>
        BY <2>1, <2>3 DEF Top, workerVars
      <3>2. VisibleTs' = VisibleTs
        BY <3>1 DEF VisibleTs, Visible
      <3> QED
        BY <2>1, <2>2, <3>1, <3>2 DEF Sighted, workerVars
    <2>4. CASE Scan \/ WalkOn \/ WalkEnd
      <3>1. rpc \in {"scan", "walk"} /\ UNCHANGED <<leaving, inSight, pending, wpc, quit>>
        BY <2>1, <2>4 DEF Scan, WalkOn, WalkEnd, workerVars
      <3>2. VisibleTs' = VisibleTs
        BY <3>1 DEF VisibleTs, Visible
      <3> QED
        BY <2>2, <3>1, <3>2 DEF Sighted
    <2>5. CASE Choose \/ NoLog \/ Apply \/ Finish \/ TellClock
      <3>1. rpc' \notin {"scan", "walk"} /\ UNCHANGED <<leaving, quit>>
        BY <2>1, <2>5 DEF Choose, NoLog, Apply, Finish, TellClock, workerVars
      <3> QED
        BY <2>2, <3>1 DEF Sighted
    <2> QED
      BY <1>4, <2>3, <2>4, <2>5 DEF ReplayerStep
  <1> QED
    BY <1>1, <1>2, <1>3, <1>4 DEF ReplayNext

(* A log with the last timestamp stays until it is replayed, and its       *)
(* timestamp is then the one that is told.                                 *)
LEMMA ToldStep ==
  ASSUME TransactionsFit, ReplayInv, Told, ReplayNext
  PROVE  Told'
  <1>0. /\ ReplayTypeOK /\ Queues /\ Ordered /\ Ring /\ Laid /\ Written /\ Walking
        /\ Picking /\ Applying /\ Counted
        /\ now \in Nat /\ replayed \in Int /\ pickTs \in Int
        /\ \A u \in Workers : Len(pending[u]) \in Nat
    BY Typed DEF ReplayInv, ReplayTypeOK
  <1>1. ASSUME UNCHANGED <<now, replayed, pending>>,
               rpc = "clock" => rpc' = "clock" /\ UNCHANGED pickTs
        PROVE  Told'
    BY <1>1 DEF Told
  <1>2. CASE TellClock
    <2>1. /\ rpc = "clock" /\ UNCHANGED <<now, pending>>
          /\ replayed' = IF pickTs > replayed THEN pickTs ELSE replayed
      BY <1>2 DEF TellClock, workerVars
    <2>2. pickTs <= now
      BY <1>0, <2>1 DEF Picking
    <2> QED
      BY <1>0, <2>1, <2>2 DEF Told
  <1>3. CASE Finish
    <2>1. /\ rpc = "apply" /\ rpc' = "clock" /\ log[pick][pos].mark
          /\ pickTs' = log[pick][pos].n /\ UNCHANGED <<now, replayed>>
      BY <1>3 DEF Finish, workerVars
    <2>2. pick \in Workers /\ pickTs' = pending[pick][1].ts /\ pickTs' \in Int
      <3>1. pick \in Workers /\ pickTs' = pending[pick][1].ts /\ pending[pick][1] \in Txs
        BY <1>0, <2>1, LastWrite
      <3> QED
        BY <3>1 DEF Txs
    <2>3. /\ \A u \in Workers \ {pick} : pending'[u] = pending[u]
          /\ Len(pending'[pick]) = Len(pending[pick]) - 1
          /\ \A k \in 1 .. Len(pending[pick]) - 1 : pending'[pick][k] = pending[pick][k + 1]
      BY <1>0, <1>3, FinishIs
    <2>4. CASE now <= replayed
      BY <2>1, <2>4 DEF Told
    <2>5. ASSUME NEW t \in Workers, NEW k \in 1 .. Len(pending[t]), pending[t][k].ts = now
          PROVE  Told'
      <3>1. replayed' <= now'
        BY <2>1 DEF Told
      <3>2. CASE t # pick
        BY <2>1, <2>3, <2>5, <3>1, <3>2 DEF Told
      <3>3. CASE t = pick /\ k = 1
        <4>1. rpc' = "clock" /\ now' <= pickTs'
          BY <1>0, <2>1, <2>2, <2>5, <3>3
        <4> QED
          BY <3>1, <4>1 DEF Told
      <3>4. CASE t = pick /\ k # 1
        <4>1. k - 1 \in 1 .. Len(pending[pick]) - 1 /\ (k - 1) + 1 = k
          BY <1>0, <3>4
        <4>2. pending'[pick][k - 1].ts = now'
          BY <2>1, <2>3, <2>5, <3>4, <4>1
        <4> QED
          BY <2>2, <2>3, <3>1, <4>1, <4>2 DEF Told
      <3> QED
        BY <3>2, <3>3, <3>4
    <2> QED
      BY <2>1, <2>4, <2>5 DEF Told
  <1>4. ASSUME NEW t \in Workers, Commit(t) PROVE Told'
    <2>1. PICK x \in Txs :
             /\ x.ts = now + 1 /\ now' = now + 1
             /\ Len(pending'[t]) = Len(pending[t]) + 1
             /\ pending'[t][Len(pending[t]) + 1] = x
      BY <1>0, <1>4, CommitIs
    <2>2. replayed' = replayed
      BY <1>4 DEF Commit, replayerVars
    <2>3. Len(pending[t]) + 1 \in 1 .. Len(pending'[t])
      BY <1>0, <2>1
    <2>4. replayed' <= now' /\ pending'[t][Len(pending[t]) + 1].ts = now'
      BY <1>0, <2>1, <2>2 DEF Told
    <2> QED
      BY <2>3, <2>4 DEF Told
  <1>5. ASSUME NEW t \in Workers, Begin(t) \/ Room(t) \/ Publish(t)
        PROVE  UNCHANGED <<now, replayed, pending, pickTs, rpc>>
    BY <1>5 DEF Begin, Room, Publish, replayerVars
  <1>6. Quit \/ Stopped => UNCHANGED <<now, replayed, pending, pickTs, rpc>>
    BY DEF Quit, Stopped, replayVars, replayerVars, workerVars
  <1>7. Top \/ Scan \/ WalkOn \/ WalkEnd \/ Choose \/ NoLog \/ Apply =>
           UNCHANGED <<now, replayed, pending>> /\ rpc # "clock"
    BY DEF Top, Scan, WalkOn, WalkEnd, Choose, NoLog, Apply, workerVars
  <1> QED
    BY <1>1, <1>2, <1>3, <1>4, <1>5, <1>6, <1>7 DEF ReplayNext, ReplayerStep, WorkerStep

(* The replayer leaves after a search that saw every log and found none.   *)
LEMMA LeftStep ==
  ASSUME TransactionsFit, ReplayInv, Quiet, Sighted, NothingLeft, ReplayNext
  PROVE  NothingLeft'
  <1>0. ReplayTypeOK /\ Queues /\ Picking
    BY DEF ReplayInv
  <1>1. CASE NoLog
    <2> SUFFICES ASSUME rpc' = "done" PROVE quit' /\ \A t \in Workers : pending'[t] = <<>>
      BY DEF NothingLeft
    <2>1. /\ rpc = "scan" /\ ri = N /\ pick = None /\ leaving /\ UNCHANGED <<quit, pending>>
      BY <1>1 DEF NoLog, workerVars
    <2>2. quit /\ VisibleTs \subseteq inSight
      BY <2>1 DEF Sighted
    <2>3. ASSUME NEW u \in Workers PROVE pending[u] = <<>>
      <3>1. /\ Shown(u) = Len(pending[u]) /\ Shown(u) \in Nat /\ pending[u] \in Seq(Txs)
        <4>1. wpc[u] = "idle"
          BY <2>2 DEF Quiet
        <4> QED
          BY <1>0, <4>1, Typed
      <3>2. ASSUME Shown(u) > 0 PROVE FALSE
        <4>1. 1 \in 1 .. Shown(u)
          BY <3>1, <3>2
        <4>2. pending[u][1].ts \in VisibleTs /\ pending[u][1].ts \in 1 .. MaxTs
          BY <1>0, <4>1, VisibleIs
        <4>3. u < ri
          BY <2>1, ReplayAssumption DEF Workers
        <4>4. NoTs <= pending[u][1].ts
          BY <1>0, <2>1, <2>2, <4>1, <4>2, <4>3 DEF Picking
        <4>5. MaxTs \in Nat /\ MaxTs < NoTs /\ NoTs \in Nat
          BY ReplayAssumption DEF MaxTs, NoTs
        <4> QED
          BY <4>2, <4>4, <4>5
      <3>3. Len(pending[u]) = 0
        BY <3>1, <3>2
      <3> QED
        BY <3>1, <3>3
    <2> QED
      BY <2>1, <2>2, <2>3
  <1>2. ASSUME rpc = "done" PROVE NothingLeft'
    <2>1. quit /\ \A t \in Workers : ~ WorkerStep(t)
      BY <1>0, <1>2, QuietWorkers DEF NothingLeft
    <2>2. ~ ReplayerStep
      BY <1>2 DEF ReplayerStep, Top, Scan, WalkOn, WalkEnd, Choose, NoLog, Apply, Finish,
                  TellClock
    <2>3. Stopped
      BY <2>1, <2>2 DEF ReplayNext, Quit
    <2> QED
      BY <2>3 DEF Stopped, replayVars, workerVars, replayerVars, NothingLeft
  <1>3. ASSUME rpc # "done", ~ NoLog PROVE rpc' # "done"
    <2>1. Top \/ Scan \/ WalkOn \/ WalkEnd \/ Choose \/ Apply \/ Finish \/ TellClock
             => rpc' # "done"
      BY <1>3 DEF Top, Scan, WalkOn, WalkEnd, Choose, Apply, Finish, TellClock
    <2>2. \A t \in Workers : WorkerStep(t) => rpc' = rpc
      BY DEF WorkerStep, Begin, Room, Commit, Publish, replayerVars
    <2>3. Quit => rpc' = rpc
      BY DEF Quit, replayerVars
    <2> QED
      BY <1>3, <2>1, <2>2, <2>3 DEF ReplayNext, ReplayerStep, Stopped
  <1> QED
    BY <1>1, <1>2, <1>3 DEF NothingLeft

(* "No more logs, we are safe to quit": a replayer that has left its loop  *)
(* leaves no log behind, and its clock, which page-ins wait for, has       *)
(* reached the last transaction.                                           *)
THEOREM QuitIsSafe == ASSUME TransactionsFit PROVE ReplaySpec => []SafeToQuit
  <1>1. ReplayInit => ExitInv
    <2> SUFFICES ASSUME ReplayInit PROVE ExitInv
      OBVIOUS
    <2>1. Quiet /\ Sighted /\ Told /\ NothingLeft
      BY DEF ReplayInit, Quiet, Sighted, Told, NothingLeft
    <2> QED
      BY <2>1, ReplayInitInv DEF ExitInv
  <1>2. ExitInv /\ [ReplayNext]_replayVars => ExitInv'
    <2>1. ASSUME ExitInv, ReplayNext PROVE ExitInv'
      <3>1. ReplayInv /\ Quiet /\ Sighted /\ Told /\ NothingLeft /\ ReplayTypeOK
        BY <2>1 DEF ExitInv, ReplayInv
      <3> QED
        BY <2>1, <3>1, ReplayNextInv, SightedStep, ToldStep, LeftStep DEF ExitInv
    <2>2. ASSUME ExitInv, UNCHANGED replayVars PROVE ExitInv'
      <3>1. ReplayInv'
        BY <2>2, ReplayStutterInv DEF ExitInv
      <3>2. Quiet' /\ Sighted' /\ Told' /\ NothingLeft'
        BY <2>2 DEF ExitInv, Quiet, Sighted, Told, NothingLeft, VisibleTs, Visible,
                    replayVars, workerVars, replayerVars
      <3> QED
        BY <3>1, <3>2 DEF ExitInv
    <2> QED
      BY <2>1, <2>2
  <1>3. ExitInv => SafeToQuit
    <2> SUFFICES ASSUME ExitInv, rpc = "done"
                 PROVE  replayed = now /\ \A t \in Workers : pending[t] = <<>>
      BY DEF SafeToQuit
    <2>1. \A t \in Workers : pending[t] = <<>> /\ Len(pending[t]) = 0
      BY DEF ExitInv, NothingLeft
    <2>2. replayed <= now /\ now <= replayed
      BY <2>1 DEF ExitInv, Told
    <2>3. replayed \in Int /\ now \in Int
      BY DEF ExitInv, ReplayInv, ReplayTypeOK
    <2> QED
      BY <2>1, <2>2, <2>3
  <1> QED
    BY <1>1, <1>2, <1>3, PTL DEF ReplaySpec
=============================================================================
